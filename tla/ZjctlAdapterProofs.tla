------------------------ MODULE ZjctlAdapterProofs ------------------------
(***************************************************************************)
(* Proofs about ZjctlAdapter, for every set of calls, selectors, places    *)
(* and panes: which pane a capture, a wait, a close or a send by place     *)
(* acts on, and that a close that is reported has happened.                *)
(***************************************************************************)
EXTENDS ZjctlAdapter, ZrpcPluginProofs

---------------------------------------------------------------------------
(* The inductive invariant. *)

CallStages == {"resolve", "locate", "deliver", "act", "again", "focus", "by_focus", "zjctl",
               "verify", "done"}

CallRecords ==
  [op : {"capture", "wait", "close", "send_to"}, at : CallStages,
   selector : Selectors \union Intents, force : BOOLEAN,
   target : Panes \union {NoPane}, shown : Panes \union {NoPane}, quiet : BOOLEAN,
   closed : SUBSET Panes, zjctl : BOOLEAN, refocused : BOOLEAN, moved : BOOLEAN,
   wrote : SUBSET Panes, named : SUBSET Panes, result : {"none", "ok", "failed", "timeout"}]

\* Why a call by focus may act on another pane than its target.
Strayed(c, closedPanes) == c.moved \/ c.target \in closedPanes

\* The pane a call found is the only one its place names.
TheOne(c) ==
  {c.target} = (IF c.selector.selector.form = "any" /\ c.named \intersect Terminals # {}
                THEN c.named \intersect Terminals ELSE c.named)

\* How far a call is, and what it relies on.
StagesOK(c, known, remote, byId) ==
  /\ (c.at = "done") <=> (c.result # "none")
  /\ c.refocused <=> (c.at = "by_focus")
  /\ c.at \in {"act", "again", "focus", "by_focus", "deliver"} => c.target # NoPane
  /\ c.target # NoPane => c.target \in known
  /\ c.at \in {"again", "focus", "by_focus"} => remote /\ ~byId
  /\ (c.op = "send_to") => c.at \in {"locate", "deliver", "done"}
  /\ c.op # "send_to" => c.at \notin {"locate", "deliver"}

ShownOK(c, pane, closedPanes, remote, byId) ==
  /\ c.at = "by_focus" => Strayed(c, closedPanes) \/ pane = c.target
  /\ c.at \in {"resolve", "locate", "again", "focus"} => c.shown = NoPane
  /\ c.at = "act" /\ ~byId => c.shown = NoPane
  /\ c.quiet => c.shown # NoPane
  /\ c.target # NoPane /\ c.shown \notin {NoPane, c.target} =>
       ~byId /\ remote /\ Strayed(c, closedPanes)
  /\ c.result = "ok" /\ c.op \in {"capture", "wait"} => c.shown # NoPane

ClosedOK(c, closedPanes, remote, byId) ==
  /\ c.closed \subseteq closedPanes
  /\ c.at \in {"resolve", "locate", "act", "again", "focus", "by_focus"} => c.closed = {}
  /\ c.target # NoPane /\ ~(c.closed \subseteq {c.target}) =>
       ~byId /\ remote /\ Strayed(c, closedPanes)
  /\ c.at = "verify" => c.closed # {} /\ c.op = "close"
  /\ c.op = "close" /\ c.result = "ok" =>
       IF c.target # NoPane THEN c.target \in closedPanes ELSE c.closed # {}

SentOK(c, closedPanes) ==
  c.op = "send_to" =>
    /\ c.result = "ok" => c.wrote = {c.target} \/ (c.wrote = {} /\ c.target \in closedPanes)
    /\ c.named # {} => TheOne(c)
    /\ c.at = "locate" => c.named = {}

CallOK(c, pane, closedPanes, known, remote, byId) ==
  /\ c \in CallRecords
  /\ StagesOK(c, known, remote, byId)
  /\ ShownOK(c, pane, closedPanes, remote, byId)
  /\ ClosedOK(c, closedPanes, remote, byId)
  /\ SentOK(c, closedPanes)

Seen == DOMAIN panes \union gone

AInv ==
  /\ PInv
  /\ DOMAIN viewing # {}
  /\ ssh \in BOOLEAN /\ paneIds \in BOOLEAN
  /\ \A w \in Workers :
       call[w] = Idle \/ CallOK(call[w], ClientPane, gone, Seen, ssh, paneIds)

---------------------------------------------------------------------------
(* Kinds of step. *)

\* The record of a call is not the record of an idle worker.
LEMMA RecordsAreCalls == \A c \in CallRecords : c # Idle /\ c.op # "none"
BY DEF CallRecords, Idle, CallStages

\* A call notes that the focus moved; otherwise it is as it was.
Noting(v) ==
  IF call[v].op # "none" /\ call[v].refocused /\ ClientPane' # ClientPane
  THEN [call[v] EXCEPT !.moved = TRUE] ELSE call[v]

\* What the others may do: panes close, and the tables learn of it.
Progress ==
  /\ gone \subseteq gone' /\ Seen \subseteq Seen'
  /\ UNCHANGED <<ssh, paneIds>>

\* A call that only watches stays sound: what it relied on was the focus.
LEMMA NotedKeeps ==
  ASSUME AInv, NEW v \in Workers, call[v] # Idle, Progress
  PROVE  CallOK(Noting(v), ClientPane', gone', Seen', ssh', paneIds')
<1> DEFINE d == call[v]
           c == Noting(v)
<1>1. CallOK(d, ClientPane, gone, Seen, ssh, paneIds) /\ d \in CallRecords
  BY DEF AInv, CallOK
<1>2. d.op # "none"
  BY <1>1, RecordsAreCalls
<1>3. CASE d.refocused /\ ClientPane' # ClientPane
  <2>1. c = [d EXCEPT !.moved = TRUE]
    BY <1>2, <1>3 DEF Noting
  <2>2. /\ c \in CallRecords /\ c.moved = TRUE
        /\ c.op = d.op /\ c.at = d.at /\ c.selector = d.selector /\ c.target = d.target
        /\ c.shown = d.shown /\ c.quiet = d.quiet /\ c.closed = d.closed
        /\ c.refocused = d.refocused /\ c.wrote = d.wrote /\ c.named = d.named
        /\ c.result = d.result
    BY <1>1, <2>1 DEF CallRecords
  <2> HIDE DEF c, d
  <2>3. StagesOK(c, Seen', ssh', paneIds')
    BY <1>1, <2>2 DEF CallOK, StagesOK, Progress
  <2>4. ShownOK(c, ClientPane', gone', ssh', paneIds')
    BY <1>1, <2>2 DEF CallOK, ShownOK, Strayed, Progress
  <2>5. ClosedOK(c, gone', ssh', paneIds')
    BY <1>1, <2>2 DEF CallOK, ClosedOK, Strayed, Progress
  <2>6. SentOK(c, gone')
    BY <1>1, <2>2 DEF CallOK, SentOK, TheOne, Progress
  <2> QED
    BY <2>2, <2>3, <2>4, <2>5, <2>6 DEF CallOK, c
<1>4. CASE ~(d.refocused /\ ClientPane' # ClientPane)
  <2>1. c = d
    BY <1>4 DEF Noting
  <2> HIDE DEF c, d
  <2>2. StagesOK(d, Seen', ssh', paneIds')
    BY <1>1 DEF CallOK, StagesOK, Progress
  <2>3. ShownOK(d, ClientPane', gone', ssh', paneIds')
    BY <1>1, <1>4 DEF CallOK, StagesOK, ShownOK, Strayed, Progress
  <2>4. ClosedOK(d, gone', ssh', paneIds')
    BY <1>1 DEF CallOK, ClosedOK, Strayed, Progress
  <2>5. SentOK(d, gone')
    BY <1>1 DEF CallOK, SentOK, Progress
  <2> QED
    BY <1>1, <2>1, <2>2, <2>3, <2>4, <2>5 DEF CallOK, c
<1> QED
  BY <1>3, <1>4

\* A step of one call keeps the invariant if its record stays sound.
LEMMA StepKeeps ==
  ASSUME AInv, NEW w \in Workers, NEW c, Goes(w, c), Progress, PInv', DOMAIN viewing' # {},
         CallOK(c, ClientPane', gone', Seen', ssh', paneIds')
  PROVE  AInv'
<1>1. ASSUME NEW v \in Workers
      PROVE  call'[v] = Idle \/ CallOK(call'[v], ClientPane', gone', Seen', ssh', paneIds')
  <2>1. CASE v = w
    BY <2>1 DEF Goes
  <2>2. CASE v # w /\ call[v] = Idle
    BY <2>2 DEF Goes, Idle
  <2>3. CASE v # w /\ call[v] # Idle
    <3>1. call'[v] = Noting(v)
      BY <2>3 DEF Goes, Noting
    <3> QED
      BY <2>3, <3>1, NotedKeeps
  <2> QED
    BY <2>1, <2>2, <2>3
<1> QED
  BY <1>1 DEF AInv, Progress

\* The same when only the call's record changes.
LEMMA QuietStep ==
  ASSUME AInv, SessionStays
  PROVE  /\ PInv' /\ Progress /\ DOMAIN viewing' # {} /\ ClientPane' = ClientPane
         /\ gone' = gone /\ Seen' = Seen /\ ssh' = ssh /\ paneIds' = paneIds
<1>1. UNCHANGED vars /\ UNCHANGED session
  BY DEF SessionStays, vars
<1>2. PInv'
  BY <1>1, NextPInv DEF AInv
<1>3. ClientPane' = ClientPane
  BY <1>1, SameReports
<1> QED
  BY <1>1, <1>2, <1>3 DEF SessionStays, session, tables, AInv, Progress, Seen

\* A step that changes the record of one call and nothing else.
LEMMA OwnKeeps ==
  ASSUME AInv, NEW w \in Workers, NEW c, SessionStays, Goes(w, c),
         CallOK(c, ClientPane, gone, Seen, ssh, paneIds)
  PROVE  AInv'
<1>1. CallOK(c, ClientPane', gone', Seen', ssh', paneIds')
  BY QuietStep
<1> QED
  BY <1>1, QuietStep, StepKeeps

---------------------------------------------------------------------------
(* The records calls go on with. *)

\* A call that fails, or ends with a timeout, answers for what it has done.
LEMMA EndOK ==
  ASSUME NEW d, NEW pane, NEW closed, NEW known, NEW remote, NEW byId,
         CallOK(d, pane, closed, known, remote, byId),
         NEW result \in {"failed", "timeout"}
  PROVE  CallOK(Ends(d, result), pane, closed, known, remote, byId)
<1> DEFINE c == Ends(d, result)
<1>1. d \in CallRecords
  BY DEF CallOK
<1>2. /\ c \in CallRecords /\ c.at = "done" /\ c.result = result /\ c.refocused = FALSE
      /\ c.op = d.op /\ c.selector = d.selector /\ c.target = d.target /\ c.shown = d.shown
      /\ c.quiet = d.quiet /\ c.closed = d.closed /\ c.moved = d.moved /\ c.wrote = d.wrote
      /\ c.named = d.named
  BY <1>1 DEF CallRecords, Ends, CallStages
<1> HIDE DEF c
<1>3. StagesOK(c, known, remote, byId)
  BY <1>2 DEF CallOK, StagesOK
<1>4. ShownOK(c, pane, closed, remote, byId)
  BY <1>2 DEF CallOK, ShownOK, Strayed
<1>5. ClosedOK(c, closed, remote, byId)
  BY <1>2 DEF CallOK, ClosedOK, Strayed
<1>6. SentOK(c, closed)
  BY <1>2 DEF CallOK, SentOK, TheOne
<1>7. CallOK(c, pane, closed, known, remote, byId)
  BY <1>2, <1>3, <1>4, <1>5, <1>6 DEF CallOK
<1> QED
  BY <1>7 DEF c

\* A call that turns to zjctl or to another stage which asks nothing more.
LEMMA StageOK ==
  ASSUME NEW d, NEW pane, NEW closed, NEW known, NEW remote, NEW byId,
         CallOK(d, pane, closed, known, remote, byId), d.op # "send_to", d.at # "done",
         NEW s \in {"zjctl", "again", "focus"},
         s = "zjctl" \/ (d.at = "act" /\ remote /\ ~byId),
         NEW c,
         \/ c = [d EXCEPT !.at = s, !.refocused = FALSE]
         \/ ~d.refocused /\ c = [d EXCEPT !.at = s]
  PROVE  CallOK(c, pane, closed, known, remote, byId)
<1>1. d \in CallRecords
  BY DEF CallOK
<1>2. /\ c \in CallRecords /\ c.at = s /\ c.result = d.result /\ c.refocused = FALSE
      /\ c.op = d.op /\ c.selector = d.selector /\ c.target = d.target /\ c.shown = d.shown
      /\ c.quiet = d.quiet /\ c.closed = d.closed /\ c.moved = d.moved /\ c.wrote = d.wrote
      /\ c.named = d.named
  BY <1>1 DEF CallRecords, CallStages
<1>3. StagesOK(c, known, remote, byId)
  BY <1>2 DEF CallOK, StagesOK
<1>4. ShownOK(c, pane, closed, remote, byId)
  BY <1>2 DEF CallOK, ShownOK, Strayed
<1>5. ClosedOK(c, closed, remote, byId)
  BY <1>2 DEF CallOK, ClosedOK, Strayed
<1>6. SentOK(c, closed)
  BY <1>2 DEF SentOK
<1> QED
  BY <1>2, <1>3, <1>4, <1>5, <1>6 DEF CallOK

\* A call that has read the screen of a pane, and goes on or ends well.
LEMMA SawOK ==
  ASSUME NEW d, NEW pane, NEW closed, NEW known, NEW remote, NEW byId,
         CallOK(d, pane, closed, known, remote, byId),
         d.op \in {"capture", "wait"}, d.at \in {"act", "by_focus", "zjctl"},
         NEW p \in Panes, p = d.target \/ d.target = NoPane \/ (d.at = "by_focus" /\ p = pane),
         d.at = "act" => byId,
         NEW c,
         \/ c = Ends(Saw(d, p), "ok")
         \/ \E q \in BOOLEAN : d.at # "zjctl" /\ c = [Saw(d, p) EXCEPT !.quiet = q]
  PROVE  CallOK(c, pane, closed, known, remote, byId)
<1>1. d \in CallRecords
  BY DEF CallOK
<1>2. /\ c \in CallRecords /\ c.shown = p
      /\ c.op = d.op /\ c.selector = d.selector /\ c.target = d.target
      /\ c.closed = d.closed /\ c.moved = d.moved /\ c.wrote = d.wrote /\ c.named = d.named
      /\ \/ c.at = "done" /\ c.result = "ok" /\ c.refocused = FALSE
         \/ c.at = d.at /\ c.result = d.result /\ c.refocused = d.refocused /\ d.at # "zjctl"
  BY <1>1 DEF CallRecords, CallStages, Saw, Ends
<1>3. p # NoPane
  BY PanesAreFinite
<1>4. StagesOK(c, known, remote, byId)
  BY <1>2 DEF CallOK, StagesOK
<1>5. p # d.target /\ d.target # NoPane => ~byId /\ remote /\ Strayed(d, closed)
  BY DEF CallOK, StagesOK, ShownOK
<1>6. ShownOK(c, pane, closed, remote, byId)
  BY <1>2, <1>3, <1>5 DEF CallOK, ShownOK, Strayed
<1>7. ClosedOK(c, closed, remote, byId)
  BY <1>2 DEF CallOK, ClosedOK, Strayed
<1>8. SentOK(c, closed)
  BY <1>2 DEF SentOK
<1> QED
  BY <1>2, <1>4, <1>6, <1>7, <1>8 DEF CallOK

\* The end of a wait that has seen no change for long enough.
LEMMA QuietOK ==
  ASSUME NEW d, NEW pane, NEW closed, NEW known, NEW remote, NEW byId,
         CallOK(d, pane, closed, known, remote, byId), d.op = "wait", d.quiet
  PROVE  CallOK(Ends(d, "ok"), pane, closed, known, remote, byId)
<1> DEFINE c == Ends(d, "ok")
<1>1. d \in CallRecords
  BY DEF CallOK
<1>2. /\ c \in CallRecords /\ c.at = "done" /\ c.result = "ok" /\ c.refocused = FALSE
      /\ c.op = d.op /\ c.selector = d.selector /\ c.target = d.target /\ c.shown = d.shown
      /\ c.quiet = d.quiet /\ c.closed = d.closed /\ c.moved = d.moved /\ c.wrote = d.wrote
      /\ c.named = d.named
  BY <1>1 DEF CallRecords, Ends, CallStages
<1> HIDE DEF c
<1>3. StagesOK(c, known, remote, byId)
  BY <1>2 DEF CallOK, StagesOK
<1>4. ShownOK(c, pane, closed, remote, byId)
  BY <1>2 DEF CallOK, ShownOK, Strayed
<1>5. ClosedOK(c, closed, remote, byId)
  BY <1>2 DEF CallOK, ClosedOK, Strayed
<1>6. SentOK(c, closed)
  BY <1>2 DEF SentOK
<1>7. CallOK(c, pane, closed, known, remote, byId)
  BY <1>2, <1>3, <1>4, <1>5, <1>6 DEF CallOK
<1> QED
  BY <1>7 DEF c

\* A close command was sent: what it closed is gone.
LEMMA ClosedCallOK ==
  ASSUME NEW d, NEW pane, NEW closed, NEW known, NEW remote, NEW byId,
         CallOK(d, pane, closed, known, remote, byId),
         d.op = "close", d.at \in {"act", "by_focus", "zjctl"},
         NEW p \in Panes, p \in closed,
         p = d.target \/ d.target = NoPane \/ (d.at = "by_focus" /\ Strayed(d, closed)),
         NEW c \in CallRecords,
         /\ c.op = d.op /\ c.target = d.target /\ c.shown = d.shown /\ c.quiet = d.quiet
         /\ c.moved = d.moved /\ c.closed = d.closed \union {p} /\ c.refocused = FALSE,
         \/ c.at \in {"verify", "zjctl"} /\ c.result = "none"
         \/ c.at = "done" /\ c.result = "failed"
         \/ c.at = "done" /\ c.result = "ok" /\ d.at = "act"
  PROVE  CallOK(c, pane, closed, known, remote, byId)
<1>1. StagesOK(d, known, remote, byId) /\ ShownOK(d, pane, closed, remote, byId)
      /\ ClosedOK(d, closed, remote, byId)
  BY DEF CallOK
<1>2. StagesOK(c, known, remote, byId)
  BY <1>1 DEF StagesOK
<1>3. ShownOK(c, pane, closed, remote, byId)
  BY <1>1 DEF ShownOK, Strayed
<1>4. p # d.target /\ d.target # NoPane => ~byId /\ remote /\ Strayed(d, closed)
  BY <1>1 DEF StagesOK
<1>5. ClosedOK(c, closed, remote, byId)
  BY <1>1, <1>4 DEF ClosedOK, StagesOK, Strayed
<1>6. SentOK(c, closed)
  BY DEF SentOK
<1> QED
  BY <1>2, <1>3, <1>5, <1>6 DEF CallOK

\* Closed panes stay closed, and seen panes seen.
LEMMA GrownOK ==
  ASSUME NEW d, NEW pane, NEW closed, NEW known, NEW remote, NEW byId,
         CallOK(d, pane, closed, known, remote, byId),
         NEW closed2, closed \subseteq closed2, NEW known2, known \subseteq known2
  PROVE  CallOK(d, pane, closed2, known2, remote, byId)
BY DEF CallOK, StagesOK, ShownOK, ClosedOK, SentOK, Strayed

\* Only a call that relies on the focus cares where it is.
LEMMA AnyPaneOK ==
  ASSUME NEW d, NEW pane, NEW closed, NEW known, NEW remote, NEW byId,
         CallOK(d, pane, closed, known, remote, byId), d.at # "by_focus", NEW pane2
  PROVE  CallOK(d, pane2, closed, known, remote, byId)
BY DEF CallOK, ShownOK

---------------------------------------------------------------------------
(* The actions that leave the session alone. *)

\* A call under way is sound.
LEMMA CallFacts ==
  ASSUME AInv, NEW w \in Workers, call[w].at # "idle"
  PROVE  /\ CallOK(call[w], ClientPane, gone, Seen, ssh, paneIds) /\ call[w] \in CallRecords
         /\ call[w].op # "none"
<1>1. call[w] # Idle
  BY DEF Idle
<1>2. CallOK(call[w], ClientPane, gone, Seen, ssh, paneIds)
  BY <1>1 DEF AInv
<1>3. call[w] \in CallRecords
  BY <1>2 DEF CallOK
<1> QED
  BY <1>2, <1>3, RecordsAreCalls

\* A listed pane is one of the plugin's.
LEMMA ListedPanes ==
  ASSUME AInv, NEW e \in ListPanes
  PROVE  e.pane \in Panes /\ e.pane \in Seen /\ e.pane # NoPane /\ e.pane \in DOMAIN panes
<1>1. e.pane \in DOMAIN panes
  BY Listed
<1>2. DOMAIN panes \subseteq Panes
  BY DEF AInv, PInv, TablesOK, SessionOK, LiveOK
<1> QED
  BY <1>1, <1>2, PanesAreFinite DEF Seen

\* A selector resolves to a listed pane.
LEMMA MatchedAreListed == \A s : Matched(s) \subseteq ListPanes
BY DEF Matched, Unique

\* A call begins without a target.
LEMMA BeginKeeps ==
  ASSUME AInv, NEW w \in Workers, NEW op \in {"capture", "wait", "close"},
         NEW s \in Selectors, NEW force \in BOOLEAN, Begin(w, op, s, force)
  PROVE  AInv'
<1> DEFINE c == [Fresh(op, s, force) EXCEPT !.at = FirstStage(s)]
<1>1. SessionStays /\ Goes(w, c)
  BY DEF Begin
<1>2. FirstStage(s) \in {"zjctl", "resolve"}
  BY DEF FirstStage
<1>3. /\ c \in CallRecords /\ c.at \in {"zjctl", "resolve"} /\ c.op = op /\ c.result = "none"
      /\ c.target = NoPane /\ c.shown = NoPane /\ c.quiet = FALSE /\ c.closed = {}
      /\ c.refocused = FALSE
  BY <1>2 DEF Fresh, CallRecords, CallStages
<1> HIDE DEF c
<1>4. CallOK(c, ClientPane, gone, Seen, ssh, paneIds)
  BY <1>3 DEF CallOK, StagesOK, ShownOK, ClosedOK, SentOK
<1> QED
  BY <1>1, <1>4, OwnKeeps

\* A send by place begins without a target.
LEMMA BeginAtPlaceKeeps ==
  ASSUME AInv, NEW w \in Workers, NEW i \in Intents, BeginAtPlace(w, i)
  PROVE  AInv'
<1> DEFINE c == [Fresh("send_to", i, FALSE) EXCEPT !.at = "locate"]
<1>1. SessionStays /\ Goes(w, c)
  BY DEF BeginAtPlace
<1>2. /\ c \in CallRecords /\ c.at = "locate" /\ c.op = "send_to" /\ c.result = "none"
      /\ c.target = NoPane /\ c.shown = NoPane /\ c.quiet = FALSE /\ c.closed = {}
      /\ c.refocused = FALSE /\ c.named = {}
  BY DEF Fresh, CallRecords, CallStages
<1> HIDE DEF c
<1>3. CallOK(c, ClientPane, gone, Seen, ssh, paneIds)
  BY <1>2 DEF CallOK, StagesOK, ShownOK, ClosedOK, SentOK
<1> QED
  BY <1>1, <1>3, OwnKeeps

\* A call that fails, or asks zjctl instead.
LEMMA FailedKeeps ==
  ASSUME AInv, NEW w \in Workers, call[w].at # "idle", SessionStays, Goes(w, Failed(w))
  PROVE  AInv'
BY CallFacts, EndOK, OwnKeeps DEF Failed

\* A call that turns to zjctl keeps what it has seen and closed.
LEMMA AsksKeeps ==
  ASSUME AInv, NEW w \in Workers, call[w].at \notin {"idle", "done"}, call[w].op # "send_to",
         SessionStays, Goes(w, Asks(w))
  PROVE  AInv'
<1>1. CallOK(call[w], ClientPane, gone, Seen, ssh, paneIds)
  BY CallFacts
<1>2. CallOK(Asks(w), ClientPane, gone, Seen, ssh, paneIds)
  BY <1>1, StageOK DEF Asks
<1> QED
  BY <1>2, OwnKeeps

\* A call takes a listed pane for its target, the first time or again.
LEMMA ResolveKeeps ==
  ASSUME AInv, NEW w \in Workers, ResolveTarget(w) \/ ResolveAgain(w)
  PROVE  AInv'
<1> DEFINE d == call[w]
<1>1. SessionStays /\ d.at \in {"resolve", "again"} /\ d.at # "idle"
  BY DEF ResolveTarget, ResolveAgain
<1>2. CallOK(d, ClientPane, gone, Seen, ssh, paneIds) /\ d \in CallRecords
  BY <1>1, CallFacts
<1>3. ASSUME NEW e \in ListPanes, NEW s \in {"act", "focus"},
             s = "act" <=> d.at = "resolve", Goes(w, [d EXCEPT !.at = s, !.target = e.pane])
      PROVE  AInv'
  <2> DEFINE c == [d EXCEPT !.at = s, !.target = e.pane]
  <2>1. e.pane \in Panes /\ e.pane \in Seen /\ e.pane # NoPane
    BY ListedPanes
  <2>2. /\ c \in CallRecords /\ c.at = s /\ c.target = e.pane /\ c.result = d.result
        /\ c.op = d.op /\ c.shown = d.shown /\ c.quiet = d.quiet /\ c.closed = d.closed
        /\ c.refocused = d.refocused
    BY <1>2, <2>1 DEF CallRecords, CallStages
  <2>3. Goes(w, c)
    BY <1>3
  <2> HIDE DEF c, d
  <2>4. d.op # "send_to" /\ d.shown = NoPane /\ d.closed = {}
    BY <1>1, <1>2 DEF CallOK, StagesOK, ShownOK, ClosedOK
  <2>5. StagesOK(c, Seen, ssh, paneIds)
    BY <1>1, <1>2, <1>3, <2>1, <2>2 DEF CallOK, StagesOK
  <2>6. ShownOK(c, ClientPane, gone, ssh, paneIds)
    BY <1>1, <1>2, <1>3, <2>2, <2>4 DEF CallOK, StagesOK, ShownOK
  <2>7. ClosedOK(c, gone, ssh, paneIds)
    BY <1>1, <1>2, <1>3, <2>2, <2>4 DEF CallOK, StagesOK, ClosedOK
  <2>8. CallOK(c, ClientPane, gone, Seen, ssh, paneIds)
    BY <2>2, <2>4, <2>5, <2>6, <2>7 DEF CallOK, SentOK
  <2> QED
    BY <1>1, <2>3, <2>8, OwnKeeps
<1>4. CASE Goes(w, Failed(w))
  BY <1>1, <1>4, FailedKeeps
<1>5. CASE ResolveTarget(w) /\ ~Goes(w, Failed(w))
  <2>1. PICK e \in Matched(d.selector) : Goes(w, [d EXCEPT !.at = "act", !.target = e.pane])
    BY <1>5 DEF ResolveTarget
  <2>2. d.at = "resolve"
    BY <1>5 DEF ResolveTarget
  <2>3. e \in ListPanes
    BY <2>1, MatchedAreListed
  <2> QED
    BY <1>3, <2>1, <2>2, <2>3
<1>6. CASE ResolveAgain(w) /\ ~Goes(w, Failed(w))
  <2>1. PICK e \in Matched(d.selector) : Goes(w, [d EXCEPT !.at = "focus", !.target = e.pane])
    BY <1>6 DEF ResolveAgain
  <2>2. d.at # "resolve"
    BY <1>6 DEF ResolveAgain
  <2>3. e \in ListPanes
    BY <2>1, MatchedAreListed
  <2> QED
    BY <1>3, <2>1, <2>2, <2>3
<1> QED
  BY <1>4, <1>5, <1>6

\* A refused --pane-id ends a local call and sends a remote one to the focus.
LEMMA UnsupportedKeeps ==
  ASSUME AInv, NEW w \in Workers, Unsupported(w)
  PROVE  AInv'
<1> DEFINE d == call[w]
           s == IF d.op = "capture" THEN "focus" ELSE "again"
<1>1. SessionStays /\ d.at = "act" /\ d.at # "idle" /\ ~paneIds
  BY DEF Unsupported
<1>2. CallOK(d, ClientPane, gone, Seen, ssh, paneIds)
  BY <1>1, CallFacts
<1>3. d.op # "send_to" /\ ~d.refocused
  BY <1>1, <1>2 DEF CallOK, StagesOK
<1>4. CASE ~ssh
  BY <1>1, <1>4, FailedKeeps DEF Unsupported
<1>5. CASE ssh
  <2>1. Goes(w, At(w, s))
    BY <1>5 DEF Unsupported
  <2>2. s \in {"zjctl", "again", "focus"}
    OBVIOUS
  <2> HIDE DEF s
  <2>3. CallOK(At(w, s), ClientPane, gone, Seen, ssh, paneIds)
    BY <1>1, <1>2, <1>3, <1>5, <2>2, StageOK DEF At
  <2> QED
    BY <1>1, <2>1, <2>3, OwnKeeps
<1> QED
  BY <1>4, <1>5

\* A dump reads the target's screen.
LEMMA DumpKeeps ==
  ASSUME AInv, NEW w \in Workers, Dump(w)
  PROVE  AInv'
<1> DEFINE d == call[w]
<1>1. /\ SessionStays /\ d.at = "act" /\ d.at # "idle" /\ d.at # "done" /\ d.op = "capture"
      /\ d.op # "send_to" /\ paneIds
  BY DEF Dump
<1>2. CallOK(d, ClientPane, gone, Seen, ssh, paneIds)
  BY <1>1, CallFacts
<1>3. CASE Goes(w, Failed(w))
  BY <1>1, <1>3, FailedKeeps
<1>4. CASE Goes(w, Asks(w))
  BY <1>1, <1>4, AsksKeeps
<1>5. CASE Goes(w, Ends(Saw(d, d.target), "ok"))
  <2>1. d.target \in Panes
    BY <1>1, <1>2 DEF CallOK, StagesOK, CallRecords
  <2>2. CallOK(Ends(Saw(d, d.target), "ok"), ClientPane, gone, Seen, ssh, paneIds)
    BY <1>1, <1>2, <2>1, SawOK
  <2> QED
    BY <1>1, <1>5, <2>2, OwnKeeps
<1> QED
  BY <1>3, <1>4, <1>5 DEF Dump

\* The loop of a wait goes on, ends well or times out.
LEMMA SeesKeeps ==
  ASSUME AInv, NEW w \in Workers, SessionStays, call[w].op = "wait",
         call[w].at \in {"act", "by_focus"}, call[w].at = "act" => paneIds,
         NEW p \in Panes, p = call[w].target \/ (call[w].at = "by_focus" /\ p = ClientPane),
         Sees(w, p)
  PROVE  AInv'
<1> DEFINE d == call[w]
<1>1. CallOK(d, ClientPane, gone, Seen, ssh, paneIds)
  BY CallFacts
<1>2. ASSUME NEW q \in BOOLEAN, Goes(w, [Saw(d, p) EXCEPT !.quiet = q])
      PROVE  AInv'
  <2> DEFINE c == [Saw(d, p) EXCEPT !.quiet = q]
  <2>1. CallOK(c, ClientPane, gone, Seen, ssh, paneIds)
    BY <1>1, SawOK
  <2>2. Goes(w, c)
    BY <1>2
  <2> HIDE DEF c
  <2> QED
    BY <2>1, <2>2, OwnKeeps
<1>3. CASE d.quiet /\ Goes(w, Ends(d, "ok"))
  BY <1>1, <1>3, QuietOK, OwnKeeps
<1> QED
  BY <1>2, <1>3 DEF Sees

\* A wait whose time is over ends, or asks zjctl.
LEMMA TimesOutKeeps ==
  ASSUME AInv, NEW w \in Workers, SessionStays, call[w].op = "wait",
         call[w].at \in {"act", "by_focus"}, TimesOut(w)
  PROVE  AInv'
<1>1. CASE Goes(w, Asks(w))
  BY <1>1, AsksKeeps
<1>2. CASE Goes(w, Ends(call[w], "timeout"))
  BY <1>2, CallFacts, EndOK, OwnKeeps
<1> QED
  BY <1>1, <1>2 DEF TimesOut

\* A wait by id reads the target and no other pane.
LEMMA PollKeeps ==
  ASSUME AInv, NEW w \in Workers, Poll(w)
  PROVE  AInv'
<1> DEFINE d == call[w]
<1>1. /\ SessionStays /\ d.at = "act" /\ d.at # "idle" /\ d.op = "wait" /\ paneIds
  BY DEF Poll
<1>2. CASE Sees(w, d.target)
  <2>1. d.target \in Panes
    BY <1>1, CallFacts DEF CallOK, StagesOK, CallRecords
  <2> QED
    BY <1>1, <1>2, <2>1, SeesKeeps
<1>3. CASE Goes(w, Failed(w))
  BY <1>1, <1>3, FailedKeeps
<1>4. CASE TimesOut(w)
  BY <1>1, <1>4, TimesOutKeeps
<1> QED
  BY <1>2, <1>3, <1>4 DEF Poll

\* By focus the screen is that of the pane the client is in.
LEMMA ClientPaneIsAPane ==
  ASSUME AInv, ClientPane # NoPane
  PROVE  ClientPane \in Panes /\ ClientPane \in DOMAIN live
BY ClientPaneIsShown DEF AInv, PInv, SessionOK, LiveOK

\* A capture by focus.
LEMMA DumpFocusedKeeps ==
  ASSUME AInv, NEW w \in Workers, DumpFocused(w)
  PROVE  AInv'
<1> DEFINE d == call[w]
<1>1. /\ SessionStays /\ d.at = "by_focus" /\ d.at # "idle" /\ d.at # "done" /\ d.op = "capture"
      /\ d.op # "send_to"
  BY DEF DumpFocused
<1>2. CASE ClientPane = NoPane
  BY <1>1, <1>2, AsksKeeps DEF DumpFocused
<1>3. CASE ClientPane # NoPane
  <2>1. CallOK(Ends(Saw(d, ClientPane), "ok"), ClientPane, gone, Seen, ssh, paneIds)
    BY <1>1, <1>3, CallFacts, ClientPaneIsAPane, SawOK
  <2> QED
    BY <1>1, <1>3, <2>1, OwnKeeps DEF DumpFocused
<1> QED
  BY <1>2, <1>3

\* A wait by focus.
LEMMA PollFocusedKeeps ==
  ASSUME AInv, NEW w \in Workers, PollFocused(w)
  PROVE  AInv'
<1> DEFINE d == call[w]
<1>1. /\ SessionStays /\ d.at = "by_focus" /\ d.at # "idle" /\ d.at # "done" /\ d.op = "wait"
      /\ d.op # "send_to"
  BY DEF PollFocused
<1>2. CASE ClientPane # NoPane /\ Sees(w, ClientPane)
  BY <1>1, <1>2, ClientPaneIsAPane, SeesKeeps
<1>3. CASE Goes(w, Asks(w))
  BY <1>1, <1>3, AsksKeeps
<1>4. CASE TimesOut(w)
  BY <1>1, <1>4, TimesOutKeeps
<1> QED
  BY <1>2, <1>3, <1>4 DEF PollFocused

\* The connection is lost.
LEMMA LostKeeps ==
  ASSUME AInv, NEW w \in Workers, Lost(w)
  PROVE  AInv'
<1> DEFINE d == call[w]
<1>1. SessionStays /\ d.at \notin {"idle", "done"} /\ d.at # "idle"
  BY DEF Lost, Working
<1>2. CASE d.at \in {"focus", "by_focus"}
  <2>1. d.op # "send_to"
    BY <1>1, <1>2, CallFacts DEF CallOK, StagesOK
  <2> QED
    BY <1>1, <1>2, <2>1, AsksKeeps DEF Lost
<1>3. CASE d.at \notin {"focus", "by_focus"}
  BY <1>1, <1>3, FailedKeeps DEF Lost
<1> QED
  BY <1>2, <1>3

\* What zjctl is asked to act on: the target, or what the selector names.
LEMMA GivenNames ==
  ASSUME AInv, NEW d \in CallRecords, NEW p \in Named(Given(d)) \intersect DOMAIN live
  PROVE  p \in Panes /\ (d.target = NoPane \/ p = d.target)
<1>1. p \in Panes
  BY DEF AInv, PInv, SessionOK, LiveOK
<1>2. CASE d.target # NoPane
  <2>1. Given(d) = ById(d.target)
    BY <1>2 DEF Given
  <2>2. p \in Resolve(ById(d.target))
    BY <2>1 DEF Named, Unique
  <2>3. ById(d.target).form = "id" /\ ById(d.target).pane = d.target
    BY DEF ById
  <2>4. Resolve(ById(d.target)) \subseteq {d.target}
    BY <2>3, ResolveFacts
  <2> QED
    BY <1>1, <2>2, <2>4
<1> QED
  BY <1>1, <1>2

\* A capture or a wait through zjctl.
LEMMA AskZjctlKeeps ==
  ASSUME AInv, NEW w \in Workers, AskZjctl(w)
  PROVE  AInv'
<1> DEFINE d == call[w]
<1>1. /\ SessionStays /\ d.at = "zjctl" /\ d.at # "idle" /\ d.op \in {"capture", "wait"}
  BY DEF AskZjctl
<1>2. CallOK(d, ClientPane, gone, Seen, ssh, paneIds) /\ d \in CallRecords
  BY <1>1, CallFacts
<1>3. CASE Goes(w, Failed(w))
  BY <1>1, <1>3, FailedKeeps
<1>4. ASSUME NEW p \in Named(Given(d)) \intersect DOMAIN live,
             Goes(w, Ends(Saw(d, p), "ok"))
      PROVE  AInv'
  <2>1. p \in Panes /\ (d.target = NoPane \/ p = d.target)
    BY <1>2, GivenNames
  <2>2. CallOK(Ends(Saw(d, p), "ok"), ClientPane, gone, Seen, ssh, paneIds)
    BY <1>1, <1>2, <2>1, SawOK
  <2> QED
    BY <1>1, <1>4, <2>2, OwnKeeps
<1> QED
  BY <1>3, <1>4 DEF AskZjctl

\* A close is reported when no listed pane is its target any more.
LEMMA AbsentIsGone ==
  ASSUME AInv, NEW p \in Seen, \A e \in ListPanes : ~AdapterMatches(ById(p), e)
  PROVE  p \in gone
<1>1. ASSUME p \in DOMAIN panes
      PROVE  FALSE
  <2>1. PICK e \in ListPanes : e.pane = p
    BY <1>1, Listed
  <2>2. AdapterMatches(ById(p), e)
    BY <2>1 DEF AdapterMatches, ById
  <2> QED
    BY <2>1, <2>2
<1> QED
  BY <1>1 DEF Seen

\* The check of a remote close: absent, closed once more, or given up.
LEMMA VerifyCloseKeeps ==
  ASSUME AInv, NEW w \in Workers, VerifyClose(w)
  PROVE  AInv'
<1> DEFINE d == call[w]
           present == \E e \in ListPanes : AdapterMatches(Given(d), e)
<1>1. /\ SessionStays /\ d.at = "verify" /\ d.at # "idle"
  BY DEF VerifyClose
<1>2. CallOK(d, ClientPane, gone, Seen, ssh, paneIds) /\ d \in CallRecords
  BY <1>1, CallFacts
<1>3. d.op = "close" /\ d.closed # {} /\ ~d.refocused
  BY <1>1, <1>2 DEF CallOK, StagesOK, ClosedOK
<1>4. CASE Goes(w, Failed(w))
  BY <1>1, <1>4, FailedKeeps
<1>5. CASE Goes(w, [d EXCEPT !.at = "zjctl", !.zjctl = TRUE])
  <2> DEFINE c == [d EXCEPT !.at = "zjctl", !.zjctl = TRUE]
  <2>1. /\ c \in CallRecords /\ c.at = "zjctl" /\ c.result = d.result
        /\ c.refocused = d.refocused /\ c.op = d.op /\ c.target = d.target
        /\ c.shown = d.shown /\ c.quiet = d.quiet /\ c.closed = d.closed /\ c.moved = d.moved
    BY <1>2 DEF CallRecords, CallStages
  <2>2. Goes(w, c)
    BY <1>5
  <2> HIDE DEF c, d
  <2>3. StagesOK(c, Seen, ssh, paneIds)
    BY <1>1, <1>2, <1>3, <2>1 DEF CallOK, StagesOK
  <2>4. ShownOK(c, ClientPane, gone, ssh, paneIds)
    BY <1>1, <1>2, <1>3, <2>1 DEF CallOK, StagesOK, ShownOK, Strayed
  <2>5. ClosedOK(c, gone, ssh, paneIds)
    BY <1>1, <1>2, <1>3, <2>1 DEF CallOK, StagesOK, ClosedOK, Strayed
  <2>6. CallOK(c, ClientPane, gone, Seen, ssh, paneIds)
    BY <1>3, <2>1, <2>3, <2>4, <2>5 DEF CallOK, SentOK
  <2> QED
    BY <1>1, <2>2, <2>6, OwnKeeps
<1>6. CASE ~present /\ Goes(w, Ends(d, "ok"))
  <2> DEFINE c == Ends(d, "ok")
  <2>1. /\ c \in CallRecords /\ c.at = "done" /\ c.result = "ok"
        /\ c.refocused = FALSE /\ c.op = d.op /\ c.target = d.target
        /\ c.shown = d.shown /\ c.quiet = d.quiet /\ c.closed = d.closed /\ c.moved = d.moved
    BY <1>2 DEF CallRecords, CallStages, Ends
  <2>2. Goes(w, c)
    BY <1>6
  <2>3. d.target # NoPane => d.target \in gone
    <3>1. CASE d.target # NoPane
      <4>1. Given(d) = ById(d.target) /\ d.target \in Seen
        BY <1>2, <3>1 DEF Given, CallOK, StagesOK
      <4>2. \A e \in ListPanes : ~AdapterMatches(ById(d.target), e)
        BY <1>6, <4>1
      <4> QED
        BY <4>1, <4>2, AbsentIsGone
    <3> QED
      BY <3>1
  <2> HIDE DEF c, d
  <2>4. StagesOK(c, Seen, ssh, paneIds)
    BY <1>1, <1>2, <1>3, <2>1 DEF CallOK, StagesOK
  <2>5. ShownOK(c, ClientPane, gone, ssh, paneIds)
    BY <1>1, <1>2, <1>3, <2>1 DEF CallOK, StagesOK, ShownOK, Strayed
  <2>6. ClosedOK(c, gone, ssh, paneIds)
    BY <1>1, <1>2, <1>3, <2>1, <2>3 DEF CallOK, StagesOK, ClosedOK, Strayed
  <2>7. CallOK(c, ClientPane, gone, Seen, ssh, paneIds)
    BY <1>3, <2>1, <2>4, <2>5, <2>6 DEF CallOK, SentOK
  <2> QED
    BY <1>1, <2>2, <2>7, OwnKeeps
<1> QED
  BY <1>4, <1>5, <1>6 DEF VerifyClose

---------------------------------------------------------------------------
(* A send by place. *)

\* What a plugin that has caught up lists is what the session would list.
LEMMA CaughtUpListsTrueEntries ==
  ASSUME AInv, CaughtUp, ClientPane # NoPane
  PROVE  ListPanes = {TrueEntry(p) : p \in DOMAIN live}
<1>1. SettledListIsTrue
  BY SettledList DEF AInv
<1>2. PanesTold /\ TabsTold
  BY DEF AInv, PInv, CaughtUp, Settled
<1>3. /\ \A e \in ListPanes : e.name = names[e.tab]
      /\ \A e \in ListPanes : e.focused <=> e.pane = ClientPane
  BY <1>1 DEF SettledListIsTrue, CaughtUp
<1>4. FocusedPane = {ClientPane}
  BY <1>2, FocusedIsClients DEF AInv, PInv, CaughtUp
<1> DEFINE Line(p) == [pane |-> p, tab |-> panes[p].tab, name |-> panes[p].name,
                       title |-> panes[p].title, suppressed |-> panes[p].suppressed,
                       focused |-> p \in FocusedPane]
<1>5. ListPanes = {Line(p) : p \in DOMAIN panes}
  BY DEF ListPanes
<1>6. ASSUME NEW p \in DOMAIN live
      PROVE  Line(p) = TrueEntry(p)
  <2>1. Line(p) \in ListPanes /\ Line(p).tab = panes[p].tab /\ Line(p).name = panes[p].name
    BY <1>2, <1>5 DEF PanesTold
  <2>2. panes[p].name = names[panes[p].tab]
    BY <1>3, <2>1
  <2>3. /\ panes[p].tab = live[p].tab /\ panes[p].title = live[p].title
        /\ panes[p].suppressed = live[p].suppressed
    BY <1>2 DEF PanesTold
  <2>4. (p \in FocusedPane) = (p = ClientPane)
    BY <1>4
  <2> QED
    BY <2>2, <2>3, <2>4 DEF TrueEntry
<1>7. DOMAIN panes = DOMAIN live
  BY <1>2 DEF PanesTold
<1> QED
  BY <1>5, <1>6, <1>7

\* The plugin lists finitely many panes.
LEMMA ListIsFinite ==
  ASSUME AInv
  PROVE  IsFiniteSet(ListPanes)
<1>1. DOMAIN panes \subseteq Panes
  BY DEF AInv, PInv, TablesOK, SessionOK, LiveOK
<1>2. IsFiniteSet(DOMAIN panes)
  BY <1>1, PanesAreFinite, FS_Subset
<1> DEFINE Line(p) == [pane |-> p, tab |-> panes[p].tab, name |-> panes[p].name,
                       title |-> panes[p].title, suppressed |-> panes[p].suppressed,
                       focused |-> p \in FocusedPane]
<1>3. ListPanes = {Line(p) : p \in DOMAIN panes}
  BY DEF ListPanes
<1> DEFINE line == [p \in DOMAIN panes |-> Line(p)]
<1> HIDE DEF Line
<1>4. line \in Surjection(DOMAIN panes, ListPanes)
  BY <1>3 DEF Surjection
<1> HIDE DEF line
<1> QED
  BY <1>2, <1>4, FS_Surjection

\* The line that is found is the only one, or the only terminal among several.
LEMMA FoundIsTheOnly ==
  ASSUME AInv, NEW i, NEW e \in LocationTarget(ListPanes, i)
  PROVE  /\ e \in ListPanes
         /\ LET matches == {x \in ListPanes : MatchesIntent(i, x)}
                terminals == {x \in matches : ~x.pane.plugin}
            IN matches = {e} \/ (i.selector.form = "any" /\ terminals = {e})
<1> DEFINE matches == {x \in ListPanes : MatchesIntent(i, x)}
           terminals == {x \in matches : ~x.pane.plugin}
<1>1. IsFiniteSet(matches) /\ IsFiniteSet(terminals)
  <2>1. matches \subseteq ListPanes /\ terminals \subseteq ListPanes
    OBVIOUS
  <2> QED
    BY <2>1, ListIsFinite, FS_Subset
<1>2. CASE i.selector.form = "any" /\ Cardinality(matches) > 1 /\ Cardinality(terminals) = 1
  <2>1. e \in terminals
    BY <1>2 DEF LocationTarget
  <2>2. \E x : terminals = {x}
    BY <1>1, <1>2, FS_Singleton
  <2>3. terminals = {e}
    BY <2>1, <2>2
  <2> QED
    BY <1>2, <2>1, <2>3
<1>3. CASE ~(i.selector.form = "any" /\ Cardinality(matches) > 1 /\ Cardinality(terminals) = 1)
  <2>1. e \in Unique(matches)
    BY <1>3 DEF LocationTarget
  <2>2. Cardinality(matches) = 1 /\ e \in matches
    BY <2>1 DEF Unique
  <2>3. \E x : matches = {x}
    BY <1>1, <2>2, FS_Singleton
  <2>4. matches = {e}
    BY <2>2, <2>3
  <2> QED
    BY <2>2, <2>4
<1> QED
  BY <1>2, <1>3

\* A send by place finds its pane.
LEMMA LocateKeeps ==
  ASSUME AInv, NEW w \in Workers, Locate(w)
  PROVE  AInv'
<1> DEFINE d == call[w]
           known == {p \in DOMAIN live : MatchesIntent(d.selector, TrueEntry(p))}
           named == IF CaughtUp /\ ClientPane # NoPane THEN known ELSE {}
<1>1. /\ SessionStays /\ d.at = "locate" /\ d.at # "idle"
  BY DEF Locate
<1>2. CallOK(d, ClientPane, gone, Seen, ssh, paneIds) /\ d \in CallRecords
  BY <1>1, CallFacts
<1>3. d.op = "send_to" /\ ~d.refocused /\ d.shown = NoPane /\ d.closed = {} /\ d.result = "none"
  BY <1>1, <1>2 DEF CallOK, StagesOK, ShownOK, ClosedOK
<1>4. CASE Goes(w, Failed(w))
  BY <1>1, <1>4, FailedKeeps
<1>5. ASSUME NEW e \in LocationTarget(ListPanes, d.selector),
             Goes(w, [d EXCEPT !.at = "deliver", !.target = e.pane, !.named = named])
      PROVE  AInv'
  <2> DEFINE c == [d EXCEPT !.at = "deliver", !.target = e.pane, !.named = named]
  <2>1. e \in ListPanes
    BY FoundIsTheOnly
  <2>2. e.pane \in Panes /\ e.pane \in Seen /\ e.pane # NoPane
    BY <2>1, ListedPanes
  <2>3. DOMAIN live \subseteq Panes
    BY DEF AInv, PInv, SessionOK, LiveOK
  <2>4. named \in SUBSET Panes
    BY <2>3
  <2>5. named # {} => {e.pane} = (IF d.selector.selector.form = "any" /\ named \intersect Terminals # {}
                                 THEN named \intersect Terminals ELSE named)
    <3> SUFFICES ASSUME named # {}
                 PROVE  {e.pane} = (IF d.selector.selector.form = "any" /\ named \intersect Terminals # {}
                                 THEN named \intersect Terminals ELSE named)
      OBVIOUS
    <3>1. CaughtUp /\ ClientPane # NoPane /\ named = known
      OBVIOUS
    <3>2. ListPanes = {TrueEntry(p) : p \in DOMAIN live}
      BY <3>1, CaughtUpListsTrueEntries
    <3>3. \A p : TrueEntry(p).pane = p
      BY DEF TrueEntry
    <3> DEFINE matches == {x \in ListPanes : MatchesIntent(d.selector, x)}
               terminals == {x \in matches : ~x.pane.plugin}
    <3>4. known = {x.pane : x \in matches}
      BY <3>2, <3>3
    <3>5. known \intersect Terminals = {x.pane : x \in terminals}
      BY <2>3, <3>4 DEF Terminals
    <3>6. matches = {e} \/ (d.selector.selector.form = "any" /\ terminals = {e})
      BY FoundIsTheOnly
    <3> HIDE DEF matches, terminals, known, named
    <3>7. CASE matches = {e}
      <4>1. known = {e.pane}
        BY <3>4, <3>7
      <4> QED
        BY <3>1, <4>1
    <3>8. CASE d.selector.selector.form = "any" /\ terminals = {e}
      <4>1. known \intersect Terminals = {e.pane}
        BY <3>5, <3>8
      <4> QED
        BY <3>1, <3>8, <4>1
    <3> QED
      BY <3>6, <3>7, <3>8
  <2> HIDE DEF named, known
  <2>6. /\ c \in CallRecords /\ c.at = "deliver" /\ c.target = e.pane /\ c.result = d.result
        /\ c.op = d.op /\ c.shown = d.shown /\ c.quiet = d.quiet /\ c.closed = d.closed
        /\ c.refocused = d.refocused /\ c.named = named /\ c.selector = d.selector
    BY <1>2, <2>2, <2>4 DEF CallRecords, CallStages
  <2>7. Goes(w, c)
    BY <1>5
  <2> HIDE DEF c, d
  <2>8. StagesOK(c, Seen, ssh, paneIds)
    BY <1>1, <1>2, <1>3, <2>2, <2>6 DEF CallOK, StagesOK
  <2>9. ShownOK(c, ClientPane, gone, ssh, paneIds)
    BY <1>1, <1>2, <1>3, <2>6 DEF CallOK, ShownOK
  <2>10. ClosedOK(c, gone, ssh, paneIds)
    BY <1>1, <1>2, <1>3, <2>6 DEF CallOK, ClosedOK
  <2>11. SentOK(c, gone)
    BY <1>3, <2>5, <2>6 DEF SentOK, TheOne
  <2>12. CallOK(c, ClientPane, gone, Seen, ssh, paneIds)
    BY <2>6, <2>8, <2>9, <2>10, <2>11 DEF CallOK
  <2> QED
    BY <1>1, <2>7, <2>12, OwnKeeps
<1> QED
  BY <1>4, <1>5 DEF Locate

\* A send by place is written.
LEMMA DeliverKeeps ==
  ASSUME AInv, NEW w \in Workers, Deliver(w)
  PROVE  AInv'
<1> DEFINE d == call[w]
           found == Resolve(ById(d.target))
           wrote == found \intersect DOMAIN live
<1>1. SessionStays /\ d.at = "deliver" /\ d.at # "idle"
  BY DEF Deliver
<1>2. CallOK(d, ClientPane, gone, Seen, ssh, paneIds) /\ d \in CallRecords
  BY <1>1, CallFacts
<1>3. d.op = "send_to" /\ d.target # NoPane /\ ~d.refocused /\ d.result = "none"
  BY <1>1, <1>2 DEF CallOK, StagesOK
<1>4. CASE Goes(w, Failed(w))
  BY <1>1, <1>4, FailedKeeps
<1>5. CASE found # {} /\ Goes(w, Ends([d EXCEPT !.wrote = wrote], "ok"))
  <2> DEFINE c == Ends([d EXCEPT !.wrote = wrote], "ok")
  <2>1. ById(d.target).form = "id" /\ ById(d.target).pane = d.target
    BY DEF ById
  <2>2. found \subseteq {d.target} /\ found \subseteq DOMAIN panes
    BY <2>1, ResolveFacts
  <2>3. DOMAIN panes \subseteq DOMAIN live \union gone /\ DOMAIN live \subseteq Panes
    BY DEF AInv, PInv, TablesOK, SessionOK, LiveOK
  <2>4. wrote = {d.target} \/ (wrote = {} /\ d.target \in gone)
    BY <1>5, <2>2, <2>3
  <2>5. wrote \in SUBSET Panes
    BY <2>3
  <2> HIDE DEF wrote, found
  <2>6. /\ c \in CallRecords /\ c.at = "done" /\ c.result = "ok" /\ c.refocused = FALSE
        /\ c.target = d.target /\ c.op = d.op /\ c.shown = d.shown /\ c.quiet = d.quiet
        /\ c.closed = d.closed /\ c.wrote = wrote /\ c.named = d.named
        /\ c.selector = d.selector /\ c.moved = d.moved
    BY <1>2, <2>5 DEF CallRecords, CallStages, Ends
  <2>7. Goes(w, c)
    BY <1>5
  <2> HIDE DEF c, d
  <2>8. StagesOK(c, Seen, ssh, paneIds)
    BY <1>1, <1>2, <1>3, <2>6 DEF CallOK, StagesOK
  <2>9. ShownOK(c, ClientPane, gone, ssh, paneIds)
    BY <1>1, <1>2, <1>3, <2>6 DEF CallOK, ShownOK, Strayed
  <2>10. ClosedOK(c, gone, ssh, paneIds)
    BY <1>1, <1>2, <1>3, <2>6 DEF CallOK, ClosedOK, Strayed
  <2>11. SentOK(c, gone)
    BY <1>2, <1>3, <2>4, <2>6 DEF CallOK, SentOK, TheOne
  <2>12. CallOK(c, ClientPane, gone, Seen, ssh, paneIds)
    BY <2>6, <2>8, <2>9, <2>10, <2>11 DEF CallOK
  <2> QED
    BY <1>1, <2>7, <2>12, OwnKeeps
<1> QED
  BY <1>4, <1>5 DEF Deliver

---------------------------------------------------------------------------
(* The actions that change the session. *)

\* A pane that is told to close is gone, and the plugin is owed a report.
LEMMA ClosesKeeps ==
  ASSUME AInv, NEW p \in Panes, Closes(p), OwnStep
  PROVE  /\ PInv' /\ Progress /\ DOMAIN viewing' # {}
         /\ p \in DOMAIN live \union gone => p \in gone'
<1>1. /\ UNCHANGED tables /\ changes' \in 0 .. MaxChanges /\ granted' \in BOOLEAN
      /\ timer' \in BOOLEAN /\ ssh' = ssh /\ paneIds' = paneIds
      /\ news \subseteq {"panes", "tabs", "clients"} /\ SessionOK /\ DOMAIN panes' = DOMAIN panes
  BY DEF OwnStep, AInv, PInv, tables
<1>2. CASE p \in DOMAIN live
  <2>1. ClosePane(p) /\ news' = news \union {"panes", "tabs"}
    BY <1>2 DEF Closes
  <2>2. SessionOK' /\ Forgetless
    BY <1>1, <2>1, CloseKeeps
  <2>3. PInv'
    BY <1>1, <2>1, <2>2, ReportedKeeps DEF AInv
  <2>4. gone' = gone \union {p} /\ viewing' = viewing
    BY <2>1 DEF ClosePane
  <2> QED
    BY <1>1, <2>3, <2>4 DEF Progress, Seen, AInv
<1>3. CASE p \notin DOMAIN live
  <2>1. UNCHANGED session /\ news' = news
    BY <1>3 DEF Closes
  <2>2. SessionOK' /\ Forgetless
    BY <1>1, <2>1, SameReports
  <2>3. PInv'
    BY <1>1, <2>1, <2>2, ReportedKeeps DEF AInv
  <2>4. gone' = gone /\ viewing' = viewing
    BY <2>1 DEF session
  <2> QED
    BY <1>1, <1>3, <2>3, <2>4 DEF Progress, Seen, AInv
<1> QED
  BY <1>2, <1>3

\* A close command: of the target, or of the pane the call was led to.
LEMMA CloseStepKeeps ==
  ASSUME AInv, NEW w \in Workers, call[w].op = "close", call[w].at \in {"act", "by_focus", "zjctl"},
         NEW p \in Panes, p \in DOMAIN live \union gone, Closes(p), OwnStep,
         \/ p = call[w].target \/ call[w].target = NoPane
         \/ call[w].at = "by_focus" /\ Strayed(call[w], gone),
         NEW c \in CallRecords, Goes(w, c),
         /\ c.op = call[w].op /\ c.target = call[w].target /\ c.shown = call[w].shown
         /\ c.quiet = call[w].quiet /\ c.moved = call[w].moved
         /\ c.closed = call[w].closed \union {p} /\ c.refocused = FALSE,
         \/ c.at \in {"verify", "zjctl"} /\ c.result = "none"
         \/ c.at = "done" /\ c.result = "failed"
         \/ c.at = "done" /\ c.result = "ok" /\ call[w].at = "act"
  PROVE  AInv'
<1> DEFINE d == call[w]
<1>1. CallOK(d, ClientPane, gone, Seen, ssh, paneIds)
  BY CallFacts
<1>2. /\ PInv' /\ Progress /\ DOMAIN viewing' # {} /\ p \in gone'
      /\ gone \subseteq gone' /\ Seen \subseteq Seen' /\ ssh' = ssh /\ paneIds' = paneIds
  BY ClosesKeeps DEF Progress
<1>3. CallOK(d, ClientPane, gone', Seen', ssh, paneIds)
  BY <1>1, <1>2, GrownOK
<1>4. Strayed(d, gone) => Strayed(d, gone')
  BY <1>2 DEF Strayed
<1>5. CallOK(c, ClientPane, gone', Seen', ssh, paneIds)
  BY <1>2, <1>3, <1>4, ClosedCallOK
<1>6. c.at # "by_focus"
  OBVIOUS
<1>7. CallOK(c, ClientPane', gone', Seen', ssh, paneIds)
  BY <1>5, <1>6, AnyPaneOK
<1> QED
  BY <1>2, <1>7, StepKeeps

\* A close by id.
LEMMA CloseByIdKeeps ==
  ASSUME AInv, NEW w \in Workers, CloseById(w)
  PROVE  AInv'
<1> DEFINE d == call[w]
           p == d.target
           c1 == [d EXCEPT !.at = "verify", !.closed = @ \union {p}]
           c2 == Ends([d EXCEPT !.closed = @ \union {p}], "ok")
           c3 == Ends([d EXCEPT !.closed = @ \union {p}], "failed")
<1>1. d.at = "act" /\ d.at # "idle" /\ d.op = "close" /\ Closes(p) /\ OwnStep
  BY DEF CloseById
<1>2. CallOK(d, ClientPane, gone, Seen, ssh, paneIds) /\ d \in CallRecords
  BY <1>1, CallFacts
<1>3. p \in Panes /\ p \in DOMAIN live \union gone
  BY <1>1, <1>2 DEF CallOK, StagesOK, CallRecords, Seen, AInv, PInv, TablesOK
<1>4. d.result = "none" /\ d.refocused = FALSE
  BY <1>1, <1>2 DEF CallOK, StagesOK, CallRecords
<1>5. /\ c1 \in CallRecords /\ c1.op = d.op /\ c1.target = d.target /\ c1.shown = d.shown
      /\ c1.quiet = d.quiet /\ c1.moved = d.moved /\ c1.closed = d.closed \union {p}
      /\ c1.refocused = FALSE /\ c1.at = "verify" /\ c1.result = "none"
  BY <1>2, <1>3, <1>4 DEF CallRecords, CallStages
<1>6. /\ c2 \in CallRecords /\ c2.op = d.op /\ c2.target = d.target /\ c2.shown = d.shown
      /\ c2.quiet = d.quiet /\ c2.moved = d.moved /\ c2.closed = d.closed \union {p}
      /\ c2.refocused = FALSE /\ c2.at = "done" /\ c2.result = "ok"
  BY <1>2, <1>3 DEF CallRecords, CallStages, Ends
<1>7. /\ c3 \in CallRecords /\ c3.op = d.op /\ c3.target = d.target /\ c3.shown = d.shown
      /\ c3.quiet = d.quiet /\ c3.moved = d.moved /\ c3.closed = d.closed \union {p}
      /\ c3.refocused = FALSE /\ c3.at = "done" /\ c3.result = "failed"
  BY <1>2, <1>3 DEF CallRecords, CallStages, Ends
<1>8. Goes(w, c1) \/ Goes(w, c2) \/ Goes(w, c3)
  BY DEF CloseById
<1> HIDE DEF c1, c2, c3
<1>9. CASE Goes(w, c1)
  BY <1>1, <1>3, <1>5, <1>9, CloseStepKeeps
<1>10. CASE Goes(w, c2)
  BY <1>1, <1>3, <1>6, <1>10, CloseStepKeeps
<1>11. CASE Goes(w, c3)
  BY <1>1, <1>3, <1>7, <1>11, CloseStepKeeps
<1> QED
  BY <1>8, <1>9, <1>10, <1>11

\* A step that closes nothing and leaves the session as it is.
LEMMA NothingClosed ==
  ASSUME OwnStep, UNCHANGED <<session, news>>
  PROVE  SessionStays
BY DEF OwnStep, SessionStays, session, tables

\* A close by focus closes the pane the client is in.
LEMMA CloseFocusedKeeps ==
  ASSUME AInv, NEW w \in Workers, CloseFocused(w)
  PROVE  AInv'
<1> DEFINE d == call[w]
           p == ClientPane
           c(stage) == [d EXCEPT !.at = stage, !.closed = @ \union {p}, !.refocused = FALSE]
<1>1. /\ d.at = "by_focus" /\ d.at # "idle" /\ d.at # "done" /\ d.op = "close"
      /\ d.op # "send_to" /\ OwnStep
  BY DEF CloseFocused
<1>2. CallOK(d, ClientPane, gone, Seen, ssh, paneIds) /\ d \in CallRecords
  BY <1>1, CallFacts
<1>3. CASE Goes(w, Asks(w)) /\ UNCHANGED <<session, news>>
  BY <1>1, <1>3, NothingClosed, AsksKeeps
<1>4. ASSUME p # NoPane, Closes(p), NEW stage \in {"verify", "zjctl"}, Goes(w, c(stage))
      PROVE  AInv'
  <2>1. p \in Panes /\ p \in DOMAIN live
    BY <1>4, ClientPaneIsAPane
  <2>2. d.result = "none"
    BY <1>1, <1>2 DEF CallOK, StagesOK, CallRecords
  <2>3. p = d.target \/ Strayed(d, gone)
    BY <1>1, <1>2 DEF CallOK, ShownOK
  <2>4. /\ c(stage) \in CallRecords /\ c(stage).op = d.op /\ c(stage).target = d.target
        /\ c(stage).shown = d.shown /\ c(stage).quiet = d.quiet /\ c(stage).moved = d.moved
        /\ c(stage).closed = d.closed \union {p} /\ c(stage).refocused = FALSE
        /\ c(stage).at \in {"verify", "zjctl"} /\ c(stage).result = "none"
    BY <1>2, <2>1, <2>2 DEF CallRecords, CallStages
  <2>5. Closes(p) /\ Goes(w, c(stage))
    BY <1>4
  <2> HIDE DEF c, p
  <2> QED
    BY <1>1, <2>1, <2>3, <2>4, <2>5, CloseStepKeeps
<1> QED
  BY <1>3, <1>4 DEF CloseFocused

\* A close through zjctl.
LEMMA CloseViaZjctlKeeps ==
  ASSUME AInv, NEW w \in Workers, CloseViaZjctl(w)
  PROVE  AInv'
<1> DEFINE d == call[w]
           open == Named(Given(d)) \intersect DOMAIN live
           c(p) == [d EXCEPT !.at = "verify", !.closed = @ \union {p},
                      !.zjctl = @ \/ d.target = NoPane]
<1>1. d.at = "zjctl" /\ d.at # "idle" /\ d.op = "close" /\ OwnStep
  BY DEF CloseViaZjctl
<1>2. CallOK(d, ClientPane, gone, Seen, ssh, paneIds) /\ d \in CallRecords
  BY <1>1, CallFacts
<1>3. CASE Goes(w, Failed(w)) /\ UNCHANGED <<session, news>>
  BY <1>1, <1>3, NothingClosed, FailedKeeps
<1>4. ASSUME NEW p \in open, Closes(p), Goes(w, c(p))
      PROVE  AInv'
  <2>1. p \in Panes /\ p \in DOMAIN live /\ (d.target = NoPane \/ p = d.target)
    BY <1>2, GivenNames
  <2>2. d.result = "none" /\ d.refocused = FALSE
    BY <1>1, <1>2 DEF CallOK, StagesOK, CallRecords
  <2> DEFINE z == d.zjctl \/ d.target = NoPane
             e == [d EXCEPT !.at = "verify", !.closed = @ \union {p}, !.zjctl = z]
  <2>3. z \in BOOLEAN
    OBVIOUS
  <2>4. Goes(w, e)
    BY <1>4
  <2> HIDE DEF z
  <2>5. /\ e \in CallRecords /\ e.op = d.op /\ e.target = d.target
        /\ e.shown = d.shown /\ e.quiet = d.quiet /\ e.moved = d.moved
        /\ e.closed = d.closed \union {p} /\ e.refocused = FALSE
        /\ e.at \in {"verify", "zjctl"} /\ e.result = "none"
    BY <1>2, <2>1, <2>2, <2>3 DEF CallRecords, CallStages
  <2> HIDE DEF e
  <2> QED
    BY <1>1, <1>4, <2>1, <2>4, <2>5, CloseStepKeeps
<1> QED
  BY <1>3, <1>4 DEF CloseViaZjctl

\* After a pane was focused every client is in it.
LEMMA FocusBringsClient ==
  ASSUME SessionOK, NEW p \in Panes, FocusPane(p), DOMAIN viewing # {}
  PROVE  ClientPane' = p /\ DOMAIN viewing' # {}
<1>1. /\ p \in DOMAIN live /\ focus' = [focus EXCEPT ![live[p].tab] = p]
      /\ viewing' = [c \in DOMAIN viewing |-> live[p].tab]
  BY DEF FocusPane, FocusAfter
<1>2. live[p].tab \in Positions /\ DOMAIN focus = Positions
  BY <1>1 DEF SessionOK, LiveOK, FocusOK
<1>3. DOMAIN viewing' = DOMAIN viewing
  BY <1>1
<1>4. Speaker \in DOMAIN viewing
  BY LeastClient DEF Speaker, SessionOK
<1>5. FirstClient' = FirstClient
  BY <1>3 DEF FirstClient
<1>6. Speaker' = Speaker
  BY <1>3, <1>5 DEF Speaker
<1>7. viewing'[Speaker'] = live[p].tab
  BY <1>1, <1>4, <1>6
<1>8. focus'[live[p].tab] = p
  BY <1>1, <1>2
<1>9. ClientPane' = focus'[viewing'[Speaker']]
  BY <1>3 DEF ClientPane
<1> QED
  BY <1>3, <1>7, <1>8, <1>9

\* The host is asked for the focus: it is on the pane, or the pane is gone.
LEMMA HostFocusKeeps ==
  ASSUME AInv, NEW p \in DOMAIN panes, HostFocus(p), news' = news \union {"panes", "tabs"}, OwnStep
  PROVE  /\ PInv' /\ Progress /\ DOMAIN viewing' # {} /\ gone' = gone
         /\ ClientPane' = p \/ p \in gone
<1>1. /\ UNCHANGED tables /\ changes' \in 0 .. MaxChanges /\ granted' \in BOOLEAN
      /\ timer' \in BOOLEAN /\ ssh' = ssh /\ paneIds' = paneIds
      /\ news \subseteq {"panes", "tabs", "clients"} /\ SessionOK /\ DOMAIN panes' = DOMAIN panes
  BY DEF OwnStep, AInv, PInv, tables
<1>2. p \in DOMAIN live \union gone /\ p \in Panes
  BY DEF AInv, PInv, TablesOK, SessionOK, LiveOK
<1>3. CASE p \in DOMAIN live
  <2>1. FocusPane(p)
    BY <1>3 DEF HostFocus
  <2>2. SessionOK' /\ Forgetless
    BY <1>1, <1>2, <2>1, FocusKeeps
  <2>3. PInv'
    BY <1>1, <2>2, ReportedKeeps DEF AInv
  <2>4. ClientPane' = p /\ DOMAIN viewing' # {}
    BY <1>1, <1>2, <2>1, FocusBringsClient DEF AInv
  <2>5. gone' = gone
    BY <2>1 DEF FocusPane
  <2> QED
    BY <1>1, <2>3, <2>4, <2>5 DEF Progress, Seen
<1>4. CASE p \notin DOMAIN live
  <2>1. UNCHANGED session
    BY <1>4 DEF HostFocus
  <2>2. SessionOK' /\ Forgetless
    BY <1>1, <2>1, SameReports
  <2>3. PInv'
    BY <1>1, <2>1, <2>2, ReportedKeeps DEF AInv
  <2>4. gone' = gone /\ viewing' = viewing
    BY <2>1 DEF session
  <2> QED
    BY <1>1, <1>2, <1>4, <2>3, <2>4 DEF Progress, Seen, AInv
<1> QED
  BY <1>3, <1>4

\* A call focuses its target, or turns to zjctl.
LEMMA AdapterFocusKeeps ==
  ASSUME AInv, NEW w \in Workers, Focus(w)
  PROVE  AInv'
<1> DEFINE d == call[w]
           p == d.target
<1>1. d.at = "focus" /\ d.at \notin {"idle", "done"} /\ OwnStep
  BY DEF Focus
<1>2. CallOK(d, ClientPane, gone, Seen, ssh, paneIds) /\ d \in CallRecords
  BY <1>1, CallFacts
<1>3. /\ d.op # "send_to" /\ p # NoPane /\ d.result = "none" /\ p \in Seen /\ ssh /\ ~paneIds
      /\ d.shown = NoPane /\ d.closed = {}
  BY <1>1, <1>2 DEF CallOK, StagesOK, ShownOK, ClosedOK
<1>4. CASE Goes(w, Asks(w)) /\ UNCHANGED <<session, news>>
  BY <1>1, <1>3, <1>4, NothingClosed, AsksKeeps
<1>5. CASE /\ PluginKnows(p) /\ HostFocus(p) /\ news' = news \union {"panes", "tabs"}
           /\ Goes(w, [d EXCEPT !.at = "by_focus", !.refocused = TRUE, !.moved = FALSE])
  <2> DEFINE c == [d EXCEPT !.at = "by_focus", !.refocused = TRUE, !.moved = FALSE]
  <2>1. p \in DOMAIN panes
    BY <1>5 DEF PluginKnows
  <2>2. /\ PInv' /\ Progress /\ DOMAIN viewing' # {} /\ gone' = gone
        /\ ClientPane' = p \/ p \in gone
    BY <1>1, <1>5, <2>1, HostFocusKeeps
  <2>3. /\ c \in CallRecords /\ c.at = "by_focus" /\ c.refocused = TRUE /\ c.result = d.result
        /\ c.op = d.op /\ c.target = d.target /\ c.shown = d.shown /\ c.quiet = d.quiet
        /\ c.closed = d.closed
    BY <1>2 DEF CallRecords, CallStages
  <2>4. Goes(w, c)
    BY <1>5
  <2> HIDE DEF c, d
  <2>5. StagesOK(c, Seen', ssh', paneIds')
    BY <1>1, <1>2, <1>3, <2>2, <2>3 DEF CallOK, StagesOK, Progress
  <2>6. ShownOK(c, ClientPane', gone', ssh', paneIds')
    BY <1>1, <1>2, <1>3, <2>2, <2>3 DEF CallOK, StagesOK, ShownOK, Strayed
  <2>7. ClosedOK(c, gone', ssh', paneIds')
    BY <1>1, <1>2, <1>3, <2>2, <2>3 DEF CallOK, StagesOK, ClosedOK
  <2>8. CallOK(c, ClientPane', gone', Seen', ssh', paneIds')
    BY <1>3, <2>3, <2>5, <2>6, <2>7 DEF CallOK, SentOK
  <2> QED
    BY <2>2, <2>4, <2>8, StepKeeps
<1> QED
  BY <1>4, <1>5 DEF Focus

---------------------------------------------------------------------------
(* The world, the start and the whole next-state relation. *)

\* The user and the plugin: every call notes what moved.
LEMMA WorldKeeps ==
  ASSUME AInv, World
  PROVE  AInv'
<1>1. [Next]_vars
  BY DEF World, User, Next, Session
<1>2. PInv'
  BY <1>1, NextPInv DEF AInv
<1>3. ssh' = ssh /\ paneIds' = paneIds
  BY DEF World
<1>4. Progress /\ DOMAIN viewing' # {}
  <2>1. DOMAIN panes \subseteq DOMAIN live \union gone
    BY DEF AInv, PInv, TablesOK
  <2>2. CASE User
    <3>1. panes' = panes
      BY <2>2 DEF User, Changed, tables
    <3>2. gone \subseteq gone' /\ DOMAIN viewing' = DOMAIN viewing
      BY <2>2 DEF User, ClosePane, FocusPane
    <3> QED
      BY <1>3, <3>1, <3>2 DEF AInv, Progress, Seen
  <2>3. CASE PaneUpdate
    <3>1. gone' = gone /\ viewing' = viewing /\ DOMAIN panes' = DOMAIN live
      BY <2>3 DEF PaneUpdate, session
    <3> QED
      BY <1>3, <2>1, <3>1 DEF AInv, Progress, Seen
  <2>4. CASE ListClients \/ Timer
    <3>1. gone' = gone /\ viewing' = viewing /\ panes' = panes
      BY <2>4 DEF ListClients, Timer, session, tables
    <3> QED
      BY <1>3, <3>1 DEF AInv, Progress, Seen
  <2> QED
    BY <2>2, <2>3, <2>4 DEF World
<1>5. ASSUME NEW v \in Workers
      PROVE  call'[v] = Idle \/ CallOK(call'[v], ClientPane', gone', Seen', ssh', paneIds')
  <2>1. call'[v] = Noting(v)
    BY DEF World, Noted, Noting
  <2>2. CASE call[v] = Idle
    BY <2>1, <2>2 DEF Noting, Idle
  <2>3. CASE call[v] # Idle
    BY <1>4, <2>1, <2>3, NotedKeeps
  <2> QED
    BY <2>2, <2>3
<1> QED
  BY <1>2, <1>3, <1>4, <1>5 DEF AInv

\* The calls find a session of one tab that the plugin knows.
LEMMA KnownIsSound ==
  ASSUME NEW s \in Starts, names = [t \in {0} |-> s.name], Known(s.pane, s.title, s.client)
  PROVE  PInv /\ DOMAIN viewing # {}
<1>1. /\ s.name \in TabNames /\ s.pane \in Terminals /\ s.title \in Titles /\ s.client \in Clients
      /\ s.pane \in Panes
  BY StartsAreSessions DEF Terminals
<1>2. /\ live = [q \in Panes |-> [tab |-> 0, title |-> s.title, suppressed |-> FALSE]]
      /\ gone = {} /\ changes = 0 /\ news = {}
      /\ focus = [t \in {0} |-> s.pane]
      /\ viewing = [d \in {s.client} |-> 0]
      /\ panes = [q \in Panes |-> [tab |-> 0, name |-> names[0], title |-> s.title,
                                   suppressed |-> FALSE, focused |-> q = s.pane]]
      /\ tabs = [t \in {0} |-> [name |-> names[0], active |-> TRUE]]
      /\ current = s.pane /\ granted = TRUE /\ timer = TRUE
  BY DEF Known
<1>3. Positions = {0} /\ names[0] = s.name /\ 0 .. 0 = {0} /\ 0 .. 1 - 1 = {0}
  BY DEF Positions
<1>4. LiveOK
  BY <1>1, <1>2, <1>3 DEF LiveOK
<1>5. NamesOK
  <2>1. names \in [0 .. 1 - 1 -> TabNames] /\ 1 \in 1 .. MaxTabs
    BY <1>1, <1>3, BoundsAreNumbers
  <2> QED
    BY <2>1 DEF NamesOK
<1>6. FocusOK
  <2>1. s.pane \in Focusable(0)
    BY <1>1, <1>2 DEF Focusable, InTabNow
  <2> QED
    BY <1>2, <1>3, <2>1 DEF FocusOK
<1>7. ViewOK
  BY <1>1, <1>2, <1>3 DEF ViewOK
<1>8. TablesOK
  <2>1. \A q \in Panes : panes[q] = [tab |-> 0, name |-> s.name, title |-> s.title,
                                     suppressed |-> FALSE, focused |-> q = s.pane]
    BY <1>2, <1>3
  <2>2. 0 \in 0 .. MaxTabs - 1 /\ 1 \in 0 .. MaxTabs
    BY BoundsAreNumbers
  <2>3. ASSUME NEW q \in Panes
        PROVE  panes[q] \in Entries
    <3> DEFINE b == (q = s.pane)
    <3>1. b \in BOOLEAN
      OBVIOUS
    <3>2. panes[q] = [tab |-> 0, name |-> s.name, title |-> s.title, suppressed |-> FALSE,
                      focused |-> b]
      BY <2>1
    <3> HIDE DEF b
    <3> QED
      BY <1>1, <2>2, <3>1, <3>2 DEF Entries
  <2>4. DOMAIN panes = Panes /\ DOMAIN live = Panes /\ DOMAIN tabs = 0 .. 1 - 1
    BY <1>2, <1>3
  <2>5. tabs[0] = [name |-> s.name, active |-> TRUE]
    BY <1>2, <1>3
  <2>6. \A t \in DOMAIN tabs : tabs[t] \in [name : TabNames, active : BOOLEAN]
    <3>1. DOMAIN tabs = {0}
      BY <1>3, <2>4
    <3>2. tabs[0] \in [name : TabNames, active : BOOLEAN]
      BY <1>1, <2>5
    <3> QED
      BY <3>1, <3>2
  <2> QED
    BY <1>1, <1>2, <2>2, <2>3, <2>4, <2>6 DEF TablesOK
<1>9. PanesTold
  BY <1>1, <1>2 DEF PanesTold
<1>10. TabsTold
  <2>1. DOMAIN viewing # {}
    BY <1>2
  <2>2. Speaker \in DOMAIN viewing
    BY <1>7, <2>1, LeastClient DEF Speaker
  <2>3. ActiveNow(0) = TRUE
    BY <1>2, <2>1, <2>2 DEF ActiveNow
  <2> QED
    BY <1>2, <1>3, <2>3 DEF TabsTold
<1> QED
  BY <1>2, <1>4, <1>5, <1>6, <1>7, <1>8, <1>9, <1>10, BoundsAreNumbers DEF PInv, SessionOK

\* No call has begun, and the plugin knows the session.
LEMMA InitAInv == AdapterInit => AInv
<1> SUFFICES ASSUME AdapterInit PROVE AInv
  OBVIOUS
<1>1. PICK s \in Starts : names = [t \in {0} |-> s.name] /\ Known(s.pane, s.title, s.client)
  BY DEF AdapterInit
<1>2. PInv /\ DOMAIN viewing # {}
  BY <1>1, KnownIsSound
<1> QED
  BY <1>2 DEF AdapterInit, AInv

\* Every step, and a stutter, keeps the invariant.
LEMMA NextAInv ==
  ASSUME AInv, [AdapterNext]_adapterVars
  PROVE  AInv'
<1>1. CASE World
  BY <1>1, WorldKeeps
<1>2. ASSUME NEW w \in Workers, NEW op \in {"capture", "wait", "close"}, NEW s \in Selectors,
             NEW force \in BOOLEAN, Begin(w, op, s, force)
      PROVE  AInv'
  BY <1>2, BeginKeeps
<1>3. ASSUME NEW w \in Workers, NEW i \in Intents, BeginAtPlace(w, i)
      PROVE  AInv'
  BY <1>3, BeginAtPlaceKeeps
<1>4. ASSUME NEW w \in Workers, CallStep(w)
      PROVE  AInv'
  BY <1>4, ResolveKeeps, UnsupportedKeeps, DumpKeeps, PollKeeps, CloseByIdKeeps, AdapterFocusKeeps,
     DumpFocusedKeeps, PollFocusedKeeps, CloseFocusedKeeps, AskZjctlKeeps, CloseViaZjctlKeeps,
     VerifyCloseKeeps, LostKeeps, LocateKeeps, DeliverKeeps DEF CallStep
<1>5. CASE UNCHANGED adapterVars
  <2>1. UNCHANGED vars /\ UNCHANGED session /\ ssh' = ssh /\ paneIds' = paneIds /\ call' = call
    BY <1>5 DEF adapterVars, vars
  <2>2. PInv'
    BY <2>1, NextPInv DEF AInv
  <2>3. ClientPane' = ClientPane
    BY <2>1, SameReports
  <2>4. gone' = gone /\ Seen' = Seen /\ viewing' = viewing
    BY <2>1 DEF vars, session, tables, Seen
  <2> QED
    BY <2>1, <2>2, <2>3, <2>4 DEF AInv
<1> QED
  BY <1>1, <1>2, <1>3, <1>4, <1>5 DEF AdapterNext

---------------------------------------------------------------------------
(* The theorems. *)

\* The invariant holds throughout.
LEMMA AdapterInvariant == AdapterSpec => []AInv
BY InitAInv, NextAInv, PTL DEF AdapterSpec

\* A call that is under way or over is sound.
LEMMA CallsAreSound ==
  ASSUME AInv, NEW c \in Calls
  PROVE  CallOK(c, ClientPane, gone, Seen, ssh, paneIds) /\ c \in CallRecords
<1>1. PICK w \in Workers : c = call[w] /\ call[w] # Idle
  BY DEF Calls
<1> QED
  BY <1>1 DEF AInv, CallOK

\* The records of the calls have the shape their commands give them, over a
\* session and tables that are well formed.
THEOREM AdapterTypeCorrect == AdapterSpec => []AdapterTypeOK
<1>1. AInv => AdapterTypeOK
  <2> SUFFICES ASSUME AInv PROVE AdapterTypeOK
    OBVIOUS
  <2>1. TypeOK
    BY DEF AInv, PInv, SessionOK, LiveOK, NamesOK, FocusOK, ViewOK, TablesOK, TypeOK
  <2>2. ASSUME NEW c \in Calls
        PROVE  /\ c.at \in {"resolve", "locate", "deliver", "act", "again", "focus", "by_focus", "zjctl", "verify", "done"}
               /\ c.target \in Panes \union {NoPane} /\ c.shown \in Panes \union {NoPane}
               /\ c.closed \subseteq Panes
               /\ c.wrote \subseteq Panes /\ c.named \subseteq Panes
               /\ (c.at = "done") <=> (c.result # "none")
               /\ c.refocused <=> (c.at = "by_focus")
    BY <2>2, CallsAreSound DEF CallOK, StagesOK, CallRecords, CallStages
  <2> QED
    BY <2>1, <2>2 DEF AdapterTypeOK, AInv
<1> QED
  BY <1>1, AdapterInvariant, PTL

\* A capture or a wait reads its target's screen, unless it went by the focus
\* and the focus was moved or the target had closed.
THEOREM CapturesShowTheirTarget == AdapterSpec => []ShowsItsTarget
<1>1. AInv => ShowsItsTarget
  <2> SUFFICES ASSUME AInv, NEW c \in Calls,
                      c.op \in {"capture", "wait"}, c.result = "ok", c.target # NoPane,
                      c.shown # c.target
               PROVE  ~paneIds /\ ssh /\ (c.moved \/ c.target \in gone)
    BY DEF ShowsItsTarget
  <2> QED
    BY CallsAreSound DEF CallOK, ShownOK, Strayed
<1> QED
  BY <1>1, AdapterInvariant, PTL

\* A send by place writes to the one pane its place names and to no other.
THEOREM SendsReachTheOne == AdapterSpec => []SendsToTheOne
<1>1. AInv => SendsToTheOne
  <2> SUFFICES ASSUME AInv, NEW c \in Calls, c.op = "send_to", c.result = "ok"
               PROVE  /\ c.wrote = {c.target} \/ (c.wrote = {} /\ c.target \in gone)
                      /\ c.named # {} => TheOne(c)
    BY DEF SendsToTheOne, TheOne
  <2> QED
    BY CallsAreSound DEF CallOK, SentOK
<1> QED
  BY <1>1, AdapterInvariant, PTL

\* A close closes its target and no other pane, with the same exceptions.
THEOREM ClosesReachTheirTarget == AdapterSpec => []ClosesOnlyItsTarget
<1>1. AInv => ClosesOnlyItsTarget
  <2> SUFFICES ASSUME AInv, NEW c \in Calls, c.target # NoPane, ~(c.closed \subseteq {c.target})
               PROVE  ~paneIds /\ ssh /\ (c.moved \/ c.target \in gone)
    BY DEF ClosesOnlyItsTarget
  <2> QED
    BY CallsAreSound DEF CallOK, ClosedOK, Strayed
<1> QED
  BY <1>1, AdapterInvariant, PTL

\* When a close says ok its pane is gone, although the answer rests on a table
\* that may be late: a pane is never forgotten by the table before it is gone.
THEOREM ReportedClosesAreTrue == AdapterSpec => []ReportedCloseIsTrue
<1>1. AInv => ReportedCloseIsTrue
  <2> SUFFICES ASSUME AInv, NEW c \in Calls, c.op = "close", c.result = "ok"
               PROVE  IF c.target # NoPane THEN c.target \in gone
                      ELSE c.closed # {} /\ c.closed \subseteq gone
    BY DEF ReportedCloseIsTrue
  <2> QED
    BY CallsAreSound DEF CallOK, ClosedOK
<1> QED
  BY <1>1, AdapterInvariant, PTL

=============================================================================
