-------------------------- MODULE PaneSpawnsProofs --------------------------
(***************************************************************************)
(* Proofs about PaneSpawns, for any number of spawns, requests, panes,     *)
(* tabs, failures and changes by the user: every spawn goes through its    *)
(* stages in order and names panes that were opened, a spawn that Zellij   *)
(* told its pane or that was alone binds the pane its command runs in,     *)
(* and a pane that is reused is in the tab that was named.                 *)
(***************************************************************************)
EXTENDS PaneSpawns, ZrpcPluginProofs

---------------------------------------------------------------------------
(* The inductive invariant.  What it says of one spawn s of w is stated    *)
(* over the kind of backend, the panes made (mk), the open ones (lv), the  *)
(* names of the tabs (nm), the tab the client looks at (eye) and all the   *)
(* spawns (sp), so that a step that leaves them alone carries it over.     *)

\* Everything a spawn may still do: what it has not given and what it gave that
\* has not happened.
Given(todo) == {todo[i] : i \in 1 .. Len(todo)}
Pending(s) == Given(s.todo) \union s.sent

Todos == {<<>>, <<"run">>, <<"new-tab">>, <<"new-tab", "run">>, <<"new-tab-command">>,
          <<"go-to-tab", "run">>}

Commands == {NoCommand} \union {r.command : r \in SpawnRequests}

TabTables == UNION {[0 .. k - 1 -> TabNames] : k \in 0 .. MaxTabs}

Early == {"tabs", "hints", "before"}
Looking == {"launch", "tabs_after", "after", "provisional"}

Attempt ==
  [at : Early \union Looking \union {"exec", "bound", "failed"}, request : SpawnRequests,
   todo : Todos, sent : SUBSET {"new-tab", "go-to-tab", "run"},
   hints : SUBSET Panes, before : SUBSET Panes, blind : BOOLEAN, tabNames : TabTables,
   alone : BOOLEAN, pane : Panes \union {NoPane},
   how : {"none", "reuse", "printed", "searched", "reconciled"}, sure : BOOLEAN]

\* What the stage of a spawn says of it: it finds a pane once, by one way, and
\* gives its commands in the order of its plan.
Stage(s, ssh) ==
  /\ s.at \in Early => s.todo = <<>> /\ s.sent = {}
  /\ s.at \in Early \union {"launch", "provisional"} => s.pane = NoPane
  /\ s.at \notin {"exec", "bound", "failed"} => s.how = "none"
  /\ s.at \in {"exec", "bound"} => s.pane # NoPane
  /\ s.at = "exec" => s.how = "searched"
  /\ s.at = "launch" => s.todo # <<>>
  /\ s.at \in {"tabs_after", "after", "provisional"} => s.todo = <<>>
  /\ s.at \in {"tabs_after", "after"} \/ s.how \in {"reuse", "printed", "searched"} => s.sent = {}
  /\ s.how \in {"reuse", "printed", "reconciled"} => s.at = "bound"
  /\ s.at = "provisional" \/ s.sent # {} => ssh
  /\ s.at = "tabs" => ~ssh
  /\ s.sent # {} => s.todo \in {<<>>, <<"run">>}
  /\ "run" \in s.sent => s.todo = <<>>
  /\ s.todo = <<"new-tab-command">> => s.request.tab # "any"

\* A pane a spawn knows of has been opened.
Known(s, mk) ==
  /\ s.hints \union s.before \subseteq DOMAIN mk
  /\ s.pane \in DOMAIN mk \union {NoPane}

Of(w, mk) == {p \in DOMAIN mk : mk[p].by = w}

\* A pane Zellij printed is the one the spawn opened for its command; only a
\* spawn that takes it for its own may have started a shell there.
Taken(w, p, sp) == \E v \in Spawners \ {w} : sp[v] # NotYet /\ sp[v].pane = p

Printed(w, s, mk, sp) ==
  (s.how = "printed" \/ (s.at \in {"tabs_after", "after"} /\ s.pane # NoPane)) =>
    /\ s.pane \in Of(w, mk)
    /\ mk[s.pane].command = s.request.command \/ Taken(w, s.pane, sp)

\* The names a lone spawn listed are those of the session.
Reused(s, lv, nm) ==
  /\ s.alone /\ s.at \in Early => s.tabNames \in {nm, NoNames}
  /\ s.how = "reuse" /\ s.sure /\ s.alone =>
       s.pane \in DOMAIN lv /\ nm[lv[s.pane].tab] = s.request.tab

\* The panes of the session are those that were there and those the spawn opened.
Since(w, ids, mk, lv) == DOMAIN lv = ids \union Of(w, mk) /\ ids \intersect Of(w, mk) = {}

\* What a lone spawn has opened: nothing yet; the shell of its new tab, which the
\* client looks at; that shell or its command's pane, or both in one tab, and
\* nothing else to come.
Plans == {{"new-tab"}, {"new-tab", "run"}, {"run"}, {"new-tab-command"}, {"go-to-tab", "run"}}

NothingYet(own, s) ==
  own = {} /\ Pending(s) \in Plans /\ (Pending(s) = {"new-tab"} => s.request.default)

TabOnly(own, s, lv, eye) ==
  \E q \in own : own = {q} /\ Pending(s) = {"run"} /\ lv[q].title = Untitled /\ lv[q].tab = eye

OnePane(own, s, mk) ==
  \E q \in own : /\ own = {q} /\ Pending(s) = {}
                 /\ mk[q].command = s.request.command \/ s.request.default

TabAndPane(own, s, mk, lv) ==
  \E q, p \in own :
    /\ own = {q, p} /\ q # p /\ Pending(s) = {} /\ lv[q].tab = lv[p].tab
    /\ lv[q].title = Untitled /\ lv[p].title = TitleOf(s.request)
    /\ mk[p].command = s.request.command

Opened(own, s, mk, lv, eye) ==
  \/ NothingYet(own, s) \/ TabOnly(own, s, lv, eye)
  \/ OnePane(own, s, mk) \/ TabAndPane(own, s, mk, lv)

Searching(w, s, ssh, mk, lv, eye) ==
  s.alone /\ ~s.blind =>
    /\ s.at = "before" /\ ssh => s.hints = DOMAIN lv
    /\ s.at \in Looking => /\ Since(w, s.before, mk, lv) /\ (ssh => Since(w, s.hints, mk, lv))
                           /\ Opened(Of(w, mk), s, mk, lv, eye)

Found(w, s, mk) ==
  s.alone /\ s.sure /\ s.how \in {"searched", "reconciled"} =>
    /\ s.sent = {} /\ s.pane \in Of(w, mk)
    /\ mk[s.pane].command = s.request.command \/ (s.request.default /\ Of(w, mk) = {s.pane})

SpawnInv(w, s, ssh, mk, lv, nm, eye, sp) ==
  /\ s \in Attempt /\ Stage(s, ssh)
  /\ Known(s, mk)
  /\ Printed(w, s, mk, sp)
  /\ Reused(s, lv, nm)
  /\ s.at \in Early => Of(w, mk) = {}
  /\ Searching(w, s, ssh, mk, lv, eye)
  /\ Found(w, s, mk)

SpawnAt(w, s, ssh, mk, lv, nm, eye, sp) ==
  /\ s = NotYet => Of(w, mk) = {}
  /\ s # NotYet => SpawnInv(w, s, ssh, mk, lv, nm, eye, sp)

MadeOK(mk, lv, gn) ==
  /\ DOMAIN mk = DOMAIN lv \union gn
  /\ DOMAIN mk \subseteq Terminals
  /\ \A p \in DOMAIN mk : mk[p] \in [by : Spawners \union {User}, command : Commands]

Eye == viewing[Speaker]

WorldOK ==
  /\ PInv /\ DOMAIN viewing # {}
  /\ MadeOK(made, live, gone)
  /\ lost \in 0 .. MaxLost

BInv ==
  /\ WorldOK
  /\ DOMAIN spawn = Spawners
  /\ \A w \in Spawners : SpawnAt(w, spawn[w], host.ssh, made, live, names, Eye, spawn)

---------------------------------------------------------------------------
(* Lemmas about the plans and the session. *)

\* What a plan still asks for.
LEMMA GivenIs ==
  /\ Given(<<>>) = {} /\ Given(<<"run">>) = {"run"} /\ Given(<<"new-tab">>) = {"new-tab"}
  /\ Given(<<"new-tab", "run">>) = {"new-tab", "run"}
  /\ Given(<<"new-tab-command">>) = {"new-tab-command"}
  /\ Given(<<"go-to-tab", "run">>) = {"go-to-tab", "run"}
<1>1. 1 .. 0 = {} /\ 1 .. 1 = {1} /\ 1 .. 2 = {1, 2}
  OBVIOUS
<1>2. Given(<<>>) = {}
  BY DEF Given
<1>3. /\ Given(<<"run">>) = {"run"} /\ Given(<<"new-tab">>) = {"new-tab"}
      /\ Given(<<"new-tab-command">>) = {"new-tab-command"}
  BY <1>1 DEF Given
<1>4. Given(<<"new-tab", "run">>) = {"new-tab", "run"}
  BY <1>1 DEF Given
<1>5. Given(<<"go-to-tab", "run">>) = {"go-to-tab", "run"}
  BY <1>1 DEF Given
<1> QED  BY <1>2, <1>3, <1>4, <1>5

\* The first command of a plan and the rest of it.
LEMMA TodoStep ==
  ASSUME NEW t \in Todos, t # <<>>
  PROVE  \/ /\ t \in {<<"run">>, <<"new-tab">>, <<"new-tab-command">>}
            /\ Tail(t) = <<>> /\ t = <<Head(t)>> /\ Len(t) = 1
         \/ /\ t \in {<<"new-tab", "run">>, <<"go-to-tab", "run">>}
            /\ Tail(t) = <<"run">> /\ t = <<Head(t), "run">> /\ Len(t) = 2
<1>1. CASE t = <<"run">>  BY <1>1
<1>2. CASE t = <<"new-tab">>  BY <1>2
<1>3. CASE t = <<"new-tab-command">>  BY <1>3
<1>4. CASE t = <<"new-tab", "run">>  BY <1>4
<1>5. CASE t = <<"go-to-tab", "run">>  BY <1>5
<1> QED  BY <1>1, <1>2, <1>3, <1>4, <1>5 DEF Todos

\* The session numbers its panes without fail: the next one is one that never was.
LEMMA NextPaneIs ==
  ASSUME Unopened # {}
  PROVE  NextPane \in Unopened
<1> DEFINE T == {p.n : p \in Unopened}
<1>1. T \subseteq Nat /\ T # {}
  BY PanesAreIds DEF Unopened, Terminals
<1>2. PICK x \in T : \A y \in T : x <= y
  BY <1>1, LeastNatural
<1>3. PICK p \in Unopened : p.n = x
  OBVIOUS
<1>4. \E p1 \in Unopened : \A q \in Unopened : p1.n <= q.n
  BY <1>2, <1>3
<1> QED  BY <1>4 DEF NextPane

\* The client looks at one of the tabs.
LEMMA EyeIsOpen ==
  ASSUME WorldOK
  PROVE  Speaker \in DOMAIN viewing /\ Eye \in Positions
<1>1. ViewOK /\ DOMAIN viewing # {}
  BY DEF WorldOK, PInv, SessionOK
<1>2. Speaker \in DOMAIN viewing
  BY <1>1, LeastClient DEF Speaker
<1> QED  BY <1>1, <1>2 DEF ViewOK, Eye

---------------------------------------------------------------------------
(* What a step carries over. *)

\* A spawn that has begun is told from one that has not by its record.
LEMMA BegunIs ==
  ASSUME NEW s \in Attempt
  PROVE  s # NotYet /\ [s EXCEPT !.alone = FALSE] \in Attempt
<1>1. s.at # "none"
  BY DEF Attempt, Early, Looking
<1>2. s # NotYet
  BY <1>1 DEF NotYet
<1>3. [s EXCEPT !.alone = FALSE] \in Attempt
  BY DEF Attempt
<1> QED  BY <1>2, <1>3

\* A spawn that is no longer alone is held to little: its own panes, and that the
\* one Zellij printed has its command unless another takes it.
LEMMA NoticeKeeps ==
  ASSUME NEW v, NEW s, NEW ssh, NEW mk, NEW lv, NEW nm, NEW eye, NEW sp,
         NEW mk2, NEW lv2, NEW nm2, NEW eye2, NEW sp2,
         SpawnInv(v, s, ssh, mk, lv, nm, eye, sp),
         DOMAIN mk \subseteq DOMAIN mk2, Of(v, mk2) = Of(v, mk),
         \A p \in Of(v, mk) : mk2[p].command = mk[p].command \/ Taken(v, p, sp2),
         \A p \in DOMAIN mk : Taken(v, p, sp) => Taken(v, p, sp2)
  PROVE  SpawnInv(v, [s EXCEPT !.alone = FALSE], ssh, mk2, lv2, nm2, eye2, sp2)
<1> DEFINE t == [s EXCEPT !.alone = FALSE]
<1>1. s \in Attempt /\ t \in Attempt
  BY BegunIs DEF SpawnInv
<1>2. /\ t.at = s.at /\ t.request = s.request /\ t.todo = s.todo /\ t.sent = s.sent
      /\ t.hints = s.hints /\ t.before = s.before /\ t.blind = s.blind /\ t.pane = s.pane
      /\ t.how = s.how /\ t.sure = s.sure /\ t.alone = FALSE
  BY <1>1 DEF Attempt
<1> HIDE DEF t
<1>3. Stage(t, ssh)
  BY <1>2 DEF SpawnInv, Stage
<1>4. Known(t, mk2)
  BY <1>2 DEF SpawnInv, Known
<1>5. Printed(v, t, mk2, sp2)
  <2>1. Printed(v, s, mk, sp)
    BY DEF SpawnInv
  <2>2. \A p \in Of(v, mk) : p \in DOMAIN mk
    BY DEF Of
  <2> QED  BY <1>2, <2>1, <2>2 DEF Printed
<1>6. Reused(t, lv2, nm2) /\ Found(v, t, mk2) /\ Searching(v, t, ssh, mk2, lv2, eye2)
  BY <1>2 DEF Reused, Found, Searching
<1>7. t.at \in Early => Of(v, mk2) = {}
  BY <1>2 DEF SpawnInv
<1> QED  BY <1>1, <1>3, <1>4, <1>5, <1>6, <1>7 DEF SpawnInv, t

\* What is said of a spawn says of the others only what they take.
LEMMA TakenCarries ==
  ASSUME NEW v, NEW s, NEW ssh, NEW mk, NEW lv, NEW nm, NEW eye, NEW sp, NEW sp2,
         SpawnInv(v, s, ssh, mk, lv, nm, eye, sp),
         \A p \in DOMAIN mk : Taken(v, p, sp) => Taken(v, p, sp2)
  PROVE  SpawnInv(v, s, ssh, mk, lv, nm, eye, sp2)
<1>1. Printed(v, s, mk, sp2)
  BY DEF SpawnInv, Printed, Of
<1> QED  BY <1>1 DEF SpawnInv

\* Spawns keep the panes they have, so what was taken stays taken.
LEMMA PanesStay ==
  ASSUME NEW sp, NEW sp2, NEW mk, NoPane \notin DOMAIN mk,
         \A v \in Spawners : sp[v] # NotYet =>
           sp2[v] # NotYet /\ (sp[v].pane # NoPane => sp2[v].pane = sp[v].pane),
         NEW w
  PROVE  \A p \in DOMAIN mk : Taken(w, p, sp) => Taken(w, p, sp2)
<1> SUFFICES ASSUME NEW p \in DOMAIN mk, Taken(w, p, sp) PROVE Taken(w, p, sp2)
  OBVIOUS
<1>1. PICK v \in Spawners \ {w} : sp[v] # NotYet /\ sp[v].pane = p
  BY DEF Taken
<1>2. sp2[v] # NotYet /\ sp2[v].pane = p
  BY <1>1
<1> QED  BY <1>2 DEF Taken

\* Every pane made is a pane, so no pane is not among them.
LEMMA MadeArePanes ==
  ASSUME WorldOK
  PROVE  /\ DOMAIN made = DOMAIN live \union gone /\ DOMAIN made \subseteq Panes
         /\ NoPane \notin DOMAIN made
         /\ \A p \in DOMAIN made : ~p.plugin
BY PanesAreFinite DEF WorldOK, MadeOK, Terminals

\* A step of one spawn that leaves the session and the panes alone.
LEMMA QuietStep ==
  ASSUME BInv, NEW w \in Spawners, NEW s, Now(w, s), WorldOK',
         UNCHANGED <<live, names, viewing, made, host>>,
         SpawnInv(w, s, host.ssh, made, live, names, Eye, spawn),
         spawn[w] # NotYet /\ spawn[w].pane # NoPane => s.pane = spawn[w].pane
  PROVE  BInv'
<1>1. DOMAIN spawn' = Spawners /\ spawn'[w] = s
      /\ \A v \in Spawners \ {w} : spawn'[v] = spawn[v]
  BY DEF BInv, Now
<1>2. s # NotYet
  BY BegunIs DEF SpawnInv
<1>3. NoPane \notin DOMAIN made
  BY MadeArePanes DEF BInv
<1>4. \A v \in Spawners : spawn[v] # NotYet =>
        spawn'[v] # NotYet /\ (spawn[v].pane # NoPane => spawn'[v].pane = spawn[v].pane)
  BY <1>1, <1>2
<1>5. \A v \in Spawners, p \in DOMAIN made : Taken(v, p, spawn) => Taken(v, p, spawn')
  BY <1>3, <1>4, PanesStay
<1>6. Eye' = Eye
  BY DEF Eye, Speaker, FirstClient
<1>7. ASSUME NEW v \in Spawners
      PROVE  SpawnAt(v, spawn'[v], host.ssh, made, live, names, Eye, spawn')
  <2>1. CASE v = w
    <3>1. SpawnInv(w, s, host.ssh, made, live, names, Eye, spawn')
      BY <1>5, TakenCarries
    <3> QED  BY <2>1, <3>1, <1>1, <1>2 DEF SpawnAt
  <2>2. CASE v # w
    <3>1. SpawnAt(v, spawn[v], host.ssh, made, live, names, Eye, spawn) /\ spawn'[v] = spawn[v]
      BY <2>2, <1>1 DEF BInv
    <3>2. spawn[v] # NotYet => SpawnInv(v, spawn[v], host.ssh, made, live, names, Eye, spawn')
      BY <3>1, <1>5, TakenCarries DEF SpawnAt
    <3> QED  BY <3>1, <3>2 DEF SpawnAt
  <2> QED  BY <2>1, <2>2
<1>8. /\ host' = host /\ made' = made /\ live' = live /\ names' = names
  OBVIOUS
<1>9. \A v \in Spawners : SpawnAt(v, spawn'[v], host'.ssh, made', live', names', Eye', spawn')
  BY <1>6, <1>7, <1>8
<1> QED  BY <1>1, <1>9 DEF BInv

\* The spawns a step of somebody else finds.
LEMMA OthersNotice ==
  ASSUME BInv, NEW v \in Spawners, UNCHANGED host,
         spawn'[v] = IF spawn[v] = NotYet THEN NotYet ELSE [spawn[v] EXCEPT !.alone = FALSE],
         DOMAIN made \subseteq DOMAIN made', Of(v, made') = Of(v, made),
         \A p \in Of(v, made) : made'[p].command = made[p].command \/ Taken(v, p, spawn'),
         \A p \in DOMAIN made : Taken(v, p, spawn) => Taken(v, p, spawn')
  PROVE  SpawnAt(v, spawn'[v], host'.ssh, made', live', names', Eye', spawn')
<1>1. SpawnAt(v, spawn[v], host.ssh, made, live, names, Eye, spawn)
  BY DEF BInv
<1>2. CASE spawn[v] = NotYet
  BY <1>1, <1>2 DEF SpawnAt
<1>3. CASE spawn[v] # NotYet
  <2>1. SpawnInv(v, spawn[v], host.ssh, made, live, names, Eye, spawn)
    BY <1>1, <1>3 DEF SpawnAt
  <2>2. SpawnInv(v, [spawn[v] EXCEPT !.alone = FALSE], host.ssh, made', live', names', Eye', spawn')
    BY <2>1, NoticeKeeps
  <2>3. [spawn[v] EXCEPT !.alone = FALSE] # NotYet
    BY <2>2, BegunIs DEF SpawnInv
  <2> QED  BY <1>3, <2>2, <2>3 DEF SpawnAt
<1> QED  BY <1>2, <1>3

\* The pane of a spawn stays its pane when others act.
LEMMA NoticedPane ==
  ASSUME BInv, NEW v \in Spawners, spawn[v] # NotYet
  PROVE  /\ [spawn[v] EXCEPT !.alone = FALSE] # NotYet
         /\ [spawn[v] EXCEPT !.alone = FALSE].pane = spawn[v].pane
<1>1. spawn[v] \in Attempt
  BY DEF BInv, SpawnAt, SpawnInv
<1>2. [spawn[v] EXCEPT !.alone = FALSE] # NotYet
  BY <1>1, BegunIs
<1>3. [spawn[v] EXCEPT !.alone = FALSE].pane = spawn[v].pane
  BY <1>1 DEF Attempt
<1> QED  BY <1>2, <1>3

\* A step of one spawn on the session: it opens panes of its own, and changes the
\* command of its own pane.
LEMMA ActingStep ==
  ASSUME BInv, NEW w \in Spawners, NEW s, Acts(w, s), WorldOK', UNCHANGED host,
         DOMAIN made \subseteq DOMAIN made',
         \A v \in Spawners \ {w} : Of(v, made') = Of(v, made),
         \A p \in DOMAIN made : made'[p].command = made[p].command \/ s.pane = p,
         SpawnInv(w, s, host.ssh, made', live', names', Eye', spawn),
         spawn[w] # NotYet, spawn[w].pane # NoPane => s.pane = spawn[w].pane
  PROVE  BInv'
<1>1. /\ DOMAIN spawn' = Spawners /\ spawn'[w] = s
      /\ \A v \in Spawners \ {w} :
           spawn'[v] = IF spawn[v] = NotYet THEN NotYet ELSE [spawn[v] EXCEPT !.alone = FALSE]
  BY DEF Acts
<1>2. s # NotYet
  BY BegunIs DEF SpawnInv
<1>3. NoPane \notin DOMAIN made
  BY MadeArePanes DEF BInv
<1>4. \A v \in Spawners : spawn[v] # NotYet =>
        spawn'[v] # NotYet /\ (spawn[v].pane # NoPane => spawn'[v].pane = spawn[v].pane)
  BY <1>1, <1>2, NoticedPane
<1>5. \A v \in Spawners, p \in DOMAIN made : Taken(v, p, spawn) => Taken(v, p, spawn')
  BY <1>3, <1>4, PanesStay
<1>6. \A v \in Spawners \ {w} : Taken(v, s.pane, spawn')
  BY <1>1, <1>2 DEF Taken
<1>7. \A v \in Spawners \ {w} : SpawnAt(v, spawn'[v], host'.ssh, made', live', names', Eye', spawn')
  <2> TAKE v \in Spawners \ {w}
  <2>1. \A p \in Of(v, made) : made'[p].command = made[p].command \/ Taken(v, p, spawn')
    BY <1>6 DEF Of
  <2> QED  BY <2>1, <1>1, <1>5, OthersNotice
<1>8. \A p : Taken(w, p, spawn) => Taken(w, p, spawn')
  BY <1>1, NoticedPane DEF Taken
<1>9. SpawnInv(w, s, host.ssh, made', live', names', Eye', spawn')
  BY <1>8, TakenCarries
<1>10. SpawnAt(w, spawn'[w], host'.ssh, made', live', names', Eye', spawn')
  BY <1>1, <1>2, <1>9 DEF SpawnAt
<1> QED  BY <1>1, <1>7, <1>10 DEF BInv

---------------------------------------------------------------------------
(* The session and the listings. *)

\* A step that acts on nothing keeps the session, the plugin and the panes.
LEMMA KeepWorld ==
  ASSUME WorldOK, Keep, lost' \in 0 .. MaxLost
  PROVE  WorldOK' /\ UNCHANGED <<live, names, viewing, made, host>> /\ Eye' = Eye
<1>1. /\ UNCHANGED session /\ UNCHANGED tables
      /\ changes' = changes /\ news' = news /\ granted' = granted /\ timer' = timer
      /\ host' = host /\ made' = made
  BY DEF Keep
<1>2. live' = live /\ gone' = gone /\ names' = names /\ viewing' = viewing
  BY <1>1 DEF session
<1>3. SessionOK' /\ Forgetless
  BY <1>1, SameReports DEF WorldOK, PInv
<1>4. PInv'
  BY <1>1, <1>3, ReportedKeeps DEF WorldOK, PInv
<1>5. MadeOK(made', live', gone')
  BY <1>1, <1>2 DEF WorldOK
<1>6. Eye' = Eye
  BY <1>2 DEF Eye, Speaker, FirstClient
<1> QED  BY <1>1, <1>2, <1>4, <1>5, <1>6 DEF WorldOK

\* A listing has one line for every pane of the plugin's table.
LEMMA ListingIs ==
  ASSUME NEW w
  PROVE  /\ \A e \in Listing(w) : \E x \in ListPanes :
              /\ e.pane = x.pane /\ e.tab = x.tab /\ e.title = x.title /\ e.name = TabNameOf(w, x)
              /\ x.pane \in DOMAIN panes
         /\ \A p \in DOMAIN panes : \E e \in Listing(w) : e.pane = p
         /\ \A e, f \in Listing(w) : e.pane = f.pane => e = f
         /\ Ids(Listing(w)) = DOMAIN panes
<1> DEFINE Line(x) == [pane |-> x.pane, tab |-> x.tab, name |-> TabNameOf(w, x), title |-> x.title]
<1>1. Listing(w) = {Line(x) : x \in ListPanes}
  BY DEF Listing
<1>2. \A x \in ListPanes : x.pane \in DOMAIN panes
  BY Listed
<1>3. \A x, y \in ListPanes : x.pane = y.pane => x = y
  BY DEF ListPanes
<1>4. \A p \in DOMAIN panes : \E x \in ListPanes : x.pane = p
  BY Listed
<1>5. \A e \in Listing(w) : \E x \in ListPanes :
        /\ e.pane = x.pane /\ e.tab = x.tab /\ e.title = x.title /\ e.name = TabNameOf(w, x)
        /\ x.pane \in DOMAIN panes
  BY <1>1, <1>2
<1>6. \A e, f \in Listing(w) : e.pane = f.pane => e = f
  <2> SUFFICES ASSUME NEW x \in ListPanes, NEW y \in ListPanes, Line(x).pane = Line(y).pane
               PROVE  Line(x) = Line(y)
    BY <1>1
  <2>1. x.pane = y.pane
    OBVIOUS
  <2> QED  BY <2>1, <1>3
<1>7. \A p \in DOMAIN panes : \E e \in Listing(w) : e.pane = p
  <2> SUFFICES ASSUME NEW p \in DOMAIN panes PROVE \E e \in Listing(w) : e.pane = p
    OBVIOUS
  <2>1. PICK x \in ListPanes : x.pane = p
    BY <1>4
  <2>2. Line(x) \in Listing(w) /\ Line(x).pane = p
    BY <1>1, <2>1
  <2> QED  BY <2>2
<1>8. Ids(Listing(w)) = DOMAIN panes
  BY <1>5, <1>7 DEF Ids
<1> QED  BY <1>5, <1>6, <1>7, <1>8

\* A listing names panes that were opened.
LEMMA ListedWereMade ==
  ASSUME WorldOK, NEW w
  PROVE  /\ Ids(Listing(w)) \subseteq DOMAIN made
         /\ \A e \in Listing(w) : e.pane \in DOMAIN made
BY ListingIs DEF WorldOK, PInv, TablesOK, MadeOK

\* An up-to-date listing is the session's, under the names the spawn has for its
\* tabs.
LEMMA UpToDateListing ==
  ASSUME WorldOK, UpToDate, NEW w
  PROVE  /\ Ids(Listing(w)) = DOMAIN live
         /\ \A e \in Listing(w) :
              /\ e.pane \in DOMAIN live /\ e.tab = live[e.pane].tab /\ e.title = live[e.pane].title
              /\ e.name = IF ~host.ssh /\ e.tab \in DOMAIN spawn[w].tabNames
                          THEN spawn[w].tabNames[e.tab] ELSE names[e.tab]
<1>1. PanesTold /\ \A x \in ListPanes : x.name = names[x.tab]
  <2>1. SettledListIsTrue
    BY SettledList DEF WorldOK
  <2>2. "panes" \notin news
    BY DEF UpToDate, Settled
  <2> QED  BY <2>1, <2>2 DEF UpToDate, SettledListIsTrue, WorldOK, PInv
<1>2. \A x \in ListPanes : x.tab = panes[x.pane].tab /\ x.title = panes[x.pane].title
  BY Listed
<1>3. \A x \in ListPanes : TabNameOf(w, x) = IF ~host.ssh /\ x.tab \in DOMAIN spawn[w].tabNames
                                              THEN spawn[w].tabNames[x.tab] ELSE names[x.tab]
  BY <1>1 DEF TabNameOf
<1>4. \A e \in Listing(w) :
        /\ e.pane \in DOMAIN live /\ e.tab = live[e.pane].tab /\ e.title = live[e.pane].title
        /\ e.name = IF ~host.ssh /\ e.tab \in DOMAIN spawn[w].tabNames
                    THEN spawn[w].tabNames[e.tab] ELSE names[e.tab]
  <2> TAKE e \in Listing(w)
  <2>1. PICK x \in ListPanes : /\ e.pane = x.pane /\ e.tab = x.tab /\ e.title = x.title
                               /\ e.name = TabNameOf(w, x) /\ x.pane \in DOMAIN panes
    BY ListingIs
  <2> QED  BY <2>1, <1>1, <1>2, <1>3 DEF PanesTold
<1> QED  BY <1>1, <1>4, ListingIs DEF PanesTold

---------------------------------------------------------------------------
(* The steps of one spawn that act on nothing. *)

\* A spawn at a stage has begun, and keeps to its invariant.
LEMMA AtStage ==
  ASSUME BInv, NEW w \in Spawners, spawn[w].at # "none" \/ spawn[w] # NotYet
  PROVE  /\ spawn[w] # NotYet /\ spawn[w] \in Attempt
         /\ SpawnInv(w, spawn[w], host.ssh, made, live, names, Eye, spawn)
<1>1. spawn[w] # NotYet
  BY DEF NotYet
<1> QED  BY <1>1 DEF BInv, SpawnAt, SpawnInv

\* The names of the session are a table of tabs, and so is none.
LEMMA NamesAreTables ==
  ASSUME WorldOK
  PROVE  names \in TabTables /\ NoNames \in TabTables
<1>1. PICK k \in 1 .. MaxTabs : names \in [0 .. k - 1 -> TabNames]
  BY DEF WorldOK, PInv, SessionOK, NamesOK
<1>2. k \in 0 .. MaxTabs /\ 0 \in 0 .. MaxTabs
  BY <1>1, BoundsAreNumbers
<1>3. 0 .. 0 - 1 = {}
  OBVIOUS
<1>4. NoNames \in [0 .. 0 - 1 -> TabNames]
  BY <1>3 DEF NoNames
<1> QED  BY <1>1, <1>2, <1>4 DEF TabTables

\* A spawn starts.
LEMMA StartKeeps ==
  ASSUME BInv, NEW w \in Spawners, NEW r \in SpawnRequests, Start(w, r)
  PROVE  BInv'
<1> DEFINE s == Fresh(r)
<1>1. Keep /\ spawn[w] = NotYet /\ Now(w, s) /\ lost' = lost
  BY DEF Start
<1>2. WorldOK' /\ UNCHANGED <<live, names, viewing, made, host>>
  BY <1>1, KeepWorld DEF BInv, WorldOK
<1>3. /\ s.at = IF host.ssh THEN "hints" ELSE "tabs"
      /\ s.request = r /\ s.todo = <<>> /\ s.sent = {} /\ s.hints = {} /\ s.before = {}
      /\ s.blind = FALSE /\ s.tabNames = names /\ s.alone = TRUE
      /\ s.pane = NoPane /\ s.how = "none" /\ s.sure = FALSE
  BY DEF Fresh
<1>4. s \in Attempt
  <2>1. names \in TabTables
    BY NamesAreTables DEF BInv
  <2>2. <<>> \in Todos /\ s.at \in Early \union Looking \union {"exec", "bound", "failed"}
    BY <1>3 DEF Todos, Early
  <2> QED  BY <2>1, <2>2, <1>3 DEF Fresh, Attempt
<1> HIDE DEF s
<1>5. Stage(s, host.ssh)
  BY <1>3 DEF Stage, Early
<1>6. Known(s, made)
  BY <1>3 DEF Known
<1>7. Of(w, made) = {}
  BY <1>1 DEF BInv, SpawnAt
<1>8. /\ Printed(w, s, made, spawn) /\ Reused(s, live, names) /\ Found(w, s, made)
      /\ Searching(w, s, host.ssh, made, live, Eye)
  BY <1>3 DEF Printed, Reused, Found, Searching, Looking
<1>9. SpawnInv(w, s, host.ssh, made, live, names, Eye, spawn)
  BY <1>4, <1>5, <1>6, <1>7, <1>8 DEF SpawnInv
<1> QED  BY <1>1, <1>2, <1>9, QuietStep

\* Another failure is one more that was allowed.
LEMMA LostIsBounded ==
  ASSUME lost \in 0 .. MaxLost, lost' = lost \/ (lost < MaxLost /\ lost' = lost + 1)
  PROVE  lost' \in 0 .. MaxLost
BY LossesAreBounded

\* A spawn lists the names of the tabs.
LEMMA ListTabsKeeps ==
  ASSUME BInv, NEW w \in Spawners, ListTabs(w)
  PROVE  BInv'
<1>1. PICK table \in {names, NoNames} :
        Now(w, [spawn[w] EXCEPT !.tabNames = table, !.at = IF @ = "tabs" THEN "before" ELSE "after"])
  BY DEF ListTabs
<1>2. Keep /\ spawn[w].at \in {"tabs", "tabs_after"}
  BY DEF ListTabs
<1>3. lost' = lost \/ (lost < MaxLost /\ lost' = lost + 1)
  BY DEF ListTabs
<1>4. WorldOK' /\ UNCHANGED <<live, names, viewing, made, host>>
  BY <1>2, <1>3, LostIsBounded, KeepWorld DEF BInv, WorldOK
<1> DEFINE s == spawn[w]
           t == [s EXCEPT !.tabNames = table, !.at = IF @ = "tabs" THEN "before" ELSE "after"]
<1>5. s \in Attempt /\ SpawnInv(w, s, host.ssh, made, live, names, Eye, spawn)
  BY <1>2, AtStage
<1>6. /\ t.at = IF s.at = "tabs" THEN "before" ELSE "after"
      /\ t.request = s.request /\ t.todo = s.todo /\ t.sent = s.sent /\ t.hints = s.hints
      /\ t.before = s.before /\ t.blind = s.blind /\ t.tabNames = table /\ t.alone = s.alone
      /\ t.pane = s.pane /\ t.how = s.how /\ t.sure = s.sure
  BY <1>5 DEF Attempt
<1>7. t \in Attempt
  <2>1. table \in TabTables
    BY NamesAreTables DEF BInv
  <2> QED  BY <2>1, <1>5 DEF Attempt, Early, Looking
<1>8. Now(w, t) /\ s.at \in {"tabs", "tabs_after"}
  BY <1>1, <1>2
<1> HIDE DEF t, s
<1>9. Stage(t, host.ssh)
  BY <1>5, <1>6, <1>8 DEF SpawnInv, Stage, Early
<1>10. Known(t, made)
  BY <1>5, <1>6 DEF SpawnInv, Known
<1>11. Printed(w, t, made, spawn)
  BY <1>5, <1>6, <1>8 DEF SpawnInv, Printed
<1>12. Reused(t, live, names)
  BY <1>5, <1>6, <1>8 DEF SpawnInv, Stage, Reused, Early
<1>13. t.at \in Early => Of(w, made) = {}
  BY <1>5, <1>6, <1>8 DEF SpawnInv, Early
<1>14. Searching(w, t, host.ssh, made, live, Eye)
  <2> SUFFICES ASSUME t.alone, ~t.blind
               PROVE  /\ t.at = "before" /\ host.ssh => t.hints = DOMAIN live
                      /\ t.at \in Looking => /\ Since(w, t.before, made, live)
                                             /\ host.ssh => Since(w, t.hints, made, live)
                                             /\ Opened(Of(w, made), t, made, live, Eye)
    BY DEF Searching
  <2>1. CASE s.at = "tabs"
    BY <1>5, <1>6, <2>1 DEF SpawnInv, Stage, Looking
  <2>2. CASE s.at = "tabs_after"
    <3>1. /\ Since(w, s.before, made, live) /\ (host.ssh => Since(w, s.hints, made, live))
          /\ Opened(Of(w, made), s, made, live, Eye)
      BY <1>5, <1>6, <2>2 DEF SpawnInv, Searching, Looking
    <3>2. Opened(Of(w, made), t, made, live, Eye)
      BY <3>1, <1>6 DEF Opened, NothingYet, TabOnly, OnePane, TabAndPane, Pending
    <3> QED  BY <3>1, <3>2, <1>6, <2>2
  <2> QED  BY <1>8, <2>1, <2>2
<1>15. Found(w, t, made)
  BY <1>5, <1>6, <1>8 DEF SpawnInv, Stage, Found
<1>16. SpawnInv(w, t, host.ssh, made, live, names, Eye, spawn)
  BY <1>7, <1>9, <1>10, <1>11, <1>12, <1>13, <1>14, <1>15 DEF SpawnInv
<1> QED  BY <1>4, <1>6, <1>8, <1>16, QuietStep DEF s

\* The service lists the panes there are before it starts a remote spawn.
LEMMA HintsKeeps ==
  ASSUME BInv, NEW w \in Spawners, Hints(w)
  PROVE  BInv'
<1>1. PICK ids \in {Ids(Listing(w)), {}}, bad \in BOOLEAN :
        /\ Now(w, [spawn[w] EXCEPT !.at = "before", !.hints = ids, !.blind = bad])
        /\ ids = Ids(Listing(w)) \/ bad
        /\ ~bad => UpToDate /\ ids = Ids(Listing(w))
  <2>1. PICK late \in BOOLEAN : late <=> ~UpToDate
    OBVIOUS
  <2>2. late = (~UpToDate)
    BY <2>1
  <2> QED  BY <2>1, <2>2 DEF Hints
<1>2. Keep /\ spawn[w].at = "hints"
  BY DEF Hints
<1>3. lost' = lost \/ (lost < MaxLost /\ lost' = lost + 1)
  BY DEF Hints
<1>4. WorldOK' /\ UNCHANGED <<live, names, viewing, made, host>>
  BY <1>2, <1>3, LostIsBounded, KeepWorld DEF BInv, WorldOK
<1> DEFINE s == spawn[w]
           t == [s EXCEPT !.at = "before", !.hints = ids, !.blind = bad]
<1>5. s \in Attempt /\ SpawnInv(w, s, host.ssh, made, live, names, Eye, spawn)
  BY <1>2, AtStage
<1>6. /\ t.at = "before" /\ t.hints = ids /\ t.blind = bad
      /\ t.request = s.request /\ t.todo = s.todo /\ t.sent = s.sent
      /\ t.before = s.before /\ t.tabNames = s.tabNames /\ t.alone = s.alone
      /\ t.pane = s.pane /\ t.how = s.how /\ t.sure = s.sure
  BY <1>5 DEF Attempt
<1>7. ids \subseteq DOMAIN made /\ ids \subseteq Panes
  BY ListedWereMade, MadeArePanes DEF BInv
<1>8. t \in Attempt
  BY <1>5, <1>7 DEF Attempt, Early
<1>9. Now(w, t) /\ s.at = "hints"
  BY <1>1, <1>2
<1>10. ~bad => ids = DOMAIN live
  BY <1>1, UpToDateListing DEF BInv
<1> HIDE DEF t, s
<1>11. Stage(t, host.ssh)
  BY <1>5, <1>6, <1>9 DEF SpawnInv, Stage, Early
<1>12. Known(t, made)
  BY <1>5, <1>6, <1>7 DEF SpawnInv, Known
<1>13. Printed(w, t, made, spawn) /\ Found(w, t, made)
  BY <1>5, <1>6, <1>9 DEF SpawnInv, Stage, Printed, Found
<1>14. Reused(t, live, names)
  BY <1>5, <1>6, <1>9 DEF SpawnInv, Stage, Reused, Early
<1>15. Of(w, made) = {}
  BY <1>5, <1>9 DEF SpawnInv, Early
<1>16. Searching(w, t, host.ssh, made, live, Eye)
  BY <1>6, <1>10 DEF Searching, Looking
<1>17. SpawnInv(w, t, host.ssh, made, live, names, Eye, spawn)
  BY <1>8, <1>11, <1>12, <1>13, <1>14, <1>15, <1>16 DEF SpawnInv
<1> QED  BY <1>4, <1>6, <1>9, <1>17, QuietStep DEF s

\* A spawn fails.
LEMMA FailsKeeps ==
  ASSUME BInv, NEW w \in Spawners, Fails(w), WorldOK', UNCHANGED <<live, names, viewing, made, host>>,
         spawn[w].at \in {"before", "after", "exec", "launch"}
  PROVE  BInv'
<1> DEFINE s == spawn[w]
           t == [s EXCEPT !.at = "failed"]
<1>1. s \in Attempt /\ SpawnInv(w, s, host.ssh, made, live, names, Eye, spawn)
  BY AtStage
<1>2. /\ t.at = "failed" /\ t.hints = s.hints /\ t.blind = s.blind
      /\ t.request = s.request /\ t.todo = s.todo /\ t.sent = s.sent
      /\ t.before = s.before /\ t.tabNames = s.tabNames /\ t.alone = s.alone
      /\ t.pane = s.pane /\ t.how = s.how /\ t.sure = s.sure
  BY <1>1 DEF Attempt
<1>3. t \in Attempt
  BY <1>1 DEF Attempt
<1>4. Now(w, t) /\ s.at \in {"before", "after", "exec", "launch"}
  BY DEF Fails
<1> HIDE DEF t, s
<1>5. Stage(t, host.ssh)
  BY <1>1, <1>2, <1>4 DEF SpawnInv, Stage, Early
<1>6. Known(t, made)
  BY <1>1, <1>2 DEF SpawnInv, Known
<1>7. Printed(w, t, made, spawn)
  BY <1>1, <1>2, <1>4 DEF SpawnInv, Stage, Printed
<1>8. Reused(t, live, names)
  BY <1>1, <1>2, <1>4 DEF SpawnInv, Stage, Reused, Early
<1>9. Searching(w, t, host.ssh, made, live, Eye)
  BY <1>2 DEF Searching, Looking
<1>10. Found(w, t, made)
  BY <1>1, <1>2 DEF SpawnInv, Found
<1>11. t.at \notin Early
  BY <1>2 DEF Early
<1>12. SpawnInv(w, t, host.ssh, made, live, names, Eye, spawn)
  BY <1>3, <1>5, <1>6, <1>7, <1>8, <1>9, <1>10, <1>11 DEF SpawnInv
<1> QED  BY <1>2, <1>4, <1>12, QuietStep DEF s

\* A list or an awaited command fails.
LEMMA RefusedKeeps ==
  ASSUME BInv, NEW w \in Spawners, Refused(w)
  PROVE  BInv'
<1>1. Keep /\ lost < MaxLost /\ lost' = lost + 1 /\ Fails(w)
  BY DEF Refused
<1>2. WorldOK' /\ UNCHANGED <<live, names, viewing, made, host>>
  BY <1>1, LostIsBounded, KeepWorld DEF BInv, WorldOK
<1>3. spawn[w].at \in {"before", "after", "exec", "launch"}
  BY DEF Refused
<1> QED  BY <1>1, <1>2, <1>3, FailsKeeps

\* What is opened depends on what is still to come, not on how it was given.
LEMMA OpenedCarries ==
  ASSUME NEW own, NEW s, NEW t, NEW mk, NEW lv, NEW eye,
         Opened(own, s, mk, lv, eye), Pending(t) = Pending(s), t.request = s.request
  PROVE  Opened(own, t, mk, lv, eye)
BY DEF Opened, NothingYet, TabOnly, OnePane, TabAndPane

\* The commands a remote launch does not wait for: all but a tab that opens the
\* program itself.
LEMMA DetachedTodo ==
  ASSUME NEW t \in Todos, t # <<>>, ~(Len(t) = 1 /\ Head(t) \in {"new-tab", "new-tab-command"})
  PROVE  \/ t = <<"run">> /\ Head(t) = "run" /\ Tail(t) = <<>>
         \/ t = <<"new-tab", "run">> /\ Head(t) = "new-tab" /\ Tail(t) = <<"run">>
         \/ t = <<"go-to-tab", "run">> /\ Head(t) = "go-to-tab" /\ Tail(t) = <<"run">>
<1>1. CASE t = <<"run">>  BY <1>1
<1>2. CASE t = <<"new-tab">>  BY <1>2
<1>3. CASE t = <<"new-tab-command">>  BY <1>3
<1>4. CASE t = <<"new-tab", "run">>  BY <1>4
<1>5. CASE t = <<"go-to-tab", "run">>  BY <1>5
<1> QED  BY <1>1, <1>2, <1>3, <1>4, <1>5 DEF Todos

\* A remote launch sends a command and does not wait for it.
LEMMA Detach1Keeps ==
  ASSUME BInv, NEW w \in Spawners, Detach1(w)
  PROVE  BInv'
<1> DEFINE s == spawn[w]
           t == [s EXCEPT !.sent = @ \union {Head(s.todo)}, !.todo = Tail(@),
                          !.at = IF Tail(s.todo) = <<>> THEN "provisional" ELSE @]
<1>1. Keep /\ s.at = "launch" /\ ~Awaited(w) /\ Now(w, t) /\ lost' = lost
  BY DEF Detach1
<1>2. WorldOK' /\ UNCHANGED <<live, names, viewing, made, host>>
  BY <1>1, KeepWorld DEF BInv, WorldOK
<1>3. s \in Attempt /\ SpawnInv(w, s, host.ssh, made, live, names, Eye, spawn)
  BY <1>1, AtStage
<1>4. s.todo \in Todos /\ s.todo # <<>>
  BY <1>1, <1>3 DEF Attempt, SpawnInv, Stage
<1>5. host.ssh /\ ~(Len(s.todo) = 1 /\ Head(s.todo) \in {"new-tab", "new-tab-command"})
  BY <1>1 DEF Awaited
<1>6. \/ s.todo = <<"run">> /\ Head(s.todo) = "run" /\ Tail(s.todo) = <<>>
      \/ s.todo = <<"new-tab", "run">> /\ Head(s.todo) = "new-tab" /\ Tail(s.todo) = <<"run">>
      \/ s.todo = <<"go-to-tab", "run">> /\ Head(s.todo) = "go-to-tab" /\ Tail(s.todo) = <<"run">>
  BY <1>4, <1>5, DetachedTodo
<1>7. /\ t.at = IF Tail(s.todo) = <<>> THEN "provisional" ELSE s.at
      /\ t.hints = s.hints /\ t.blind = s.blind /\ t.request = s.request
      /\ t.todo = Tail(s.todo) /\ t.sent = s.sent \union {Head(s.todo)}
      /\ t.before = s.before /\ t.tabNames = s.tabNames /\ t.alone = s.alone
      /\ t.pane = s.pane /\ t.how = s.how /\ t.sure = s.sure
  BY <1>3 DEF Attempt
<1>8. Tail(s.todo) \in Todos /\ Head(s.todo) \in {"new-tab", "go-to-tab", "run"}
  BY <1>6 DEF Todos
<1>9. t \in Attempt
  BY <1>3, <1>8 DEF Attempt, Looking
<1> HIDE DEF t, s
<1>10. Tail(s.todo) = <<>> <=> Head(s.todo) = "run"
  <2>1. <<"run">> # <<>>
    OBVIOUS
  <2>2. CASE Tail(s.todo) = <<>>
    BY <1>6, <2>1, <2>2
  <2>3. CASE Tail(s.todo) = <<"run">>
    BY <1>6, <2>1, <2>3
  <2> QED  BY <1>6, <2>2, <2>3
<1>11. Tail(s.todo) \in {<<>>, <<"run">>}
  BY <1>6
<1>12. Stage(t, host.ssh)
  <2>1. s.pane = NoPane /\ s.how = "none" /\ "run" \notin s.sent
    BY <1>1, <1>3, <1>4 DEF SpawnInv, Stage, Early
  <2>2. t.at \in {"launch", "provisional"} /\ (t.at = "launch" => t.todo = <<"run">>)
        /\ (t.at = "provisional" => t.todo = <<>>)
    BY <1>1, <1>7, <1>11
  <2>3. <<"run">> # <<>> /\ <<"run">> # <<"new-tab-command">> /\ <<>> # <<"new-tab-command">>
    OBVIOUS
  <2>4. "run" \in t.sent => t.todo = <<>>
    BY <2>1, <1>7, <1>10
  <2>5. t.todo \in {<<>>, <<"run">>} /\ t.pane = NoPane /\ t.how = "none"
    BY <2>1, <1>7, <1>11
  <2>6. t.todo # <<"new-tab-command">> /\ (t.at = "launch" => t.todo # <<>>)
    BY <2>2, <2>3, <2>5
  <2> QED  BY <2>2, <2>4, <2>5, <2>6, <1>5 DEF Stage, Early
<1>13. Known(t, made)
  BY <1>3, <1>7 DEF SpawnInv, Known
<1>14. s.how = "none" /\ s.pane = NoPane /\ t.at \notin Early
  BY <1>1, <1>3, <1>7 DEF SpawnInv, Stage, Early
<1>15. Printed(w, t, made, spawn) /\ Reused(t, live, names) /\ Found(w, t, made)
  BY <1>14, <1>7 DEF Printed, Reused, Found
<1>16. Pending(t) = Pending(s)
  <2>1. Given(s.todo) = Given(Tail(s.todo)) \union {Head(s.todo)}
    BY <1>6, GivenIs
  <2> QED  BY <2>1, <1>7 DEF Pending
<1>17. Searching(w, t, host.ssh, made, live, Eye)
  <2>1. s.at \in Looking /\ t.at # "before"
    BY <1>1, <1>7, <1>11 DEF Looking
  <2> QED  BY <2>1, <1>3, <1>7, <1>16, OpenedCarries DEF SpawnInv, Searching
<1>18. SpawnInv(w, t, host.ssh, made, live, names, Eye, spawn)
  BY <1>9, <1>12, <1>13, <1>14, <1>15, <1>17 DEF SpawnInv
<1> QED  BY <1>1, <1>2, <1>7, <1>18, QuietStep DEF s

---------------------------------------------------------------------------
(* Finding a pane. *)

\* What a plan may be: a reuse, a refusal, or commands that end with one pane for
\* the request's command.
WellPlanned(r, todo) ==
  /\ todo \in Todos /\ todo # <<>> /\ Given(todo) \in Plans
  /\ Given(todo) = {"new-tab"} => r.default
  /\ todo = <<"new-tab-command">> => r.tab # "any"

\* Every launch that is planned is well planned.
LEMMA TodosArePlanned ==
  ASSUME NEW r
  PROVE  /\ WellPlanned(r, <<"run">>) /\ WellPlanned(r, <<"new-tab", "run">>)
         /\ WellPlanned(r, <<"go-to-tab", "run">>)
         /\ r.default => WellPlanned(r, <<"new-tab">>)
         /\ r.tab # "any" => WellPlanned(r, <<"new-tab-command">>)
<1>1. WellPlanned(r, <<"run">>)
  BY GivenIs DEF WellPlanned, Todos, Plans
<1>2. WellPlanned(r, <<"new-tab", "run">>)
  BY GivenIs DEF WellPlanned, Todos, Plans
<1>3. WellPlanned(r, <<"go-to-tab", "run">>)
  BY GivenIs DEF WellPlanned, Todos, Plans
<1>4. r.default => WellPlanned(r, <<"new-tab">>)
  BY GivenIs DEF WellPlanned, Todos, Plans
<1>5. r.tab # "any" => WellPlanned(r, <<"new-tab-command">>)
  BY GivenIs DEF WellPlanned, Todos, Plans
<1> QED  BY <1>1, <1>2, <1>3, <1>4, <1>5

\* What prepare_spawn decides.
LEMMA PlanIs ==
  ASSUME NEW r, NEW listing
  PROVE  LET plan == Plan(r, listing) IN
         \/ plan.kind = "reuse" /\ plan.panes = Ids(Reusable(r, InNamedTab(r, listing)))
         \/ plan.kind = "ambiguous"
         \/ plan.kind = "launch" /\ WellPlanned(r, plan.todo)
<1> DEFINE inTab == InNamedTab(r, listing)
           reusable == Reusable(r, inTab)
<1> HIDE DEF inTab, reusable
<1>1. CASE r.where = "new_tab"
  <2>1. Plan(r, listing) = Launch(InNewTab(r))
    BY <1>1 DEF Plan
  <2>2. WellPlanned(r, InNewTab(r))
    BY TodosArePlanned DEF InNewTab
  <2> QED  BY <2>1, <2>2 DEF Launch
<1>2. CASE r.where # "new_tab" /\ r.tab = "any"
  <2>1. Plan(r, listing) = Launch(<<"run">>)
    BY <1>2 DEF Plan
  <2> QED  BY <2>1, TodosArePlanned DEF Launch
<1>3. CASE r.where # "new_tab" /\ r.tab # "any" /\ inTab = {}
  <2>1. Plan(r, listing) = Launch(IF r.default THEN <<"new-tab", "run">> ELSE <<"new-tab-command">>)
    BY <1>3 DEF Plan, inTab
  <2>2. WellPlanned(r, IF r.default THEN <<"new-tab", "run">> ELSE <<"new-tab-command">>)
    BY <1>3, TodosArePlanned
  <2> QED  BY <2>1, <2>2 DEF Launch
<1>4. CASE r.where # "new_tab" /\ r.tab # "any" /\ inTab # {} /\ Cardinality(reusable) = 1
  <2>1. Plan(r, listing) = [kind |-> "reuse", panes |-> Ids(reusable)]
    BY <1>4 DEF Plan, inTab, reusable
  <2> QED  BY <2>1 DEF inTab, reusable
<1>5. CASE /\ r.where # "new_tab" /\ r.tab # "any" /\ inTab # {} /\ Cardinality(reusable) # 1
           /\ reusable # {}
  <2>1. Plan(r, listing) = [kind |-> "ambiguous"]
    BY <1>5 DEF Plan, inTab, reusable
  <2> QED  BY <2>1
<1>6. CASE /\ r.where # "new_tab" /\ r.tab # "any" /\ inTab # {} /\ Cardinality(reusable) # 1
           /\ reusable = {}
  <2>1. Plan(r, listing) = Launch(<<"go-to-tab", "run">>)
    BY <1>6 DEF Plan, inTab, reusable
  <2> QED  BY <2>1, TodosArePlanned DEF Launch
<1> QED  BY <1>1, <1>2, <1>3, <1>4, <1>5, <1>6

\* A spawn binds a pane that was opened.
LEMMA BindKeeps ==
  ASSUME BInv, NEW w \in Spawners, NEW p \in DOMAIN made, NEW how, NEW sure \in BOOLEAN,
         NEW at \in {"bound", "exec"},
         Now(w, [spawn[w] EXCEPT !.at = at, !.pane = p, !.how = how, !.sure = sure]),
         WorldOK', UNCHANGED <<live, names, viewing, made, host>>,
         spawn[w].at \in {"before", "after", "provisional"},
         how \in {"reuse", "printed", "searched", "reconciled"},
         how # "reconciled" => spawn[w].at # "provisional",
         at = "exec" => how = "searched",
         spawn[w].pane # NoPane => p = spawn[w].pane,
         how = "printed" => spawn[w].pane # NoPane,
         how = "printed" => spawn[w].at = "after",
         how = "reuse" /\ sure /\ spawn[w].alone =>
           p \in DOMAIN live /\ names[live[p].tab] = spawn[w].request.tab,
         how \in {"searched", "reconciled"} /\ sure /\ spawn[w].alone =>
           /\ spawn[w].sent = {} /\ p \in Of(w, made)
           /\ made[p].command = spawn[w].request.command
              \/ (spawn[w].request.default /\ Of(w, made) = {p})
  PROVE  BInv'
<1> DEFINE s == spawn[w]
           t == [s EXCEPT !.at = at, !.pane = p, !.how = how, !.sure = sure]
<1>1. s \in Attempt /\ SpawnInv(w, s, host.ssh, made, live, names, Eye, spawn)
  BY AtStage
<1>2. /\ t.at = at /\ t.hints = s.hints /\ t.blind = s.blind
      /\ t.request = s.request /\ t.todo = s.todo /\ t.sent = s.sent
      /\ t.before = s.before /\ t.tabNames = s.tabNames /\ t.alone = s.alone
      /\ t.pane = p /\ t.how = how /\ t.sure = sure
  BY <1>1 DEF Attempt
<1>3. p \in Panes /\ p # NoPane
  BY MadeArePanes DEF BInv
<1>4. t \in Attempt
  BY <1>1, <1>3 DEF Attempt
<1>5. Now(w, t) /\ s.at \in {"before", "after", "provisional"}
  OBVIOUS
<1> HIDE DEF t
<1>6. Stage(t, host.ssh)
  BY <1>1, <1>2, <1>3 DEF SpawnInv, Stage, Early
<1> HIDE DEF s
<1>7. Known(t, made)
  BY <1>1, <1>2 DEF SpawnInv, Known
<1>8. Printed(w, t, made, spawn)
  BY <1>1, <1>2 DEF SpawnInv, Printed, s
<1>9. Reused(t, live, names) /\ Found(w, t, made)
  BY <1>2 DEF Reused, Found, Early, s
<1>10. Searching(w, t, host.ssh, made, live, Eye) /\ t.at \notin Early
  BY <1>2 DEF Searching, Looking, Early
<1>11. SpawnInv(w, t, host.ssh, made, live, names, Eye, spawn)
  BY <1>4, <1>6, <1>7, <1>8, <1>9, <1>10 DEF SpawnInv
<1> QED  BY <1>2, <1>5, <1>11, QuietStep DEF s

\* What the tab names of a spawn say when it prepares and is alone.
LEMMA NamedTabIs ==
  ASSUME BInv, NEW w \in Spawners, spawn[w].at = "before", spawn[w].alone, UpToDate,
         NEW e \in Listing(w)
  PROVE  e.pane \in DOMAIN live /\ e.name = names[live[e.pane].tab]
<1>1. spawn[w].tabNames \in {names, NoNames}
  BY AtStage DEF SpawnInv, Reused, Early
<1>2. /\ e.pane \in DOMAIN live /\ e.tab = live[e.pane].tab
      /\ e.name = IF ~host.ssh /\ e.tab \in DOMAIN spawn[w].tabNames
                  THEN spawn[w].tabNames[e.tab] ELSE names[e.tab]
  BY UpToDateListing DEF BInv
<1>3. DOMAIN NoNames = {}
  BY DEF NoNames
<1> QED  BY <1>1, <1>2, <1>3

\* prepare_spawn: a pane to reuse, a refusal, or a plan.
LEMMA PrepareKeeps ==
  ASSUME BInv, NEW w \in Spawners, Prepare(w)
  PROVE  BInv'
<1>1. Keep /\ lost' = lost /\ spawn[w].at = "before"
  BY DEF Prepare
<1>2. WorldOK' /\ UNCHANGED <<live, names, viewing, made, host>>
  BY <1>1, KeepWorld DEF BInv, WorldOK
<1>3. spawn[w] \in Attempt /\ SpawnInv(w, spawn[w], host.ssh, made, live, names, Eye, spawn)
  BY <1>1, AtStage
<1>4. PICK plan : plan = Plan(spawn[w].request, Listing(w))
  OBVIOUS
<1>5. PICK fine \in BOOLEAN : fine = UpToDate
  BY DEF UpToDate, Settled, Joined
<1>6. \/ plan.kind = "reuse" /\ plan.panes = Ids(Reusable(spawn[w].request, InNamedTab(spawn[w].request, Listing(w))))
      \/ plan.kind = "ambiguous"
      \/ plan.kind = "launch" /\ WellPlanned(spawn[w].request, plan.todo)
  BY <1>4, PlanIs
<1>7. /\ plan.kind = "reuse" => \E p \in plan.panes : Now(w, Bound(spawn[w], p, "reuse", fine))
      /\ plan.kind = "ambiguous" => Fails(w)
      /\ plan.kind = "launch" => Now(w, [spawn[w] EXCEPT !.at = "launch", !.before = Ids(Listing(w)),
                                           !.todo = plan.todo, !.blind = @ \/ ~fine])
  BY <1>4, <1>5 DEF Prepare
<1>8. CASE plan.kind = "reuse"
  <2>1. PICK p \in plan.panes : Now(w, Bound(spawn[w], p, "reuse", fine))
    BY <1>7, <1>8
  <2>2. PICK e \in Listing(w) : e.pane = p /\ e.name = spawn[w].request.tab
    BY <1>6, <1>8, <2>1 DEF Ids, Reusable, InNamedTab
  <2>3. p \in DOMAIN made
    BY <2>2, ListedWereMade DEF BInv
  <2>4. fine /\ spawn[w].alone => p \in DOMAIN live /\ names[live[p].tab] = spawn[w].request.tab
    BY <1>1, <1>5, <2>2, NamedTabIs
  <2>5. spawn[w].pane = NoPane
    BY <1>1, <1>3 DEF SpawnInv, Stage, Early
  <2> QED  BY <1>1, <1>2, <2>1, <2>3, <2>4, <2>5, BindKeeps DEF Bound
<1>9. CASE plan.kind = "ambiguous"
  BY <1>1, <1>2, <1>7, <1>9, FailsKeeps
<1>10. CASE plan.kind = "launch"
  <2> DEFINE s == spawn[w]
             ids == Ids(Listing(w))
             t == [s EXCEPT !.at = "launch", !.before = ids, !.todo = plan.todo, !.blind = @ \/ ~fine]
  <2>1. WellPlanned(s.request, plan.todo)
    BY <1>6, <1>10
  <2>2. s.at = "before" /\ s \in Attempt /\ SpawnInv(w, s, host.ssh, made, live, names, Eye, spawn)
    BY <1>1, <1>3
  <2>3. Now(w, t)
    BY <1>7, <1>10
  <2> HIDE DEF s, ids
  <2>4. ids \subseteq DOMAIN made /\ ids \subseteq Panes
    BY ListedWereMade, MadeArePanes DEF BInv, ids
  <2>5. /\ t.at = "launch" /\ t.hints = s.hints
        /\ t.request = s.request /\ t.todo = plan.todo /\ t.sent = s.sent
        /\ t.before = ids /\ t.tabNames = s.tabNames /\ t.alone = s.alone
        /\ t.pane = s.pane /\ t.how = s.how /\ t.sure = s.sure
    BY <2>2 DEF Attempt
  <2>6. t.blind = (s.blind \/ ~fine)
    BY <2>2 DEF Attempt
  <2>7. t \in Attempt
    <3>1. (s.blind \/ ~fine) \in BOOLEAN
      OBVIOUS
    <3> QED  BY <2>1, <2>2, <2>4 DEF WellPlanned, Attempt, Looking
  <2> HIDE DEF t
  <2>8. s.sent = {} /\ s.pane = NoPane /\ s.how = "none"
    BY <2>2 DEF SpawnInv, Stage, Early
  <2>9. Stage(t, host.ssh)
    BY <2>1, <2>5, <2>8 DEF WellPlanned, Stage, Early
  <2>10. Known(t, made)
    BY <2>2, <2>4, <2>5 DEF SpawnInv, Known
  <2>11. Printed(w, t, made, spawn) /\ Reused(t, live, names) /\ Found(w, t, made) /\ t.at \notin Early
    BY <2>5, <2>8 DEF Printed, Reused, Found, Early
  <2>12. Searching(w, t, host.ssh, made, live, Eye)
    <3> SUFFICES ASSUME t.alone, ~t.blind
                 PROVE  /\ Since(w, t.before, made, live) /\ (host.ssh => Since(w, t.hints, made, live))
                        /\ Opened(Of(w, made), t, made, live, Eye)
      BY <2>5 DEF Searching
    <3>1. UpToDate /\ ~s.blind
      BY <2>6, <1>5
    <3>2. ids = DOMAIN live
      BY <3>1, UpToDateListing DEF ids, BInv
    <3>3. host.ssh => s.hints = DOMAIN live
      BY <2>2, <2>5, <3>1 DEF SpawnInv, Searching
    <3>4. Of(w, made) = {}
      BY <2>2 DEF SpawnInv, Early
    <3>5. Pending(t) = Given(plan.todo)
      BY <2>5, <2>8 DEF Pending
    <3>6. NothingYet(Of(w, made), t)
      BY <2>1, <2>5, <3>4, <3>5 DEF WellPlanned, NothingYet
    <3> QED  BY <2>5, <3>2, <3>3, <3>4, <3>6 DEF Since, Opened
  <2>13. SpawnInv(w, t, host.ssh, made, live, names, Eye, spawn)
    BY <2>7, <2>9, <2>10, <2>11, <2>12 DEF SpawnInv
  <2> QED  BY <1>2, <2>3, <2>5, <2>8, <2>13, QuietStep DEF s
<1> QED  BY <1>6, <1>8, <1>9, <1>10

\* The only one of a set, if there is one.
LEMMA UniqueIsOnly ==
  ASSUME NEW S, IsFiniteSet(S), NEW e \in Unique(S)
  PROVE  S = {e}
<1>1. Cardinality(S) = 1 /\ e \in S
  BY DEF Unique
<1> QED  BY <1>1, FS_Singleton

\* The search ends with a line of the listing, of a terminal.
LEMMA SearchesListing ==
  ASSUME NEW w
  PROVE  /\ Spawned(w) \subseteq New(w, spawn[w].before)
         /\ Candidate(w) \subseteq New(w, spawn[w].hints)
         /\ \A ids : New(w, ids) \subseteq Listing(w)
<1>1. \A ids : New(w, ids) \subseteq Listing(w)
  BY DEF New
<1>2. \A S, r : Titled(S, r) \subseteq S /\ Running(S, r) \subseteq S /\ Unique(S) \subseteq S
  BY DEF Titled, Running, Unique
<1>3. Candidate(w) \subseteq New(w, spawn[w].hints)
  BY <1>2 DEF Candidate
<1>4. Spawned(w) \subseteq New(w, spawn[w].before)
  <2> DEFINE r == spawn[w].request
             fresh == New(w, spawn[w].before)
             inTab == {e \in fresh : r.tab # "any" /\ e.name = r.tab}
             S == IF inTab # {} THEN inTab ELSE fresh
  <2>1. S \subseteq fresh
    OBVIOUS
  <2>2. Spawned(w) \subseteq Unique(Titled(S, r)) \union Unique(Running(S, r)) \union Unique(S)
    BY DEF Spawned
  <2> HIDE DEF S, fresh
  <2>3. Spawned(w) \subseteq fresh
    BY <1>2, <2>1, <2>2
  <2> QED  BY <2>3 DEF fresh
<1> QED  BY <1>1, <1>3, <1>4

\* The pane a search finds for a lone spawn in an up-to-date listing.
GoodFind(w, p) ==
  /\ p \in Of(w, made)
  /\ made[p].command = spawn[w].request.command
     \/ (spawn[w].request.default /\ Of(w, made) = {p})

\* What is new in an up-to-date listing is what the spawn opened.
LEMMA NewIsOwn ==
  ASSUME WorldOK, UpToDate, NEW w, NEW ids, Since(w, ids, made, live)
  PROVE  /\ \A e \in New(w, ids) : /\ e.pane \in Of(w, made) /\ e.pane \in DOMAIN live
                                   /\ e.title = live[e.pane].title
         /\ \A p \in Of(w, made) : \E e \in New(w, ids) : e.pane = p
         /\ \A e, f \in New(w, ids) : /\ e.pane = f.pane => e = f
                                      /\ live[e.pane].tab = live[f.pane].tab => e.name = f.name
<1>1. \A e \in New(w, ids) :
        /\ e.pane \in Of(w, made) /\ e.pane \in DOMAIN live /\ e.title = live[e.pane].title
        /\ e.tab = live[e.pane].tab
        /\ e.name = IF ~host.ssh /\ e.tab \in DOMAIN spawn[w].tabNames
                    THEN spawn[w].tabNames[e.tab] ELSE names[e.tab]
  BY UpToDateListing DEF New, Since
<1>2. \A p \in Of(w, made) : \E e \in New(w, ids) : e.pane = p
  <2> TAKE p \in Of(w, made)
  <2>1. p \in DOMAIN live /\ p \notin ids
    BY DEF Since
  <2>2. ~p.plugin
    BY MadeArePanes DEF Of
  <2>3. p \in DOMAIN panes
    BY <2>1, UpToDateListing, ListingIs
  <2>4. PICK e \in Listing(w) : e.pane = p
    BY <2>3, ListingIs
  <2> QED  BY <2>1, <2>2, <2>4 DEF New
<1>3. \A e, f \in New(w, ids) : e.pane = f.pane => e = f
  BY ListingIs DEF New
<1>4. \A e, f \in New(w, ids) : live[e.pane].tab = live[f.pane].tab => e.name = f.name
  BY <1>1
<1> QED  BY <1>1, <1>2, <1>3, <1>4

\* What the two searches take of the new lines of a listing.
InItsTab(F, r) == {e \in F : r.tab # "any" /\ e.name = r.tab}

SpawnedOf(F, r) ==
  LET S == IF InItsTab(F, r) # {} THEN InItsTab(F, r) ELSE F
  IN IF Titled(S, r) # {} THEN Unique(Titled(S, r))
     ELSE IF Running(S, r) # {} THEN Unique(Running(S, r))
     ELSE Unique(S)

CandidateOf(F, r) ==
  LET T == {e \in F : r.tab = "any" \/ e.name = r.tab}
  IN IF Cardinality(Titled(T, r)) = 1 THEN Titled(T, r)
     ELSE IF Cardinality(Running(T, r)) = 1 THEN Running(T, r)
     ELSE Unique(T)

\* The searches are those.
LEMMA SearchesAre ==
  ASSUME NEW w
  PROVE  /\ Spawned(w) = SpawnedOf(New(w, spawn[w].before), spawn[w].request)
         /\ Candidate(w) = CandidateOf(New(w, spawn[w].hints), spawn[w].request)
BY DEF Spawned, SpawnedOf, InItsTab, Candidate, CandidateOf

\* Of a new tab's shell and the command's own pane each search takes the latter.
LEMMA PaneOfTheTwo ==
  ASSUME NEW F, NEW r, NEW a \in F, NEW b \in F, a # b, F = {a, b}, a.name = b.name,
         a.title = Untitled, b.title = TitleOf(r), Command(b.pane) = r.command
  PROVE  /\ \A e \in SpawnedOf(F, r) : e = b
         /\ \A e \in CandidateOf(F, r) : e = b
<1> DEFINE S == IF InItsTab(F, r) # {} THEN InItsTab(F, r) ELSE F
           T == {e \in F : r.tab = "any" \/ e.name = r.tab}
<1>1. IsFiniteSet(F)
  <2>1. IsFiniteSet({a})
    BY FS_Singleton
  <2>2. F = {a} \union {b}
    OBVIOUS
  <2> QED  BY <2>1, <2>2, FS_AddElement
<1>2. S = F /\ T \in {F, {}}
  BY DEF InItsTab
<1> HIDE DEF S, T
<1>3. \A R : R \subseteq F => IsFiniteSet(R)
  BY <1>1, FS_Subset
<1>4. \A R : R \subseteq F => Titled(R, r) \subseteq R /\ Running(R, r) \subseteq R
  BY DEF Titled, Running
<1>5. b \in Running(F, r)
  BY DEF Running
<1>6. Titled(F, r) # {} => b \in Titled(F, r)
  BY DEF Titled, TitleOf
<1>7. ASSUME NEW R, R \subseteq F, b \in R, NEW e \in R, Cardinality(R) = 1
      PROVE  e = b
  BY <1>3, <1>7, FS_Singleton
<1>8. \A e : e \notin Unique(F)
  <2> SUFFICES ASSUME NEW e \in Unique(F) PROVE FALSE
    OBVIOUS
  <2>1. F = {e}
    BY <1>1, UniqueIsOnly
  <2> QED  BY <2>1
<1>9. ASSUME NEW e \in SpawnedOf(F, r)
      PROVE  e = b
  <2> e \in (IF Titled(F, r) # {} THEN Unique(Titled(F, r))
             ELSE IF Running(F, r) # {} THEN Unique(Running(F, r))
             ELSE Unique(F))
    BY <1>2, <1>9 DEF SpawnedOf, S
  <2>1. CASE Titled(F, r) # {}
    <3>1. e \in Unique(Titled(F, r))
      BY <2>1
    <3>2. e \in Titled(F, r) /\ Cardinality(Titled(F, r)) = 1
      BY <3>1 DEF Unique
    <3> QED  BY <3>2, <2>1, <1>4, <1>6, <1>7
  <2>2. CASE Titled(F, r) = {}
    <3>1. e \in Unique(Running(F, r))
      BY <1>5, <2>2
    <3>2. e \in Running(F, r) /\ Cardinality(Running(F, r)) = 1
      BY <3>1 DEF Unique
    <3> QED  BY <3>2, <1>4, <1>5, <1>7
  <2> QED  BY <2>1, <2>2
<1>10. ASSUME NEW e \in CandidateOf(F, r)
       PROVE  e = b
  <2> e \in (IF Cardinality(Titled(T, r)) = 1 THEN Titled(T, r)
             ELSE IF Cardinality(Running(T, r)) = 1 THEN Running(T, r)
             ELSE Unique(T))
    BY <1>10 DEF CandidateOf, T
  <2>1. CASE T = {}
    <3>1. e \in T
      BY <2>1, <1>4 DEF Unique
    <3> QED  BY <2>1, <3>1
  <2>2. CASE T = F
    <3>1. CASE Cardinality(Titled(F, r)) = 1
      <4>1. e \in Titled(F, r)
        BY <2>2, <3>1
      <4> QED  BY <4>1, <3>1, <1>4, <1>6, <1>7
    <3>2. CASE Cardinality(Titled(F, r)) # 1 /\ Cardinality(Running(F, r)) = 1
      <4>1. e \in Running(F, r)
        BY <2>2, <3>2
      <4> QED  BY <4>1, <3>2, <1>4, <1>5, <1>7
    <3>3. CASE Cardinality(Titled(F, r)) # 1 /\ Cardinality(Running(F, r)) # 1
      BY <1>8, <2>2, <3>3
    <3> QED  BY <3>1, <3>2, <3>3
  <2> QED  BY <1>2, <2>1, <2>2
<1> QED  BY <1>9, <1>10

\* A lone spawn that searched an up-to-date listing, with nothing to come, found
\* the pane its command runs in.
LEMMA SearchFinds ==
  ASSUME BInv, NEW w \in Spawners, spawn[w].at \in {"after", "provisional"}, spawn[w].sent = {},
         spawn[w].alone, ~spawn[w].blind, UpToDate
  PROVE  /\ \A e \in Spawned(w) : GoodFind(w, e.pane)
         /\ host.ssh => \A e \in Candidate(w) : GoodFind(w, e.pane)
<1> DEFINE s == spawn[w]
           own == Of(w, made)
<1>1. s \in Attempt /\ SpawnInv(w, s, host.ssh, made, live, names, Eye, spawn)
  BY AtStage
<1>2. /\ Since(w, s.before, made, live) /\ (host.ssh => Since(w, s.hints, made, live))
      /\ Opened(own, s, made, live, Eye)
  BY <1>1 DEF SpawnInv, Searching, Looking
<1>3. Pending(s) = {}
  <2>1. s.todo = <<>>
    BY <1>1 DEF SpawnInv, Stage
  <2> QED  BY <2>1, GivenIs DEF Pending
<1>4. OnePane(own, s, made) \/ TabAndPane(own, s, made, live)
  <2>1. {} \notin Plans /\ {"run"} # {}
    BY DEF Plans
  <2> QED  BY <1>2, <1>3, <2>1 DEF Opened, NothingYet, TabOnly
<1> DEFINE Good(ids) ==
             /\ \A e \in New(w, ids) : /\ e.pane \in own /\ e.pane \in DOMAIN live
                                       /\ e.title = live[e.pane].title
             /\ \A p \in own : \E e \in New(w, ids) : e.pane = p
             /\ \A e, f \in New(w, ids) : /\ e.pane = f.pane => e = f
                                          /\ live[e.pane].tab = live[f.pane].tab => e.name = f.name
<1>5. Good(s.before) /\ (host.ssh => Good(s.hints))
  BY <1>2, NewIsOwn DEF BInv
<1>6. CASE OnePane(own, s, made)
  <2>1. PICK q \in own : own = {q} /\ (made[q].command = s.request.command \/ s.request.default)
    BY <1>6 DEF OnePane
  <2>2. GoodFind(w, q)
    BY <2>1 DEF GoodFind
  <2>3. \A ids : Good(ids) => \A e \in New(w, ids) : GoodFind(w, e.pane)
    BY <2>1, <2>2
  <2> HIDE DEF Good, own
  <2> QED  BY <2>3, <1>5, SearchesListing
<1>7. CASE TabAndPane(own, s, made, live)
  <2>1. PICK q \in own, p \in own :
          /\ own = {q, p} /\ q # p /\ live[q].tab = live[p].tab
          /\ live[q].title = Untitled /\ live[p].title = TitleOf(s.request)
          /\ made[p].command = s.request.command
    BY <1>7 DEF TabAndPane
  <2>2. GoodFind(w, p)
    BY <2>1 DEF GoodFind
  <2> DEFINE Two(F, a, b) == /\ a \in F /\ b \in F /\ a # b /\ F = {a, b} /\ a.name = b.name
                             /\ a.title = Untitled /\ b.title = TitleOf(s.request)
                             /\ Command(b.pane) = s.request.command /\ b.pane = p
  <2>3. ASSUME NEW ids, Good(ids)
        PROVE  \E a, b : Two(New(w, ids), a, b)
    <3>1. PICK a \in New(w, ids) : a.pane = q
      BY <2>1, <2>3
    <3>2. PICK b \in New(w, ids) : b.pane = p
      BY <2>1, <2>3
    <3>3. a # b /\ New(w, ids) = {a, b}
      BY <2>1, <2>3, <3>1, <3>2
    <3>4. a.name = b.name /\ a.title = Untitled /\ b.title = TitleOf(s.request)
      BY <2>1, <2>3, <3>1, <3>2
    <3>5. Command(b.pane) = s.request.command
      BY <2>1, <3>2 DEF Command
    <3> QED  BY <3>2, <3>3, <3>4, <3>5
  <2>4. \A e \in Spawned(w) : GoodFind(w, e.pane)
    <3>1. PICK a, b : Two(New(w, s.before), a, b)
      BY <1>5, <2>3
    <3>2. \A e \in Spawned(w) : e = b
      BY <3>1, PaneOfTheTwo, SearchesAre
    <3> QED  BY <2>2, <3>1, <3>2
  <2>5. host.ssh => \A e \in Candidate(w) : GoodFind(w, e.pane)
    <3> SUFFICES ASSUME host.ssh PROVE \A e \in Candidate(w) : GoodFind(w, e.pane)
      OBVIOUS
    <3>1. PICK a, b : Two(New(w, s.hints), a, b)
      BY <1>5, <2>3
    <3>2. \A e \in Candidate(w) : e = b
      BY <3>1, PaneOfTheTwo, SearchesAre
    <3> QED  BY <2>2, <3>1, <3>2
  <2> QED  BY <2>4, <2>5
<1> QED  BY <1>4, <1>6, <1>7

\* A local or an awaited launch finds its pane.
LEMMA FindSpawnedKeeps ==
  ASSUME BInv, NEW w \in Spawners, FindSpawned(w)
  PROVE  BInv'
<1>1. Keep /\ lost' = lost /\ spawn[w].at = "after"
  BY DEF FindSpawned
<1>2. WorldOK' /\ UNCHANGED <<live, names, viewing, made, host>>
  BY <1>1, KeepWorld DEF BInv, WorldOK
<1>3. spawn[w] \in Attempt /\ SpawnInv(w, spawn[w], host.ssh, made, live, names, Eye, spawn)
  BY <1>1, AtStage
<1>4. spawn[w].sent = {} /\ spawn[w].pane \in DOMAIN made \union {NoPane}
  BY <1>1, <1>3 DEF SpawnInv, Stage, Known
<1>5. CASE spawn[w].pane # NoPane
  <2>1. Now(w, [spawn[w] EXCEPT !.at = "bound", !.pane = spawn[w].pane, !.how = "printed", !.sure = TRUE])
    BY <1>5 DEF FindSpawned, Bound
  <2> QED  BY <1>1, <1>2, <1>4, <1>5, <2>1, BindKeeps
<1>6. CASE spawn[w].pane = NoPane /\ Spawned(w) = {}
  <2>1. Fails(w)
    BY <1>6 DEF FindSpawned
  <2> QED  BY <1>1, <1>2, <2>1, FailsKeeps
<1>7. CASE spawn[w].pane = NoPane /\ Spawned(w) # {}
  <2>1. PICK fine \in BOOLEAN : fine = (UpToDate /\ ~spawn[w].blind)
    BY DEF UpToDate, Settled, Joined
  <2>2. PICK e \in Spawned(w) :
          LET s == Bound(spawn[w], e.pane, "searched", fine)
          IN Now(w, IF BecomesFish(s) THEN [s EXCEPT !.at = "exec"] ELSE s)
    BY <1>7, <2>1 DEF FindSpawned
  <2>3. e.pane \in DOMAIN made
    BY <2>2, SearchesListing, ListedWereMade DEF BInv
  <2>4. PICK at \in {"bound", "exec"} :
          Now(w, [spawn[w] EXCEPT !.at = at, !.pane = e.pane, !.how = "searched", !.sure = fine])
    <3> DEFINE s == Bound(spawn[w], e.pane, "searched", fine)
    <3>1. CASE BecomesFish(s)
      <4>1. [s EXCEPT !.at = "exec"]
            = [spawn[w] EXCEPT !.at = "exec", !.pane = e.pane, !.how = "searched", !.sure = fine]
        BY <1>3 DEF Bound, Attempt
      <4> QED  BY <2>2, <3>1, <4>1
    <3>2. CASE ~BecomesFish(s)
      BY <2>2, <3>2 DEF Bound
    <3> QED  BY <3>1, <3>2
  <2>5. fine /\ spawn[w].alone => GoodFind(w, e.pane)
    BY <1>1, <1>4, <2>1, <2>2, SearchFinds
  <2> QED  BY <1>1, <1>2, <1>4, <1>7, <2>3, <2>4, <2>5, BindKeeps DEF GoodFind
<1> QED  BY <1>5, <1>6, <1>7

\* A call on the handle of a detached launch finds its pane.
LEMMA ReconcileKeeps ==
  ASSUME BInv, NEW w \in Spawners, Reconcile(w)
  PROVE  BInv'
<1>1. Keep /\ lost' = lost /\ spawn[w].at = "provisional"
  BY DEF Reconcile
<1>2. WorldOK' /\ UNCHANGED <<live, names, viewing, made, host>>
  BY <1>1, KeepWorld DEF BInv, WorldOK
<1>3. spawn[w] \in Attempt /\ SpawnInv(w, spawn[w], host.ssh, made, live, names, Eye, spawn)
  BY <1>1, AtStage
<1>4. host.ssh /\ spawn[w].pane = NoPane
  BY <1>1, <1>3 DEF SpawnInv, Stage
<1>5. PICK fine \in BOOLEAN : fine = (UpToDate /\ spawn[w].sent = {} /\ ~spawn[w].blind)
  BY DEF UpToDate, Settled, Joined
<1>6. PICK e \in Candidate(w) :
        Now(w, [spawn[w] EXCEPT !.at = "bound", !.pane = e.pane, !.how = "reconciled", !.sure = fine])
  BY <1>5 DEF Reconcile, Bound
<1>7. e.pane \in DOMAIN made
  BY <1>6, SearchesListing, ListedWereMade DEF BInv
<1>8. fine /\ spawn[w].alone => spawn[w].sent = {} /\ GoodFind(w, e.pane)
  BY <1>1, <1>4, <1>5, <1>6, SearchFinds
<1> QED  BY <1>1, <1>2, <1>4, <1>6, <1>7, <1>8, BindKeeps DEF GoodFind

---------------------------------------------------------------------------
(* The steps that act on the session. *)

\* A pane that opens is made by whoever opens it.
LEMMA OpensFacts ==
  ASSUME WorldOK, NEW by \in Spawners \union {User}, NEW c \in Commands, Opens(by, c),
         DOMAIN live' = DOMAIN live \union {NextPane}, gone' = gone
  PROVE  /\ MadeOK(made', live', gone')
         /\ NextPane \in Panes /\ NextPane \notin DOMAIN made
         /\ DOMAIN made' = DOMAIN made \union {NextPane}
         /\ made'[NextPane].by = by /\ made'[NextPane].command = c
         /\ \A p \in DOMAIN made : made'[p] = made[p]
         /\ Of(by, made') = Of(by, made) \union {NextPane}
         /\ \A v : v # by => Of(v, made') = Of(v, made)
<1>1. NextPane \in Unopened
  BY NextPaneIs DEF Opens
<1>2. DOMAIN made = DOMAIN live \union gone
  BY DEF WorldOK, MadeOK
<1>3. NextPane \in Terminals /\ NextPane \notin DOMAIN made
  BY <1>1, <1>2 DEF Unopened
<1> DEFINE n == NextPane
<1> HIDE DEF n
<1>4. made' = [p \in DOMAIN made \union {n} |-> IF p = n THEN [by |-> by, command |-> c] ELSE made[p]]
  BY DEF Opens, n
<1>5. n \notin DOMAIN made /\ n \in Terminals
  BY <1>3 DEF n
<1>6. /\ DOMAIN made' = DOMAIN made \union {n}
      /\ made'[n] = [by |-> by, command |-> c]
      /\ \A p \in DOMAIN made : made'[p] = made[p]
  BY <1>4, <1>5
<1>7. made'[n].by = by /\ made'[n].command = c
  BY <1>6
<1>8. Of(by, made') = Of(by, made) \union {n} /\ \A v : v # by => Of(v, made') = Of(v, made)
  BY <1>5, <1>6, <1>7 DEF Of
<1>9. MadeOK(made', live', gone')
  <2>1. \A p \in DOMAIN made : made[p] \in [by : Spawners \union {User}, command : Commands]
    BY DEF WorldOK, MadeOK
  <2>2. [by |-> by, command |-> c] \in [by : Spawners \union {User}, command : Commands]
    OBVIOUS
  <2>3. \A p \in DOMAIN made' : made'[p] \in [by : Spawners \union {User}, command : Commands]
    BY <1>6, <2>1, <2>2
  <2>4. DOMAIN made \subseteq Terminals
    BY DEF WorldOK, MadeOK
  <2>5. DOMAIN made' = DOMAIN live' \union gone'
    BY <1>2, <1>6 DEF n
  <2> QED  BY <1>5, <1>6, <2>3, <2>4, <2>5 DEF MadeOK
<1> QED  BY <1>3, <1>5, <1>6, <1>7, <1>8, <1>9 DEF n, Terminals

\* A pane that opens joins the open ones.
LEMMA PutFacts ==
  ASSUME NEW p, NEW t, NEW title, p \notin DOMAIN live, live' = Put(p, t, title)
  PROVE  /\ DOMAIN live' = DOMAIN live \union {p}
         /\ live'[p].title = title /\ live'[p].tab = t
         /\ \A q \in DOMAIN live : live'[q] = live[q]
<1>1. /\ DOMAIN live' = DOMAIN live \union {p}
      /\ live'[p] = [tab |-> t, title |-> title, suppressed |-> FALSE]
      /\ \A q \in DOMAIN live : live'[q] = live[q]
  BY DEF Put
<1>2. live'[p].title = title /\ live'[p].tab = t
  BY <1>1
<1> QED  BY <1>1, <1>2

\* What a new pane does to the session.
LEMMA OpenPaneFacts ==
  ASSUME WorldOK, NEW p \in Panes, NEW t, NEW title \in Titles, OpenPane(p, t, title)
  PROVE  /\ SessionOK' /\ Forgetless /\ viewing' = viewing
         /\ DOMAIN live' = DOMAIN live \union {p} /\ gone' = gone
         /\ p \notin DOMAIN live
         /\ \A q \in DOMAIN live : live'[q] = live[q]
         /\ live'[p].title = title /\ live'[p].tab = t
<1>1. SessionOK' /\ Forgetless
  BY OpenKeeps DEF WorldOK, PInv
<1> QED  BY <1>1, PutFacts DEF OpenPane

\* What a new tab does to the session.
LEMMA NewTabFacts ==
  ASSUME WorldOK, NEW p \in Panes, NEW name \in TabNames, NEW title \in Titles,
         NewTab(name, p, title)
  PROVE  /\ SessionOK' /\ Forgetless /\ DOMAIN viewing' = DOMAIN viewing
         /\ DOMAIN live' = DOMAIN live \union {p} /\ gone' = gone
         /\ p \notin DOMAIN live
         /\ \A q \in DOMAIN live : live'[q] = live[q]
         /\ live'[p].title = title /\ live'[p].tab = Eye'
<1> DEFINE t == Cardinality(Positions)
<1>1. SessionOK' /\ Forgetless
  BY NewTabKeeps DEF WorldOK, PInv
<1>2. /\ viewing' = [c \in DOMAIN viewing |-> t]
      /\ live' = Put(p, t, title) /\ gone' = gone /\ p \notin DOMAIN live
  BY DEF NewTab
<1> HIDE DEF t
<1>3. DOMAIN viewing' = DOMAIN viewing
  BY <1>2
<1>4. Eye' = t
  <2>1. Speaker' = Speaker
    BY <1>3 DEF Speaker, FirstClient
  <2>2. Speaker \in DOMAIN viewing
    BY EyeIsOpen
  <2> QED  BY <1>2, <2>1, <2>2 DEF Eye
<1> QED  BY <1>1, <1>2, <1>3, <1>4, PutFacts

\* A change of the session that is reported keeps the world.
LEMMA ReportedWorld ==
  ASSUME WorldOK, SessionOK', Forgetless, DOMAIN viewing' # {},
         news' = news \union {"panes", "tabs"}, UNCHANGED <<tables, granted, timer, lost>>,
         changes' \in 0 .. MaxChanges, MadeOK(made', live', gone')
  PROVE  WorldOK'
<1>1. UNCHANGED tables /\ granted' = granted /\ timer' = timer /\ lost' = lost
  OBVIOUS
<1>2. PInv'
  BY <1>1, ReportedKeeps DEF WorldOK, PInv
<1> QED  BY <1>1, <1>2 DEF WorldOK

\* What a command of w with the request r did, if it opened a pane the one that
\* had the next number.
Performed(w, r, command) ==
  /\ WorldOK' /\ DOMAIN made \subseteq DOMAIN made'
  /\ \A p \in DOMAIN made : made'[p] = made[p]
  /\ \A p \in DOMAIN live : live'[p] = live[p]
  /\ \A v : v # w => Of(v, made') = Of(v, made)
  /\ command = "go-to-tab" => Of(w, made') = Of(w, made) /\ DOMAIN live' = DOMAIN live
  /\ command # "go-to-tab" =>
       /\ NextPane \in Panes /\ NextPane \notin DOMAIN made
       /\ Of(w, made') = Of(w, made) \union {NextPane}
       /\ DOMAIN live' = DOMAIN live \union {NextPane}
       /\ command = "new-tab" => live'[NextPane].title = Untitled /\ live'[NextPane].tab = Eye'
       /\ command # "new-tab" => made'[NextPane].command = r.command
       /\ command = "run" => live'[NextPane].tab = Eye /\ live'[NextPane].title = TitleOf(r)

\* A command that opens a pane does what it should.
LEMMA OpeningPerforms ==
  ASSUME WorldOK, NEW w \in Spawners, NEW r \in SpawnRequests, NEW command, NEW c \in Commands,
         Opens(w, c), SessionOK', Forgetless, DOMAIN viewing' = DOMAIN viewing,
         DOMAIN live' = DOMAIN live \union {NextPane}, gone' = gone,
         \A q \in DOMAIN live : live'[q] = live[q],
         command # "go-to-tab", command # "new-tab" => c = r.command,
         command = "new-tab" => live'[NextPane].title = Untitled /\ live'[NextPane].tab = Eye',
         command = "run" => live'[NextPane].tab = Eye /\ live'[NextPane].title = TitleOf(r),
         UNCHANGED <<changes, tables, granted, timer, lost>>
  PROVE  Performed(w, r, command)
<1>1. /\ MadeOK(made', live', gone')
      /\ NextPane \in Panes /\ NextPane \notin DOMAIN made
      /\ DOMAIN made' = DOMAIN made \union {NextPane}
      /\ made'[NextPane].by = w /\ made'[NextPane].command = c
      /\ \A p \in DOMAIN made : made'[p] = made[p]
      /\ Of(w, made') = Of(w, made) \union {NextPane}
      /\ \A v : v # w => Of(v, made') = Of(v, made)
  BY OpensFacts
<1>2. news' = news \union {"panes", "tabs"} /\ changes' \in 0 .. MaxChanges /\ DOMAIN viewing' # {}
  BY DEF Opens, WorldOK, PInv
<1>3. WorldOK'
  BY <1>1, <1>2, ReportedWorld
<1> QED  BY <1>1, <1>3 DEF Performed

\* What a command does.
LEMMA PerformsFacts ==
  ASSUME WorldOK, NEW w \in Spawners, spawn[w] \in Attempt,
         NEW command \in {"new-tab", "new-tab-command", "run", "go-to-tab"},
         Performs(w, command), UNCHANGED <<changes, tables, granted, timer, lost>>,
         command = "new-tab-command" => spawn[w].request.tab # "any"
  PROVE  Performed(w, spawn[w].request, command)
<1> DEFINE r == spawn[w].request
<1>1. r \in SpawnRequests
  BY DEF Attempt
<1>2. r.command \in Commands /\ NoCommand \in Commands
  BY <1>1 DEF Commands
<1>3. TitleOf(r) \in Titles /\ Untitled \in Titles
  BY <1>1, RequestsName, NobodyNames DEF TitleOf
<1>4. r.tab # "any" => r.tab \in TabNames
  BY <1>1, RequestsName
<1>5. Opens(w, r.command) \/ Opens(w, NoCommand) => NextPane \in Panes
  BY NextPaneIs DEF Opens, Unopened, Terminals
<1>6. CASE command = "new-tab"
  <2>1. PICK name \in TabNames : Opens(w, NoCommand) /\ NewTab(name, NextPane, Untitled)
    <3>1. (IF r.tab = "any" THEN Unnamed ELSE r.tab) \in TabNames
      BY <1>4, NobodyNames
    <3>2. Opens(w, NoCommand) /\ NewTab(IF r.tab = "any" THEN Unnamed ELSE r.tab, NextPane, Untitled)
      BY <1>6 DEF Performs
    <3> QED  BY <3>1, <3>2
  <2>2. /\ SessionOK' /\ Forgetless /\ DOMAIN viewing' = DOMAIN viewing
        /\ DOMAIN live' = DOMAIN live \union {NextPane} /\ gone' = gone
        /\ \A q \in DOMAIN live : live'[q] = live[q]
        /\ live'[NextPane].title = Untitled /\ live'[NextPane].tab = Eye'
    BY <1>3, <1>5, <2>1, NewTabFacts
  <2> HIDE DEF r
  <2> QED  BY <1>1, <1>2, <1>6, <2>1, <2>2, OpeningPerforms DEF r
<1>7. CASE command = "new-tab-command"
  <2>1. Opens(w, r.command) /\ NewTab(r.tab, NextPane, Untitled)
    BY <1>7 DEF Performs
  <2>2. /\ SessionOK' /\ Forgetless /\ DOMAIN viewing' = DOMAIN viewing
        /\ DOMAIN live' = DOMAIN live \union {NextPane} /\ gone' = gone
        /\ \A q \in DOMAIN live : live'[q] = live[q]
    BY <1>3, <1>4, <1>5, <1>7, <2>1, NewTabFacts
  <2> HIDE DEF r
  <2> QED  BY <1>1, <1>2, <1>7, <2>1, <2>2, OpeningPerforms DEF r
<1>8. CASE command = "run"
  <2>1. Opens(w, r.command) /\ OpenPane(NextPane, Eye, TitleOf(r))
    BY <1>8 DEF Performs, Eye
  <2>2. /\ SessionOK' /\ Forgetless /\ viewing' = viewing
        /\ DOMAIN live' = DOMAIN live \union {NextPane} /\ gone' = gone
        /\ \A q \in DOMAIN live : live'[q] = live[q]
        /\ live'[NextPane].title = TitleOf(r) /\ live'[NextPane].tab = Eye
    BY <1>3, <1>5, <2>1, OpenPaneFacts
  <2> HIDE DEF r
  <2> QED  BY <1>1, <1>2, <1>8, <2>1, <2>2, OpeningPerforms DEF r
<1>9. CASE command = "go-to-tab"
  <2>1. /\ UNCHANGED session \/ \E t : View(Speaker, t)
        /\ news' = news \union {"panes", "tabs"} /\ made' = made
    BY <1>9 DEF Performs
  <2>2. Speaker \in Clients
    BY EyeIsOpen DEF WorldOK, PInv, SessionOK, ViewOK
  <2>3. SessionOK' /\ Forgetless
    BY <2>1, <2>2, ViewKeeps, SameReports DEF WorldOK, PInv
  <2>4. live' = live /\ gone' = gone /\ DOMAIN viewing' # {}
    BY <2>1, EyeIsOpen DEF View, session
  <2>5. MadeOK(made', live', gone') /\ changes' \in 0 .. MaxChanges
    BY <2>1, <2>4 DEF WorldOK, PInv
  <2>6. WorldOK'
    BY <2>1, <2>3, <2>4, <2>5, ReportedWorld
  <2> QED  BY <1>9, <2>1, <2>4, <2>6 DEF Performed
<1> QED  BY <1>6, <1>7, <1>8, <1>9

\* A command of a lone spawn, in its order, keeps what it has opened to its plan.
LEMMA OpenedStep ==
  ASSUME NEW w, NEW s, NEW t,
         NEW command \in {"new-tab", "new-tab-command", "run", "go-to-tab"},
         Opened(Of(w, made), s, made, live, Eye), Of(w, made) \subseteq DOMAIN live,
         Performed(w, s.request, command), command \in Pending(s),
         t.request = s.request, Pending(t) = Pending(s) \ {command},
         command = "run" => Pending(s) = {"run"}
  PROVE  Opened(Of(w, made'), t, made', live', Eye')
<1> DEFINE own == Of(w, made)
           own2 == Of(w, made')
           n == NextPane
<1>1. \A p \in own : p \in DOMAIN made
  BY DEF Of
<1>2. /\ \A p \in own : live'[p] = live[p]
      /\ command = "go-to-tab" => own2 = own
      /\ command # "go-to-tab" => n \notin own /\ own2 = own \union {n}
      /\ command = "new-tab" => live'[n].title = Untitled /\ live'[n].tab = Eye'
      /\ command \notin {"new-tab", "go-to-tab"} => made'[n].command = s.request.command
      /\ command = "run" => live'[n].tab = Eye /\ live'[n].title = TitleOf(s.request)
  BY <1>1 DEF Performed
<1> HIDE DEF own, own2, n
<1>3. CASE NothingYet(own, s)
  <2>1. own = {} /\ Pending(s) \in Plans /\ (Pending(s) = {"new-tab"} => s.request.default)
    BY <1>3 DEF NothingYet
  <2>2. CASE command = "new-tab"
    <3>1. own2 = {n}
      BY <1>2, <2>1, <2>2
    <3>2. Pending(s) = {"new-tab"} \/ Pending(s) = {"new-tab", "run"}
      BY <2>1, <2>2 DEF Plans
    <3>3. CASE Pending(s) = {"new-tab"}
      <4>1. OnePane(own2, t, made')
        BY <2>1, <2>2, <3>1, <3>3 DEF OnePane
      <4> QED  BY <4>1 DEF Opened, own2
    <3>4. CASE Pending(s) = {"new-tab", "run"}
      <4>1. Pending(t) = {"run"}
        BY <2>2, <3>4
      <4>2. TabOnly(own2, t, live', Eye')
        BY <1>2, <2>2, <3>1, <4>1 DEF TabOnly
      <4> QED  BY <4>2 DEF Opened, own2
    <3> QED  BY <3>2, <3>3, <3>4
  <2>3. CASE command \in {"new-tab-command", "run"}
    <3>1. Pending(t) = {}
      BY <2>1, <2>3 DEF Plans
    <3>2. own2 = {n} /\ made'[n].command = t.request.command
      BY <1>2, <2>1, <2>3
    <3>3. OnePane(own2, t, made')
      BY <3>1, <3>2 DEF OnePane
    <3> QED  BY <3>3 DEF Opened, own2
  <2>4. CASE command = "go-to-tab"
    <3>1. Pending(t) = {"run"}
      BY <2>1, <2>4 DEF Plans
    <3>2. own2 = {}
      BY <1>2, <2>1, <2>4
    <3>3. {"run"} \in Plans /\ {"run"} # {"new-tab"}
      BY DEF Plans
    <3>4. NothingYet(own2, t)
      BY <3>1, <3>2, <3>3 DEF NothingYet
    <3> QED  BY <3>4 DEF Opened, own2
  <2> QED  BY <2>2, <2>3, <2>4
<1>4. CASE TabOnly(own, s, live, Eye)
  <2>1. PICK q \in own : /\ own = {q} /\ Pending(s) = {"run"}
                         /\ live[q].title = Untitled /\ live[q].tab = Eye
    BY <1>4 DEF TabOnly
  <2>2. command = "run" /\ Pending(t) = {}
    BY <2>1
  <2>3. own2 = {q, n} /\ q # n /\ q \in own2 /\ n \in own2
    BY <1>2, <2>1, <2>2
  <2>4. /\ live'[q].tab = live'[n].tab /\ live'[q].title = Untitled
        /\ live'[n].title = TitleOf(t.request) /\ made'[n].command = t.request.command
    BY <1>2, <2>1, <2>2
  <2>5. TabAndPane(own2, t, made', live')
    BY <2>2, <2>3, <2>4 DEF TabAndPane
  <2> QED  BY <2>5 DEF Opened, own2
<1>5. CASE OnePane(own, s, made) \/ TabAndPane(own, s, made, live)
  BY <1>5 DEF OnePane, TabAndPane
<1> QED  BY <1>3, <1>4, <1>5 DEF Opened, own

\* A command of a spawn that searches keeps what a lone one knows.
LEMMA SearchingStep ==
  ASSUME BInv, NEW w \in Spawners, NEW t,
         NEW command \in {"new-tab", "new-tab-command", "run", "go-to-tab"},
         SpawnInv(w, spawn[w], host.ssh, made, live, names, Eye, spawn),
         Performed(w, spawn[w].request, command), command \in Pending(spawn[w]),
         t.request = spawn[w].request, t.alone = spawn[w].alone,
         t.before = spawn[w].before, t.hints = spawn[w].hints,
         Pending(t) = Pending(spawn[w]) \ {command},
         t.at \notin Early, t.at \in Looking => spawn[w].at \in Looking,
         ~t.blind => ~spawn[w].blind /\ (command = "run" => Pending(spawn[w]) = {"run"})
  PROVE  Searching(w, t, host.ssh, made', live', Eye')
<1> DEFINE s == spawn[w]
<1> SUFFICES ASSUME t.alone, ~t.blind, t.at \in Looking
             PROVE  /\ Since(w, t.before, made', live') /\ (host.ssh => Since(w, t.hints, made', live'))
                    /\ Opened(Of(w, made'), t, made', live', Eye')
  BY DEF Searching, Early
<1>1. /\ Since(w, s.before, made, live) /\ (host.ssh => Since(w, s.hints, made, live))
      /\ Opened(Of(w, made), s, made, live, Eye)
  BY DEF SpawnInv, Searching
<1>2. s.before \subseteq DOMAIN made /\ s.hints \subseteq DOMAIN made
  BY DEF SpawnInv, Known
<1> HIDE DEF s
<1>3. ASSUME NEW ids, ids \subseteq DOMAIN made, Since(w, ids, made, live)
      PROVE  Since(w, ids, made', live')
  <2>1. CASE command = "go-to-tab"
    BY <1>3, <2>1 DEF Since, Performed
  <2>2. CASE command # "go-to-tab"
    BY <1>3, <2>2 DEF Since, Performed
  <2> QED  BY <2>1, <2>2
<1>4. Of(w, made) \subseteq DOMAIN live
  BY <1>1 DEF Since
<1>5. Opened(Of(w, made'), t, made', live', Eye')
  BY <1>1, <1>4, OpenedStep DEF s
<1> QED  BY <1>1, <1>2, <1>3, <1>5 DEF s

\* The commands a plan still asks for when the first of it is given.
LEMMA TodoGiven ==
  ASSUME NEW t \in Todos, t # <<>>
  PROVE  /\ Tail(t) \in {<<>>, <<"run">>} /\ Tail(t) \in Todos
         /\ Head(t) \in {"new-tab", "new-tab-command", "run", "go-to-tab"}
         /\ Head(t) \in Given(t) /\ Given(Tail(t)) = Given(t) \ {Head(t)}
         /\ Head(t) = "run" => t = <<"run">> /\ Tail(t) = <<>> /\ Given(t) = {"run"}
         /\ Head(t) = "new-tab-command" => t = <<"new-tab-command">>
<1>1. CASE t = <<"run">>
  <2>1. Head(t) = "run" /\ Tail(t) = <<>>
    BY <1>1
  <2> QED  BY <1>1, <2>1, GivenIs DEF Todos
<1>2. CASE t = <<"new-tab">>
  <2>1. Head(t) = "new-tab" /\ Tail(t) = <<>>
    BY <1>2
  <2> QED  BY <1>2, <2>1, GivenIs DEF Todos
<1>3. CASE t = <<"new-tab-command">>
  <2>1. Head(t) = "new-tab-command" /\ Tail(t) = <<>>
    BY <1>3
  <2> QED  BY <1>3, <2>1, GivenIs DEF Todos
<1>4. CASE t = <<"new-tab", "run">>
  <2>1. Head(t) = "new-tab" /\ Tail(t) = <<"run">>
    BY <1>4
  <2> QED  BY <1>4, <2>1, GivenIs DEF Todos
<1>5. CASE t = <<"go-to-tab", "run">>
  <2>1. Head(t) = "go-to-tab" /\ Tail(t) = <<"run">>
    BY <1>5
  <2> QED  BY <1>5, <2>1, GivenIs DEF Todos
<1> QED  BY <1>1, <1>2, <1>3, <1>4, <1>5 DEF Todos

\* Plans of one command are not the empty one, nor each other.
LEMMA TodosDiffer == <<>> # <<"run">> /\ <<"run">> # <<"new-tab-command">> /\ <<>> # <<"new-tab-command">>
OBVIOUS

\* A command is given and awaited.
LEMMA GiveKeeps ==
  ASSUME BInv, NEW w \in Spawners, Give(w)
  PROVE  BInv'
<1> DEFINE s == spawn[w]
           next == [s EXCEPT !.todo = Tail(@), !.at = IF Tail(s.todo) = <<>> THEN Looks ELSE @]
           t == IF Prints(w) THEN [next EXCEPT !.pane = NextPane] ELSE next
           command == Head(s.todo)
<1>1. s.at = "launch" /\ Awaited(w) /\ Rest /\ lost' = lost
  BY DEF Give
<1>2. \/ UNCHANGED <<session, news, made>> /\ Fails(w)
      \/ Performs(w, command) /\ Acts(w, t)
  BY DEF Give
<1>3. s \in Attempt /\ SpawnInv(w, s, host.ssh, made, live, names, Eye, spawn)
  BY <1>1, AtStage
<1>4. CASE UNCHANGED <<session, news, made>> /\ Fails(w)
  <2>1. Keep
    BY <1>1, <1>4 DEF Keep, Rest
  <2>2. WorldOK' /\ UNCHANGED <<live, names, viewing, made, host>>
    BY <1>1, <2>1, KeepWorld DEF BInv, WorldOK
  <2> QED  BY <1>1, <1>4, <2>2, FailsKeeps
<1>5. CASE Performs(w, command) /\ Acts(w, t)
  <2>1. s.todo \in Todos /\ s.todo # <<>>
    BY <1>1, <1>3 DEF Attempt, SpawnInv, Stage
  <2>2. /\ Tail(s.todo) \in {<<>>, <<"run">>} /\ Tail(s.todo) \in Todos
        /\ command \in {"new-tab", "new-tab-command", "run", "go-to-tab"}
        /\ command \in Given(s.todo) /\ Given(Tail(s.todo)) = Given(s.todo) \ {command}
        /\ command = "run" => s.todo = <<"run">> /\ Tail(s.todo) = <<>> /\ Given(s.todo) = {"run"}
        /\ command = "new-tab-command" => s.todo = <<"new-tab-command">>
    BY <2>1, TodoGiven
  <2>3. s.sent = {} /\ s.pane = NoPane /\ s.how = "none"
    <3>1. s.sent # {} => host.ssh /\ s.todo \in {<<>>, <<"run">>}
      BY <1>3 DEF SpawnInv, Stage
    <3>2. Head(<<"run">>) = "run"
      OBVIOUS
    <3>3. host.ssh => command \in {"new-tab", "new-tab-command"}
      BY <1>1 DEF Awaited
    <3> QED  BY <1>1, <1>3, <2>1, <3>1, <3>2, <3>3 DEF SpawnInv, Stage, Early
  <2>4. command = "new-tab-command" => s.request.tab # "any"
    BY <1>3, <2>2 DEF SpawnInv, Stage
  <2>5. UNCHANGED <<changes, tables, granted, timer, lost, host>>
    BY <1>1 DEF Rest
  <2>6. Performed(w, s.request, command)
    BY <1>3, <1>5, <2>2, <2>4, <2>5, PerformsFacts DEF BInv
  <2>7. next \in Attempt /\ next.at = (IF Tail(s.todo) = <<>> THEN Looks ELSE s.at)
        /\ next.todo = Tail(s.todo) /\ next.pane = s.pane
        /\ next.hints = s.hints /\ next.blind = s.blind /\ next.request = s.request
        /\ next.sent = s.sent /\ next.before = s.before /\ next.tabNames = s.tabNames
        /\ next.alone = s.alone /\ next.how = s.how /\ next.sure = s.sure
    <3>1. Looks \in Looking
      BY DEF Looks, Looking
    <3> QED  BY <1>3, <2>2, <3>1 DEF Attempt
  <2> HIDE DEF next
  <2>8. Prints(w) => command = "run" /\ NextPane \in Panes
    BY <2>6 DEF Prints, Performed
  <2>9. /\ t \in Attempt /\ t.at = next.at
        /\ t.todo = Tail(s.todo) /\ t.pane = IF Prints(w) THEN NextPane ELSE NoPane
        /\ t.hints = s.hints /\ t.blind = s.blind /\ t.request = s.request
        /\ t.sent = {} /\ t.before = s.before /\ t.tabNames = s.tabNames
        /\ t.alone = s.alone /\ t.how = "none" /\ t.sure = s.sure
    <3>1. CASE Prints(w)
      <4>1. t = [next EXCEPT !.pane = NextPane]
        BY <3>1
      <4> HIDE DEF t, s
      <4> QED  BY <2>3, <2>7, <2>8, <3>1, <4>1 DEF Attempt
    <3>2. CASE ~Prints(w)
      BY <2>3, <2>7, <3>2
    <3> QED  BY <3>1, <3>2
  <2>10. t.at = IF Tail(s.todo) = <<>> THEN Looks ELSE "launch"
    BY <1>1, <2>7, <2>9
  <2>11. Acts(w, t) /\ s.at = "launch"
    BY <1>1, <1>5
  <2> HIDE DEF t, s, command
  <2>12. /\ t.at \in {"launch", "tabs_after", "after"} /\ (t.at = "launch" => t.todo = <<"run">> /\ t.pane = NoPane)
         /\ (t.at # "launch" => t.todo = <<>>)
    BY <2>2, <2>8, <2>9, <2>10, TodosDiffer DEF Looks
  <2>13. Stage(t, host.ssh)
    <3>1. t.todo # <<"new-tab-command">> /\ (t.at = "launch" => t.todo # <<>>)
      BY <2>12, TodosDiffer
    <3> QED  BY <2>9, <2>12, <3>1 DEF Stage, Early
  <2>14. Known(t, made')
    <3>1. s.hints \union s.before \subseteq DOMAIN made
      BY <1>3 DEF SpawnInv, Known
    <3>2. Prints(w) => NextPane \in DOMAIN made'
      BY <2>6, <2>8 DEF Performed, Of
    <3> QED  BY <2>6, <2>9, <3>1, <3>2 DEF Known, Performed
  <2>15. Printed(w, t, made', spawn)
    <3> SUFFICES ASSUME t.pane # NoPane
                 PROVE  t.pane \in Of(w, made') /\ made'[t.pane].command = t.request.command
      BY <2>9 DEF Printed
    <3> QED  BY <2>6, <2>8, <2>9 DEF Performed
  <2>16. Reused(t, live', names') /\ Found(w, t, made') /\ t.at \notin Early
    BY <2>9, <2>12 DEF Reused, Found, Early
  <2>17. Searching(w, t, host.ssh, made', live', Eye')
    <3>1. Pending(s) = Given(s.todo) /\ Pending(t) = Given(Tail(s.todo))
      BY <2>3, <2>9 DEF Pending
    <3>2. command \in Pending(s) /\ Pending(t) = Pending(s) \ {command}
          /\ (command = "run" => Pending(s) = {"run"})
      BY <2>2, <3>1
    <3>3. s.at \in Looking
      BY <2>11 DEF Looking
    <3> QED  BY <1>3, <2>2, <2>6, <2>9, <2>16, <3>2, <3>3, SearchingStep DEF s
  <2>18. SpawnInv(w, t, host.ssh, made', live', names', Eye', spawn)
    BY <2>9, <2>13, <2>14, <2>15, <2>16, <2>17 DEF SpawnInv
  <2>19. /\ WorldOK' /\ DOMAIN made \subseteq DOMAIN made'
         /\ \A v \in Spawners \ {w} : Of(v, made') = Of(v, made)
         /\ \A p \in DOMAIN made : made'[p].command = made[p].command
    BY <2>6 DEF Performed
  <2>20. spawn[w] # NotYet /\ spawn[w].pane = NoPane
    BY <1>1, <2>3, AtStage DEF s
  <2> QED  BY <2>5, <2>11, <2>18, <2>19, <2>20, ActingStep
<1> QED  BY <1>2, <1>4, <1>5

\* A spawn with a command on its way has not found its pane by a list.
LEMMA OnItsWay ==
  ASSUME BInv, NEW w \in Spawners, spawn[w] # NotYet, NEW command \in spawn[w].sent
  PROVE  LET s == spawn[w] IN
         /\ s \in Attempt /\ SpawnInv(w, s, host.ssh, made, live, names, Eye, spawn)
         /\ s.at \notin Early \union {"tabs_after", "after"} /\ s.how \in {"none", "reconciled"}
         /\ host.ssh /\ s.todo \in {<<>>, <<"run">>}
         /\ command \in {"new-tab", "go-to-tab", "run"} /\ command \notin Given(s.todo)
         /\ command = "run" => s.todo = <<>>
         /\ ~(s.alone /\ s.sure /\ s.how = "reconciled")
<1> DEFINE s == spawn[w]
<1>1. s \in Attempt /\ SpawnInv(w, s, host.ssh, made, live, names, Eye, spawn)
  BY AtStage
<1>2. Stage(s, host.ssh) /\ Found(w, s, made) /\ s.sent # {} /\ command \in s.sent
  BY <1>1 DEF SpawnInv
<1>3. /\ s.how \in {"none", "reuse", "printed", "searched", "reconciled"}
      /\ command \in {"new-tab", "go-to-tab", "run"}
  BY <1>1 DEF Attempt
<1> HIDE DEF s
<1>4. s.at \notin Early \union {"tabs_after", "after"} /\ s.how \in {"none", "reconciled"}
  BY <1>2, <1>3 DEF Stage
<1>5. host.ssh /\ s.todo \in {<<>>, <<"run">>} /\ (command = "run" => s.todo = <<>>)
  BY <1>2 DEF Stage
<1>6. command \notin Given(s.todo)
  BY <1>5, GivenIs, TodosDiffer
<1>7. ~(s.alone /\ s.sure /\ s.how = "reconciled")
  BY <1>2 DEF Found
<1> QED  BY <1>1, <1>3, <1>4, <1>5, <1>6, <1>7 DEF s

\* A detached command takes effect, or never does.
LEMMA ArrivesKeeps ==
  ASSUME BInv, NEW w \in Spawners, Arrives(w)
  PROVE  BInv'
<1> DEFINE s == spawn[w]
<1>1. s # NotYet /\ Rest
  BY DEF Arrives
<1>2. PICK command \in s.sent :
        \/ /\ Performs(w, command) /\ UNCHANGED lost
           /\ Acts(w, [s EXCEPT !.sent = @ \ {command},
                        !.blind = @ \/ (command = "run" /\ s.sent # {"run"})])
        \/ /\ lost < MaxLost /\ lost' = lost + 1
           /\ UNCHANGED <<session, news, made>>
           /\ Now(w, [s EXCEPT !.sent = @ \ {command}, !.blind = TRUE])
  BY DEF Arrives
<1>3. /\ s \in Attempt /\ SpawnInv(w, s, host.ssh, made, live, names, Eye, spawn)
      /\ s.at \notin Early \union {"tabs_after", "after"} /\ s.how \in {"none", "reconciled"}
      /\ host.ssh /\ s.todo \in {<<>>, <<"run">>}
      /\ command \in {"new-tab", "go-to-tab", "run"} /\ command \notin Given(s.todo)
      /\ command = "run" => s.todo = <<>>
      /\ ~(s.alone /\ s.sure /\ s.how = "reconciled")
  BY <1>1, OnItsWay
<1>4. PICK bad \in BOOLEAN : bad = (s.blind \/ (command = "run" /\ s.sent # {"run"}))
  BY <1>3 DEF Attempt
<1>5. ASSUME NEW b \in BOOLEAN
      PROVE  LET t == [s EXCEPT !.sent = @ \ {command}, !.blind = b] IN
             /\ t \in Attempt /\ t.at = s.at /\ t.request = s.request /\ t.todo = s.todo
             /\ t.sent = s.sent \ {command} /\ t.hints = s.hints /\ t.before = s.before
             /\ t.blind = b /\ t.tabNames = s.tabNames /\ t.alone = s.alone
             /\ t.pane = s.pane /\ t.how = s.how /\ t.sure = s.sure
  BY <1>3 DEF Attempt
<1>6. ASSUME NEW b \in BOOLEAN
      PROVE  LET t == [s EXCEPT !.sent = @ \ {command}, !.blind = b] IN
             /\ Stage(t, host.ssh) /\ t.at \notin Early
             /\ \A mk, lv, nm, sp : /\ Known(s, mk) => Known(t, mk)
                                    /\ Printed(w, t, mk, sp) /\ Reused(t, lv, nm) /\ Found(w, t, mk)
  <2> DEFINE t == [s EXCEPT !.sent = @ \ {command}, !.blind = b]
  <2>1. /\ t \in Attempt /\ t.at = s.at /\ t.request = s.request /\ t.todo = s.todo
        /\ t.sent = s.sent \ {command} /\ t.hints = s.hints /\ t.before = s.before
        /\ t.alone = s.alone /\ t.pane = s.pane /\ t.how = s.how /\ t.sure = s.sure
    BY <1>5
  <2> HIDE DEF t, s
  <2>2. Stage(t, host.ssh)
    BY <1>3, <2>1 DEF SpawnInv, Stage
  <2>3. t.at \notin Early
    BY <1>3, <2>1
  <2>4. \A mk, lv, nm, sp : /\ Known(s, mk) => Known(t, mk)
                            /\ Printed(w, t, mk, sp) /\ Reused(t, lv, nm) /\ Found(w, t, mk)
    BY <1>3, <2>1 DEF Known, Printed, Reused, Found
  <2> QED  BY <2>2, <2>3, <2>4 DEF t, s
<1>7. CASE /\ Performs(w, command) /\ UNCHANGED lost
           /\ Acts(w, [s EXCEPT !.sent = @ \ {command},
                        !.blind = @ \/ (command = "run" /\ s.sent # {"run"})])
  <2> DEFINE t == [s EXCEPT !.sent = @ \ {command}, !.blind = bad]
  <2>1. Acts(w, t) /\ Performs(w, command) /\ lost' = lost
    BY <1>4, <1>7
  <2>2. UNCHANGED <<changes, tables, granted, timer, lost, host>>
    BY <1>1, <2>1 DEF Rest
  <2>3. Performed(w, s.request, command)
    BY <1>3, <2>1, <2>2, PerformsFacts DEF BInv
  <2>4. /\ t \in Attempt /\ t.at = s.at /\ t.request = s.request /\ t.todo = s.todo
        /\ t.sent = s.sent \ {command} /\ t.hints = s.hints /\ t.before = s.before
        /\ t.blind = bad /\ t.alone = s.alone /\ t.pane = s.pane
    BY <1>5
  <2>5. /\ Stage(t, host.ssh) /\ t.at \notin Early
        /\ Known(s, made') => Known(t, made')
        /\ Printed(w, t, made', spawn) /\ Reused(t, live', names') /\ Found(w, t, made')
    BY <1>6
  <2> HIDE DEF t
  <2>6. Known(t, made')
    BY <1>3, <2>3, <2>5 DEF SpawnInv, Known, Performed
  <2>7. Searching(w, t, host.ssh, made', live', Eye')
    <3>1. Pending(t) = Pending(s) \ {command} /\ command \in Pending(s)
      BY <1>3, <2>4 DEF Pending
    <3>2. ~bad => ~s.blind /\ (command = "run" => Pending(s) = {"run"})
      BY <1>3, <1>4, GivenIs DEF Pending
    <3> QED  BY <1>3, <2>3, <2>4, <2>5, <3>1, <3>2, SearchingStep
  <2>8. SpawnInv(w, t, host.ssh, made', live', names', Eye', spawn)
    BY <2>4, <2>5, <2>6, <2>7 DEF SpawnInv
  <2>9. /\ WorldOK' /\ DOMAIN made \subseteq DOMAIN made'
        /\ \A v \in Spawners \ {w} : Of(v, made') = Of(v, made)
        /\ \A p \in DOMAIN made : made'[p].command = made[p].command
    BY <2>3 DEF Performed
  <2> QED  BY <1>1, <2>1, <2>2, <2>4, <2>8, <2>9, ActingStep
<1>8. CASE /\ lost < MaxLost /\ lost' = lost + 1
           /\ UNCHANGED <<session, news, made>>
           /\ Now(w, [s EXCEPT !.sent = @ \ {command}, !.blind = TRUE])
  <2> DEFINE t == [s EXCEPT !.sent = @ \ {command}, !.blind = TRUE]
  <2>1. Keep
    BY <1>1, <1>8 DEF Keep, Rest
  <2>2. WorldOK' /\ UNCHANGED <<live, names, viewing, made, host>>
    BY <1>8, <2>1, LostIsBounded, KeepWorld DEF BInv, WorldOK
  <2>3. t \in Attempt /\ t.blind = TRUE /\ t.pane = s.pane
    BY <1>5
  <2>4. /\ Stage(t, host.ssh) /\ t.at \notin Early
        /\ Known(s, made) => Known(t, made)
        /\ Printed(w, t, made, spawn) /\ Reused(t, live, names) /\ Found(w, t, made)
    BY <1>6
  <2>5. Searching(w, t, host.ssh, made, live, Eye)
    BY <2>3 DEF Searching
  <2>6. SpawnInv(w, t, host.ssh, made, live, names, Eye, spawn)
    BY <1>3, <2>3, <2>4, <2>5 DEF SpawnInv
  <2> QED  BY <1>8, <2>2, <2>3, <2>6, QuietStep
<1> QED  BY <1>2, <1>7, <1>8

\* The shell of a new tab becomes the one that was asked for.
LEMMA ExecKeeps ==
  ASSUME BInv, NEW w \in Spawners, Exec(w)
  PROVE  BInv'
<1> DEFINE s == spawn[w]
           t == [s EXCEPT !.at = "bound"]
<1>1. /\ s.at = "exec" /\ UNCHANGED session /\ UNCHANGED tables
      /\ changes' = changes /\ news' = news /\ granted' = granted /\ timer' = timer
      /\ reply' = reply /\ host' = host /\ lost' = lost
  BY DEF Exec
<1>2. s \in Attempt /\ SpawnInv(w, s, host.ssh, made, live, names, Eye, spawn)
  BY <1>1, AtStage
<1>3. live' = live /\ gone' = gone /\ names' = names /\ viewing' = viewing
  BY <1>1 DEF session
<1>4. CASE s.pane \notin DOMAIN panes
  <2>1. Keep /\ Fails(w)
    BY <1>1, <1>4 DEF Exec, Keep, tables
  <2>2. WorldOK' /\ UNCHANGED <<live, names, viewing, made, host>>
    BY <1>1, <2>1, KeepWorld DEF BInv, WorldOK
  <2> QED  BY <1>1, <2>1, <2>2, FailsKeeps
<1>5. CASE s.pane \in DOMAIN panes
  <2>1. Acts(w, t) /\ (made' = made \/ made' = [made EXCEPT ![s.pane].command = s.request.command])
    BY <1>5 DEF Exec
  <2>2. s.pane \in DOMAIN made
    BY <1>5 DEF BInv, WorldOK, PInv, TablesOK, MadeOK
  <2>3. s.request.command \in Commands
    BY <1>2 DEF Attempt, Commands
  <2>4. /\ t \in Attempt /\ t.at = "bound" /\ t.request = s.request /\ t.todo = s.todo
        /\ t.sent = s.sent /\ t.hints = s.hints /\ t.before = s.before
        /\ t.blind = s.blind /\ t.alone = s.alone
        /\ t.pane = s.pane /\ t.how = s.how /\ t.sure = s.sure
    BY <1>2 DEF Attempt
  <2> HIDE DEF t, s
  <2>5. \A p \in DOMAIN made : made[p] \in [by : Spawners \union {User}, command : Commands]
    BY DEF BInv, WorldOK, MadeOK
  <2>6. /\ DOMAIN made' = DOMAIN made
        /\ \A p \in DOMAIN made :
             /\ made'[p] \in [by : Spawners \union {User}, command : Commands]
             /\ made'[p].by = made[p].by
             /\ made'[p].command = made[p].command \/ (p = s.pane /\ made'[p].command = s.request.command)
    <3>1. CASE made' = made
      BY <2>5, <3>1
    <3>2. CASE made' = [made EXCEPT ![s.pane].command = s.request.command]
      BY <2>2, <2>3, <2>5, <3>2
    <3> QED  BY <2>1, <3>1, <3>2
  <2>7. \A v : Of(v, made') = Of(v, made)
    BY <2>6 DEF Of
  <2>8. MadeOK(made', live', gone')
    BY <1>3, <2>6 DEF MadeOK, BInv, WorldOK
  <2>9. WorldOK'
    <3>1. SessionOK' /\ Forgetless
      BY <1>1, SameReports DEF BInv, WorldOK, PInv
    <3>2. PInv'
      BY <1>1, <3>1, ReportedKeeps DEF BInv, WorldOK, PInv
    <3> QED  BY <1>1, <1>3, <2>8, <3>2 DEF BInv, WorldOK
  <2>10. Stage(s, host.ssh) /\ Known(s, made) /\ Found(w, s, made) /\ s.at = "exec"
    BY <1>1, <1>2 DEF SpawnInv, s
  <2>11. Stage(t, host.ssh)
    BY <2>4, <2>10 DEF Stage, Early
  <2>12. Known(t, made')
    BY <2>4, <2>6, <2>10 DEF Known
  <2>13. s.how = "searched" /\ t.at \notin Early
    BY <2>4, <2>10 DEF Stage, Early
  <2>14. Printed(w, t, made', spawn) /\ Reused(t, live', names') /\ Searching(w, t, host.ssh, made', live', Eye')
    BY <2>4, <2>13 DEF Printed, Reused, Searching, Looking
  <2>15. Found(w, t, made')
    BY <2>2, <2>4, <2>6, <2>7, <2>10 DEF Found
  <2>16. SpawnInv(w, t, host.ssh, made', live', names', Eye', spawn)
    BY <2>4, <2>11, <2>12, <2>13, <2>14, <2>15 DEF SpawnInv
  <2>17. spawn[w] # NotYet /\ spawn[w].pane = t.pane
    BY <1>1, <2>4, AtStage DEF s
  <2> QED  BY <1>1, <2>1, <2>4, <2>6, <2>7, <2>9, <2>16, <2>17, ActingStep
<1> QED  BY <1>4, <1>5

\* What the user does to the session.
LEMMA UserActs ==
  ASSUME BInv, UserStep
  PROVE  /\ WorldOK' /\ DOMAIN made \subseteq DOMAIN made'
         /\ \A p \in DOMAIN made : made'[p] = made[p]
         /\ \A v \in Spawners : Of(v, made') = Of(v, made)
<1>1. /\ changes < MaxChanges /\ changes' = changes + 1
      /\ UNCHANGED <<tables, granted, timer, lost>>
  BY DEF UserStep
<1>2. changes' \in 0 .. MaxChanges
  BY <1>1, BoundsAreNumbers DEF BInv, WorldOK, PInv
<1>3. WorldOK /\ SessionOK
  BY DEF BInv, WorldOK, PInv
<1>4. \A v \in Spawners : v # User
  BY UserIsNoSpawner
<1>5. ASSUME Opens(User, NoCommand), SessionOK', Forgetless, DOMAIN viewing' = DOMAIN viewing,
             DOMAIN live' = DOMAIN live \union {NextPane}, gone' = gone
      PROVE  /\ WorldOK' /\ DOMAIN made \subseteq DOMAIN made'
             /\ \A p \in DOMAIN made : made'[p] = made[p]
             /\ \A v \in Spawners : Of(v, made') = Of(v, made)
  <2>1. NoCommand \in Commands
    BY DEF Commands
  <2>2. /\ MadeOK(made', live', gone') /\ DOMAIN made' = DOMAIN made \union {NextPane}
        /\ \A p \in DOMAIN made : made'[p] = made[p]
        /\ \A v : v # User => Of(v, made') = Of(v, made)
    BY <1>3, <1>5, <2>1, OpensFacts
  <2>3. news' = news \union {"panes", "tabs"} /\ DOMAIN viewing' # {}
    BY <1>3, <1>5 DEF Opens, WorldOK
  <2>4. WorldOK'
    BY <1>1, <1>2, <1>3, <1>5, <2>2, <2>3, ReportedWorld
  <2> QED  BY <1>4, <2>2, <2>4
<1>6. Opens(User, NoCommand) => NextPane \in Panes
  BY NextPaneIs DEF Opens, Unopened, Terminals
<1>7. ASSUME NEW t \in Positions, Opens(User, NoCommand), OpenPane(NextPane, t, Untitled)
      PROVE  /\ WorldOK' /\ DOMAIN made \subseteq DOMAIN made'
             /\ \A p \in DOMAIN made : made'[p] = made[p]
             /\ \A v \in Spawners : Of(v, made') = Of(v, made)
  BY <1>3, <1>5, <1>6, <1>7, OpenPaneFacts, NobodyNames
<1>8. ASSUME Opens(User, NoCommand), NewTab(Unnamed, NextPane, Untitled)
      PROVE  /\ WorldOK' /\ DOMAIN made \subseteq DOMAIN made'
             /\ \A p \in DOMAIN made : made'[p] = made[p]
             /\ \A v \in Spawners : Of(v, made') = Of(v, made)
  BY <1>3, <1>5, <1>6, <1>8, NewTabFacts, NobodyNames
<1>9. ASSUME news' = news \union {"panes", "tabs"}, made' = made, SessionOK', Forgetless,
             DOMAIN viewing' # {}, (DOMAIN live \union gone)' = DOMAIN live \union gone
      PROVE  /\ WorldOK' /\ DOMAIN made \subseteq DOMAIN made'
             /\ \A p \in DOMAIN made : made'[p] = made[p]
             /\ \A v \in Spawners : Of(v, made') = Of(v, made)
  <2>1. MadeOK(made', live', gone')
    BY <1>3, <1>9 DEF WorldOK, MadeOK
  <2>2. WorldOK'
    BY <1>1, <1>2, <1>3, <1>9, <2>1, ReportedWorld
  <2> QED  BY <1>9, <2>2
<1>10. Speaker \in Clients
  BY <1>3, EyeIsOpen DEF SessionOK, ViewOK
<1>11. DOMAIN viewing # {}
  BY <1>3 DEF WorldOK
<1>12. ASSUME NEW t, View(Speaker, t), news' = news \union {"panes", "tabs"}, made' = made
       PROVE  /\ WorldOK' /\ DOMAIN made \subseteq DOMAIN made'
              /\ \A p \in DOMAIN made : made'[p] = made[p]
              /\ \A v \in Spawners : Of(v, made') = Of(v, made)
  <2>1. SessionOK' /\ Forgetless
    BY <1>3, <1>10, <1>12, ViewKeeps
  <2>2. DOMAIN viewing' # {} /\ (DOMAIN live \union gone)' = DOMAIN live \union gone
    BY <1>12 DEF View
  <2> QED  BY <1>9, <1>12, <2>1, <2>2
<1>13. ASSUME NEW t, CloseTab(t), news' = news \union {"panes", "tabs"}, made' = made
       PROVE  /\ WorldOK' /\ DOMAIN made \subseteq DOMAIN made'
              /\ \A p \in DOMAIN made : made'[p] = made[p]
              /\ \A v \in Spawners : Of(v, made') = Of(v, made)
  <2>1. SessionOK' /\ Forgetless
    BY <1>3, <1>13, CloseTabKeeps
  <2>2. DOMAIN viewing' = DOMAIN viewing
    BY <1>13 DEF CloseTab
  <2>3. (DOMAIN live \union gone)' = DOMAIN live \union gone
    BY <1>13 DEF CloseTab, InTabNow
  <2> QED  BY <1>9, <1>11, <1>13, <2>1, <2>2, <2>3
<1>14. ASSUME NEW t, NEW name \in TabNames, RenameTab(t, name),
              news' = news \union {"panes", "tabs"}, made' = made
       PROVE  /\ WorldOK' /\ DOMAIN made \subseteq DOMAIN made'
              /\ \A p \in DOMAIN made : made'[p] = made[p]
              /\ \A v \in Spawners : Of(v, made') = Of(v, made)
  <2>1. SessionOK' /\ Forgetless
    BY <1>3, <1>14, RenameTabKeeps
  <2>2. viewing' = viewing /\ live' = live /\ gone' = gone
    BY <1>14 DEF RenameTab
  <2> QED  BY <1>9, <1>11, <1>14, <2>1, <2>2
<1> QED  BY <1>7, <1>8, <1>12, <1>13, <1>14 DEF UserStep

\* The user acts, and every spawn is no longer alone.
LEMMA UserKeeps ==
  ASSUME BInv, UserStep
  PROVE  BInv'
<1>1. /\ WorldOK' /\ DOMAIN made \subseteq DOMAIN made'
      /\ \A p \in DOMAIN made : made'[p] = made[p]
      /\ \A v \in Spawners : Of(v, made') = Of(v, made)
  BY UserActs
<1>2. /\ DOMAIN spawn' = Spawners /\ host' = host
      /\ \A v \in Spawners :
           spawn'[v] = IF spawn[v] = NotYet THEN NotYet ELSE [spawn[v] EXCEPT !.alone = FALSE]
  BY DEF UserStep
<1>3. NoPane \notin DOMAIN made
  BY MadeArePanes DEF BInv
<1>4. \A v \in Spawners : spawn[v] # NotYet =>
        spawn'[v] # NotYet /\ (spawn[v].pane # NoPane => spawn'[v].pane = spawn[v].pane)
  BY <1>2, NoticedPane
<1>5. \A v \in Spawners, p \in DOMAIN made : Taken(v, p, spawn) => Taken(v, p, spawn')
  BY <1>3, <1>4, PanesStay
<1>6. \A v \in Spawners : SpawnAt(v, spawn'[v], host'.ssh, made', live', names', Eye', spawn')
  <2> TAKE v \in Spawners
  <2>1. \A p \in Of(v, made) : made'[p].command = made[p].command
    BY <1>1 DEF Of
  <2> QED  BY <1>1, <1>2, <1>5, <2>1, OthersNotice
<1> QED  BY <1>1, <1>2, <1>6 DEF BInv

\* The plugin takes a report: the session and the spawns are as they were.
LEMMA PluginKeeps ==
  ASSUME BInv, PluginStep
  PROVE  BInv'
<1>1. /\ UNCHANGED session
      /\ host' = host /\ made' = made /\ lost' = lost /\ spawn' = spawn
  BY DEF PluginStep, PaneUpdate, TabUpdate
<1>2. PInv'
  BY PaneUpdateKeeps, TabUpdateKeeps DEF PluginStep, BInv, WorldOK
<1>3. live' = live /\ gone' = gone /\ names' = names /\ viewing' = viewing
  BY <1>1 DEF session
<1>4. Eye' = Eye
  BY <1>3 DEF Eye, Speaker, FirstClient
<1>5. MadeOK(made', live', gone')
  BY <1>1, <1>3 DEF BInv, WorldOK
<1>6. WorldOK'
  BY <1>1, <1>2, <1>3, <1>5 DEF BInv, WorldOK
<1>7. \A w \in Spawners : SpawnAt(w, spawn'[w], host'.ssh, made', live', names', Eye', spawn')
  BY <1>1, <1>3, <1>4 DEF BInv
<1> QED  BY <1>1, <1>6, <1>7 DEF BInv

---------------------------------------------------------------------------
(* The initial states, and the theorems. *)

\* The session a spawn finds is one the plugin knows.
LEMMA SpawnInitWorld == SpawnInit => WorldOK /\ \A w \in Spawners : Of(w, made) = {}
<1> SUFFICES ASSUME SpawnInit PROVE WorldOK /\ \A w \in Spawners : Of(w, made) = {}
  OBVIOUS
<1>1. PICK s \in Starts, second \in SecondTabs :
       LET there == IF second = NoTab THEN {0} ELSE {0, 1}
           pane(t) == IF t = 0 THEN s.pane ELSE [s.pane EXCEPT !.n = @ + 1]
           open == {pane(t) : t \in there}
           tab(p) == p.n - s.pane.n
           name(t) == IF t = 0 THEN s.name ELSE second
       IN /\ live = [p \in open |-> [tab |-> tab(p), title |-> s.title, suppressed |-> FALSE]]
          /\ names = [t \in there |-> name(t)]
          /\ focus = [t \in there |-> pane(t)]
          /\ viewing = [d \in {s.client} |-> 0]
          /\ panes = [p \in open |-> [tab |-> tab(p), name |-> name(tab(p)), title |-> s.title,
                                     suppressed |-> FALSE, focused |-> TRUE]]
          /\ tabs = [t \in there |-> [name |-> name(t), active |-> t = 0]]
          /\ current = s.pane
          /\ made = [p \in open |-> [by |-> User, command |-> NoCommand]]
  BY DEF SpawnInit
<1> DEFINE there == IF second = NoTab THEN {0} ELSE {0, 1}
           pane(t) == IF t = 0 THEN s.pane ELSE [s.pane EXCEPT !.n = @ + 1]
           open == {pane(t) : t \in there}
           tab(p) == p.n - s.pane.n
           name(t) == IF t = 0 THEN s.name ELSE second
<1>2. /\ live = [p \in open |-> [tab |-> tab(p), title |-> s.title, suppressed |-> FALSE]]
      /\ names = [t \in there |-> name(t)] /\ focus = [t \in there |-> pane(t)]
      /\ viewing = [d \in {s.client} |-> 0]
      /\ panes = [p \in open |-> [tab |-> tab(p), name |-> name(tab(p)), title |-> s.title,
                                 suppressed |-> FALSE, focused |-> TRUE]]
      /\ tabs = [t \in there |-> [name |-> name(t), active |-> t = 0]]
      /\ current = s.pane /\ made = [p \in open |-> [by |-> User, command |-> NoCommand]]
  BY <1>1
<1>3. /\ gone = {} /\ changes = 0 /\ news = {} /\ granted = TRUE /\ timer = TRUE /\ lost = 0
  BY DEF SpawnInit
<1>4. s.name \in TabNames /\ s.pane \in Terminals /\ s.title \in Titles /\ s.client \in Clients
  BY StartsAreSessions
<1>5. second # NoTab => /\ second \in TabNames /\ MaxTabs > 1
                        /\ [s.pane EXCEPT !.n = @ + 1] \in Terminals
  BY SecondTabsAreTabs
<1>6. s.pane.n \in Nat /\ s.pane \in [plugin : BOOLEAN, n : Nat]
  BY <1>4, PanesAreIds DEF Terminals
<1>7. PICK k \in 1 .. MaxTabs : there = 0 .. k - 1
  <2>1. CASE second = NoTab
    <3>1. there = 0 .. 1 - 1 /\ 1 \in 1 .. MaxTabs
      BY <2>1, BoundsAreNumbers
    <3> QED  BY <3>1
  <2>2. CASE second # NoTab
    <3>1. there = 0 .. 2 - 1 /\ 2 \in 1 .. MaxTabs
      BY <1>5, <2>2, BoundsAreNumbers
    <3> QED  BY <3>1
  <2> QED  BY <2>1, <2>2
<1>8. \A t \in there : pane(t) \in Terminals /\ tab(pane(t)) = t /\ name(t) \in TabNames
  <2> SUFFICES ASSUME NEW t \in there
               PROVE  pane(t) \in Terminals /\ tab(pane(t)) = t /\ name(t) \in TabNames
    OBVIOUS
  <2>1. CASE t = 0
    BY <1>4, <1>6, <2>1
  <2>2. CASE t # 0
    <3>1. t = 1 /\ second # NoTab
      BY <2>2
    <3>2. [s.pane EXCEPT !.n = @ + 1].n = s.pane.n + 1
      BY <1>6
    <3> QED  BY <1>5, <1>6, <3>1, <3>2
  <2> QED  BY <2>1, <2>2
<1> HIDE DEF there, pane, tab, name
<1>9. \A p \in open : p \in Terminals /\ tab(p) \in there /\ p = pane(tab(p))
  BY <1>8
<1>10. DOMAIN live = open /\ Positions = there
       /\ \A p \in open : live[p].tab = tab(p) /\ live[p].title = s.title /\ live[p].suppressed = FALSE
  BY <1>2 DEF Positions
<1>11. LiveOK
  <2>1. open \subseteq Panes
    BY <1>9 DEF Terminals
  <2>2. \A p \in open : live[p] \in [tab : Positions, title : Titles, suppressed : BOOLEAN]
    BY <1>2, <1>4, <1>9, <1>10
  <2> QED  BY <1>3, <1>10, <2>1, <2>2 DEF LiveOK
<1>12. NamesOK
  <2>1. names \in [0 .. k - 1 -> TabNames]
    BY <1>2, <1>7, <1>8
  <2> QED  BY <2>1 DEF NamesOK
<1>13. FocusOK
  <2>1. \A t \in there : pane(t) \in open /\ focus[t] = pane(t)
    BY <1>2
  <2>2. \A t \in there : pane(t) \in Focusable(t)
    BY <1>8, <1>10, <2>1 DEF Focusable, InTabNow
  <2> QED  BY <1>2, <1>10, <2>1, <2>2 DEF FocusOK
<1>14. 0 \in there
  BY <1>7
<1>15. ViewOK /\ DOMAIN viewing = {s.client} /\ viewing[s.client] = 0
  BY <1>2, <1>4, <1>10, <1>14 DEF ViewOK
<1>16. Speaker = s.client
  BY <1>15, LeastClient DEF Speaker
<1>17. \A t : ActiveNow(t) <=> t = 0
  BY <1>15, <1>16 DEF ActiveNow
<1>18. PanesTold
  <2>1. \A p \in open : focus[tab(p)] = p
    BY <1>2, <1>9
  <2>2. \A p \in open : /\ panes[p].tab = tab(p) /\ panes[p].title = s.title
                        /\ panes[p].suppressed = FALSE /\ panes[p].focused = TRUE
    BY <1>2
  <2> QED  BY <1>2, <1>10, <2>1, <2>2 DEF PanesTold
<1>19. TabsTold
  <2>1. \A t \in there : \E b \in BOOLEAN : /\ (b <=> t = 0) /\ tabs[t] = [name |-> name(t), active |-> b]
    <3> TAKE t \in there
    <3>1. PICK b \in BOOLEAN : b = (t = 0)
      OBVIOUS
    <3> QED  BY <1>2, <3>1
  <2>2. \A t \in there : ActiveNow(t) \in BOOLEAN
    BY DEF ActiveNow
  <2>3. \A t \in there : tabs[t].name = names[t] /\ tabs[t].active = ActiveNow(t)
    BY <1>2, <1>17, <2>1, <2>2
  <2> QED  BY <1>2, <1>10, <2>3 DEF TabsTold
<1>20. TablesOK
  <2>1. DOMAIN panes = open /\ DOMAIN tabs = 0 .. k - 1 /\ k \in 0 .. MaxTabs
    BY <1>2, <1>7, BoundsAreNumbers
  <2>2. \A p \in open : panes[p] \in Entries
    <3> TAKE p \in open
    <3>1. tab(p) \in 0 .. MaxTabs - 1
      BY <1>7, <1>9, BoundsAreNumbers
    <3>2. name(tab(p)) \in TabNames
      BY <1>8, <1>9
    <3> QED  BY <1>2, <1>4, <3>1, <3>2 DEF Entries
  <2>3. \A t \in there : tabs[t] \in [name : TabNames, active : BOOLEAN]
    <3> TAKE t \in there
    <3>1. PICK b \in BOOLEAN : b = (t = 0)
      OBVIOUS
    <3> QED  BY <1>2, <1>8, <3>1
  <2>4. current \in Panes
    BY <1>2, <1>4 DEF Terminals
  <2> QED  BY <1>2, <1>10, <2>1, <2>2, <2>3, <2>4 DEF TablesOK
<1>21. PInv
  BY <1>3, <1>11, <1>12, <1>13, <1>15, <1>18, <1>19, <1>20, BoundsAreNumbers DEF PInv, SessionOK
<1>22. DOMAIN made = open /\ \A p \in open : made[p] = [by |-> User, command |-> NoCommand]
  BY <1>2
<1>23. MadeOK(made, live, gone)
  BY <1>3, <1>9, <1>10, <1>22 DEF MadeOK, Commands
<1>24. \A w \in Spawners : Of(w, made) = {}
  BY <1>22, UserIsNoSpawner DEF Of
<1> QED  BY <1>3, <1>15, <1>21, <1>23, <1>24, LossesAreBounded DEF WorldOK

\* At first nobody has begun.
LEMMA SpawnInitBInv == SpawnInit => BInv
<1> SUFFICES ASSUME SpawnInit PROVE BInv
  OBVIOUS
<1>1. WorldOK /\ \A w \in Spawners : Of(w, made) = {}
  BY SpawnInitWorld
<1>2. spawn = [w \in Spawners |-> NotYet]
  BY DEF SpawnInit
<1> QED  BY <1>1, <1>2 DEF BInv, SpawnAt

\* Every step, and a stutter, keeps the invariant.
LEMMA SpawnNextBInv ==
  ASSUME BInv, [SpawnNext]_spawnVars
  PROVE  BInv'
<1>1. CASE UserStep
  BY <1>1, UserKeeps
<1>2. CASE PluginStep
  BY <1>2, PluginKeeps
<1>3. ASSUME NEW w \in Spawners, NEW r \in SpawnRequests, Start(w, r)
      PROVE  BInv'
  BY <1>3, StartKeeps
<1>4. ASSUME NEW w \in Spawners, SpawnStep(w)
      PROVE  BInv'
  BY <1>4, ListTabsKeeps, HintsKeeps, PrepareKeeps, GiveKeeps, RefusedKeeps, Detach1Keeps, ArrivesKeeps,
     FindSpawnedKeeps, ExecKeeps, ReconcileKeeps DEF SpawnStep
<1>5. CASE UNCHANGED spawnVars
  <2>1. /\ Keep /\ lost' = lost /\ spawn' = spawn
    BY <1>5 DEF spawnVars, vars, Keep
  <2>2. WorldOK' /\ UNCHANGED <<live, names, viewing, made, host>> /\ Eye' = Eye
    BY <2>1, KeepWorld DEF BInv, WorldOK
  <2>3. live' = live /\ names' = names /\ made' = made /\ host' = host
    BY <2>2
  <2> QED  BY <2>1, <2>2, <2>3 DEF BInv
<1> QED  BY <1>1, <1>2, <1>3, <1>4, <1>5 DEF SpawnNext

\* The invariant holds throughout.
LEMMA SpawnInvariance == SpawnSpec => []BInv
BY SpawnInitBInv, SpawnNextBInv, PTL DEF SpawnSpec

\* Every spawn keeps to its stages and knows only panes that were opened, whatever
\* the user, the plugin and the other spawns do.
THEOREM SpawnsAreTyped == SpawnSpec => []SpawnTypeOK
<1>1. BInv => SpawnTypeOK
  <2> SUFFICES ASSUME BInv PROVE SpawnTypeOK
    OBVIOUS
  <2>1. TypeOK
    BY DEF BInv, WorldOK, PInv, SessionOK, LiveOK, NamesOK, FocusOK, ViewOK, TablesOK, TypeOK
  <2>2. DOMAIN live \subseteq DOMAIN made /\ lost \in 0 .. MaxLost
    BY DEF BInv, WorldOK, MadeOK
  <2>3. ASSUME NEW w \in Spawners, spawn[w] # NotYet
        PROVE  LET s == spawn[w] IN
               /\ s.at \in {"tabs", "hints", "before", "launch", "tabs_after", "after",
                           "provisional", "exec", "bound", "failed"}
               /\ s.sent \subseteq {"new-tab", "go-to-tab", "run"}
               /\ s.hints \union s.before \subseteq DOMAIN made
               /\ s.at \in {"exec", "bound"} => s.pane \in DOMAIN made
    <3>1. spawn[w] \in Attempt /\ Stage(spawn[w], host.ssh) /\ Known(spawn[w], made)
      BY <2>3, AtStage DEF SpawnInv
    <3> QED  BY <3>1 DEF Attempt, Early, Looking, Stage, Known
  <2> QED  BY <2>1, <2>2, <2>3 DEF SpawnTypeOK
<1> QED  BY SpawnInvariance, <1>1, PTL

\* A spawn that Zellij told its pane, or that was alone with an up-to-date listing
\* and nothing to come, binds the pane its command runs in, unless another takes
\* that pane for its own.
THEOREM SpawnsBindTheirCommand == SpawnSpec => []BindsTheCommand
<1>1. BInv => BindsTheCommand
  <2> SUFFICES ASSUME BInv, NEW w \in Begun,
                      LET s == spawn[w] IN
                      s.how = "printed" \/ (s.how \in {"searched", "reconciled"} /\ s.sure /\ s.alone)
               PROVE  LET s == spawn[w] IN
                      \/ /\ s.pane \in Own(w)
                         /\ \/ Command(s.pane) = s.request.command
                            \/ s.request.default /\ Own(w) = {s.pane}
                      \/ \E v \in Begun \ {w} : spawn[v].pane = s.pane
    BY DEF BindsTheCommand
  <2>1. w \in Spawners /\ spawn[w] # NotYet /\ Own(w) = Of(w, made)
    BY DEF Begun, Own, Of
  <2>2. Printed(w, spawn[w], made, spawn) /\ Found(w, spawn[w], made)
    BY <2>1, AtStage DEF SpawnInv
  <2>3. CASE spawn[w].how = "printed"
    <3>1. /\ spawn[w].pane \in Of(w, made)
          /\ made[spawn[w].pane].command = spawn[w].request.command \/ Taken(w, spawn[w].pane, spawn)
      BY <2>2, <2>3 DEF Printed
    <3> QED  BY <2>1, <3>1 DEF Taken, Begun, Command
  <2>4. CASE spawn[w].how \in {"searched", "reconciled"} /\ spawn[w].sure /\ spawn[w].alone
    BY <2>1, <2>2, <2>4 DEF Found, Command
  <2> QED  BY <2>3, <2>4
<1> QED  BY SpawnInvariance, <1>1, PTL

\* The pane a lone spawn reuses from an up-to-date listing is in the tab that was
\* named.
THEOREM ReusesStayInTheirTab == SpawnSpec => []ReuseIsInItsTab
<1>1. BInv => ReuseIsInItsTab
  <2> SUFFICES ASSUME BInv, NEW w \in Begun, spawn[w].how = "reuse", spawn[w].sure, spawn[w].alone
               PROVE  spawn[w].pane \in DOMAIN live
                      /\ names[live[spawn[w].pane].tab] = spawn[w].request.tab
    BY DEF ReuseIsInItsTab
  <2>1. w \in Spawners /\ spawn[w] # NotYet
    BY DEF Begun
  <2>2. Reused(spawn[w], live, names)
    BY <2>1, AtStage DEF SpawnInv
  <2> QED  BY <2>2 DEF Reused
<1> QED  BY SpawnInvariance, <1>1, PTL

=============================================================================
