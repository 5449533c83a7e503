------------------------- MODULE ZrpcPluginProofs -------------------------
(***************************************************************************)
(* Proofs about ZrpcPlugin, for every session, number of tabs and set of   *)
(* requests: the session and the tables are well formed, a settled list    *)
(* is the session's, a send reaches the panes it names, and an id reaches  *)
(* only its pane however late the tables are.                              *)
(***************************************************************************)
EXTENDS ZrpcPlugin, FiniteSetTheorems, WellFoundedInduction, TLAPS

---------------------------------------------------------------------------
(* The inductive invariant. *)

LiveOK ==
  /\ DOMAIN live \subseteq Panes /\ gone \subseteq Panes \ DOMAIN live
  /\ \A p \in DOMAIN live : live[p] \in [tab : Positions, title : Titles, suppressed : BOOLEAN]
NamesOK == \E k \in 1 .. MaxTabs : names \in [0 .. k - 1 -> TabNames]
FocusOK ==
  /\ DOMAIN focus = Positions
  /\ \A t \in Positions : focus[t] \in Focusable(t) \union {NoPane}
ViewOK == DOMAIN viewing \subseteq Clients /\ \A c \in DOMAIN viewing : viewing[c] \in Positions

SessionOK == LiveOK /\ NamesOK /\ FocusOK /\ ViewOK

\* A step of the session forgets no pane.
Forgetless == DOMAIN live \union gone \subseteq (DOMAIN live \union gone)'

TablesOK ==
  /\ DOMAIN panes \subseteq DOMAIN live \union gone
  /\ \A p \in DOMAIN panes : panes[p] \in Entries
  /\ \E k \in 0 .. MaxTabs : DOMAIN tabs = 0 .. k - 1
  /\ \A t \in DOMAIN tabs : tabs[t] \in [name : TabNames, active : BOOLEAN]
  /\ current \in Panes \union {NoPane}

\* What the tables say when nothing is on its way.
PanesTold ==
  /\ DOMAIN panes = DOMAIN live
  /\ \A p \in DOMAIN live :
       /\ panes[p].tab = live[p].tab /\ panes[p].title = live[p].title
       /\ panes[p].suppressed = live[p].suppressed
       /\ panes[p].focused <=> (focus[live[p].tab] = p)
TabsTold ==
  /\ DOMAIN tabs = Positions
  /\ \A t \in Positions : tabs[t].name = names[t] /\ tabs[t].active = ActiveNow(t)

PInv ==
  /\ SessionOK /\ TablesOK
  /\ changes \in 0 .. MaxChanges
  /\ news \subseteq {"panes", "tabs", "clients"}
  /\ granted \in BOOLEAN /\ timer \in BOOLEAN
  /\ "panes" \notin news => PanesTold
  /\ "tabs" \notin news => TabsTold

---------------------------------------------------------------------------
(* The steps of the session. *)

\* The focus passes to another pane of the tab, or to none.
LEMMA PassFocusKeeps ==
  ASSUME FocusOK, NEW p \in Panes, NEW t \in Positions, p \in InTabNow(t), PassFocus(t, p)
  PROVE  /\ DOMAIN focus' = Positions
         /\ \A u \in Positions : focus'[u] \in (Focusable(u) \ {p}) \union {NoPane}
<1>1. \A u \in Positions : p \in Focusable(u) => u = t
  BY DEF Focusable, InTabNow
<1>2. CASE focus[t] # p
  BY <1>1, <1>2 DEF PassFocus, FocusOK
<1>3. CASE focus[t] = p /\ Focusable(t) \ {p} = {}
  BY <1>1, <1>3 DEF PassFocus, FocusOK, FocusAfter
<1>4. CASE focus[t] = p /\ Focusable(t) \ {p} # {}
  BY <1>1, <1>4 DEF PassFocus, FocusOK, FocusAfter
<1> QED
  BY <1>2, <1>3, <1>4

\* A pane opens.
LEMMA OpenKeeps ==
  ASSUME SessionOK, NEW p \in Panes, NEW t, NEW title \in Titles, OpenPane(p, t, title)
  PROVE  SessionOK' /\ Forgetless
<1> USE DEF OpenPane, Put
<1>1. LiveOK' /\ Forgetless
  BY DEF SessionOK, LiveOK, Positions, Forgetless
<1>2. FocusOK'
  BY DEF SessionOK, FocusOK, Positions, Focusable, InTabNow, FocusAfter
<1> QED
  BY <1>1, <1>2 DEF SessionOK, NamesOK, ViewOK, Positions

\* A pane closes.
LEMMA CloseKeeps ==
  ASSUME SessionOK, NEW p \in Panes, ClosePane(p)
  PROVE  SessionOK' /\ Forgetless
<1> USE DEF ClosePane
<1>1. LiveOK' /\ Forgetless
  BY DEF SessionOK, LiveOK, Positions, Forgetless
<1>2. /\ DOMAIN focus' = Positions
      /\ \A u \in Positions : focus'[u] \in (Focusable(u) \ {p}) \union {NoPane}
  BY PassFocusKeeps DEF SessionOK, LiveOK, InTabNow
<1>3. \A u \in Positions : Focusable(u)' = Focusable(u) \ {p}
  BY DEF Focusable, InTabNow
<1>4. FocusOK'
  BY <1>2, <1>3 DEF FocusOK, Positions
<1> QED
  BY <1>1, <1>4 DEF SessionOK, NamesOK, ViewOK, Positions

\* A pane is put out of sight.
LEMMA SuppressKeeps ==
  ASSUME SessionOK, NEW p \in Panes, SuppressPane(p)
  PROVE  SessionOK' /\ Forgetless
<1> USE DEF SuppressPane
<1>1. LiveOK' /\ Forgetless
  BY DEF SessionOK, LiveOK, Positions, Forgetless
<1>2. /\ DOMAIN focus' = Positions
      /\ \A u \in Positions : focus'[u] \in (Focusable(u) \ {p}) \union {NoPane}
  BY PassFocusKeeps DEF SessionOK, LiveOK, InTabNow
<1>3. \A u \in Positions : Focusable(u) \ {p} \subseteq Focusable(u)'
  BY DEF SessionOK, LiveOK, Focusable, InTabNow
<1>4. FocusOK'
  BY <1>2, <1>3 DEF FocusOK, Positions
<1> QED
  BY <1>1, <1>4 DEF SessionOK, NamesOK, ViewOK, Positions

\* A pane is focused.
LEMMA FocusKeeps ==
  ASSUME SessionOK, NEW p \in Panes, FocusPane(p)
  PROVE  SessionOK' /\ Forgetless
<1> USE DEF FocusPane
<1>1. LiveOK' /\ Forgetless
  BY DEF SessionOK, LiveOK, Positions, Forgetless
<1>2. FocusOK'
  <2>1. \A u \in Positions : Focusable(u) \subseteq Focusable(u)'
    BY DEF SessionOK, LiveOK, Focusable, InTabNow
  <2>2. p \in (Focusable(live[p].tab))'
    BY DEF SessionOK, LiveOK, Focusable, InTabNow
  <2> QED
    BY <2>1, <2>2 DEF SessionOK, LiveOK, FocusOK, Positions, FocusAfter
<1>3. ViewOK'
  BY DEF SessionOK, LiveOK, ViewOK, Positions
<1> QED
  BY <1>1, <1>2, <1>3 DEF SessionOK, NamesOK

\* A pane is renamed.
LEMMA RenamePaneKeeps ==
  ASSUME SessionOK, NEW p \in Panes, NEW title \in Titles, RenamePane(p, title)
  PROVE  SessionOK' /\ Forgetless
<1> USE DEF RenamePane
<1>1. LiveOK' /\ Forgetless
  BY DEF SessionOK, LiveOK, Positions, Forgetless
<1>2. \A u \in Positions : Focusable(u) \subseteq Focusable(u)'
  BY DEF SessionOK, LiveOK, Focusable, InTabNow
<1> QED
  BY <1>1, <1>2 DEF SessionOK, NamesOK, FocusOK, ViewOK, Positions

\* A tab is renamed.
LEMMA RenameTabKeeps ==
  ASSUME SessionOK, NEW t, NEW name \in TabNames, RenameTab(t, name)
  PROVE  SessionOK' /\ Forgetless
<1> USE DEF RenameTab
<1>1. Positions' = Positions /\ NamesOK'
  BY DEF SessionOK, NamesOK, Positions
<1> QED
  BY <1>1 DEF SessionOK, LiveOK, FocusOK, ViewOK, Focusable, InTabNow, Forgetless

\* The tabs are numbered without a gap, and there are some.
LEMMA TabsAreNumbered ==
  ASSUME NamesOK
  PROVE  \E k \in 1 .. MaxTabs : Positions = 0 .. k - 1 /\ Cardinality(Positions) = k
<1>1. PICK k \in 1 .. MaxTabs : names \in [0 .. k - 1 -> TabNames]
  BY DEF NamesOK
<1>2. Positions = 0 .. k - 1
  BY <1>1 DEF Positions
<1>3. k \in Nat /\ k >= 1
  BY BoundsAreNumbers
<1>4. Cardinality(0 .. k - 1) = k
  BY <1>3, FS_Interval
<1> QED
  BY <1>2, <1>4

\* A tab opens at the end.
LEMMA NewTabKeeps ==
  ASSUME SessionOK, NEW p \in Panes, NEW name \in TabNames, NEW title \in Titles,
         NewTab(name, p, title)
  PROVE  SessionOK' /\ Forgetless
<1>1. PICK k \in 1 .. MaxTabs : Positions = 0 .. k - 1 /\ Cardinality(Positions) = k
  BY TabsAreNumbered DEF SessionOK
<1>2. k \in Nat /\ k < MaxTabs /\ k \notin Positions
  BY <1>1, BoundsAreNumbers DEF NewTab
<1>3. /\ names' = [u \in Positions \union {k} |-> IF u = k THEN name ELSE names[u]]
      /\ focus' = [u \in Positions \union {k} |-> IF u = k THEN p ELSE focus[u]]
      /\ live' = Put(p, k, title)
      /\ viewing' = [c \in DOMAIN viewing |-> k]
      /\ p \notin DOMAIN live \union gone /\ gone' = gone
  BY <1>1 DEF NewTab
<1>4. Positions' = Positions \union {k} /\ Positions' = 0 .. k
  BY <1>1, <1>2, <1>3 DEF Positions
<1>5. NamesOK'
  <2>1. names' \in [0 .. k -> TabNames]
    BY <1>1, <1>3, <1>4 DEF SessionOK, NamesOK, Positions
  <2>2. k + 1 \in 1 .. MaxTabs /\ (k + 1) - 1 = k
    BY <1>2, BoundsAreNumbers
  <2> QED
    BY <2>1, <2>2 DEF NamesOK
<1>6. LiveOK' /\ Forgetless
  BY <1>3, <1>4 DEF SessionOK, LiveOK, Forgetless, Put
<1>7. FocusOK'
  <2>1. \A u \in Positions : Focusable(u) \subseteq Focusable(u)' /\ u # k
    BY <1>2, <1>3 DEF Focusable, InTabNow, Put
  <2>2. p \in Focusable(k)'
    BY <1>3 DEF Focusable, InTabNow, Put
  <2> QED
    BY <1>3, <1>4, <2>1, <2>2 DEF SessionOK, FocusOK
<1>8. ViewOK'
  BY <1>3, <1>4 DEF SessionOK, ViewOK
<1> QED
  BY <1>5, <1>6, <1>7, <1>8 DEF SessionOK

\* A tab closes, and the ones after it move down.
LEMMA CloseTabKeeps ==
  ASSUME SessionOK, NEW t, CloseTab(t)
  PROVE  SessionOK' /\ Forgetless
<1> DEFINE down(u) == IF u > t THEN u - 1 ELSE u
           was(u) == IF u < t THEN u ELSE u + 1
<1>1. PICK k \in 1 .. MaxTabs : Positions = 0 .. k - 1 /\ Cardinality(Positions) = k
  BY TabsAreNumbered DEF SessionOK
<1>2. k \in Nat /\ k > 1 /\ t \in 0 .. k - 1 /\ MaxTabs \in Nat /\ k <= MaxTabs
  BY <1>1, BoundsAreNumbers DEF CloseTab
<1>3. /\ names' = [u \in 0 .. k - 2 |-> names[was(u)]]
      /\ focus' = [u \in 0 .. k - 2 |-> focus[was(u)]]
      /\ live' = [p \in DOMAIN live \ InTabNow(t) |-> [live[p] EXCEPT !.tab = down(live[p].tab)]]
      /\ gone' = gone \union InTabNow(t)
      /\ viewing' = [c \in DOMAIN viewing |-> IF viewing[c] = t THEN 0 ELSE down(viewing[c])]
  BY <1>1 DEF CloseTab
<1>4. Positions' = 0 .. k - 2
  BY <1>3 DEF Positions
<1>5. \A u \in 0 .. k - 2 : was(u) \in 0 .. k - 1 /\ was(u) # t /\ down(was(u)) = u
  BY <1>2
<1>6. \A u \in (0 .. k - 1) \ {t} : down(u) \in 0 .. k - 2
  BY <1>2
<1> HIDE DEF down, was
<1>7. NamesOK'
  <2>1. names \in [0 .. k - 1 -> TabNames]
    BY <1>1 DEF SessionOK, NamesOK, Positions
  <2>2. names' \in [0 .. k - 2 -> TabNames]
    BY <1>3, <1>5, <2>1
  <2>3. k - 1 \in 1 .. MaxTabs /\ (k - 1) - 1 = k - 2
    BY <1>2
  <2> QED
    BY <2>2, <2>3 DEF NamesOK
<1>8. \A p \in DOMAIN live \ InTabNow(t) :
        /\ live[p] \in [tab : Positions, title : Titles, suppressed : BOOLEAN]
        /\ live[p].tab \in (0 .. k - 1) \ {t}
        /\ live'[p] = [live[p] EXCEPT !.tab = down(live[p].tab)]
  BY <1>1, <1>3 DEF SessionOK, LiveOK, InTabNow
<1>9. LiveOK' /\ Forgetless
  <2>1. DOMAIN live' = DOMAIN live \ InTabNow(t) /\ InTabNow(t) \subseteq DOMAIN live
    BY <1>3 DEF InTabNow
  <2>2. \A p \in DOMAIN live' : live'[p] \in [tab : 0 .. k - 2, title : Titles, suppressed : BOOLEAN]
    BY <1>6, <1>8, <2>1
  <2> QED
    BY <1>3, <1>4, <2>1, <2>2 DEF SessionOK, LiveOK, Forgetless
<1>10. FocusOK'
  <2>1. ASSUME NEW u \in 0 .. k - 2
        PROVE  Focusable(was(u)) \subseteq Focusable(u)'
    <3> SUFFICES ASSUME NEW p \in Focusable(was(u))
                 PROVE  p \in Focusable(u)'
      OBVIOUS
    <3>1. p \in DOMAIN live \ InTabNow(t) /\ live[p].tab = was(u) /\ ~live[p].suppressed
      BY <1>5, <2>1 DEF Focusable, InTabNow
    <3>2. p \in DOMAIN live' /\ live'[p].tab = u /\ ~live'[p].suppressed
      BY <1>3, <1>5, <1>8, <3>1
    <3> QED
      BY <3>2 DEF Focusable, InTabNow
  <2>2. \A u \in 0 .. k - 2 : focus'[u] \in Focusable(was(u)) \union {NoPane}
    BY <1>1, <1>3, <1>5 DEF SessionOK, FocusOK
  <2> QED
    BY <1>3, <1>4, <2>1, <2>2 DEF FocusOK
<1>11. ViewOK'
  BY <1>1, <1>2, <1>3, <1>4, <1>6 DEF SessionOK, ViewOK
<1> QED
  BY <1>7, <1>9, <1>10, <1>11 DEF SessionOK

\* A client looks at another tab, attaches or detaches.
LEMMA ViewKeeps ==
  ASSUME SessionOK, NEW c \in Clients, NEW t, View(c, t) \/ Detach(c)
  PROVE  SessionOK' /\ Forgetless
<1>1. UNCHANGED <<live, gone, names, focus>>
  BY DEF View, Detach
<1>2. ViewOK'
  <2>1. CASE View(c, t)
    BY <2>1 DEF View, SessionOK, ViewOK, Positions
  <2>2. CASE Detach(c)
    BY <2>2 DEF Detach, SessionOK, ViewOK, Positions
  <2> QED
    BY <2>1, <2>2
<1> QED
  BY <1>1, <1>2 DEF SessionOK, LiveOK, NamesOK, FocusOK, Focusable, InTabNow, Positions, Forgetless

\* What the user does to the session keeps it well formed.
LEMMA SessionKeeps ==
  ASSUME SessionOK, Session
  PROVE  SessionOK' /\ Forgetless
<1>1. \A p \in Panes : FirstTitle[p] \in Titles
  BY FirstTitlesAreTitles
<1>2. Terminals \subseteq Panes
  BY DEF Terminals
<1>3. ASSUME NEW p \in Panes, NEW t \in Positions, OpenPane(p, t, FirstTitle[p])
      PROVE  SessionOK' /\ Forgetless
  BY <1>1, <1>3, OpenKeeps
<1>4. ASSUME NEW p \in Panes, ClosePane(p) \/ SuppressPane(p) \/ FocusPane(p)
      PROVE  SessionOK' /\ Forgetless
  BY <1>4, CloseKeeps, SuppressKeeps, FocusKeeps
<1>5. ASSUME NEW name \in TabNames, NEW p \in Terminals, NewTab(name, p, FirstTitle[p])
      PROVE  SessionOK' /\ Forgetless
  BY <1>1, <1>2, <1>5, NewTabKeeps
<1>6. ASSUME NEW t \in Positions, CloseTab(t) \/ \E name \in TabNames : RenameTab(t, name)
      PROVE  SessionOK' /\ Forgetless
  BY <1>6, CloseTabKeeps, RenameTabKeeps
<1>7. ASSUME NEW c \in Clients, Detach(c) \/ \E t \in Positions : View(c, t)
      PROVE  SessionOK' /\ Forgetless
  BY <1>7, ViewKeeps
<1> QED
  BY <1>3, <1>4, <1>5, <1>6, <1>7 DEF Session

---------------------------------------------------------------------------
(* The events and the requests. *)

\* What the session reports depends on the session only.
LEMMA SameReports ==
  ASSUME UNCHANGED session
  PROVE  /\ SessionOK' <=> SessionOK
         /\ PanesTold' <=> (/\ DOMAIN panes' = DOMAIN live
                            /\ \A p \in DOMAIN live :
                                 /\ panes'[p].tab = live[p].tab /\ panes'[p].title = live[p].title
                                 /\ panes'[p].suppressed = live[p].suppressed
                                 /\ panes'[p].focused <=> (focus[live[p].tab] = p))
         /\ TabsTold' <=> (/\ DOMAIN tabs' = Positions
                           /\ \A t \in Positions : /\ tabs'[t].name = names[t]
                                                   /\ tabs'[t].active = ActiveNow(t))
         /\ ClientPane' = ClientPane
         /\ Forgetless
<1>1. /\ live' = live /\ gone' = gone /\ names' = names /\ focus' = focus /\ viewing' = viewing
      /\ Positions' = Positions
  BY DEF session, Positions
<1>2. \A t : ActiveNow(t)' = ActiveNow(t)
  BY <1>1 DEF ActiveNow, Speaker, FirstClient
<1>3. ClientPane' = ClientPane
  BY <1>1 DEF ClientPane, Speaker, FirstClient
<1>4. SessionOK' <=> SessionOK
  BY <1>1 DEF SessionOK, LiveOK, NamesOK, FocusOK, ViewOK, Focusable, InTabNow
<1> QED
  BY <1>1, <1>2, <1>3, <1>4 DEF PanesTold, TabsTold, Forgetless

\* A step that leaves the tables alone and reports what it changes keeps the
\* invariant.
LEMMA ReportedKeeps ==
  ASSUME PInv, SessionOK', Forgetless, UNCHANGED tables,
         UNCHANGED session \/ {"panes", "tabs"} \subseteq news',
         news \subseteq news', news' \subseteq {"panes", "tabs", "clients"},
         changes' \in 0 .. MaxChanges, granted' \in BOOLEAN, timer' \in BOOLEAN
  PROVE  PInv'
<1>1. panes' = panes /\ tabs' = tabs /\ current' = current
  BY DEF tables
<1>2. TablesOK'
  BY <1>1 DEF PInv, TablesOK, Forgetless
<1>3. ASSUME UNCHANGED session
      PROVE  ("panes" \notin news' => PanesTold') /\ ("tabs" \notin news' => TabsTold')
  BY <1>1, <1>3, SameReports DEF PInv, PanesTold, TabsTold
<1> QED
  BY <1>2, <1>3 DEF PInv

\* The report of the panes brings the pane table up to date.
LEMMA PaneUpdateKeeps ==
  ASSUME PInv, PaneUpdate
  PROVE  PInv'
<1>1. /\ DOMAIN panes' = DOMAIN live
      /\ \A p \in DOMAIN live :
           panes'[p] = [tab |-> live[p].tab, name |-> TabTableName(live[p].tab),
                        title |-> live[p].title, suppressed |-> live[p].suppressed,
                        focused |-> focus[live[p].tab] = p]
  BY DEF PaneUpdate
<1>2. /\ UNCHANGED session /\ UNCHANGED <<changes, tabs, current, granted, timer>>
      /\ news' = news \ {"panes"}
  BY DEF PaneUpdate
<1>3. PICK k \in 1 .. MaxTabs : Positions = 0 .. k - 1 /\ Cardinality(Positions) = k
  BY TabsAreNumbered DEF PInv, SessionOK
<1>4. ASSUME NEW p \in DOMAIN live
      PROVE  panes'[p] \in Entries
  <2>1. live[p] \in [tab : Positions, title : Titles, suppressed : BOOLEAN]
    BY DEF PInv, SessionOK, LiveOK
  <2>2. live[p].tab \in 0 .. MaxTabs - 1
    BY <1>3, <2>1, BoundsAreNumbers
  <2>3. TabTableName(live[p].tab) \in TabNames \union {DefaultName(t) : t \in 0 .. MaxTabs - 1}
    BY <2>2 DEF TabTableName, PInv, TablesOK
  <2> DEFINE f == focus[live[p].tab] = p
  <2>4. f \in BOOLEAN
    OBVIOUS
  <2>5. panes'[p] = [tab |-> live[p].tab, name |-> TabTableName(live[p].tab),
                     title |-> live[p].title, suppressed |-> live[p].suppressed, focused |-> f]
    BY <1>1, Zenon
  <2> HIDE DEF f
  <2> QED
    BY <2>1, <2>2, <2>3, <2>4, <2>5 DEF Entries
<1>5. TablesOK'
  BY <1>1, <1>2, <1>4 DEF PInv, TablesOK, session
<1>6. PanesTold'
  <2>1. \A p \in DOMAIN live :
          /\ panes'[p].tab = live[p].tab /\ panes'[p].title = live[p].title
          /\ panes'[p].suppressed = live[p].suppressed
          /\ panes'[p].focused <=> (focus[live[p].tab] = p)
    <3> SUFFICES ASSUME NEW p \in DOMAIN live
                 PROVE  /\ panes'[p].tab = live[p].tab /\ panes'[p].title = live[p].title
                        /\ panes'[p].suppressed = live[p].suppressed
                        /\ panes'[p].focused <=> (focus[live[p].tab] = p)
      OBVIOUS
    <3> DEFINE f == focus[live[p].tab] = p
    <3>1. panes'[p] = [tab |-> live[p].tab, name |-> TabTableName(live[p].tab),
                       title |-> live[p].title, suppressed |-> live[p].suppressed, focused |-> f]
      BY <1>1, Zenon
    <3> HIDE DEF f
    <3>2. /\ panes'[p].tab = live[p].tab /\ panes'[p].title = live[p].title
          /\ panes'[p].suppressed = live[p].suppressed /\ panes'[p].focused = f
      BY <3>1
    <3> QED
      BY <3>2 DEF f
  <2> QED
    BY <1>1, <1>2, <2>1, SameReports
<1>7. TabsTold' <=> TabsTold
  BY <1>2, SameReports DEF TabsTold
<1> QED
  BY <1>2, <1>5, <1>6, <1>7, SameReports DEF PInv

\* The report of the tabs brings the tab table up to date.
LEMMA TabUpdateKeeps ==
  ASSUME PInv, TabUpdate
  PROVE  PInv'
<1>1. tabs' = [t \in Positions |-> [name |-> names[t], active |-> ActiveNow(t)]]
  BY DEF TabUpdate
<1>2. /\ UNCHANGED session /\ UNCHANGED <<changes, panes, current, granted, timer>>
      /\ news' = news \ {"tabs"}
  BY DEF TabUpdate
<1>3. PICK k \in 1 .. MaxTabs : Positions = 0 .. k - 1 /\ Cardinality(Positions) = k
  BY TabsAreNumbered DEF PInv, SessionOK
<1>4. \A t \in Positions : names[t] \in TabNames /\ ActiveNow(t) \in BOOLEAN
  BY DEF PInv, SessionOK, NamesOK, Positions, ActiveNow
<1>5. k \in 0 .. MaxTabs
  BY BoundsAreNumbers
<1>6. TablesOK'
  BY <1>1, <1>2, <1>3, <1>4, <1>5 DEF PInv, TablesOK, session
<1>7. TabsTold'
  BY <1>1, <1>2, SameReports
<1>8. PanesTold' <=> PanesTold
  BY <1>2, SameReports DEF PanesTold
<1> QED
  BY <1>2, <1>6, <1>7, <1>8, SameReports DEF PInv

\* Every set of naturals that is not empty has a least element.
LEMMA LeastNatural ==
  ASSUME NEW T, T \subseteq Nat, T # {}
  PROVE  \E x \in T : \A y \in T : x <= y
<1>1. PICK R : R = OpToRel(<, Nat)
  OBVIOUS
<1>2. IsWellFoundedOn(R, Nat)
  BY <1>1, NatLessThanWellFounded
<1>3. PICK x \in T : \A y \in T : ~(<<y, x>> \in R)
  BY <1>2, WFMin
<1>4. \A y \in T : ~(y < x)
  <2> SUFFICES ASSUME NEW y \in T, y < x PROVE FALSE
    OBVIOUS
  <2>1. <<y, x>> \in OpToRel(<, Nat)
    BY DEF OpToRel
  <2> QED
    BY <2>1, <1>1, <1>3
<1>5. \A y \in T : x <= y
  <2> SUFFICES ASSUME NEW y \in T PROVE x <= y
    OBVIOUS
  <2>1. y \in Nat /\ x \in Nat
    OBVIOUS
  <2> QED
    BY <2>1, <1>4
<1> QED
  BY <1>5

\* The client of lowest number is attached.
LEMMA LeastClient ==
  ASSUME ViewOK, DOMAIN viewing # {}
  PROVE  FirstClient \in DOMAIN viewing
<1>1. DOMAIN viewing \subseteq Nat
  BY ClientsAreNumbers DEF ViewOK
<1>2. \E c \in DOMAIN viewing : \A d \in DOMAIN viewing : c <= d
  BY <1>1, LeastNatural
<1> QED
  BY <1>2 DEF FirstClient

\* The pane of the client is one of the session's, in sight, or none.
LEMMA ClientPaneIsShown ==
  ASSUME SessionOK, ClientPane # NoPane
  PROVE  ClientPane \in DOMAIN live /\ ~live[ClientPane].suppressed
<1>1. DOMAIN viewing # {} /\ ClientPane = focus[viewing[Speaker]]
  BY DEF ClientPane
<1>2. Speaker \in DOMAIN viewing
  BY <1>1, LeastClient DEF Speaker, SessionOK
<1>3. viewing[Speaker] \in Positions
  BY <1>2 DEF SessionOK, ViewOK
<1>4. ClientPane \in Focusable(viewing[Speaker])
  BY <1>1, <1>3 DEF SessionOK, FocusOK
<1> QED
  BY <1>4 DEF Focusable, InTabNow

\* The answer to a poll tells the client's pane.
LEMMA ListClientsKeeps ==
  ASSUME PInv, ListClients
  PROVE  PInv'
<1>1. /\ current' = ClientPane /\ UNCHANGED session
      /\ UNCHANGED <<changes, panes, tabs, granted, timer>> /\ news' = news \ {"clients"}
  BY DEF ListClients
<1>2. ClientPane \in Panes \union {NoPane}
  BY ClientPaneIsShown DEF PInv, SessionOK, LiveOK
<1>3. TablesOK'
  BY <1>1, <1>2 DEF PInv, TablesOK, session
<1>4. (PanesTold' <=> PanesTold) /\ (TabsTold' <=> TabsTold)
  BY <1>1, SameReports DEF PanesTold, TabsTold
<1> QED
  BY <1>1, <1>3, <1>4, SameReports DEF PInv

\* What the plugin asks the session to do for a request is a step of the session.
LEMMA HandleKeeps ==
  ASSUME PInv, NEW r \in Requests, r.body = "request", HandleRequest(r)
  PROVE  /\ SessionOK' /\ Forgetless
         /\ UNCHANGED session \/ {"panes", "tabs"} \subseteq news'
         /\ news \subseteq news' /\ news' \subseteq {"panes", "tabs", "clients"}
<1> DEFINE error == Refusal(r)
           acted == IF error = "" /\ r.method # "panes.list" THEN Resolve(r.selector) ELSE {}
<1>1. Owe(r, error)
  BY DEF HandleRequest
<1>2. \/ r.method = "pane.focus" /\ \E p \in acted : HostFocus(p)
      \/ r.method = "pane.rename" /\ \E p \in acted : HostRename(p, r.title)
      \/ UNCHANGED session
  BY DEF HandleRequest
<1> HIDE DEF error
<1>3. news \subseteq news' /\ news' \subseteq {"panes", "tabs", "clients"}
  BY <1>1 DEF Owe, PInv
<1>4. CASE UNCHANGED session
  BY <1>3, <1>4, SameReports DEF PInv
<1>5. ASSUME r.method = "pane.focus", NEW p \in acted, HostFocus(p), ~UNCHANGED session
      PROVE  SessionOK' /\ Forgetless /\ {"panes", "tabs"} \subseteq news'
  <2>1. error = ""
    BY <1>5
  <2>2. p \in DOMAIN live /\ FocusPane(p)
    BY <1>5 DEF HostFocus
  <2>3. p \in Panes
    BY <2>2 DEF PInv, SessionOK, LiveOK
  <2>4. {"panes", "tabs"} \subseteq news'
    BY <1>1, <1>5, <2>1 DEF Owe
  <2> QED
    BY <2>2, <2>3, <2>4, FocusKeeps DEF PInv
<1>6. ASSUME r.method = "pane.rename", NEW p \in acted, HostRename(p, r.title), ~UNCHANGED session
      PROVE  SessionOK' /\ Forgetless /\ {"panes", "tabs"} \subseteq news'
  <2>1. error = ""
    BY <1>6
  <2>2. p \in DOMAIN live /\ RenamePane(p, r.title)
    BY <1>6 DEF HostRename
  <2>3. p \in Panes /\ r.title \in Titles
    BY <1>6, <2>2, RenamesAreTitles DEF PInv, SessionOK, LiveOK, Moves
  <2>4. {"panes", "tabs"} \subseteq news'
    BY <1>1, <1>6, <2>1 DEF Owe
  <2> QED
    BY <2>2, <2>3, <2>4, RenamePaneKeeps DEF PInv
<1> HIDE DEF acted
<1> QED
  BY <1>2, <1>3, <1>4, <1>5, <1>6

\* A message in the pipe.
LEMMA PipeKeeps ==
  ASSUME PInv, NEW m \in Requests, Pipe(m)
  PROVE  PInv'
<1>1. /\ UNCHANGED <<tables, granted, timer>>
      /\ Moves(m) => changes < MaxChanges
      /\ changes' = IF Moves(m) THEN changes + 1 ELSE changes
  BY DEF Pipe
<1>2. changes' \in 0 .. MaxChanges
  BY <1>1, BoundsAreNumbers DEF PInv
<1>3. CASE m.body # "request"
  <2>1. UNCHANGED <<session, news>>
    BY <1>3 DEF Pipe
  <2>2. news' \subseteq {"panes", "tabs", "clients"}
    BY <2>1 DEF PInv
  <2> QED
    BY <1>1, <1>2, <2>1, <2>2, SameReports, ReportedKeeps DEF PInv
<1>4. CASE m.body = "request"
  <2>1. HandleRequest(m)
    BY <1>4 DEF Pipe
  <2> QED
    BY <1>1, <1>2, <1>4, <2>1, HandleKeeps, ReportedKeeps DEF PInv
<1> QED
  BY <1>3, <1>4

\* A plugin that was just loaded is owed both reports.
LEMMA InitPInv == Init => PInv
<1> SUFFICES ASSUME NEW s \in Starts, Load(s.name, s.pane, s.title, s.client)
             PROVE  PInv
  BY DEF Init
<1> USE DEF Load
<1>1. s.name \in TabNames /\ s.pane \in Panes /\ s.title \in Titles /\ s.client \in Clients
  BY StartsAreSessions DEF Terminals
<1>2. Positions = {0} /\ 0 .. 1 - 1 = {0} /\ 1 \in 1 .. MaxTabs
  BY BoundsAreNumbers DEF Positions
<1>3. NamesOK
  BY <1>1, <1>2 DEF NamesOK
<1>4. LiveOK /\ ViewOK
  BY <1>1, <1>2 DEF LiveOK, ViewOK
<1>5. FocusOK
  BY <1>2 DEF FocusOK, Focusable, InTabNow
<1>6. TablesOK
  <2>1. DOMAIN tabs = 0 .. 0 - 1 /\ 0 \in 0 .. MaxTabs
    BY BoundsAreNumbers DEF EmptyTable
  <2> QED
    BY <2>1 DEF TablesOK, EmptyTable
<1>7. /\ changes = 0 /\ news = {"panes", "tabs"} /\ granted = FALSE /\ timer = TRUE
  OBVIOUS
<1>8. 0 \in 0 .. MaxChanges
  BY BoundsAreNumbers
<1>9. SessionOK
  BY <1>3, <1>4, <1>5 DEF SessionOK
<1> QED
  BY Zenon, <1>6, <1>7, <1>8, <1>9 DEF PInv

\* Every step, and a stutter, keeps the invariant.
LEMMA NextPInv ==
  ASSUME PInv, [Next]_vars
  PROVE  PInv'
<1>1. CASE Session
  <2>1. SessionOK' /\ Forgetless
    BY <1>1, SessionKeeps DEF PInv
  <2>2. /\ changes' \in 0 .. MaxChanges
        /\ news' = news \union {"panes", "tabs"} /\ UNCHANGED <<tables, granted, timer>>
    BY <1>1, BoundsAreNumbers DEF Session, Changed, PInv
  <2>3. news' \subseteq {"panes", "tabs", "clients"} /\ {"panes", "tabs"} \subseteq news' /\ news \subseteq news'
    BY <2>2 DEF PInv
  <2> QED
    BY <2>1, <2>2, <2>3, ReportedKeeps DEF PInv
<1>2. CASE Timer \/ PermissionRequestResult
  <2>1. /\ UNCHANGED session /\ UNCHANGED <<changes, tables>> /\ news \subseteq news'
        /\ news' \subseteq {"panes", "tabs", "clients"} /\ granted' \in BOOLEAN /\ timer' \in BOOLEAN
    BY <1>2 DEF Timer, PermissionRequestResult, PInv
  <2>2. SessionOK' /\ Forgetless
    BY <2>1, SameReports DEF PInv
  <2> QED
    BY <2>1, <2>2, ReportedKeeps DEF PInv
<1>3. CASE UNCHANGED vars
  <2>1. /\ UNCHANGED session /\ UNCHANGED <<changes, news, tables, granted, timer>>
    BY <1>3 DEF vars
  <2>2. SessionOK' /\ Forgetless
    BY <2>1, SameReports DEF PInv
  <2> QED
    BY <2>1, <2>2, ReportedKeeps DEF PInv
<1> QED
  BY <1>1, <1>2, <1>3, PaneUpdateKeeps, TabUpdateKeeps, ListClientsKeeps, PipeKeeps DEF Next

---------------------------------------------------------------------------
(* What a settled plugin lists, and what a selector finds. *)

\* The focus is on one of the panes the table holds, if on any.
LEMMA FocusedIsAPane == FocusedPane \subseteq DOMAIN panes
BY DEF FocusedPane, Least, TerminalsFirst

\* A plugin that knows the client's pane takes it for the focused one.
LEMMA FocusedIsClients ==
  ASSUME SessionOK, PanesTold, current = ClientPane, ClientPane # NoPane
  PROVE  FocusedPane = {ClientPane}
<1>1. ClientPane \in DOMAIN live /\ ~live[ClientPane].suppressed
  BY ClientPaneIsShown
<1>2. current \in {p \in DOMAIN panes : ~panes[p].suppressed}
  BY <1>1 DEF PanesTold
<1> QED
  BY <1>2 DEF FocusedPane

\* An entry of the list is about a pane of the table.
LEMMA Listed ==
  /\ \A p \in DOMAIN panes : \E e \in ListPanes :
       /\ e.pane = p /\ e.tab = panes[p].tab /\ e.title = panes[p].title
       /\ e.suppressed = panes[p].suppressed
  /\ \A e \in ListPanes :
       /\ e.pane \in DOMAIN panes /\ e.tab = panes[e.pane].tab /\ e.name = panes[e.pane].name
       /\ e.title = panes[e.pane].title /\ e.suppressed = panes[e.pane].suppressed
       /\ e.focused <=> e.pane \in FocusedPane
<1> DEFINE Line(p) == [pane |-> p, tab |-> panes[p].tab, name |-> panes[p].name,
                       title |-> panes[p].title, suppressed |-> panes[p].suppressed,
                       focused |-> p \in FocusedPane]
<1>1. ListPanes = {Line(p) : p \in DOMAIN panes}
  BY DEF ListPanes
<1>2. ASSUME NEW p
      PROVE  /\ Line(p).pane = p /\ Line(p).tab = panes[p].tab /\ Line(p).name = panes[p].name
             /\ Line(p).title = panes[p].title /\ Line(p).suppressed = panes[p].suppressed
             /\ Line(p).focused <=> p \in FocusedPane
  <2> DEFINE f == p \in FocusedPane
  <2> HIDE DEF f
  <2>1. LET l == [pane |-> p, tab |-> panes[p].tab, name |-> panes[p].name,
                  title |-> panes[p].title, suppressed |-> panes[p].suppressed, focused |-> f]
        IN /\ l.pane = p /\ l.tab = panes[p].tab /\ l.name = panes[p].name
           /\ l.title = panes[p].title /\ l.suppressed = panes[p].suppressed
           /\ l.focused <=> f
    OBVIOUS
  <2> QED
    BY <2>1, Zenon DEF f
<1> HIDE DEF Line
<1> QED
  BY <1>1, <1>2

\* The list of a settled plugin is the session's.
LEMMA SettledList ==
  ASSUME PInv
  PROVE  SettledListIsTrue
<1> SUFFICES ASSUME Settled PROVE SettledListIsTrue
  BY DEF SettledListIsTrue
<1>1. PanesTold /\ TabsTold /\ SessionOK
  BY DEF Settled, PInv
<1>2. {<<e.pane, e.tab, e.title, e.suppressed>> : e \in ListPanes}
        = {<<p, live[p].tab, live[p].title, live[p].suppressed>> : p \in DOMAIN live}
  <2>1. ASSUME NEW e \in ListPanes
        PROVE  /\ e.pane \in DOMAIN live /\ e.tab = live[e.pane].tab
               /\ e.title = live[e.pane].title /\ e.suppressed = live[e.pane].suppressed
    BY <1>1, Listed DEF PanesTold
  <2>2. ASSUME NEW p \in DOMAIN live
        PROVE  \E e \in ListPanes :
                 /\ e.pane = p /\ e.tab = live[p].tab
                 /\ e.title = live[p].title /\ e.suppressed = live[p].suppressed
    BY <1>1, Listed DEF PanesTold
  <2> QED
    BY <2>1, <2>2
<1>3. ASSUME Joined, NEW e \in ListPanes
      PROVE  e.name = names[e.tab]
  <2>1. e.pane \in DOMAIN panes /\ e.tab = panes[e.pane].tab /\ e.name = panes[e.pane].name
    BY Listed
  <2>2. e.name = TabTableName(e.tab)
    BY <1>3, <2>1 DEF Joined
  <2>3. e.tab \in Positions
    BY <1>1, <2>1 DEF PanesTold, SessionOK, LiveOK
  <2> QED
    BY <1>1, <2>2, <2>3 DEF TabsTold, TabTableName
<1>4. ASSUME current = ClientPane, ClientPane # NoPane, NEW e \in ListPanes
      PROVE  e.focused <=> e.pane = ClientPane
  BY <1>1, <1>4, Listed, FocusedIsClients
<1> QED
  BY <1>2, <1>3, <1>4 DEF SettledListIsTrue

\* What a selector finds is in the table, and an id finds its pane only.
LEMMA ResolveFacts ==
  ASSUME NEW s
  PROVE  /\ Resolve(s) \subseteq DOMAIN panes
         /\ s.form \in {"id", "typed"} => Resolve(s) \subseteq {s.pane}
<1>1. CASE s.form = "focused"
  BY <1>1, FocusedIsAPane DEF Resolve
<1>2. CASE s.form = "tab:index"
  BY <1>2 DEF Resolve
<1>3. CASE s.form \notin {"focused", "tab:index"}
  <2>1. Resolve(s) = {e.pane : e \in {x \in ListPanes : PluginMatches(s, x)}}
    BY <1>3 DEF Resolve
  <2>2. s.form \in {"id", "typed"} => \A x \in ListPanes : PluginMatches(s, x) => x.pane = s.pane
    BY DEF PluginMatches
  <2> QED
    BY <2>1, <2>2, Listed
<1> QED
  BY <1>1, <1>2, <1>3

\* The panes a selector names in the session.
NamedInSession(s) ==
  LET here == {p \in DOMAIN live : s.form = "tab:index" /\ live[p].tab = s.tab}
  IN CASE s.form = "focused" -> {ClientPane}
       [] s.form = "tab:index" -> {p \in here : Rank(here, p) = s.index}
       [] OTHER -> {p \in DOMAIN live : PluginMatches(s, TrueEntry(p))}

\* A plugin that is caught up finds the panes the selector names.
LEMMA ResolveIsNamed ==
  ASSUME PInv, CaughtUp, ClientPane # NoPane, NEW s
  PROVE  Resolve(s) = NamedInSession(s)
<1>1. PanesTold /\ SessionOK /\ current = ClientPane
  BY DEF CaughtUp, Settled, PInv
<1>2. CASE s.form = "focused"
  BY <1>1, <1>2, FocusedIsClients DEF Resolve, NamedInSession
<1>3. CASE s.form = "tab:index"
  <2>1. {p \in DOMAIN panes : panes[p].tab = s.tab}
          = {p \in DOMAIN live : s.form = "tab:index" /\ live[p].tab = s.tab}
    BY <1>1, <1>3 DEF PanesTold
  <2> QED
    BY <1>3, <2>1 DEF Resolve, NamedInSession
<1>4. CASE s.form \notin {"focused", "tab:index"}
  <2>1. Resolve(s) = {e.pane : e \in {x \in ListPanes : PluginMatches(s, x)}}
    BY <1>4 DEF Resolve
  <2>2. NamedInSession(s) = {p \in DOMAIN live : PluginMatches(s, TrueEntry(p))}
    BY <1>4 DEF NamedInSession
  <2>3. ASSUME NEW p \in DOMAIN live, NEW e \in ListPanes, e.pane = p
        PROVE  PluginMatches(s, e) <=> PluginMatches(s, TrueEntry(p))
    <3>1. e.title = live[p].title
      BY <1>1, <2>3, Listed DEF PanesTold
    <3>2. TrueEntry(p).pane = p /\ TrueEntry(p).title = live[p].title
      BY DEF TrueEntry
    <3> QED
      BY <2>3, <3>1, <3>2 DEF PluginMatches
  <2>4. \A e \in ListPanes : e.pane \in DOMAIN live
    BY <1>1, Listed DEF PanesTold
  <2>5. \A p \in DOMAIN live : \E e \in ListPanes : e.pane = p
    BY <1>1, Listed DEF PanesTold
  <2> QED
    BY <2>1, <2>2, <2>3, <2>4, <2>5
<1> QED
  BY <1>2, <1>3, <1>4

---------------------------------------------------------------------------
(* What a reply has done. *)

ReplyInv == SendReachesTheNamed /\ IdReachesOnlyItsPane

\* A step that answers no request with an action has nothing to account for.
LEMMA QuietKeeps ==
  ASSUME reply'.kind # "response"
  PROVE  ReplyInv'
BY DEF ReplyInv, SendReachesTheNamed, IdReachesOnlyItsPane

\* A request that was carried out reached the panes its selector found.
LEMMA RequestReaches ==
  ASSUME PInv, NEW r \in Requests, r.body = "request", Pipe(r)
  PROVE  ReplyInv'
<1> DEFINE error == Refusal(r)
           acted == IF error = "" /\ r.method # "panes.list" THEN Resolve(r.selector) ELSE {}
<1>1. HandleRequest(r) /\ UNCHANGED <<tables, granted, timer>>
  BY DEF Pipe
<1>2. reply'.request = r /\ reply'.acted = acted
  BY <1>1 DEF HandleRequest, Answer
<1>3. Forgetless
  BY <1>1, HandleKeeps
<1>4. acted \subseteq Resolve(r.selector) /\ Resolve(r.selector) \subseteq DOMAIN panes
  BY ResolveFacts
<1>5. acted # {} => error = "" /\ acted = Resolve(r.selector) /\ r.method # "panes.list"
  OBVIOUS
<1> HIDE DEF acted
<1>6. IdReachesOnlyItsPane'
  <2> SUFFICES ASSUME acted # {}, r.selector.form \in {"id", "typed"}
               PROVE  acted = {r.selector.pane} /\ r.selector.pane \in (DOMAIN live \union gone)'
    BY <1>2 DEF IdReachesOnlyItsPane
  <2>1. acted = {r.selector.pane}
    BY <1>4, ResolveFacts
  <2>2. r.selector.pane \in DOMAIN live \union gone
    BY <1>4, <2>1 DEF PInv, TablesOK
  <2> QED
    BY <1>3, <2>1, <2>2 DEF Forgetless
<1>7. ASSUME acted # {}, r.method = "pane.send"
      PROVE  /\ r.all \/ Cardinality(acted) = 1
             /\ UNCHANGED <<session, tables, news, granted>>
             /\ (CaughtUp /\ ClientPane # NoPane) => acted = NamedInSession(r.selector)
  <2>1. Refusal(r) = "" /\ acted = Resolve(r.selector)
    BY <1>5, <1>7
  <2>2. r.all \/ Cardinality(acted) = 1
    <3>1. ~(Cardinality(Resolve(r.selector)) > 1 /\ ~(r.method = "pane.send" /\ r.all))
      BY <1>7, <2>1 DEF Refusal
    <3>2. acted \subseteq Panes
      BY <1>4 DEF PInv, TablesOK, SessionOK, LiveOK
    <3>3. IsFiniteSet(acted)
      BY <3>2, PanesAreFinite, FS_Subset
    <3>4. Cardinality(acted) \in Nat /\ Cardinality(acted) # 0
      BY <1>7, <3>3, FS_CardinalityType, FS_EmptySet
    <3>5. ASSUME ~r.all
          PROVE  ~(Cardinality(acted) > 1)
      BY <2>1, <3>1, <3>5
    <3>6. ASSUME NEW n, n \in Nat, n # 0, ~(n > 1)
          PROVE  n = 1
      BY <3>6
    <3> QED
      BY <3>4, <3>5, <3>6
  <2>3. UNCHANGED <<session, tables, news, granted>>
    BY <1>1, <1>7 DEF HandleRequest, Owe
  <2> QED
    BY <2>1, <2>2, <2>3, ResolveIsNamed
<1>8. SendReachesTheNamed'
  <2> SUFFICES ASSUME acted # {}, r.method = "pane.send"
               PROVE  /\ r.all \/ Cardinality(acted) = 1
                      /\ (CaughtUp' /\ ClientPane' # NoPane) => acted = NamedInSession(r.selector)'
    BY <1>2 DEF SendReachesTheNamed, NamedInSession
  <2>1. UNCHANGED <<session, tables, news, granted>> /\ ClientPane' = ClientPane
    BY <1>7, SameReports
  <2>2. /\ live' = live /\ gone' = gone /\ names' = names /\ panes' = panes /\ tabs' = tabs
        /\ current' = current
    BY <2>1 DEF session, tables
  <2>3. CaughtUp' => CaughtUp
    BY <2>1, <2>2 DEF CaughtUp, Settled, Joined, TabTableName
  <2>4. NamedInSession(r.selector)' = NamedInSession(r.selector)
    BY <2>1, <2>2 DEF NamedInSession, TrueEntry
  <2> QED
    BY <1>7, <2>1, <2>3, <2>4
<1> QED
  BY <1>6, <1>8 DEF ReplyInv

\* Every step, and a stutter, keeps what replies have done accounted for.
LEMMA NextReply ==
  ASSUME PInv, ReplyInv, [Next]_vars
  PROVE  ReplyInv'
<1>1. CASE Session \/ PaneUpdate \/ TabUpdate \/ ListClients \/ Timer \/ PermissionRequestResult
  <2>1. reply' = NoReply
    BY <1>1 DEF Session, Changed, PaneUpdate, TabUpdate, ListClients, Timer, PermissionRequestResult
  <2> QED
    BY <2>1, QuietKeeps DEF NoReply
<1>2. ASSUME NEW m \in Requests, Pipe(m)
      PROVE  ReplyInv'
  <2>1. CASE m.body # "request"
    <3>1. reply'.kind = "nil"
      BY <1>2, <2>1 DEF Pipe
    <3> QED
      BY <3>1, QuietKeeps
  <2>2. CASE m.body = "request"
    BY <1>2, <2>2, RequestReaches
  <2> QED
    BY <2>1, <2>2
<1>3. CASE UNCHANGED vars
  <2>1. /\ UNCHANGED session /\ reply' = reply /\ live' = live /\ gone' = gone /\ names' = names
        /\ panes' = panes /\ tabs' = tabs /\ current' = current /\ news' = news /\ granted' = granted
    BY <1>3 DEF vars, session, tables
  <2>2. ClientPane' = ClientPane
    BY <2>1, SameReports
  <2>3. CaughtUp' <=> CaughtUp
    BY <2>1, <2>2 DEF CaughtUp, Settled, Joined, TabTableName
  <2>4. SendReachesTheNamed' <=> SendReachesTheNamed
    BY <2>1, <2>2, <2>3 DEF SendReachesTheNamed, TrueEntry
  <2>5. IdReachesOnlyItsPane' <=> IdReachesOnlyItsPane
    BY <2>1 DEF IdReachesOnlyItsPane
  <2> QED
    BY <2>4, <2>5 DEF ReplyInv
<1> QED
  BY <1>1, <1>2, <1>3 DEF Next

\* Nothing has been answered yet.
LEMMA InitReply == Init => ReplyInv
BY DEF Init, Load, NoReply, ReplyInv, SendReachesTheNamed, IdReachesOnlyItsPane

---------------------------------------------------------------------------
(* The theorems. *)

\* Both invariants hold throughout.
LEMMA Invariants == Spec => [](PInv /\ ReplyInv)
<1>1. Init => PInv /\ ReplyInv
  BY InitPInv, InitReply
<1>2. PInv /\ ReplyInv /\ [Next]_vars => (PInv /\ ReplyInv)'
  BY NextPInv, NextReply
<1> QED
  BY <1>1, <1>2, PTL DEF Spec

\* The session stays a session and the plugin's tables keep their shape: tabs
\* without a gap, focus on a pane of its tab.
THEOREM PluginTypeCorrect == Spec => []TypeOK
<1>1. PInv => TypeOK
  BY DEF PInv, SessionOK, LiveOK, NamesOK, FocusOK, ViewOK, TablesOK, TypeOK
<1> QED
  BY Invariants, <1>1, PTL

\* When both reports have come, the list is the session's.
THEOREM SettledListsAreTrue == Spec => []SettledListIsTrue
BY Invariants, SettledList, PTL

\* A send reaches the panes its selector names in the session, once the plugin
\* has caught up, and one pane unless it asked for all.
THEOREM SendsReachTheNamed == Spec => []SendReachesTheNamed
<1>1. ReplyInv => SendReachesTheNamed
  BY DEF ReplyInv
<1> QED
  BY Invariants, <1>1, PTL

\* An id reaches its pane or nobody, however far behind the tables are.
THEOREM IdsReachTheirPane == Spec => []IdReachesOnlyItsPane
<1>1. ReplyInv => IdReachesOnlyItsPane
  BY DEF ReplyInv
<1> QED
  BY Invariants, <1>1, PTL

=============================================================================
