---------------------------- MODULE ZrpcPlugin ----------------------------
(***************************************************************************)
(* The zrpc plugin (crates/zrpc): what it knows of its Zellij session and  *)
(* how it answers the requests the daemon and zjctl send through a pipe.   *)
(*                                                                         *)
(* The plugin never asks the session anything but its clients.  It keeps   *)
(* three tables, each replaced by an event of its own: the panes and the   *)
(* tabs when Zellij reports them, the client's pane when a poll (every     *)
(* 0.2 s) is answered.  Between a change of the session and the event that *)
(* reports it the tables are behind, each by its own delay; a pane's tab   *)
(* name is a join of two of them, made when the panes arrive.              *)
(*                                                                         *)
(* The session (external) is what the user and the daemon do to it: panes  *)
(* open, close, move out of sight (suppressed), tabs open, close and are   *)
(* renamed, clients attach, detach and move.  Zellij reports are taken in  *)
(* the order of its reports, so an event carries the session as it is when *)
(* the plugin sees it; that a kind of event lags is the flag `news`.       *)
(***************************************************************************)
EXTENDS Selectors

CONSTANTS
  Clients,     \* clients that may be attached to the session: numbers
  Loader,      \* the client that loaded the plugin (is_current_client)
  NoPane,      \* no pane
  FirstTitle,  \* the title a pane opens with when the user opens it
  MaxTabs,     \* bound on the tabs of the session
  MaxChanges,  \* bound on the changes of the session
  Starts,      \* the sessions the plugin may be loaded in, see Load
  Requests     \* the requests that may arrive: records, see Pipe

(* Whether a request moves the focus or renames.                            *)
Moves(m) == m.body = "request" /\ m.method \in {"pane.focus", "pane.rename"}

ASSUME StartsAreSessions ==
  Starts \subseteq [name : TabNames, pane : Terminals, title : Titles, client : Clients]
ASSUME FirstTitlesAreTitles == FirstTitle \in [Panes -> Titles]
ASSUME ClientsAreNumbers == Clients \subseteq Nat /\ Loader \in Nat
ASSUME BoundsAreNumbers == MaxTabs \in Nat \ {0} /\ MaxChanges \in Nat
ASSUME PanesAreFinite == IsFiniteSet(Panes) /\ NoPane \notin Panes
ASSUME RenamesAreTitles ==
  \A r \in Requests : (Moves(r) /\ r.method = "pane.rename") => r.title \in Titles

VARIABLES
  live,     \* session: pane -> [tab, title, suppressed] of the open panes
  gone,     \* session: panes closed; an id is not given twice
  names,    \* session: tab position -> name
  focus,    \* session: tab position -> the pane with the focus in the tab
  viewing,  \* session: attached client -> tab it looks at
  changes,  \* session: changes made so far, for MaxChanges
  news,     \* kinds of event the session owes the plugin
  panes,    \* plugin: PluginState.panes, pane -> entry
  tabs,     \* plugin: PluginState.tabs, position -> [name, active]
  current,  \* plugin: PluginState.current_client_pane_id
  granted,  \* plugin: the user has granted the permissions
  timer,    \* plugin: set_timeout is armed
  reply     \* what the last step answered, if it was a request

session == <<live, gone, names, focus, viewing>>
tables == <<panes, tabs, current>>
vars == <<session, changes, news, tables, granted, timer, reply>>

NoReply == [kind |-> "none"]

Positions == DOMAIN names

---------------------------------------------------------------------------
(***************************************************************************)
(* The session.                                                            *)
(***************************************************************************)

(* A change owes the plugin a report of the panes and one of the tabs.     *)
Changed == /\ changes < MaxChanges
           /\ changes' = changes + 1
           /\ news' = news \union {"panes", "tabs"}
           /\ reply' = NoReply
           /\ UNCHANGED <<tables, granted, timer>>

InTabNow(t) == {p \in DOMAIN live : live[p].tab = t}

(* The panes a focus may go to: Zellij never gives it to a suppressed one. *)
Focusable(t) == {p \in InTabNow(t) : ~live[p].suppressed}

FocusAfter(t, p) == [focus EXCEPT ![t] = p]

(* The focus moves on when its pane goes: to another pane of the tab.      *)
PassFocus(t, p) ==
  IF focus[t] # p THEN focus' = focus
  ELSE IF Focusable(t) \ {p} = {} THEN focus' = FocusAfter(t, NoPane)
  ELSE \E q \in Focusable(t) \ {p} : focus' = FocusAfter(t, q)

Put(p, t, title) ==
  [q \in DOMAIN live \union {p} |->
     IF q = p THEN [tab |-> t, title |-> title, suppressed |-> FALSE] ELSE live[q]]

OpenPane(p, t, title) ==
  /\ p \notin DOMAIN live \union gone
  /\ t \in Positions
  /\ live' = Put(p, t, title)
  /\ focus' = FocusAfter(t, p)
  /\ UNCHANGED <<gone, names, viewing>>

ClosePane(p) ==
  /\ p \in DOMAIN live
  /\ live' = [q \in DOMAIN live \ {p} |-> live[q]]
  /\ gone' = gone \union {p}
  /\ PassFocus(live[p].tab, p)
  /\ UNCHANGED <<names, viewing>>

SuppressPane(p) ==
  /\ p \in DOMAIN live
  /\ ~live[p].suppressed
  /\ live' = [live EXCEPT ![p].suppressed = TRUE]
  /\ PassFocus(live[p].tab, p)
  /\ UNCHANGED <<gone, names, viewing>>

(* Focusing a pane brings every client to its tab: focus_pane_with_id      *)
(* (true shows a suppressed pane) and the user's own moves.                *)
FocusPane(p) ==
  /\ p \in DOMAIN live
  /\ live' = [live EXCEPT ![p].suppressed = FALSE]
  /\ focus' = FocusAfter(live[p].tab, p)
  /\ viewing' = [c \in DOMAIN viewing |-> live[p].tab]
  /\ UNCHANGED <<gone, names>>

RenamePane(p, title) ==
  /\ p \in DOMAIN live
  /\ live' = [live EXCEPT ![p].title = title]
  /\ UNCHANGED <<gone, names, focus, viewing>>

RenameTab(t, name) ==
  /\ t \in Positions
  /\ names' = [names EXCEPT ![t] = name]
  /\ UNCHANGED <<live, gone, focus, viewing>>

(* A new tab opens at the end with a pane, and the clients look at it.     *)
NewTab(name, p, title) ==
  LET t == Cardinality(Positions) IN
  /\ t < MaxTabs
  /\ p \notin DOMAIN live \union gone
  /\ names' = [u \in Positions \union {t} |-> IF u = t THEN name ELSE names[u]]
  /\ focus' = [u \in Positions \union {t} |-> IF u = t THEN p ELSE focus[u]]
  /\ live' = Put(p, t, title)
  /\ viewing' = [c \in DOMAIN viewing |-> t]
  /\ UNCHANGED gone

(* A tab closes with its panes, and the tabs after it move down by one.    *)
CloseTab(t) ==
  LET down(u) == IF u > t THEN u - 1 ELSE u
      left == 0 .. Cardinality(Positions) - 2
      was(u) == IF u < t THEN u ELSE u + 1
  IN /\ t \in Positions
     /\ Cardinality(Positions) > 1
     /\ names' = [u \in left |-> names[was(u)]]
     /\ focus' = [u \in left |-> focus[was(u)]]
     /\ live' = [p \in DOMAIN live \ InTabNow(t) |-> [live[p] EXCEPT !.tab = down(live[p].tab)]]
     /\ gone' = gone \union InTabNow(t)
     /\ viewing' = [c \in DOMAIN viewing |->
                      IF viewing[c] = t THEN 0 ELSE down(viewing[c])]

View(c, t) ==
  /\ t \in Positions
  /\ viewing' = [d \in DOMAIN viewing \union {c} |-> IF d = c THEN t ELSE viewing[d]]
  /\ UNCHANGED <<live, gone, names, focus>>

Detach(c) ==
  /\ c \in DOMAIN viewing
  /\ viewing' = [d \in DOMAIN viewing \ {c} |-> viewing[d]]
  /\ UNCHANGED <<live, gone, names, focus>>

Session ==
  /\ Changed
  /\ \/ \E p \in Panes, t \in Positions : OpenPane(p, t, FirstTitle[p])
     \/ \E p \in Panes : ClosePane(p) \/ SuppressPane(p) \/ FocusPane(p)
     \/ \E name \in TabNames, p \in Terminals : NewTab(name, p, FirstTitle[p])
     \/ \E t \in Positions : CloseTab(t) \/ \E name \in TabNames : RenameTab(t, name)
     \/ \E c \in Clients : Detach(c) \/ \E t \in Positions : View(c, t)

(* What the session would report now.  The tab a client without a tab of    *)
(* its own is shown as active is the first one's.                          *)
FirstClient == CHOOSE c \in DOMAIN viewing : \A d \in DOMAIN viewing : c <= d
Speaker == IF Loader \in DOMAIN viewing THEN Loader ELSE FirstClient

ActiveNow(t) == DOMAIN viewing # {} /\ viewing[Speaker] = t

ClientPane == IF DOMAIN viewing = {} THEN NoPane ELSE focus[viewing[Speaker]]

---------------------------------------------------------------------------
(***************************************************************************)
(* The events.                                                             *)
(***************************************************************************)

(* The name of a tab the plugin has no entry for: format!("Tab {}", i).    *)
DefaultName(t) == <<"Tab", t>>

TabTableName(t) == IF t \in DOMAIN tabs THEN tabs[t].name ELSE DefaultName(t)

\* Mutant: the table is not emptied first.
PaneUpdateKeeping ==
  /\ granted /\ "panes" \in news
  /\ panes' = [p \in DOMAIN panes \union DOMAIN live |->
                 IF p \notin DOMAIN live THEN panes[p]
                 ELSE [tab |-> live[p].tab, name |-> TabTableName(live[p].tab),
                       title |-> live[p].title, suppressed |-> live[p].suppressed,
                       focused |-> focus[live[p].tab] = p]]
  /\ news' = news \ {"panes"}
  /\ reply' = NoReply
  /\ UNCHANGED <<session, changes, tabs, current, granted, timer>>

(* update_panes: the table starts empty and takes every pane reported,     *)
(* with the name the tab at its position has in the tab table.             *)
PaneUpdate ==
  /\ granted /\ "panes" \in news
  /\ panes' = [p \in DOMAIN live |->
                 [tab |-> live[p].tab, name |-> TabTableName(live[p].tab),
                  title |-> live[p].title, suppressed |-> live[p].suppressed,
                  focused |-> focus[live[p].tab] = p]]
  /\ news' = news \ {"panes"}
  /\ reply' = NoReply
  /\ UNCHANGED <<session, changes, tabs, current, granted, timer>>

\* Mutant: positions are counted from one.
TabUpdateFromOne ==
  /\ granted /\ "tabs" \in news
  /\ tabs' = [t \in {u + 1 : u \in Positions} |-> [name |-> names[t - 1], active |-> ActiveNow(t - 1)]]
  /\ news' = news \ {"tabs"}
  /\ reply' = NoReply
  /\ UNCHANGED <<session, changes, panes, current, granted, timer>>

(* update_tabs: one entry per position; the panes keep the names they have. *)
TabUpdate ==
  /\ granted /\ "tabs" \in news
  /\ tabs' = [t \in Positions |-> [name |-> names[t], active |-> ActiveNow(t)]]
  /\ news' = news \ {"tabs"}
  /\ reply' = NoReply
  /\ UNCHANGED <<session, changes, panes, current, granted, timer>>

(* update_clients: none, this plugin's client, or the client of lowest id. *)
ListClients ==
  /\ granted /\ "clients" \in news
  /\ current' = ClientPane
  /\ news' = news \ {"clients"}
  /\ reply' = NoReply
  /\ UNCHANGED <<session, changes, panes, tabs, granted, timer>>

\* Mutant: the next timer is not armed.
TimerOnce ==
  /\ timer
  /\ news' = IF granted THEN news \union {"clients"} ELSE news
  /\ timer' = FALSE
  /\ reply' = NoReply
  /\ UNCHANGED <<session, changes, tables, granted>>

(* Timer: ask for the clients (refused until the permission is granted)    *)
(* and arm the next one.                                                   *)
Timer ==
  /\ timer
  /\ news' = IF granted THEN news \union {"clients"} ELSE news
  /\ timer' = TRUE
  /\ reply' = NoReply
  /\ UNCHANGED <<session, changes, tables, granted>>

PermissionRequestResult ==
  /\ ~granted
  /\ granted' = TRUE
  /\ news' = news \union {"clients"}
  /\ reply' = NoReply
  /\ UNCHANGED <<session, changes, tables, timer>>

---------------------------------------------------------------------------
(***************************************************************************)
(* The requests.                                                           *)
(***************************************************************************)

Least(S, Less(_, _)) == {p \in S : \A q \in S \ {p} : Less(p, q)}

(* sort_by_key with the tab first.                                         *)
BeforeInTabs(p, q) == \/ panes[p].tab < panes[q].tab
                      \/ panes[p].tab = panes[q].tab /\ Before(p, q)

TerminalsFirst(S) == IF S \intersect Terminals # {} THEN S \intersect Terminals ELSE S

(***************************************************************************)
(* focused_pane, as a set of at most one pane: the client's pane if the    *)
(* table shows it, else the first pane with the focus in the active tab,   *)
(* terminals first; only when no tab is active the first of all tabs.      *)
(***************************************************************************)
FocusedPane ==
  LET shown == {p \in DOMAIN panes : ~panes[p].suppressed}
      marked == {p \in shown : panes[p].focused}
      active == {t \in DOMAIN tabs : tabs[t].active}
      first == CHOOSE t \in active : \A u \in active : t <= u
  IN IF current \in shown THEN {current}
     ELSE IF active # {}
          THEN Least(TerminalsFirst({p \in marked : panes[p].tab = first}), Before)
          ELSE Least(TerminalsFirst(marked), BeforeInTabs)

(* list_panes: every entry, marked with the focused pane and not with its  *)
(* own is_focused.                                                         *)
ListPanes == {[pane |-> p, tab |-> panes[p].tab, name |-> panes[p].name,
               title |-> panes[p].title, suppressed |-> panes[p].suppressed,
               focused |-> p \in FocusedPane] : p \in DOMAIN panes}

(* resolve_selector.                                                       *)
Resolve(s) ==
  CASE s.form = "focused" -> FocusedPane
    [] s.form = "tab:index" ->
         LET here == {p \in DOMAIN panes : panes[p].tab = s.tab}
         IN {p \in here : Rank(here, p) = s.index}
    [] OTHER -> {e.pane : e \in {x \in ListPanes : PluginMatches(s, x)}}

(* handle_pane_resize: its type and its direction are read last.           *)
Misshapen(r) == r.method = "pane.resize" /\ ~r.shape

\* Mutant: several matches are all acted on.
RefusalUnlessNone(r) ==
  CASE r.method = "panes.list" -> ""
    [] r.method \notin {"pane.send", "pane.focus", "pane.rename", "pane.resize"} ->
         "MethodNotFound"
    [] r.missing -> "InvalidParams"
    [] ~PluginReads(r.selector) -> "InvalidParams"
    [] Resolve(r.selector) = {} -> "NoMatch"
    [] Misshapen(r) -> "InvalidParams"
    [] OTHER -> ""

(* Why a request is refused; "" when it is carried out.  A parameter that   *)
(* is missing comes first, then the selector, then what it matches, and     *)
(* for a resize its type and direction last.                                *)
Refusal(r) ==
  CASE r.method = "panes.list" -> ""
    [] r.method \notin {"pane.send", "pane.focus", "pane.rename", "pane.resize"} ->
         "MethodNotFound"
    [] r.missing -> "InvalidParams"
    [] ~PluginReads(r.selector) -> "InvalidParams"
    [] Resolve(r.selector) = {} -> "NoMatch"
    [] Cardinality(Resolve(r.selector)) > 1 /\ ~(r.method = "pane.send" /\ r.all) -> "AmbiguousMatch"
    [] Misshapen(r) -> "InvalidParams"
    [] OTHER -> ""

Answer(r, error, acted) ==
  [kind |-> "response", request |-> r, error |-> error, acted |-> acted,
   listing |-> IF r.method = "panes.list" THEN ListPanes ELSE {}]

(* What the host does for the plugin with a pane it names: nothing when    *)
(* the pane has closed since the table was made.                           *)
HostFocus(p) == IF p \in DOMAIN live THEN FocusPane(p) ELSE UNCHANGED session
HostRename(p, title) == IF p \in DOMAIN live THEN RenamePane(p, title) ELSE UNCHANGED session

Owe(r, error) ==
  news' = IF error = "" /\ r.method \in {"pane.focus", "pane.rename", "pane.resize"}
          THEN news \union {"panes", "tabs"} ELSE news

(* handle_request and its handlers.                                        *)
HandleRequest(r) ==
  LET error == Refusal(r)
      acted == IF error = "" /\ r.method # "panes.list" THEN Resolve(r.selector) ELSE {}
  IN /\ reply' = Answer(r, error, acted)
     /\ Owe(r, error)
     /\ \/ r.method = "pane.focus" /\ \E p \in acted : HostFocus(p)
        \/ r.method = "pane.rename" /\ \E p \in acted : HostRename(p, r.title)
        \/ (r.method \notin {"pane.focus", "pane.rename"} \/ acted = {}) /\ UNCHANGED session

(***************************************************************************)
(* pipe: a message of another name or not from the command line is left    *)
(* alone; a payload that is missing or unreadable is answered under the    *)
(* nil id.  (A request that moves the focus or renames counts as a change  *)
(* for MaxChanges.)                                                        *)
(***************************************************************************)
Pipe(m) ==
  /\ granted
  /\ Moves(m) => changes < MaxChanges
  /\ changes' = IF Moves(m) THEN changes + 1 ELSE changes
  /\ m.name = "zjctl-rpc" /\ m.source = "cli"
  /\ IF m.body # "request"
     THEN /\ reply' = [kind |-> "nil", error |-> "InvalidRequest"]
          /\ UNCHANGED <<session, news>>
     ELSE HandleRequest(m)
  /\ UNCHANGED <<tables, granted, timer>>

---------------------------------------------------------------------------
EmptyTable == [x \in {} |-> NoPane]

(* load: the plugin is started in a session of one tab with one shell and  *)
(* one client; the session has reported nothing to it yet.                 *)
Load(name, p, title, c) ==
  /\ live = [q \in {p} |-> [tab |-> 0, title |-> title, suppressed |-> FALSE]]
  /\ gone = {}
  /\ names = [t \in {0} |-> name]
  /\ focus = [t \in {0} |-> p]
  /\ viewing = [d \in {c} |-> 0]
  /\ changes = 0
  /\ news = {"panes", "tabs"}
  /\ panes = EmptyTable /\ tabs = EmptyTable /\ current = NoPane
  /\ granted = FALSE /\ timer = TRUE
  /\ reply = NoReply

Init == \E s \in Starts : Load(s.name, s.pane, s.title, s.client)

Next == \/ Session
        \/ PaneUpdate \/ TabUpdate \/ ListClients \/ Timer \/ PermissionRequestResult
        \/ \E m \in Requests : Pipe(m)

---------------------------------------------------------------------------
(***************************************************************************)
(* Properties.                                                             *)
(***************************************************************************)

Entries == [tab : 0 .. MaxTabs - 1, title : Titles, suppressed : BOOLEAN,
            name : TabNames \union {DefaultName(t) : t \in 0 .. MaxTabs - 1},
            focused : BOOLEAN]

(* TypeOK: the session and the three tables have the shape the plugin's     *)
(* code gives them, a tab table has no gap and a focus is a pane of its     *)
(* tab.                                                                    *)
TypeOK ==
  /\ DOMAIN live \subseteq Panes /\ gone \subseteq Panes \ DOMAIN live
  /\ \A p \in DOMAIN live : live[p] \in [tab : Positions, title : Titles, suppressed : BOOLEAN]
  /\ \E k \in 1 .. MaxTabs : names \in [0 .. k - 1 -> TabNames]
  /\ DOMAIN focus = Positions
  /\ \A t \in Positions : focus[t] \in Focusable(t) \union {NoPane}
  /\ DOMAIN viewing \subseteq Clients /\ \A c \in DOMAIN viewing : viewing[c] \in Positions
  /\ changes \in 0 .. MaxChanges
  /\ news \subseteq {"panes", "tabs", "clients"}
  /\ DOMAIN panes \subseteq Panes /\ \A p \in DOMAIN panes : panes[p] \in Entries
  /\ \E k \in 0 .. MaxTabs : DOMAIN tabs = 0 .. k - 1
  /\ \A t \in DOMAIN tabs : tabs[t] \in [name : TabNames, active : BOOLEAN]
  /\ current \in Panes \union {NoPane}
  /\ granted \in BOOLEAN /\ timer \in BOOLEAN

(* Nothing is on its way to the plugin; its tab names are those it has now. *)
Settled == granted /\ news \intersect {"panes", "tabs"} = {}
Joined == \A p \in DOMAIN panes : panes[p].name = TabTableName(panes[p].tab)
CaughtUp == Settled /\ Joined /\ current = ClientPane

(* The line the session itself would list for a pane.                      *)
TrueEntry(p) == [pane |-> p, tab |-> live[p].tab, name |-> names[live[p].tab],
                 title |-> live[p].title, suppressed |-> live[p].suppressed,
                 focused |-> p = ClientPane]

(* SettledListIsTrue: once both reports have come, panes.list tells the     *)
(* panes of the session, each with its place, title and visibility.  The    *)
(* names of the tabs are the session's too unless the tabs came last, and   *)
(* the focus unless a poll is still to come: three delays of one answer     *)
(* (state.rs update_panes, update_tabs, update_clients).                    *)
SettledListIsTrue ==
  Settled =>
    /\ {<<e.pane, e.tab, e.title, e.suppressed>> : e \in ListPanes}
         = {<<p, live[p].tab, live[p].title, live[p].suppressed>> : p \in DOMAIN live}
    /\ Joined => \A e \in ListPanes : e.name = names[e.tab]
    /\ (current = ClientPane /\ ClientPane # NoPane) =>
         \A e \in ListPanes : e.focused <=> e.pane = ClientPane

(* SendReachesTheNamed: a send that was answered ok while the plugin was    *)
(* caught up wrote to the panes its selector names in the session itself,   *)
(* to one of them unless it asked for all (main.rs handle_pane_send over    *)
(* resolve_selector); a selector by place counts the terminals of the tab   *)
(* first.                                                                   *)
SendReachesTheNamed ==
  (reply.kind = "response" /\ reply.acted # {} /\ reply.request.method = "pane.send") =>
    LET r == reply.request
        here == {p \in DOMAIN live : r.selector.form = "tab:index" /\ live[p].tab = r.selector.tab}
        named == CASE r.selector.form = "focused" -> {ClientPane}
                   [] r.selector.form = "tab:index" -> {p \in here : Rank(here, p) = r.selector.index}
                   [] OTHER -> {p \in DOMAIN live : PluginMatches(r.selector, TrueEntry(p))}
    IN /\ r.all \/ Cardinality(reply.acted) = 1
       /\ (CaughtUp /\ ClientPane # NoPane) => reply.acted = named

(* IdReachesOnlyItsPane: a send whose selector is a pane's id reaches       *)
(* that pane or nobody, however far behind the tables are; so does a        *)
(* focus, a rename and a resize.  What a late table can change is only      *)
(* whether the pane is found.                                               *)
IdReachesOnlyItsPane ==
  (reply.kind = "response" /\ reply.acted # {} /\ reply.request.selector.form \in {"id", "typed"}) =>
    /\ reply.acted = {reply.request.selector.pane}
    /\ reply.request.selector.pane \in DOMAIN live \union gone

(* PollCatchesUp: when the client stays in one pane the plugin ends up      *)
(* knowing it, because every timer asks for the clients again and arms the  *)
(* next (main.rs load, update).                                             *)
PollCatchesUp ==
  \A p \in Panes : <>[](ClientPane = p) => <>[](current = p)

---------------------------------------------------------------------------
(* Zellij delivers what it owes and the timer it was asked for.  Nothing   *)
(* is assumed of the user or of requests.                                  *)
Fairness == /\ WF_vars(PaneUpdate) /\ WF_vars(TabUpdate) /\ WF_vars(ListClients)
            /\ WF_vars(Timer) /\ WF_vars(PermissionRequestResult)

Spec == Init /\ [][Next]_vars /\ Fairness

=============================================================================
