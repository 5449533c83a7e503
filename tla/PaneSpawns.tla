---------------------------- MODULE PaneSpawns ----------------------------
(***************************************************************************)
(* How a spawn finds the pane it opened (adapters/zjctl/client.rs          *)
(* prepare_spawn, spawn, launch_spawn, resolve_spawned_target; terminal.rs *)
(* spawn, resolve_spawn_candidate, reconcile_spawn_binding), composed with *)
(* the session and the plugin's listing of ZrpcPlugin.                     *)
(*                                                                         *)
(* Zellij may print the id of the pane it opened; otherwise the spawn      *)
(* lists the panes before and after and takes one that is new.  A remote   *)
(* launch is detached: its commands take effect some time later, or never, *)
(* and the pane is looked for by the calls that come after.  Meanwhile     *)
(* the user and other spawns open panes of their own, and each listing is  *)
(* the plugin's, as late as its tables are.                                *)
(*                                                                         *)
(* Panes are numbered by the session in the order they open.               *)
(***************************************************************************)
EXTENDS ZrpcPlugin, Sequences

CONSTANTS
  Spawners,       \* bound on the spawns: each makes one, all at the same time
  SpawnRequests,  \* [where, tab, title, command, default]; "any" is not given
  Hosts,          \* the values of `host`
  Shells,         \* commands shell_name knows
  Untitled,       \* the title of a pane nobody named
  Unnamed,        \* the name of a tab nobody named
  SecondTabs,     \* names of a second tab in the beginning; NoTab if none
  NoTab,
  MaxLost         \* bound on the commands and listings that fail

ASSUME RequestsName ==
  \A r \in SpawnRequests : r.tab \in TabNames \union {"any"} /\ r.title \in Titles \union {"any"}
ASSUME NobodyNames == Untitled \in Titles /\ Unnamed \in TabNames
ASSUME SecondTabsAreTabs ==
  \A name \in SecondTabs \ {NoTab} :
    /\ name \in TabNames /\ MaxTabs > 1
    /\ \A s \in Starts : [s.pane EXCEPT !.n = @ + 1] \in Terminals
ASSUME LossesAreBounded == MaxLost \in Nat

VARIABLES
  host,   \* [ssh, prints, initial]: SshBackend; `run` prints the pane's id;
          \* `new-tab` takes the command of its first pane
  made,   \* pane -> [by, command] for every pane ever opened
  lost,   \* failures so far, for MaxLost
  spawn   \* spawner -> the spawn it makes

spawnVars == <<vars, host, made, lost, spawn>>

User == "user"

ASSUME UserIsNoSpawner == User \notin Spawners

(* A spawn: `todo` the commands still to give, `sent` the detached ones not *)
(* yet carried out, `hints` and `before` the panes listed before (by the    *)
(* service and by the adapter), `blind` a command or a list failed, the     *)
(* list was behind or the commands came out of their order, `tabNames` the  *)
(* last list-tabs, `alone` nobody else acted on the session since it began, *)
(* `how` it found its pane, `sure` the listing it bound from was up to date *)
(* and everything sent had happened.                                       *)
Fresh(r) ==
  [at |-> IF host.ssh THEN "hints" ELSE "tabs", request |-> r, todo |-> <<>>, sent |-> {},
   hints |-> {}, before |-> {}, blind |-> FALSE, tabNames |-> names, alone |-> TRUE,
   pane |-> NoPane, how |-> "none", sure |-> FALSE]

NotYet == [at |-> "none"]

Now(w, s) == spawn' = [spawn EXCEPT ![w] = s]

(* As Now, when the step acts on the session; the others notice.           *)
Acts(w, s) ==
  spawn' = [v \in Spawners |->
              IF v = w THEN s
              ELSE IF spawn[v] = NotYet THEN NotYet ELSE [spawn[v] EXCEPT !.alone = FALSE]]

Keep == UNCHANGED <<session, changes, news, tables, granted, timer, reply, host, made>>

Command(p) == made[p].command

(* The listing the plugin would give now is the session's.                 *)
UpToDate == Settled /\ Joined

---------------------------------------------------------------------------
(***************************************************************************)
(* Listings.  The local backend gives each pane the name its tab has in    *)
(* list-tabs, read before the panes; the remote one has the plugin's.      *)
(***************************************************************************)
\* Mutant: the tabs are taken to be numbered from one.
TabNameOfNext(w, e) ==
  IF e.tab + 1 \in DOMAIN spawn[w].tabNames THEN spawn[w].tabNames[e.tab + 1] ELSE Untitled

TabNameOf(w, e) ==
  IF ~host.ssh /\ e.tab \in DOMAIN spawn[w].tabNames THEN spawn[w].tabNames[e.tab] ELSE e.name

Listing(w) == {[pane |-> e.pane, tab |-> e.tab, name |-> TabNameOf(w, e), title |-> e.title] :
                 e \in ListPanes}

(* A list-tabs that fails leaves the plugin's names.                       *)
NoNames == [t \in {} |-> Unnamed]

ListTabs(w) ==
  LET listed(tabNames) == Now(w, [spawn[w] EXCEPT !.tabNames = tabNames,
                                    !.at = IF @ = "tabs" THEN "before" ELSE "after"])
  IN /\ Keep
     /\ spawn[w].at \in {"tabs", "tabs_after"}
     /\ \/ listed(names) /\ UNCHANGED lost
        \/ lost < MaxLost /\ lost' = lost + 1 /\ listed(NoNames)

Ids(listing) == {e.pane : e \in listing}

(***************************************************************************)
(* prepare_spawn.                                                          *)
(***************************************************************************)

(* The terminals a request may reuse: the shells, and for a default shell   *)
(* the only terminal of the tab when Zellij does not tell its command.     *)
Reusable(r, inTab) ==
  LET terminals == {e \in inTab : ~e.pane.plugin}
  IN {e \in terminals : \/ Command(e.pane) \in Shells
                        \/ r.default /\ Cardinality(terminals) = 1 /\ Command(e.pane) = NoCommand}

InNamedTab(r, listing) == {e \in listing : e.name = r.tab}

(* The plan: a pane to reuse, or the commands that open one.  Whether the   *)
(* tab action opens the program itself is decided one way for a new tab     *)
(* and the other for a tab that turned out to be missing.                  *)
Launch(todo) == [kind |-> "launch", todo |-> todo]

\* Mutant: the program is run before its tab is opened.
RunThenTab(r) == IF r.default THEN <<"new-tab">> ELSE <<"run", "new-tab">>

InNewTab(r) == IF r.default THEN <<"new-tab">> ELSE <<"new-tab", "run">>

Plan(r, listing) ==
  LET inTab == InNamedTab(r, listing)
      reusable == Reusable(r, inTab)
  IN IF r.where = "new_tab"
       THEN Launch(InNewTab(r))
     ELSE IF r.tab = "any" THEN Launch(<<"run">>)
     ELSE IF inTab = {}
       THEN Launch(IF r.default THEN <<"new-tab", "run">> ELSE <<"new-tab-command">>)
     ELSE IF Cardinality(reusable) = 1 THEN [kind |-> "reuse", panes |-> Ids(reusable)]
     ELSE IF reusable # {} THEN [kind |-> "ambiguous"]
     ELSE Launch(<<"go-to-tab", "run">>)

---------------------------------------------------------------------------
(***************************************************************************)
(* The spawn up to its launch.                                             *)
(***************************************************************************)
Begun == {w \in Spawners : spawn[w] # NotYet}

Start(w, r) ==
  /\ Keep
  /\ spawn[w] = NotYet
  /\ Now(w, Fresh(r))
  /\ UNCHANGED lost

(* terminal.rs spawn: the panes there are, kept for the reconciliation; of  *)
(* a remote session whose list failed, none.                               *)
Hints(w) ==
  /\ Keep
  /\ spawn[w].at = "hints"
  /\ \/ Now(w, [spawn[w] EXCEPT !.at = "before", !.hints = Ids(Listing(w)),
                                !.blind = ~UpToDate]) /\ UNCHANGED lost
     \/ /\ lost < MaxLost /\ lost' = lost + 1
        /\ Now(w, [spawn[w] EXCEPT !.at = "before", !.hints = {}, !.blind = TRUE])

Bound(s, p, how, sure) == [s EXCEPT !.at = "bound", !.pane = p, !.how = how, !.sure = sure]
Fails(w) == Now(w, [spawn[w] EXCEPT !.at = "failed"])

Prepare(w) ==
  LET s == spawn[w]
      plan == Plan(s.request, Listing(w))
  IN /\ Keep /\ UNCHANGED lost
     /\ s.at = "before"
     /\ CASE plan.kind = "reuse" -> \E p \in plan.panes : Now(w, Bound(s, p, "reuse", UpToDate))
          [] plan.kind = "ambiguous" -> Fails(w)
          [] OTHER -> Now(w, [s EXCEPT !.at = "launch", !.before = Ids(Listing(w)), !.todo = plan.todo,
                                   !.blind = @ \/ ~UpToDate])

---------------------------------------------------------------------------
(***************************************************************************)
(* What the commands do to the session.                                    *)
(***************************************************************************)
Unopened == Terminals \ (DOMAIN live \union gone)
NextPane == CHOOSE p \in Unopened : \A q \in Unopened : p.n <= q.n

Opens(by, command) ==
  /\ Unopened # {}
  /\ made' = [p \in DOMAIN made \union {NextPane} |->
                IF p = NextPane THEN [by |-> by, command |-> command] ELSE made[p]]
  /\ news' = news \union {"panes", "tabs"}

TitleOf(r) == IF r.title = "any" THEN Untitled ELSE r.title

(* new-tab opens the tab with a shell, or with the command it was given;    *)
(* run opens the pane in the tab the client looks at; go-to-tab-name moves  *)
(* there if there is such a tab.                                           *)
Performs(w, command) ==
  LET r == spawn[w].request IN
  CASE command = "new-tab" ->
         Opens(w, NoCommand) /\ NewTab(IF r.tab = "any" THEN Unnamed ELSE r.tab, NextPane, Untitled)
    [] command = "new-tab-command" ->
         Opens(w, r.command) /\ NewTab(r.tab, NextPane, Untitled)
    [] command = "run" ->
         Opens(w, r.command) /\ OpenPane(NextPane, viewing[Speaker], TitleOf(r))
    [] command = "go-to-tab" ->
         LET there == {t \in Positions : names[t] = r.tab}
         IN /\ IF there = {} THEN UNCHANGED session
               ELSE \E t \in there : View(Speaker, t)
            /\ news' = news \union {"panes", "tabs"}
            /\ UNCHANGED made

Rest == UNCHANGED <<changes, tables, granted, timer, reply, host>>

(***************************************************************************)
(* Giving the commands.  A launch whose action opens the program itself is *)
(* awaited on both backends; the other remote ones are detached.  After    *)
(* the last command a spawn that awaited looks for its pane, one that did  *)
(* not returns a provisional handle.                                       *)
(*                                                                         *)
(* A Zellij that does not know an argument of an awaited remote launch of   *)
(* the default shell is given the launch once more.  It is the same command *)
(* with the same arguments, so that it ends as the first did.              *)
(***************************************************************************)
\* Mutant: every remote launch is detached.
AwaitedLocally(w) == ~host.ssh

Awaited(w) == \/ ~host.ssh
              \/ Len(spawn[w].todo) = 1 /\ Head(spawn[w].todo) \in {"new-tab", "new-tab-command"}

Looks == IF host.ssh THEN "after" ELSE "tabs_after"

(* A run whose output is the pane's id needs no search, but lists as well. *)
Prints(w) == Head(spawn[w].todo) = "run" /\ host.prints

Give(w) ==
  LET s == spawn[w]
      command == Head(s.todo)
      next == [s EXCEPT !.todo = Tail(@), !.at = IF Tail(s.todo) = <<>> THEN Looks ELSE @]
  IN /\ s.at = "launch" /\ Awaited(w)
     /\ IF command = "new-tab-command" /\ ~host.initial
        THEN UNCHANGED <<session, news, made>> /\ Fails(w)
        ELSE /\ Performs(w, command)
             /\ Acts(w, IF Prints(w) THEN [next EXCEPT !.pane = NextPane] ELSE next)
     /\ Rest /\ UNCHANGED lost

(* A list or a command that is awaited fails, and the spawn with it.       *)
Refused(w) ==
  /\ Keep
  /\ lost < MaxLost /\ lost' = lost + 1
  /\ \/ spawn[w].at \in {"before", "after", "exec"}
     \/ spawn[w].at = "launch" /\ Awaited(w)
  /\ Fails(w)

Detach1(w) ==
  LET s == spawn[w]
  IN /\ Keep
     /\ s.at = "launch" /\ ~Awaited(w)
     /\ Now(w, [s EXCEPT !.sent = @ \union {Head(s.todo)}, !.todo = Tail(@),
                         !.at = IF Tail(s.todo) = <<>> THEN "provisional" ELSE @])
     /\ UNCHANGED lost

(* A detached command takes effect, or its connection fails and it never    *)
(* does.  Nothing makes the first take effect before the second: 200 ms    *)
(* lie between them.                                                       *)
Arrives(w) ==
  /\ spawn[w] # NotYet
  /\ \E command \in spawn[w].sent :
       \/ /\ Performs(w, command) /\ UNCHANGED lost
          /\ Acts(w, [spawn[w] EXCEPT !.sent = @ \ {command},
                        !.blind = @ \/ (command = "run" /\ spawn[w].sent # {"run"})])
       \/ /\ lost < MaxLost /\ lost' = lost + 1
          /\ UNCHANGED <<session, news, made>>
          /\ Now(w, [spawn[w] EXCEPT !.sent = @ \ {command}, !.blind = TRUE])
  /\ Rest

---------------------------------------------------------------------------
(***************************************************************************)
(* Finding the pane.                                                       *)
(***************************************************************************)
New(w, ids) == {e \in Listing(w) : ~e.pane.plugin /\ e.pane \notin ids}

Titled(S, r) == {e \in S : r.title # "any" /\ e.title = r.title}

\* Mutant: the command is not compared.
RunningAny(S, r) == S

Running(S, r) == {e \in S : Command(e.pane) = r.command}

(* resolve_spawned_target: of the new terminals those of the tab, if any;   *)
(* the only one of the title, else of the command, else of all.  Several    *)
(* of the title or of the command are an error.                            *)
Spawned(w) ==
  LET r == spawn[w].request
      fresh == New(w, spawn[w].before)
      inTab == {e \in fresh : r.tab # "any" /\ e.name = r.tab}
      S == IF inTab # {} THEN inTab ELSE fresh
  IN IF Titled(S, r) # {} THEN Unique(Titled(S, r))
     ELSE IF Running(S, r) # {} THEN Unique(Running(S, r))
     ELSE Unique(S)

(* resolve_spawn_candidate: the tab is required, and a title or a command   *)
(* that does not single one out is passed over.                            *)
Candidate(w) ==
  LET r == spawn[w].request
      S == {e \in New(w, spawn[w].hints) : r.tab = "any" \/ e.name = r.tab}
  IN IF Cardinality(Titled(S, r)) = 1 THEN Titled(S, r)
     ELSE IF Cardinality(Running(S, r)) = 1 THEN Running(S, r)
     ELSE Unique(S)

BecomesFish(s) ==
  /\ ~host.ssh /\ s.request.where = "new_tab" /\ s.request.default
  /\ Command(s.pane) # s.request.command

FindSpawned(w) ==
  /\ Keep /\ UNCHANGED lost
  /\ spawn[w].at = "after"
  /\ IF spawn[w].pane # NoPane THEN Now(w, Bound(spawn[w], spawn[w].pane, "printed", TRUE))
     ELSE IF Spawned(w) = {} THEN Fails(w)
     ELSE \E e \in Spawned(w) :
            LET s == Bound(spawn[w], e.pane, "searched", UpToDate /\ ~spawn[w].blind)
            IN Now(w, IF BecomesFish(s) THEN [s EXCEPT !.at = "exec"] ELSE s)

(* A local default tab has the user's own shell, which is told, through the *)
(* plugin, to become the one that was asked for.  A spawn whose pane the    *)
(* plugin does not know fails with its tab open.                           *)
Exec(w) ==
  LET s == spawn[w] IN
  /\ s.at = "exec"
  /\ IF s.pane \in DOMAIN panes
     THEN /\ made' = IF s.pane \in DOMAIN live
                     THEN [made EXCEPT ![s.pane].command = s.request.command] ELSE made
          /\ Acts(w, [s EXCEPT !.at = "bound"])
     ELSE Fails(w) /\ UNCHANGED made
  /\ UNCHANGED <<session, changes, news, tables, granted, timer, reply, host, lost>>

(* One look of reconcile_spawn_binding, of any later call on the handle.    *)
Reconcile(w) ==
  /\ Keep /\ UNCHANGED lost
  /\ spawn[w].at = "provisional"
  /\ \E e \in Candidate(w) :
       Now(w, Bound(spawn[w], e.pane, "reconciled", UpToDate /\ spawn[w].sent = {} /\ ~spawn[w].blind))

---------------------------------------------------------------------------
(***************************************************************************)
(* The user, the plugin, and the whole.                                    *)
(***************************************************************************)
UserStep ==
  /\ changes < MaxChanges /\ changes' = changes + 1
  /\ \/ \E t \in Positions : Opens(User, NoCommand) /\ OpenPane(NextPane, t, Untitled)
     \/ Opens(User, NoCommand) /\ NewTab(Unnamed, NextPane, Untitled)
     \/ /\ \/ \E t \in Positions : View(Speaker, t) \/ CloseTab(t)
           \/ \E t \in Positions, name \in TabNames : RenameTab(t, name)
        /\ news' = news \union {"panes", "tabs"} /\ UNCHANGED made
  /\ spawn' = [v \in Spawners |->
                 IF spawn[v] = NotYet THEN NotYet ELSE [spawn[v] EXCEPT !.alone = FALSE]]
  /\ UNCHANGED <<tables, granted, timer, reply, host, lost>>

PluginStep == (PaneUpdate \/ TabUpdate) /\ UNCHANGED <<host, made, lost, spawn>>

(* A session of one tab, or of a second one with a shell of its own, that  *)
(* the plugin knows.                                                       *)
SpawnInit ==
  /\ \E s \in Starts, second \in SecondTabs :
       LET there == IF second = NoTab THEN {0} ELSE {0, 1}
           pane(t) == IF t = 0 THEN s.pane ELSE [s.pane EXCEPT !.n = @ + 1]
           open == {pane(t) : t \in there}
           tab(p) == p.n - s.pane.n
           name(t) == IF t = 0 THEN s.name ELSE second
       IN /\ live = [p \in open |-> [tab |-> tab(p), title |-> s.title, suppressed |-> FALSE]]
          /\ names = [t \in there |-> name(t)]
          /\ focus = [t \in there |-> pane(t)]
          /\ viewing = [d \in {s.client} |-> 0]
          /\ panes = [p \in open |-> [tab |-> tab(p), name |-> name(tab(p)), title |-> s.title,
                                     suppressed |-> FALSE, focused |-> TRUE]]
          /\ tabs = [t \in there |-> [name |-> name(t), active |-> t = 0]]
          /\ current = s.pane
          /\ made = [p \in open |-> [by |-> User, command |-> NoCommand]]
  /\ gone = {} /\ changes = 0 /\ news = {}
  /\ granted = TRUE /\ timer = TRUE /\ reply = NoReply
  /\ host \in Hosts
  /\ lost = 0
  /\ spawn = [w \in Spawners |-> NotYet]

SpawnStep(w) ==
  \/ ListTabs(w) \/ Hints(w) \/ Prepare(w) \/ Give(w) \/ Refused(w) \/ Detach1(w) \/ Arrives(w)
  \/ FindSpawned(w) \/ Exec(w) \/ Reconcile(w)

SpawnNext ==
  \/ UserStep \/ PluginStep
  \/ \E w \in Spawners : (\E r \in SpawnRequests : Start(w, r)) \/ SpawnStep(w)

(* Zellij reports, a command that was given is carried out or fails, and a  *)
(* handle that is in use is looked for again.  Remote commands have         *)
(* time-outs.  Local ones have none and may block for ever, so for the      *)
(* local backend this takes a Zellij whose commands return.                *)
SpawnFairness == WF_spawnVars(PluginStep) /\ \A w \in Spawners : WF_spawnVars(SpawnStep(w))

SpawnSpec == SpawnInit /\ [][SpawnNext]_spawnVars /\ SpawnFairness

---------------------------------------------------------------------------
(***************************************************************************)
(* Properties.                                                             *)
(***************************************************************************)

(* SpawnTypeOK: a spawn's record has the shape its steps give it, and every *)
(* open pane has been made.                                                *)
SpawnTypeOK ==
  /\ TypeOK
  /\ DOMAIN live \subseteq DOMAIN made
  /\ lost \in 0 .. MaxLost
  /\ \A w \in Spawners : spawn[w] # NotYet =>
       LET s == spawn[w] IN
       /\ s.at \in {"tabs", "hints", "before", "launch", "tabs_after", "after",
                   "provisional", "exec", "bound", "failed"}
       /\ s.sent \subseteq {"new-tab", "go-to-tab", "run"}
       /\ s.hints \union s.before \subseteq DOMAIN made
       /\ s.at \in {"exec", "bound"} => s.pane \in DOMAIN made

Own(w) == {p \in DOMAIN made : made[p].by = w}

(* BindsTheCommand: a spawn that Zellij told its pane has the pane its      *)
(* command runs in.  One that searched has it too when it was alone, its    *)
(* listing was up to date and all it had sent had happened: of a tab's      *)
(* first shell and the command's own pane it takes the latter (client.rs    *)
(* resolve_spawned_target, terminal.rs resolve_spawn_candidate).  Another   *)
(* spawn, whose listing lagged, may take that pane for its own and start    *)
(* its shell in it.                                                         *)
BindsTheCommand ==
  \A w \in Begun :
    LET s == spawn[w] IN
    (s.how = "printed" \/ (s.how \in {"searched", "reconciled"} /\ s.sure /\ s.alone)) =>
      \/ /\ s.pane \in Own(w)
         /\ \/ Command(s.pane) = s.request.command
            \/ s.request.default /\ Own(w) = {s.pane}
      \/ \E v \in Begun \ {w} : spawn[v].pane = s.pane

(* ReuseIsInItsTab: the pane a spawn reuses is in the tab the request named,*)
(* if that was so when the names were listed: the listing joins the         *)
(* plugin's tab numbers with names read at another time (client.rs          *)
(* prepare_spawn over list_targets_for_session).                            *)
ReuseIsInItsTab ==
  \A w \in Begun :
    LET s == spawn[w] IN
    (s.how = "reuse" /\ s.sure /\ s.alone) =>
      s.pane \in DOMAIN live /\ names[live[s.pane].tab] = s.request.tab

(* LoneSpawnIsFound: a spawn that stays alone and whose commands and lists *)
(* all return and work ends with a pane or an error; in particular the     *)
(* handle of a detached launch does not stay provisional (terminal.rs      *)
(* reconcile_spawn_binding). It needs a listing that is up to date again   *)
(* and again: a new tab whose panes were reported before the tab itself    *)
(* keeps a made-up name, and its pane is not found, until the panes are    *)
(* reported once more (state.rs update_panes).                             *)
LoneSpawnIsFound ==
  \A w \in Spawners :
    (<>[](w \in Begun /\ spawn[w].alone /\ ~spawn[w].blind) /\ []<>UpToDate) =>
      <>(w \in Begun /\ spawn[w].at \in {"bound", "failed"})

=============================================================================
