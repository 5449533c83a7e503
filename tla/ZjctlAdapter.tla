--------------------------- MODULE ZjctlAdapter ---------------------------
(***************************************************************************)
(* What LocalBackend and SshBackend (adapters/zjctl/client.rs) do with one *)
(* capture, wait, close or send by place: which commands they send, in     *)
(* which order, and what each command finds, composed with the session and *)
(* the plugin of ZrpcPlugin.                                               *)
(*                                                                         *)
(* A call is a sequence of commands.  Between two of them the user, the    *)
(* programs and other calls act on the session, and the plugin's tables    *)
(* catch up or do not.  A step of a call is one command.                   *)
(*                                                                         *)
(* A Zellij that knows `--pane-id` is told the pane to act on.  One that   *)
(* does not is driven by its focus: the backend focuses the pane through   *)
(* the plugin and then acts on whatever has the focus.  What only zjctl    *)
(* can do (a selector that is no pane id, a blank dump, a failed focus)    *)
(* goes to the zjctl command of the host, which is external: it reads the  *)
(* plugin's selectors, acts on the one pane they name and refuses, as the  *)
(* adapter does, to close the focused pane unless forced.                  *)
(***************************************************************************)
EXTENDS ZrpcPlugin

CONSTANTS
  Workers,    \* bound on the calls: each worker makes one, all at the same time
  Selectors,  \* selectors the bindings may hold
  Intents     \* places a send or a takeover may name: see LocationTarget

VARIABLES
  ssh,      \* the backend is SshBackend and not LocalBackend
  paneIds,  \* the host's Zellij knows --pane-id
  call      \* worker -> the call it runs

adapterVars == <<vars, ssh, paneIds, call>>

Idle == [op |-> "none", at |-> "idle"]
Working(w) == call[w].at \notin {"idle", "done"}

(* A call: `target` the pane it resolved to, `shown` the pane whose screen  *)
(* it read last, `quiet` the wait saw no change for long enough, `closed`   *)
(* the panes it closed itself, `zjctl` a close through zjctl was made,      *)
(* `moved` the focus was moved by another since this call focused its       *)
(* target, `wrote` the panes its text reached, `named` the panes its place  *)
(* named when it was looked up, if the plugin was caught up then.          *)
Fresh(op, s, force) ==
  [op |-> op, at |-> "resolve", selector |-> s, force |-> force,
   target |-> NoPane, shown |-> NoPane, quiet |-> FALSE, closed |-> {}, zjctl |-> FALSE,
   refocused |-> FALSE, moved |-> FALSE, wrote |-> {}, named |-> {}, result |-> "none"]

(* The step of w: its own record changes, and every other call that relies *)
(* on the focus notes that it moved.                                       *)
Goes(w, c) ==
  call' = [v \in Workers |->
             IF v = w THEN c
             ELSE IF call[v].op # "none" /\ call[v].refocused /\ ClientPane' # ClientPane
                  THEN [call[v] EXCEPT !.moved = TRUE] ELSE call[v]]

At(w, stage) == [call[w] EXCEPT !.at = stage]
Ends(c, result) == [c EXCEPT !.at = "done", !.result = result, !.refocused = FALSE]
Failed(w) == Ends(call[w], "failed")

Asks(w) == [call[w] EXCEPT !.at = "zjctl", !.refocused = FALSE]

SessionStays == UNCHANGED <<session, changes, news, tables, granted, timer, reply, ssh, paneIds>>
OwnStep == UNCHANGED <<changes, tables, granted, timer, reply, ssh, paneIds>>

---------------------------------------------------------------------------
(***************************************************************************)
(* Calls and their first command.                                          *)
(***************************************************************************)

(* A remote call whose selector is no pane id goes to zjctl at once; every  *)
(* other resolves its selector first.                                      *)
FirstStage(s) == IF ssh /\ ~NamesActionPane(s) THEN "zjctl" ELSE "resolve"

Begin(w, op, s, force) ==
  /\ SessionStays
  /\ call[w] = Idle
  /\ Goes(w, [Fresh(op, s, force) EXCEPT !.at = FirstStage(s)])

(* resolved_target over list_targets_for_session: the plugin's listing when *)
(* the last panes.list was answered, and its only match.  A close that is   *)
(* not forced stops at a focused pane.                                     *)
Matched(s) == Unique({e \in ListPanes : AdapterMatches(s, e)})

ResolveTarget(w) ==
  /\ SessionStays
  /\ call[w].at = "resolve"
  /\ LET c == call[w]
     IN IF Matched(c.selector) = {} THEN Goes(w, Failed(w))
        ELSE \E e \in Matched(c.selector) :
               IF c.op = "close" /\ ~c.force /\ e.focused THEN Goes(w, Failed(w))
               ELSE Goes(w, [c EXCEPT !.at = "act", !.target = e.pane])

---------------------------------------------------------------------------
(***************************************************************************)
(* The command with --pane-id.                                             *)
(***************************************************************************)

\* Mutant: the pane is not focused first.
UnsupportedUnfocused(w) ==
  /\ SessionStays
  /\ call[w].at = "act" /\ ~paneIds
  /\ LET c == call[w]
     IN IF ~ssh THEN Goes(w, Failed(w))
        ELSE Goes(w, [c EXCEPT !.at = "by_focus", !.refocused = TRUE])

(* Zellij refuses the argument: a local call fails, a remote one turns to   *)
(* the focus; a wait and a close resolve their target again first.         *)
Unsupported(w) ==
  /\ SessionStays
  /\ call[w].at = "act" /\ ~paneIds
  /\ LET c == call[w]
     IN IF ~ssh THEN Goes(w, Failed(w))
        ELSE Goes(w, At(w, IF c.op = "capture" THEN "focus" ELSE "again"))

ResolveAgain(w) ==
  /\ SessionStays
  /\ call[w].at = "again"
  /\ IF Matched(call[w].selector) = {} THEN Goes(w, Failed(w))
     ELSE \E e \in Matched(call[w].selector) :
            Goes(w, [call[w] EXCEPT !.at = "focus", !.target = e.pane])

(* dump-screen --pane-id needs a pane that is open.                        *)
Dumps(p) == p \in DOMAIN live

(* The screen of a pane has been read.                                     *)
Saw(c, p) == [c EXCEPT !.shown = p]

(* capture_full: the dump of the pane; a blank one is left to zjctl when    *)
(* remote.                                                                 *)
Dump(w) ==
  LET c == call[w] IN
  /\ SessionStays
  /\ c.at = "act" /\ c.op = "capture" /\ paneIds
  /\ \/ ~Dumps(c.target) /\ Goes(w, Failed(w))
     \/ Dumps(c.target) /\ Goes(w, Ends(Saw(c, c.target), "ok"))
     \/ Dumps(c.target) /\ ssh /\ Goes(w, Asks(w))

(***************************************************************************)
(* The loop of a wait: the first dump, then dumps compared with the one    *)
(* before.  It ends well when nothing has changed for idle_ms (`quiet`;    *)
(* what a pane shows is left open), and with Timeout when timeout_ms is    *)
(* over; which of the two clocks runs out first is not modelled.           *)
(***************************************************************************)
Sees(w, p) ==
  LET c == call[w]
  IN \/ \E quiet \in BOOLEAN : Goes(w, [Saw(c, p) EXCEPT !.quiet = quiet])
     \/ c.quiet /\ Goes(w, Ends(c, "ok"))

TimesOut(w) == IF call[w].refocused THEN Goes(w, Asks(w)) ELSE Goes(w, Ends(call[w], "timeout"))

Poll(w) ==
  LET c == call[w] IN
  /\ SessionStays
  /\ c.at = "act" /\ c.op = "wait" /\ paneIds
  /\ \/ Dumps(c.target) /\ Sees(w, c.target)
     \/ ~Dumps(c.target) /\ Goes(w, Failed(w))
     \/ c.shown # NoPane /\ TimesOut(w)

(* close-pane --pane-id.  Of a pane that has gone Zellij may or may not     *)
(* complain, and the answer of a remote one may be lost.  The local        *)
(* backend takes its word.                                                 *)
Closes(p) ==
  IF p \in DOMAIN live
  THEN ClosePane(p) /\ news' = news \union {"panes", "tabs"}
  ELSE UNCHANGED <<session, news>>

\* Mutant: close-pane is not given the pane's id.
CloseWithoutId(w) ==
  LET c == call[w] IN
  /\ c.at = "act" /\ c.op = "close" /\ paneIds
  /\ Closes(ClientPane)
  /\ Goes(w, Ends([c EXCEPT !.closed = @ \union {ClientPane}], "ok"))
  /\ OwnStep

CloseById(w) ==
  LET c == call[w] IN
  /\ c.at = "act" /\ c.op = "close" /\ paneIds
  /\ Closes(c.target)
  /\ \/ Goes(w, IF ssh THEN [c EXCEPT !.at = "verify", !.closed = @ \union {c.target}]
                ELSE Ends([c EXCEPT !.closed = @ \union {c.target}], "ok"))
     \/ /\ ssh \/ c.target \notin DOMAIN live
        /\ Goes(w, Ends([c EXCEPT !.closed = @ \union {c.target}], "failed"))
  /\ OwnStep

---------------------------------------------------------------------------
(***************************************************************************)
(* The commands by focus (remote only).                                    *)
(***************************************************************************)

(* rpc_call of a request by id: the plugin answers ok for a pane its table  *)
(* still shows.                                                            *)
PluginKnows(p) == p \in DOMAIN panes

\* Mutant: a focus that failed is passed over.
FocusUnchecked(w) ==
  LET c == call[w] IN
  /\ c.at = "focus"
  /\ IF PluginKnows(c.target)
     THEN /\ HostFocus(c.target)
          /\ news' = news \union {"panes", "tabs"}
          /\ Goes(w, [c EXCEPT !.at = "by_focus", !.refocused = TRUE, !.moved = FALSE])
     ELSE UNCHANGED <<session, news>> /\ Goes(w, At(w, "by_focus"))
  /\ OwnStep

(* focus_pane: the plugin's pane.focus by id.  It answers ok for a pane its *)
(* table still shows, whether or not the host found it.                    *)
Focus(w) ==
  LET c == call[w] IN
  /\ c.at = "focus"
  /\ IF PluginKnows(c.target)
     THEN /\ HostFocus(c.target)
          /\ news' = news \union {"panes", "tabs"}
          /\ Goes(w, [c EXCEPT !.at = "by_focus", !.refocused = TRUE, !.moved = FALSE])
     ELSE UNCHANGED <<session, news>> /\ Goes(w, Asks(w))
  /\ OwnStep

DumpFocused(w) ==
  LET c == call[w] IN
  /\ SessionStays
  /\ c.at = "by_focus" /\ c.op = "capture"
  /\ IF ClientPane = NoPane THEN Goes(w, Asks(w))
     ELSE Goes(w, Ends(Saw(c, ClientPane), "ok"))

PollFocused(w) ==
  LET c == call[w] IN
  /\ SessionStays
  /\ c.at = "by_focus" /\ c.op = "wait"
  /\ \/ ClientPane # NoPane /\ Sees(w, ClientPane)
     \/ ClientPane = NoPane /\ Goes(w, Asks(w))
     \/ c.shown # NoPane /\ TimesOut(w)

(* close_focused_pane: the command may have worked although its answer was *)
(* lost; then zjctl is asked to close the target as well.                  *)
CloseFocused(w) ==
  LET c == call[w] IN
  /\ c.at = "by_focus" /\ c.op = "close"
  /\ \/ /\ ClientPane # NoPane
        /\ Closes(ClientPane)
        /\ \E stage \in {"verify", "zjctl"} :
             Goes(w, [c EXCEPT !.at = stage, !.closed = @ \union {ClientPane}, !.refocused = FALSE])
     \/ ClientPane = NoPane /\ UNCHANGED <<session, news>> /\ Goes(w, Asks(w))
  /\ OwnStep

(* The connection fails, or a command runs out of its time: the focus path *)
(* turns to zjctl, every other command ends the call.                      *)
Lost(w) ==
  /\ SessionStays
  /\ Working(w) /\ ssh
  /\ IF call[w].at \in {"focus", "by_focus"} THEN Goes(w, Asks(w)) ELSE Goes(w, Failed(w))

---------------------------------------------------------------------------
(***************************************************************************)
(* The commands through zjctl, and the check that follows a remote close.  *)
(***************************************************************************)

(* The selector zjctl is given: the target's when there is one.            *)
Given(c) == IF c.target = NoPane THEN c.selector ELSE ById(c.target)

Named(s) == IF PluginReads(s) THEN Unique(Resolve(s)) ELSE {}

AskZjctl(w) ==
  LET c == call[w] IN
  /\ SessionStays
  /\ c.at = "zjctl" /\ c.op \in {"capture", "wait"}
  /\ \/ \E p \in Named(Given(c)) \intersect DOMAIN live :
          Goes(w, Ends(Saw(c, p), "ok"))
     \/ (c.op = "wait" \/ Named(Given(c)) \intersect DOMAIN live = {}) /\ Goes(w, Failed(w))

CloseViaZjctl(w) ==
  LET c == call[w]
      open == Named(Given(c)) \intersect DOMAIN live
      mayClose == c.force \/ open \intersect FocusedPane = {}
  IN /\ c.at = "zjctl" /\ c.op = "close"
     /\ \/ /\ mayClose
           /\ \E p \in open :
                /\ Closes(p)
                /\ Goes(w, [c EXCEPT !.at = "verify", !.closed = @ \union {p},
                              !.zjctl = @ \/ c.target = NoPane])
        \/ /\ open = {} \/ ~mayClose
           /\ UNCHANGED <<session, news>>
           /\ Goes(w, Failed(w))
     /\ OwnStep

\* Mutant: the absence is not looked for.
VerifyNothing(w) ==
  /\ SessionStays
  /\ call[w].at = "verify"
  /\ Goes(w, Ends(call[w], "ok"))

(***************************************************************************)
(* ensure_close_effective: list until nothing matches the selector or      *)
(* 750 ms have passed; close once more through zjctl if that was not how   *)
(* it was closed, and check again.                                         *)
(***************************************************************************)
VerifyClose(w) ==
  LET c == call[w]
      s == Given(c)
      present == \E e \in ListPanes : AdapterMatches(s, e)
  IN /\ SessionStays
     /\ c.at = "verify"
     /\ \/ ~present /\ Goes(w, Ends(c, "ok"))
        \/ present /\ ~c.zjctl /\ Goes(w, [c EXCEPT !.at = "zjctl", !.zjctl = TRUE])
        \/ present /\ c.zjctl /\ Goes(w, Failed(w))

---------------------------------------------------------------------------
(***************************************************************************)
(* A send by place (terminal.rs send without a handle): the panes are       *)
(* listed and the only one that fits is written to by its id.  A takeover  *)
(* finds its pane in the same way.                                         *)
(***************************************************************************)
BeginAtPlace(w, i) ==
  /\ SessionStays
  /\ call[w] = Idle
  /\ Goes(w, [Fresh("send_to", i, FALSE) EXCEPT !.at = "locate"])

Locate(w) ==
  LET c == call[w]
      found == LocationTarget(ListPanes, c.selector)
  IN /\ SessionStays
     /\ c.at = "locate"
     /\ IF found = {} THEN Goes(w, Failed(w))
        ELSE \E e \in found :
               Goes(w, [c EXCEPT !.at = "deliver", !.target = e.pane,
                          !.named = IF CaughtUp /\ ClientPane # NoPane
                                    THEN {p \in DOMAIN live : MatchesIntent(c.selector, TrueEntry(p))}
                                    ELSE {}])

(* send_input: pane.send by id.  The plugin answers ok for a pane its table *)
(* still shows; what is written to a pane that has closed reaches nobody.  *)
Deliver(w) ==
  LET c == call[w]
      panesNamed == Resolve(ById(c.target))
  IN /\ SessionStays
     /\ c.at = "deliver"
     /\ IF panesNamed = {} THEN Goes(w, Failed(w))
        ELSE Goes(w, Ends([c EXCEPT !.wrote = panesNamed \intersect DOMAIN live], "ok"))

---------------------------------------------------------------------------
(***************************************************************************)
(* The rest of the world: the user closes a pane or moves the focus (or a  *)
(* program ends), and the plugin takes the steps of ZrpcPlugin.            *)
(***************************************************************************)
Noted ==
  call' = [v \in Workers |->
             IF call[v].op # "none" /\ call[v].refocused /\ ClientPane' # ClientPane
             THEN [call[v] EXCEPT !.moved = TRUE] ELSE call[v]]

User == Changed /\ \E p \in Panes : ClosePane(p) \/ FocusPane(p)

World ==
  /\ User \/ PaneUpdate \/ ListClients \/ Timer
  /\ Noted
  /\ UNCHANGED <<ssh, paneIds>>

(* One tab with every pane open, as the plugin has come to know it.        *)
Known(p, title, c) ==
  /\ live = [q \in Panes |-> [tab |-> 0, title |-> title, suppressed |-> FALSE]]
  /\ gone = {} /\ changes = 0 /\ news = {}
  /\ focus = [t \in {0} |-> p]
  /\ viewing = [d \in {c} |-> 0]
  /\ panes = [q \in Panes |-> [tab |-> 0, name |-> names[0], title |-> title,
                               suppressed |-> FALSE, focused |-> q = p]]
  /\ tabs = [t \in {0} |-> [name |-> names[0], active |-> TRUE]]
  /\ current = p
  /\ granted = TRUE /\ timer = TRUE /\ reply = NoReply

AdapterInit ==
  /\ \E s \in Starts : names = [t \in {0} |-> s.name] /\ Known(s.pane, s.title, s.client)
  /\ ssh \in BOOLEAN /\ paneIds \in BOOLEAN
  /\ call = [w \in Workers |-> Idle]

CallStep(w) ==
  \/ ResolveTarget(w) \/ Unsupported(w) \/ ResolveAgain(w)
  \/ Dump(w) \/ Poll(w) \/ CloseById(w)
  \/ Focus(w) \/ DumpFocused(w) \/ PollFocused(w) \/ CloseFocused(w)
  \/ AskZjctl(w) \/ CloseViaZjctl(w) \/ VerifyClose(w) \/ Lost(w)
  \/ Locate(w) \/ Deliver(w)

AdapterNext ==
  \/ World
  \/ \E w \in Workers :
       \/ \E op \in {"capture", "wait", "close"}, s \in Selectors, force \in BOOLEAN :
            (force => op = "close") /\ Begin(w, op, s, force)
       \/ \E i \in Intents : BeginAtPlace(w, i)
       \/ CallStep(w)

AdapterSpec == AdapterInit /\ [][AdapterNext]_adapterVars

---------------------------------------------------------------------------
(***************************************************************************)
(* Properties.                                                             *)
(***************************************************************************)

Calls == {call[w] : w \in {v \in Workers : call[v] # Idle}}

(* AdapterTypeOK: a call's record has the shape its commands give it.      *)
AdapterTypeOK ==
  /\ TypeOK
  /\ ssh \in BOOLEAN /\ paneIds \in BOOLEAN
  /\ \A c \in Calls :
       /\ c.at \in {"resolve", "locate", "deliver", "act", "again", "focus", "by_focus", "zjctl", "verify", "done"}
       /\ c.target \in Panes \union {NoPane} /\ c.shown \in Panes \union {NoPane}
       /\ c.closed \subseteq Panes
       /\ c.wrote \subseteq Panes /\ c.named \subseteq Panes
       /\ (c.at = "done") <=> (c.result # "none")
       /\ c.refocused <=> (c.at = "by_focus")

(* ShowsItsTarget: a capture or a wait that ended well read the screen of   *)
(* the pane its selector resolved to.  By focus it may have read another,   *)
(* and only then: somebody moved the focus after the call had (the user or  *)
(* a second call), or the pane had closed and the plugin, which did not     *)
(* know, answered the focus ok (client.rs capture_full, wait_idle over      *)
(* focus_pane and dump_focused_screen; main.rs handle_pane_focus).          *)
ShowsItsTarget ==
  \A c \in Calls :
    (c.op \in {"capture", "wait"} /\ c.result = "ok" /\ c.target # NoPane /\ c.shown # c.target) =>
      ~paneIds /\ ssh /\ (c.moved \/ c.target \in gone)

(* SendsToTheOne: a send by place that was answered ok wrote to the pane it *)
(* had found and to no other, and to that one unless it closed after it was *)
(* listed or the list was behind; and what a caught-up listing found is the *)
(* only pane of the session that fits, or, where no selector was given, the *)
(* only terminal that does (terminal.rs resolve_unique_location_target,     *)
(* client.rs send_input, main.rs handle_pane_send).                         *)
SendsToTheOne ==
  \A c \in Calls :
    (c.op = "send_to" /\ c.result = "ok") =>
      /\ c.wrote = {c.target} \/ (c.wrote = {} /\ c.target \in gone)
      /\ c.named # {} =>
           {c.target} = (IF c.selector.selector.form = "any" /\ c.named \intersect Terminals # {}
                         THEN c.named \intersect Terminals ELSE c.named)

(* ClosesOnlyItsTarget: a close closes the pane it resolved and no other,   *)
(* with the same exceptions: by focus, and the focus disturbed or the       *)
(* target already gone when it was focused (client.rs close,                *)
(* close_focused_pane).                                                     *)
ClosesOnlyItsTarget ==
  \A c \in Calls :
    (c.target # NoPane /\ ~(c.closed \subseteq {c.target})) =>
      ~paneIds /\ ssh /\ (c.moved \/ c.target \in gone)

(* ReportedCloseIsTrue: when a close says ok the pane it was for is gone    *)
(* from the session, although its answer rests on the plugin's table, its   *)
(* command may have acted on another pane and its answer may be lost        *)
(* (client.rs close, ensure_close_effective, wait_for_target_absent).       *)
ReportedCloseIsTrue ==
  \A c \in Calls :
    (c.op = "close" /\ c.result = "ok") =>
      IF c.target # NoPane THEN c.target \in gone
      ELSE c.closed # {} /\ c.closed \subseteq gone

=============================================================================
