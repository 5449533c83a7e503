-------------------------- MODULE TerminalService --------------------------
(***************************************************************************)
(* The handle lifecycle of the zellij_mcp daemon, as the tool handlers of  *)
(* services/terminal.rs drive it: the registry and observation files, the  *)
(* panes of one Zellij session, and the tool calls in progress.            *)
(*                                                                         *)
(* Every handler reads a whole file, works on its copy, and later writes   *)
(* the whole copy back; between the two lie calls to the zellij adapter    *)
(* that take milliseconds to half a minute.  No lock is held.  A step here *)
(* is therefore one file read, one file write or one adapter call of one   *)
(* call in progress, and a call carries its copies with it.                *)
(*                                                                         *)
(* The control flow of a handler is a table of <<position, event, next>>   *)
(* triples (SpawnFlow ... CleanupFlow).  What a position does is given by  *)
(* Entry and the actions; what it writes by EditRegistry and EditSlots.    *)
(***************************************************************************)
EXTENDS Naturals

CONSTANTS
  Workers,    \* tool calls the runtime executes at the same time
  Handles,    \* the zh_<uuid> handles that can ever be allocated
  Panes,      \* the terminal panes that can ever exist in the session
  NoPane,     \* pane_id = None
  NoHandle,   \* the handle of a worker that serves no call
  Tools,      \* the tools the clients call
  Remote,     \* TRUE for an ssh: target, FALSE for the local one
  Crashes     \* TRUE if the daemon may be killed and restarted

AllTools == {"spawn", "attach", "capture", "send", "replace", "wait", "close",
             "list", "cleanup", "startup"}

ASSUME ConstantsAssumption ==
  /\ NoPane \notin Panes
  /\ NoHandle \notin Handles
  /\ Tools \subseteq AllTools \ {"startup"}
  /\ Remote \in BOOLEAN
  /\ Crashes \in BOOLEAN

VARIABLES
  registry,      \* registry.json: the binding of each handle
  observations,  \* observations.json: the observation slot of each handle
  pane,          \* what Zellij knows of each pane
  call,          \* the tool call each worker executes, with its local copies
  life           \* history: what the caller was told of each handle

vars == <<registry, observations, pane, call, life>>

----------------------------------------------------------------------------
(* Data. *)

\* domain/binding.rs and domain/status.rs; "absent" is a handle with no entry.
Status == {"absent", "busy", "ready", "stale", "closed"}

Binding == [source : {"none", "spawned", "attached"},
            status : Status,
            pane   : Panes \union {NoPane}]

NoBinding == [source |-> "none", status |-> "absent", pane |-> NoPane]

\* An observation, reduced to its existence and the pane ids a spawn saw
\* before it launched (domain/observation.rs, spawn_before_pane_ids).
Slot == [kept : {"no", "yes"}, before : SUBSET Panes]

NoSlot == [kept |-> "no", before |-> {}]

Registry == [Handles -> Binding]
Observations == [Handles -> Slot]

EmptyRegistry == [h \in Handles |-> NoBinding]
EmptyObservations == [h \in Handles |-> NoSlot]

Present(b) == b.status # "absent"
IsActive(b) == b.status \in {"ready", "busy"}
IsUnresolvedSpawn(b) == b.source = "spawned" /\ b.pane = NoPane

\* "starting": launched by a detached spawn, not yet listed by Zellij.
PaneState == {"unborn", "starting", "alive", "gone"}
AlivePanes == {p \in Panes : pane[p] = "alive"}

Life == {"fresh", "pending", "issued", "failed", "lost", "removed"}

----------------------------------------------------------------------------
(* Positions of the handlers, and the kind of step each begins with. *)

RefreshAt == {"first", "revalidate", "recheck", "confirm", "examine"}
OperateAt == {"interrupt", "idle", "poll", "capture", "deliver", "probe",
              "redeliver", "closing"}
ObserveAt == {"baseline", "boundary"}
VerifyAt  == {"verify", "verifyExit"}
ReadAt    == {"enter", "scan"}
EditAt    == {"persist", "settle", "leaveBusy", "markReady", "discard", "prune"}
WriteAt   == {"busy", "record", "seal"}
SlotEditAt == {"persistSlot", "discardSlot", "baselineSlot", "boundarySlot",
               "sealSlot", "pruneSlots", "reset"}
SlotWriteAt == {"recordSlot", "stamp"}

Positions ==
  UNION {RefreshAt, OperateAt, ObserveAt, VerifyAt, ReadAt, EditAt, WriteAt,
         SlotEditAt, SlotWriteAt, {"hold", "shellExit"}}

Ends == {"return", "fail"}

Entry(position) ==
  CASE position \in RefreshAt   -> "refresh"
    [] position \in OperateAt   -> "operate"
    [] position \in ObserveAt   -> "observe"
    [] position \in VerifyAt    -> "verify"
    [] position \in ReadAt      -> "read"
    [] position \in EditAt      -> "load"
    [] position \in WriteAt     -> "store"
    [] position \in SlotEditAt  -> "slotLoad"
    [] position \in SlotWriteAt -> "slotStore"
    [] position = "hold"        -> "slotRead"
    [] position = "shellExit"   -> "shellExit"

Labels == {"idle", "return", "fail", "refresh", "resolve", "reconcile", "reconcileList",
           "refreshStore", "operate", "observe", "verify", "read", "load",
           "store", "slotLoad", "slotStore", "slotRead", "shellExit",
           "markLoad", "markStore"}

----------------------------------------------------------------------------
(* The control flow of each handler: <<position, event, next position>>.   *)
(* Two rows that differ only in the third column are a choice the request  *)
(* or the environment makes.                                               *)

SpawnFlow == {
  <<"persist", "ok", "persistSlot">>,
  <<"persistSlot", "detached", "return">>,
  <<"persistSlot", "ok", "revalidate">>,
  <<"revalidate", "ok", "idle">>,          \* wait_ready
  <<"revalidate", "ok", "recheck">>,
  <<"revalidate", "error", "discard">>,
  <<"idle", "ok", "recheck">>,
  <<"idle", "timeout", "leaveBusy">>,
  <<"idle", "stale", "poll">>,
  <<"idle", "error", "discard">>,
  <<"poll", "ok", "recheck">>,
  <<"poll", "timeout", "leaveBusy">>,
  <<"poll", "stale", "discard">>,
  <<"poll", "error", "discard">>,
  <<"recheck", "ok", "capture">>,
  <<"recheck", "error", "discard">>,
  <<"capture", "ok", "baselineSlot">>,
  <<"capture", "error", "leaveBusy">>,     \* CAPTURE_FAILED
  <<"capture", "error", "discard">>,       \* any other code
  <<"capture", "stale", "discard">>,
  <<"baselineSlot", "ok", "markReady">>,
  <<"markReady", "ok", "confirm">>,
  <<"markReady", "absent", "fail">>,
  <<"confirm", "ok", "return">>,
  <<"confirm", "error", "fail">>,
  <<"leaveBusy", "ok", "return">>,
  <<"leaveBusy", "absent", "fail">>,
  <<"discard", "ok", "discardSlot">>,
  <<"discardSlot", "ok", "fail">> }

\* attach, and takeover once its location intent named one pane.
AttachFlow == {
  <<"persist", "ok", "persistSlot">>,
  <<"persistSlot", "ok", "baseline">>,
  <<"baseline", "ok", "baselineSlot">>,
  <<"baseline", "error", "return">>,       \* baseline_established = false
  <<"baselineSlot", "ok", "settle">>,
  <<"settle", "ok", "return">> }

\* Mutant: the registry is written only by the refresh.
CaptureFlowUnrecorded == {
  <<"revalidate", "ok", "enter">>,
  <<"enter", "ok", "capture">>,
  <<"capture", "ok", "hold">>,
  <<"hold", "ok", "recordSlot">>,
  <<"recordSlot", "ok", "return">> }

CaptureFlow == {
  <<"revalidate", "ok", "enter">>,
  <<"revalidate", "error", "fail">>,
  <<"enter", "absent", "fail">>,
  <<"enter", "closed", "fail">>,
  <<"enter", "inactive", "fail">>,
  <<"enter", "ok", "capture">>,
  <<"capture", "ok", "hold">>,
  <<"capture", "error", "fail">>,
  <<"capture", "stale", "fail">>,
  <<"hold", "ok", "record">>,
  <<"record", "ok", "recordSlot">>,
  <<"recordSlot", "ok", "return">> }

SendFlow == {
  <<"revalidate", "ok", "boundary">>,      \* a line for an attached pane
  <<"revalidate", "ok", "hold">>,
  <<"revalidate", "ok", "fail">>,          \* invalid input mode
  <<"revalidate", "error", "fail">>,
  <<"boundary", "ok", "boundarySlot">>,
  <<"boundary", "stale", "fail">>,
  <<"boundary", "error", "fail">>,
  <<"boundarySlot", "ok", "hold">>,
  <<"hold", "inactive", "fail">>,
  <<"hold", "ok", "deliver">>,
  <<"deliver", "ok", "stamp">>,
  <<"deliver", "ok", "probe">>,            \* fish: is the wrapper defined?
  <<"deliver", "error", "fail">>,
  <<"deliver", "stale", "fail">>,
  <<"probe", "ok", "redeliver">>,
  <<"probe", "ok", "stamp">>,
  <<"probe", "error", "stamp">>,
  <<"probe", "stale", "stamp">>,
  <<"redeliver", "ok", "stamp">>,
  <<"redeliver", "error", "fail">>,
  <<"redeliver", "stale", "fail">>,
  <<"stamp", "ok", "reset">>,
  <<"stamp", "ok", "return">>,
  <<"reset", "ok", "return">> }

\* replace: an optional Ctrl-C, then a send in submit_line mode.
ReplaceFlow == SendFlow \union {
  <<"first", "error", "fail">>,
  <<"first", "inactive", "fail">>,
  <<"first", "ok", "fail">>,               \* not a shell-like pane
  <<"first", "ok", "interrupt">>,
  <<"first", "ok", "revalidate">>,
  <<"interrupt", "ok", "revalidate">>,
  <<"interrupt", "error", "fail">>,
  <<"interrupt", "stale", "fail">> }

WaitFlow == {
  <<"revalidate", "ok", "enter">>,
  <<"revalidate", "error", "fail">>,
  <<"enter", "absent", "fail">>,
  <<"enter", "closed", "fail">>,
  <<"enter", "inactive", "fail">>,
  <<"enter", "ok", "busy">>,
  <<"busy", "ok", "idle">>,
  <<"idle", "ok", "settle">>,
  <<"idle", "timeout", "leaveBusy">>,
  <<"idle", "stale", "poll">>,
  <<"idle", "error", "fail">>,
  <<"poll", "ok", "settle">>,
  <<"poll", "timeout", "leaveBusy">>,
  <<"poll", "stale", "fail">>,
  <<"poll", "error", "fail">>,
  <<"leaveBusy", "ok", "fail">>,
  <<"settle", "ok", "capture">>,
  <<"capture", "ok", "baselineSlot">>,
  <<"capture", "error", "fail">>,
  <<"capture", "stale", "fail">>,
  <<"baselineSlot", "ok", "return">> }

\* Mutant: close believes the adapter.
CloseFlowUnverified == {
  <<"revalidate", "ok", "enter">>,
  <<"revalidate", "error", "fail">>,
  <<"enter", "closed", "return">>,
  <<"enter", "ok", "closing">>,
  <<"closing", "ok", "seal">>,
  <<"closing", "error", "fail">>,
  <<"seal", "ok", "sealSlot">>,
  <<"sealSlot", "ok", "return">> }

CloseFlow == {
  <<"revalidate", "ok", "enter">>,
  <<"revalidate", "error", "fail">>,
  <<"enter", "absent", "fail">>,
  <<"enter", "closed", "return">>,         \* already closed
  <<"enter", "inactive", "fail">>,
  <<"enter", "ok", "closing">>,
  <<"closing", "ok", "verify">>,
  <<"closing", "error", "fail">>,
  <<"closing", "error", "shellExit">>,     \* force, remote, shell-like
  <<"closing", "stale", "fail">>,
  <<"closing", "stale", "shellExit">>,
  <<"verify", "none", "seal">>,
  <<"verify", "present", "fail">>,
  <<"verify", "present", "shellExit">>,
  <<"verify", "error", "fail">>,
  <<"verify", "error", "shellExit">>,
  <<"shellExit", "ok", "verifyExit">>,
  <<"shellExit", "error", "fail">>,
  <<"verifyExit", "none", "seal">>,
  <<"verifyExit", "present", "fail">>,
  <<"verifyExit", "error", "fail">>,
  <<"seal", "ok", "sealSlot">>,
  <<"sealSlot", "ok", "return">> }

\* list, and revalidate_all at the start of the daemon.
ListFlow == {
  <<"scan", "ok", "examine">>,
  <<"scan", "ok", "return">>,
  <<"scan", "none", "return">>,            \* local, zellij not on the PATH
  <<"examine", "ok", "examine">>,
  <<"examine", "ok", "return">>,
  <<"examine", "error", "fail">> }

CleanupFlow == {
  <<"prune", "none", "return">>,           \* nothing matches, or dry_run
  <<"prune", "ok", "pruneSlots">>,
  <<"pruneSlots", "ok", "return">> }

Flow(tool) ==
  CASE tool = "spawn"   -> SpawnFlow
    [] tool = "attach"  -> AttachFlow
    [] tool = "capture" -> CaptureFlow
    [] tool = "send"    -> SendFlow
    [] tool = "replace" -> ReplaceFlow
    [] tool = "wait"    -> WaitFlow
    [] tool = "close"   -> CloseFlow
    [] tool = "cleanup" -> CleanupFlow
    [] OTHER            -> ListFlow

Listing == {"list", "startup"}

\* The choices of a table that the data decides.
Permitted(c, next) ==
  /\ next = "boundary" => c.own.source = "attached"
  /\ next = "shellExit" => Remote
  /\ (next = "return" /\ c.tool \in Listing) => c.todo = {}

----------------------------------------------------------------------------
(* A call in progress: where it is, the handle it serves, the binding its  *)
(* handler works on (own) and the one the retry loop has refreshed it to   *)
(* (cur), and its copies of the files: the handler's (snap, slots) and     *)
(* the one of refresh_binding_target or mark_binding_stale running inside  *)
(* it (inner).                                                             *)

Call == [pc       : Labels,
         tool     : AllTools \union {"none"},
         at       : Positions \union {"none"},
         h        : Handles \union {NoHandle},
         tries    : 0 .. 2,            \* the retry loop's attempt
         own      : Binding,
         cur      : Binding,
         snap     : Registry,
         inner    : Registry,
         slots    : Observations,
         todo     : SUBSET Handles,    \* list: to examine; cleanup: to remove
         before   : SUBSET Panes,      \* spawn hints
         gone     : SUBSET Panes]      \* history: panes a list must find dead

Idle == [pc |-> "idle", tool |-> "none", at |-> "none", h |-> NoHandle,
         tries |-> 0, own |-> NoBinding, cur |-> NoBinding, snap |-> EmptyRegistry,
         inner |-> EmptyRegistry, slots |-> EmptyObservations, todo |-> {}, before |-> {}, gone |-> {}]

Local(w, c) == call' = [call EXCEPT ![w] = c]

\* The response, "return" or "fail".
Finish(c, end) ==
  [Idle EXCEPT !.pc = end, !.tool = c.tool, !.h = c.h, !.own = c.own, !.gone = c.gone]

Arrive(c, next) ==
  [c EXCEPT !.at = next, !.pc = Entry(next), !.tries = 0,
            !.cur = IF next \in OperateAt THEN c.own ELSE NoBinding]

\* A list turns to its next handle.
Examine(c, k) == [Arrive(c, "examine") EXCEPT !.h = k, !.todo = @ \ {k}]

\* The calls that c may become when its current position ends with event.
After(c, event) ==
  UNION {
    IF next \in Ends THEN {Finish(c, next)}
    ELSE IF next = "examine" THEN {Examine(c, k) : k \in c.todo}
    ELSE {Arrive(c, next)} :
      next \in {n \in Positions \union Ends :
                  <<c.at, event, n>> \in Flow(c.tool) /\ Permitted(c, n)}}

Advance(w, c, event) == \E d \in After(c, event) : Local(w, d)

----------------------------------------------------------------------------
(* refresh_binding_target: read the registry, find the pane again, write   *)
(* the whole copy back.                                                    *)

\* Mutants: an attempt is not counted; one attempt too many.
RetryUncounted(c) == [c EXCEPT !.pc = "operate"]

RetryOnceMore(c) ==
  IF c.tries < 3
    THEN [c EXCEPT !.tries = @ + 1, !.pc = "operate"]
    ELSE [c EXCEPT !.pc = "markLoad"]

\* A call refreshes at a position of its own or, at an operation, from inside
\* the retry loop.
Retrying(c) == c.at \in OperateAt

\* From inside the loop the refreshed binding replaces `current`; the third
\* miss marks the binding stale instead of trying again.
RetryWith(c) ==
  IF c.tries < 2
    THEN [c EXCEPT !.tries = @ + 1, !.pc = "operate"]
    ELSE [c EXCEPT !.pc = "markLoad"]

\* refresh_binding_target returns Ok(b).
Refreshed(w, c, b) ==
  LET d == [c EXCEPT !.inner = EmptyRegistry, !.before = {}]
  IN IF Retrying(c)
       THEN IF IsActive(b)
              THEN Local(w, RetryWith([d EXCEPT !.cur = b]))
              ELSE Advance(w, d, "stale")
       ELSE Advance(w, [d EXCEPT !.own = b],
                    IF c.at = "first" /\ ~IsActive(b) THEN "inactive" ELSE "ok")

\* Mutant: a list ignores every error.
IgnoresAllErrors(c) == c.tool \in Listing

\* revalidate_all ignores the errors of a remote spawn not yet resolved.
IgnoresErrors(c) ==
  c.tool \in Listing /\ Remote /\ IsUnresolvedSpawn(c.snap[c.h])

\* refresh_binding_target returns Err: a transport timeout has the code of an
\* expired wait, every other error its own.
RefreshFailed(w, c) ==
  LET d == [c EXCEPT !.inner = EmptyRegistry, !.before = {}]
  IN \/ Advance(w, d, IF IgnoresErrors(c) THEN "ok" ELSE "error")
     \/ c.at \in {"idle", "poll"} /\ Advance(w, d, "timeout")

Refresh(w) ==
  LET c == call[w]
      b == registry[c.h]
  IN /\ c.pc = "refresh"
     /\ \/ ~Present(b) /\ RefreshFailed(w, c)
        \/ b.status = "closed" /\ Refreshed(w, c, b)
        \/ /\ Present(b) /\ b.status # "closed"
           /\ IF IsUnresolvedSpawn(b)
                THEN Local(w, [c EXCEPT !.pc = "reconcile"])
                ELSE Local(w, [c EXCEPT !.pc = "resolve", !.inner = registry])
     /\ UNCHANGED <<registry, observations, pane, life>>

\* Mutant: the pane is looked for by title first.
ResolveByTitle(w) ==
  LET c == call[w]
  IN /\ c.pc = "resolve"
     /\ \E p \in AlivePanes :
          Local(w, [c EXCEPT !.pc = "refreshStore",
                             !.inner = [@ EXCEPT ![c.h].pane = p, ![c.h].status = "ready"]])
     /\ UNCHANGED <<registry, observations, pane, life>>

\* Up to three rounds of resolve_selector by `id:<pane_id>`.  A live pane may
\* be missed three times: the plugin's pane list lags behind the session.
Resolve(w) ==
  LET c == call[w]
      Found(status) == [c EXCEPT !.pc = "refreshStore",
                                 !.inner = [@ EXCEPT ![c.h].status = status]]
  IN /\ c.pc = "resolve"
     /\ \/ c.inner[c.h].pane \in AlivePanes /\ Local(w, Found("ready"))
        \/ Local(w, Found("stale"))
        \/ RefreshFailed(w, c)
     /\ UNCHANGED <<registry, observations, pane, life>>

\* Mutant: only the refreshed binding is written back.
RefreshStoreAlone(w) ==
  LET c == call[w]
  IN /\ c.pc = "refreshStore"
     /\ registry' = [EmptyRegistry EXCEPT ![c.h] = c.inner[c.h]]
     /\ Refreshed(w, c, c.inner[c.h])
     /\ UNCHANGED <<observations, pane, life>>

RefreshStore(w) ==
  LET c == call[w]
  IN /\ c.pc = "refreshStore"
     /\ registry' = c.inner
     /\ Refreshed(w, c, c.inner[c.h])
     /\ UNCHANGED <<observations, pane, life>>

\* reconcile_spawn_binding: one round of its 500 ms loop; rounds that find no
\* candidate change nothing.  A missing observation counts as an empty one.
Reconcile(w) ==
  LET c == call[w]
      b == registry[c.h]
  IN /\ c.pc = "reconcile"
     /\ CASE ~Present(b)       -> RefreshFailed(w, c)
          [] b.pane # NoPane   -> Refreshed(w, c, b)
          [] OTHER -> Local(w, [c EXCEPT !.pc = "reconcileList", !.inner = registry,
                                         !.before = observations[c.h].before])
     /\ UNCHANGED <<registry, observations, pane, life>>

\* resolve_spawn_candidate: a terminal pane that was not there before the
\* spawn, picked by tab, title, command or because it is the only one.
ReconcileList(w) ==
  LET c == call[w]
      Bound(p) == [c EXCEPT !.pc = "refreshStore",
                            !.inner = [@ EXCEPT ![c.h].pane = p, ![c.h].status = "ready"]]
  IN /\ c.pc = "reconcileList"
     /\ \/ \E p \in AlivePanes \ c.before : Local(w, Bound(p))
        \/ Refreshed(w, c, c.inner[c.h])      \* budget spent: still unresolved
        \/ RefreshFailed(w, c)
     /\ UNCHANGED <<registry, observations, pane, life>>

----------------------------------------------------------------------------
(* Adapter operations. *)

\* The panes the selector of b can name: its own pane, or, while b has only
\* the provisional selector of a detached spawn, any pane that matches it.
Reach(b) == {p \in AlivePanes : b.pane \in {p, NoPane}}

\* run_binding_operation_with_retry.  Only close changes a pane, and a close
\* the backend accepts may still leave it open.
Operate(w) ==
  LET c == call[w]
  IN /\ c.pc = "operate"
     /\ \/ \E p \in Reach(c.cur) :
             /\ Advance(w, c, "ok")
             /\ \/ UNCHANGED pane
                \/ c.at = "closing" /\ pane' = [pane EXCEPT ![p] = "gone"]
        \/ /\ Local(w, [c EXCEPT !.pc = "refresh"])  \* no pane matched
           /\ UNCHANGED pane
        \/ /\ Advance(w, c, "error")
           /\ UNCHANGED pane
        \/ /\ c.at \in {"idle", "poll"}
           /\ Advance(w, c, "timeout")
           /\ UNCHANGED pane
     /\ UNCHANGED <<registry, observations, life>>

\* The captures made outside the retry loop: attach's baseline gives up on any
\* error; send's boundary marks the binding stale when no pane matches.
Observe(w) ==
  LET c == call[w]
  IN /\ c.pc = "observe"
     /\ \/ Reach(c.own) # {} /\ Advance(w, c, "ok")
        \/ c.at = "boundary" /\ Local(w, [c EXCEPT !.pc = "markLoad"])
        \/ Advance(w, c, "error")
     /\ UNCHANGED <<registry, observations, pane, life>>

\* mark_binding_stale: a read and a write of its own.
MarkStaleLoad(w) ==
  /\ call[w].pc = "markLoad"
  /\ Local(w, [call[w] EXCEPT !.pc = "markStore", !.inner = registry])
  /\ UNCHANGED <<registry, observations, pane, life>>

MarkStaleStore(w) ==
  LET c == call[w]
  IN /\ c.pc = "markStore"
     /\ registry' = IF Present(c.inner[c.h])
                      THEN [c.inner EXCEPT ![c.h].status = "stale"]
                      ELSE registry
     /\ Advance(w, [c EXCEPT !.inner = EmptyRegistry], "stale")
     /\ UNCHANGED <<observations, pane, life>>

\* Mutant: the absence is not looked for.
VerifyNothing(w) ==
  /\ call[w].pc = "verify"
  /\ Advance(w, call[w], "none")
  /\ UNCHANGED <<registry, observations, pane, life>>

\* verify_binding_closed: is the pane of the handler's binding still listed?
\* (A provisional selector need not match what is listed.)
Verify(w) ==
  LET c == call[w]
  IN /\ c.pc = "verify"
     /\ \/ c.own.pane \notin AlivePanes /\ Advance(w, c, "none")
        \/ Reach(c.own) # {} /\ Advance(w, c, "present")
        \/ Advance(w, c, "error")
     /\ UNCHANGED <<registry, observations, pane, life>>

\* attempt_shell_exit_close types `exit` into the pane.
ShellExit(w) ==
  LET c == call[w]
  IN /\ c.pc = "shellExit"
     /\ \/ \E p \in Reach(c.own) :
             /\ Advance(w, c, "ok")
             /\ pane' \in {pane, [pane EXCEPT ![p] = "gone"]}
        \/ Advance(w, c, "error") /\ UNCHANGED pane
     /\ UNCHANGED <<registry, observations, life>>

----------------------------------------------------------------------------
(* File steps of a handler. *)

\* The registry a handler writes: its copy with one entry edited, or with the
\* entries a cleanup removes taken out.
EditRegistry(c) ==
  CASE c.at = "persist" -> [c.snap EXCEPT ![c.h] = c.own]
    [] c.at = "discard" -> [c.snap EXCEPT ![c.h] = NoBinding]
    [] c.at = "prune"   ->
         [k \in Handles |-> IF k \in c.todo THEN NoBinding ELSE c.snap[k]]
    [] c.at = "seal"    -> [c.snap EXCEPT ![c.h].status = "closed"]
    [] c.at = "busy"    -> [c.snap EXCEPT ![c.h].status = "busy"]
    [] c.at = "record"  ->
         IF c.snap[c.h].source = "spawned" /\ c.snap[c.h].status = "busy"
           THEN [c.snap EXCEPT ![c.h].status = "ready"] ELSE c.snap
    [] c.at \in {"settle", "markReady"} ->
         IF Present(c.snap[c.h]) THEN [c.snap EXCEPT ![c.h].status = "ready"] ELSE c.snap
    [] c.at = "leaveBusy" ->
         IF Present(c.snap[c.h]) THEN [c.snap EXCEPT ![c.h].status = "busy"] ELSE c.snap

\* update_spawn_status fails on a handle that is gone, before it writes.
SpawnEntryGone(c) ==
  c.tool = "spawn" /\ c.at \in {"leaveBusy", "markReady"} /\ ~Present(c.snap[c.h])

\* The entries a cleanup request removes: those in a wanted status and old
\* enough (updated_at is not modelled, so any of them may be).
Removable(statuses) ==
  SUBSET {k \in Handles : Present(registry[k]) /\ registry[k].status \in statuses}

CleanupStatuses == {{"stale", "closed"}, {"ready", "busy", "stale", "closed"}}

\* Mutant: a registry that cannot be read counts as empty.
LoadOrEmpty(w) ==
  LET c == call[w]
  IN /\ c.pc = "load"
     /\ c.tool # "cleanup"
     /\ \E snap \in {registry, EmptyRegistry} :
          Local(w, [c EXCEPT !.pc = "store", !.snap = snap])
     /\ UNCHANGED <<registry, observations, pane, life>>

Load(w) ==
  LET c == call[w]
  IN /\ c.pc = "load"
     /\ IF c.tool = "cleanup"
          THEN \E statuses \in CleanupStatuses : \E old \in Removable(statuses) :
                 IF old = {} THEN Advance(w, c, "none")
                 ELSE Local(w, [c EXCEPT !.pc = "store", !.snap = registry, !.todo = old])
          ELSE Local(w, [c EXCEPT !.pc = "store", !.snap = registry])
     /\ UNCHANGED <<registry, observations, pane, life>>

\* The rows of capture and close reach their store with the copy they read
\* before the adapter calls; all others have just read theirs (Load).
Store(w) ==
  LET c == call[w]
      d == [c EXCEPT !.snap = EmptyRegistry]
  IN /\ c.pc = "store"
     /\ IF SpawnEntryGone(c)
          THEN UNCHANGED registry /\ Advance(w, d, "absent")
          ELSE registry' = EditRegistry(c) /\ Advance(w, d, "ok")
     /\ life' = IF c.at = "prune"
                  THEN [k \in Handles |-> IF k \in c.todo THEN "removed" ELSE life[k]]
                  ELSE life
     /\ UNCHANGED <<observations, pane>>

\* Mutant: a stale handle counts as closed.
ReadStaleAsClosed(w) ==
  LET c == call[w]
  IN /\ c.pc = "read"
     /\ c.at = "enter"
     /\ Advance(w, [c EXCEPT !.snap = registry], IF IsActive(c.own) THEN "ok" ELSE "closed")
     /\ UNCHANGED <<registry, observations, pane, life>>

\* The read of capture, wait and close after their refresh, which copies the
\* refreshed binding over the handle's entry (sync_binding_from_active), and
\* the first read of list.
Read(w) ==
  LET c == call[w]
      synced == [registry EXCEPT ![c.h].status = c.own.status, ![c.h].pane = c.own.pane]
  IN /\ c.pc = "read"
     /\ CASE c.at = "scan" ->
               \/ Advance(w, [c EXCEPT !.snap = registry,
                                       !.todo = {k \in Handles : Present(registry[k])}], "ok")
               \/ ~Remote /\ Advance(w, [c EXCEPT !.gone = {}], "none")
          [] c.at = "enter" /\ ~Present(registry[c.h]) -> Advance(w, c, "absent")
          [] c.at = "enter" /\ Present(registry[c.h]) ->
               Advance(w, [c EXCEPT !.snap = synced, !.own = synced[c.h]],
                       CASE IsActive(c.own)           -> "ok"
                         [] c.own.status = "closed"   -> "closed"
                         [] OTHER                     -> "inactive")
     /\ UNCHANGED <<registry, observations, pane, life>>

\* Mutant: no slot is ever taken out.
EditSlotsKeeping(c) ==
  IF c.h \in Handles
    THEN [c.slots EXCEPT ![c.h] = [kept |-> "yes", before |-> {}]]
    ELSE c.slots

\* The observations a handler writes: its copy with its own slot filled or
\* taken out.
EditSlots(c) ==
  CASE c.at = "persistSlot" ->
         [c.slots EXCEPT ![c.h] = [kept |-> "yes", before |-> c.before]]
    [] c.at \in {"discardSlot", "sealSlot"} -> [c.slots EXCEPT ![c.h] = NoSlot]
    [] c.at = "pruneSlots" ->
         [k \in Handles |-> IF k \in c.todo THEN NoSlot ELSE c.slots[k]]
    [] OTHER -> [c.slots EXCEPT ![c.h].kept = "yes"]

SlotLoad(w) ==
  /\ call[w].pc = "slotLoad"
  /\ Local(w, [call[w] EXCEPT !.pc = "slotStore", !.slots = observations])
  /\ UNCHANGED <<registry, observations, pane, life>>

\* capture and send hold their copy of the observations across later steps.
SlotRead(w) ==
  LET c == call[w]
  IN /\ c.pc = "slotRead"
     /\ Advance(w, [c EXCEPT !.slots = observations],
                IF c.tool # "capture" /\ ~IsActive(c.own) THEN "inactive" ELSE "ok")
     /\ UNCHANGED <<registry, observations, pane, life>>

SlotStore(w) ==
  LET c == call[w]
      d == [c EXCEPT !.slots = EmptyObservations, !.before = {}]
  IN /\ c.pc = "slotStore"
     /\ observations' = EditSlots(c)
     /\ Advance(w, d, IF c.tool = "spawn" /\ c.at = "persistSlot" /\ c.own.pane = NoPane
                        THEN "detached" ELSE "ok")
     /\ UNCHANGED <<registry, pane, life>>

----------------------------------------------------------------------------
(* Calls begin and return. *)

Starting(tool, h) == [Idle EXCEPT !.tool = tool, !.h = h]

\* The daemon serves requests once its startup revalidation is over.
CanBegin(w, tool) ==
  /\ tool \in Tools
  /\ call[w].pc = "idle"
  /\ \A v \in Workers : call[v].tool # "startup"

\* spawn up to the return of launch_spawn: the pane list before the launch
\* (empty if a remote list fails; a local spawn never uses it), then a new pane,
\* one already in the tab, or a detached launch whose pane appears later.
BeginSpawn(w) ==
  /\ CanBegin(w, "spawn")
  /\ \E h \in Handles, p \in Panes, before \in {IF Remote THEN AlivePanes ELSE {}, {}} :
       LET Launch(pid) == Local(w, [Arrive(Starting("spawn", h), "persist") EXCEPT
             !.own = [source |-> "spawned", status |-> "busy", pane |-> pid],
             !.before = before])
       IN /\ life[h] = "fresh"
          /\ \/ pane[p] = "alive" /\ Launch(p) /\ UNCHANGED pane
             \/ /\ pane[p] = "unborn" /\ Launch(p)
                /\ pane' = [pane EXCEPT ![p] = "alive"]
             \/ /\ Remote /\ pane[p] = "unborn" /\ Launch(NoPane)
                /\ pane' = [pane EXCEPT ![p] = "starting"]
          /\ life' = [life EXCEPT ![h] = "pending"]
  /\ UNCHANGED <<registry, observations>>

BeginAttach(w) ==
  /\ CanBegin(w, "attach")
  /\ \E h \in Handles, p \in AlivePanes :
       /\ life[h] = "fresh"
       /\ Local(w, [Arrive(Starting("attach", h), "persist") EXCEPT
            !.own = [source |-> "attached", status |-> "busy", pane |-> p]])
       /\ life' = [life EXCEPT ![h] = "pending"]
  /\ UNCHANGED <<registry, observations, pane>>

FirstPosition(tool) == IF tool = "replace" THEN "first" ELSE "revalidate"

BeginOnHandle(w) ==
  /\ \E tool \in {"capture", "send", "replace", "wait", "close"}, h \in Handles :
       /\ CanBegin(w, tool)
       /\ Present(registry[h])
       /\ Local(w, Arrive(Starting(tool, h), FirstPosition(tool)))
  /\ UNCHANGED <<registry, observations, pane, life>>

ListCall(tool) ==
  [Arrive(Starting(tool, NoHandle), "scan") EXCEPT
     !.gone = {p \in Panes : pane[p] = "gone"}]

BeginList(w) ==
  /\ CanBegin(w, "list")
  /\ Local(w, ListCall("list"))
  /\ UNCHANGED <<registry, observations, pane, life>>

BeginCleanup(w) ==
  /\ CanBegin(w, "cleanup")
  /\ Local(w, Arrive(Starting("cleanup", NoHandle), "prune"))
  /\ UNCHANGED <<registry, observations, pane, life>>

\* The response leaves: a spawn or attach tells its caller of the handle, or
\* that there is none.
Return(w) ==
  LET c == call[w]
  IN /\ c.pc \in Ends
     /\ Local(w, Idle)
     /\ life' = IF c.tool \in {"spawn", "attach"} /\ life[c.h] = "pending"
                  THEN [life EXCEPT ![c.h] = IF c.pc = "return" THEN "issued" ELSE "failed"]
                  ELSE life
     /\ UNCHANGED <<registry, observations, pane>>

----------------------------------------------------------------------------
(* The session and the process. *)

\* The pane of a detached launch shows up in the session.
PaneAppears ==
  /\ \E p \in Panes : pane[p] = "starting" /\ pane' = [pane EXCEPT ![p] = "alive"]
  /\ UNCHANGED <<registry, observations, call, life>>

\* The user opens and closes panes too; Zellij does not use an id twice.
UserOpens ==
  /\ \E p \in Panes : pane[p] = "unborn" /\ pane' = [pane EXCEPT ![p] = "alive"]
  /\ UNCHANGED <<registry, observations, call, life>>

UserCloses ==
  /\ \E p \in AlivePanes : pane' = [pane EXCEPT ![p] = "gone"]
  /\ UNCHANGED <<registry, observations, call, life>>

\* The daemon dies between two steps and is started again.  The local daemon
\* revalidates every binding before it serves (main); a spawn or attach under
\* way never answers.
Restart ==
  /\ Crashes
  /\ \E w \in Workers :
       call' = [v \in Workers |->
                  IF v = w /\ ~Remote THEN ListCall("startup") ELSE Idle]
  /\ life' = [h \in Handles |-> IF life[h] = "pending" THEN "lost" ELSE life[h]]
  /\ UNCHANGED <<registry, observations, pane>>

Init ==
  /\ registry = EmptyRegistry
  /\ observations = EmptyObservations
  /\ pane = [p \in Panes |-> "unborn"]
  /\ call = [w \in Workers |-> Idle]
  /\ life = [h \in Handles |-> "fresh"]

\* A step of a call in progress.
Step(w) ==
  \/ Refresh(w) \/ Resolve(w) \/ RefreshStore(w) \/ Reconcile(w) \/ ReconcileList(w)
  \/ Operate(w) \/ Observe(w) \/ MarkStaleLoad(w) \/ MarkStaleStore(w)
  \/ Verify(w) \/ ShellExit(w)
  \/ Load(w) \/ Store(w) \/ Read(w) \/ SlotLoad(w) \/ SlotRead(w) \/ SlotStore(w)
  \/ Return(w)

Begin(w) ==
  \/ BeginSpawn(w) \/ BeginAttach(w) \/ BeginOnHandle(w)
  \/ BeginList(w) \/ BeginCleanup(w)

Environment == PaneAppears \/ UserOpens \/ UserCloses \/ Restart

Next == (\E w \in Workers : Begin(w) \/ Step(w)) \/ Environment

Spec == Init /\ [][Next]_vars

\* The runtime runs every call it has begun: each adapter call and each file
\* access returns.  The time-outs of the ssh adapter see to that; the local
\* adapter has none, so that this is an assumption about its commands.
Fairness == \A w \in Workers : WF_vars(Step(w))

FairSpec == Spec /\ Fairness

----------------------------------------------------------------------------
(* Properties. *)

TypeOK ==
  /\ registry \in Registry
  /\ observations \in Observations
  /\ pane \in [Panes -> PaneState]
  /\ call \in [Workers -> Call]
  /\ life \in [Handles -> Life]

\* A binding says "closed" only of a pane that Zellij no longer has: close
\* verifies the absence before it writes (verify_binding_closed), and every
\* stale copy written later says so of a pane that stays gone.
ClosedPaneIsGone ==
  \A h \in Handles :
    registry[h].status = "closed" /\ registry[h].pane # NoPane =>
      pane[registry[h].pane] = "gone"

\* A handle given to a caller stays in the registry until a cleanup removes
\* it: no whole-file write loses an entry written since the copy was read.
NoHandleLost == \A h \in Handles : life[h] = "issued" => Present(registry[h])

\* A binding, once it names a pane, keeps it as long as it exists: no stale
\* copy unbinds it or moves it to another pane.
BindingKeepsPane ==
  [][\A h \in Handles :
       registry[h].pane # NoPane /\ Present(registry'[h]) =>
         registry'[h].pane = registry[h].pane]_registry

\* close removes the observation of the handle it closed: between calls, no
\* closed or absent handle keeps one.
NoSlotAfterClose ==
  (\A w \in Workers : call[w].pc = "idle") =>
    \A h \in Handles :
      observations[h].kept = "yes" => Present(registry[h]) /\ registry[h].status # "closed"

\* A spawn that fails leaves no binding behind.
NoOrphanedSpawn == \A h \in Handles : life[h] = "failed" => ~Present(registry[h])

\* A closed binding stays closed until it is removed.
ClosedStaysClosed ==
  [][\A h \in Handles :
       registry[h].status = "closed" => registry'[h].status \in {"closed", "absent"}]_registry

\* A list that succeeds, with zellij there to be asked, reports as stale or
\* closed every handle whose pane was gone when it began.
ListTellsDeadPanes ==
  \A w \in Workers :
    call[w].pc = "return" /\ call[w].tool \in Listing =>
      \A h \in Handles :
        Present(registry[h]) /\ registry[h].pane \in call[w].gone => ~IsActive(registry[h])

\* A close answers "closed" only of a pane that is gone, whatever other calls
\* did meanwhile: the call that closes verifies it, and one that finds the
\* handle closed relies on the call that wrote so.
CloseAnswersTruly ==
  \A w \in Workers :
    LET c == call[w]
    IN c.pc = "return" /\ c.tool = "close" /\ c.own.pane # NoPane =>
         pane[c.own.pane] = "gone"

\* The answer of a call is what the registry says when it leaves: close has
\* closed the handle, capture and wait leave it ready, a spawn or attach that
\* succeeds leaves an entry that is not closed.
AnswerMatchesRegistry ==
  \A w \in Workers :
    LET c == call[w]
        b == registry[c.h]
    IN c.pc = "return" =>
         /\ c.tool = "close" => b.status = "closed"
         /\ c.tool \in {"capture", "wait"} => b.status = "ready"
         /\ c.tool \in {"spawn", "attach"} => b.status \in {"busy", "ready", "stale"}

\* One call at a time, the service keeps the promise of HandleLifecycle: every
\* step edits the entry of one handle as that specification allows, or removes
\* entries.
Lifecycle ==
  INSTANCE HandleLifecycle WITH
    entry <- [h \in Handles |-> [status |-> registry[h].status, pane |-> registry[h].pane]],
    spent <- {h \in Handles : life[h] \notin {"fresh", "pending"}},
    dead  <- {p \in Panes : pane[p] = "gone"}

LifecycleKept == Lifecycle!LifecycleSpec

\* Every call ends: retries and verification are bounded.
EveryCallReturns ==
  \A w \in Workers : call[w].pc # "idle" ~> call[w].pc = "idle"

====
