--------------------------- MODULE TargetRouter ---------------------------
(***************************************************************************)
(* How a call finds the backend of its target and whether that backend may *)
(* be used: TargetRouter (services/router.rs), the targets of main.rs, and *)
(* the readiness check and remediation of an SSH host                      *)
(* (adapters/zjctl/client.rs).                                             *)
(*                                                                         *)
(* A backend is made when its target is first named, outside the router's  *)
(* lock, and kept for the life of the daemon; making it probes the host    *)
(* and freezes what the probe found.  Before a backend is used the service *)
(* checks it, and may repair the host: start a client for the session,     *)
(* load the plugin, and check once more.  Both remedies are commands that   *)
(* return before they take effect, and nothing waits for them.  A step is   *)
(* one lock or one probe, so other calls and the host's own changes come    *)
(* between.                                                                *)
(*                                                                         *)
(* The hosts are external: what is installed on them, whether they answer, *)
(* and the state of the plugin and of its client.                          *)
(***************************************************************************)
EXTENDS Naturals, FiniteSets

CONSTANTS
  Callers,     \* bound on the calls: each makes one, all at the same time
  Aliases,     \* SSH aliases callers may use
  NoAlias,     \* the alias of the local target
  Overrides,   \* ZELLIJ_MCP_TARGETS: alias -> [host, bin], each maybe Unset
  Unset,       \* no value
  DefaultBin,  \* the default binary: "bare", or the place it is in
  LocalMachine,\* the daemon's own host
  BoundTo,     \* handle -> target id, the persisted bindings that are not closed
  Provisional, \* the handles among them that remote spawns left without a pane
  Requests,    \* [by, name, handle, op], see Arrive
  HostStates,  \* the states a host may be in, see Hosts
  MaxChanges   \* bound on the changes the hosts make by themselves

VARIABLES
  host,      \* machine -> its state
  changes,   \* changes of the hosts so far, for MaxChanges
  backends,  \* TargetRouter.backends: target id -> backend
  call       \* caller -> the call it makes

routerVars == <<host, changes, backends, call>>

Local == [kind |-> "local", alias |-> NoAlias]
Ssh(a) == [kind |-> "ssh", alias |-> a]
Targets == {Local} \union {Ssh(a) : a \in Aliases}

(***************************************************************************)
(* The configuration of an alias: the defaults, whose host is the alias     *)
(* itself, and over them the values its override sets.                     *)
(***************************************************************************)
ForAlias(a) == [host |-> a, bin |-> DefaultBin]

MergeWithDefaults(a, o) ==
  [host |-> IF o.host = Unset THEN ForAlias(a).host ELSE o.host,
   bin |-> IF o.bin = Unset THEN ForAlias(a).bin ELSE o.bin]

ConfigOf(a) == IF a \in DOMAIN Overrides THEN MergeWithDefaults(a, Overrides[a]) ELSE ForAlias(a)

ASSUME AliasesOfMachines ==
  /\ NoAlias \notin Aliases
  /\ LocalMachine \notin {ConfigOf(a).host : a \in Aliases}
  /\ \A h \in DOMAIN BoundTo : BoundTo[h] \in Targets

Machine(t) == IF t = Local THEN LocalMachine ELSE ConfigOf(t.alias).host
Machines == {Machine(t) : t \in Targets}

ASSUME RemoteSpawnsAreProvisional ==
  \A h \in Provisional : h \in DOMAIN BoundTo /\ BoundTo[h] # Local

ASSUME ChangesAreBounded == MaxChanges \in Nat

ASSUME NamesAreAliases ==
  \A r \in Requests :
    r.by = "name" => r.name.form \in {"blank", "local"} \/ r.name.alias \in Aliases

(* A host: `up` it answers, `zellij` where its binary is, `tmux` it has     *)
(* one, `helper` whether a client is attached to the session or started to  *)
(* be, `plugin` what zrpc does: not installed, waits for the user's         *)
(* permission, not loaded, being loaded, of another protocol version, or    *)
(* running.                                                                *)
Places == {"path", "local_bin", "none"}
Hosts == [up : BOOLEAN, zellij : Places, tmux : BOOLEAN, helper : {"none", "coming", "attached"},
          plugin : {"absent", "asks", "stopped", "loading", "skewed", "running"}]

\* What a remedy started is still on its way.
OnItsWay(h) == h.helper = "coming" \/ h.plugin = "loading"

ASSUME StatesAreHosts == HostStates \subseteq Hosts

NotYet == [at |-> "none"]
Nothing == [by |-> NoAlias]      \* no backend
Touched == [by |-> "others"]     \* not the host it was

(* `unresolved` the binding the call has read names no pane yet, `first`    *)
(* the verdict of the check, `helped` the remedies whose command worked,    *)
(* `code` the answer.  For the properties only: `before` the host when the  *)
(* call arrived, until anyone but this call touches it, and `early` what a  *)
(* remedy started was still on its way at the retry.                       *)
Started(r, t, unresolved) ==
  [at |-> "lookup", op |-> r.op, target |-> t, unresolved |-> unresolved, backend |-> Nothing,
   first |-> "none", helped |-> {}, early |-> FALSE,
   before |-> host[Machine(t)], code |-> "none"]

Goes(w, c) == call' = [call EXCEPT ![w] = c]
At(w, stage) == Goes(w, [call[w] EXCEPT !.at = stage])
Ends(w, code) == Goes(w, [call[w] EXCEPT !.at = "done", !.code = code])

HostOf(w) == host[Machine(call[w].target)]

---------------------------------------------------------------------------
(***************************************************************************)
(* The router.                                                             *)
(***************************************************************************)

(* resolve_target_id: nothing or "local", `ssh:<alias>`, or the alias.     *)
ResolveTargetId(name) == IF name.form \in {"blank", "local"} THEN Local ELSE Ssh(name.alias)

(* A call names its target or a handle, whose binding names it.  Another    *)
(* call may have found the pane of a provisional handle before.            *)
Arrive(w, r) ==
  /\ call[w] = NotYet
  /\ IF r.by = "name" THEN Goes(w, Started(r, ResolveTargetId(r.name), FALSE))
     ELSE IF r.handle \in DOMAIN BoundTo
     THEN \E u \in BOOLEAN :
            /\ u => r.handle \in Provisional
            /\ Goes(w, Started(r, BoundTo[r.handle], u))
     ELSE Goes(w, [Started(r, Local, FALSE) EXCEPT !.at = "done", !.code = "HANDLE_NOT_FOUND"])
  /\ UNCHANGED <<host, changes, backends>>

(* What the service checks before it acts: a call that reads a handle       *)
(* (capture, wait) or uses it (send, replace, close) that Zellij runs and   *)
(* that the session is ready, a look at the panes the first, a list of the  *)
(* handles the second for what it has to look at, a remote spawn neither.   *)
(* A read of a handle whose pane is still to be found looks for it without  *)
(* any check (should_skip_availability_for_binding).                       *)
FirstCheck(c) ==
  CASE c.op = "list" -> "survey"
    [] c.op = "spawn" /\ c.target # Local -> "act"
    [] c.op = "read" /\ c.unresolved -> "reconcile"
    [] OTHER -> "available"

With(w, b) == Goes(w, [call[w] EXCEPT !.backend = b, !.at = FirstCheck(call[w])])

(* The map under the read lock.                                            *)
Lookup(w) ==
  LET t == call[w].target IN
  /\ call[w].at = "lookup"
  /\ IF t \in DOMAIN backends THEN With(w, backends[t]) ELSE At(w, "create")
  /\ UNCHANGED <<host, changes, backends>>

(* resolve_ssh_runtime_config: a name is looked for on the host, on its    *)
(* PATH with ~/.local/bin in front and in the usual places; a path is      *)
(* taken as it is.                                                         *)
Findable(h) == h.up /\ h.zellij # "none"
Resolved(bin, h) == IF bin = "bare" /\ Findable(h) THEN h.zellij ELSE bin

(* The factory, without a lock.  SshBackend::new resolves the binary and   *)
(* keeps the name it was given when it cannot.                             *)
Create(w) ==
  LET c == call[w] IN
  /\ c.at = "create"
  /\ Goes(w, [c EXCEPT !.backend = [by |-> w, bin |-> Resolved(ConfigOf(c.target.alias).bin, HostOf(w))],
                       !.at = "insert"])
  /\ UNCHANGED <<host, changes, backends>>

\* Mutant: the later backend replaces the earlier one.
InsertOver(w) ==
  LET c == call[w]
      t == c.target
  IN /\ c.at = "insert"
     /\ backends' = [u \in DOMAIN backends \union {t} |-> IF u = t THEN c.backend ELSE backends[u]]
     /\ With(w, c.backend)
     /\ UNCHANGED <<host, changes>>

(* entry().or_insert_with() under the write lock: the first to come is     *)
(* kept, and used by all.                                                  *)
Insert(w) ==
  LET c == call[w]
      t == c.target
      kept == IF t \in DOMAIN backends THEN backends[t] ELSE c.backend
  IN /\ c.at = "insert"
     /\ backends' = [u \in DOMAIN backends \union {t} |-> IF u = t THEN kept ELSE backends[u]]
     /\ With(w, kept)
     /\ UNCHANGED <<host, changes>>

---------------------------------------------------------------------------
(***************************************************************************)
(* The checks.                                                             *)
(***************************************************************************)

(* A command of this binary works; a bare name is looked for on the plain  *)
(* PATH of a non-interactive shell.                                        *)
Runs(bin, h) == h.up /\ h.zellij # "none" /\ h.zellij = (IF bin = "bare" THEN "path" ELSE bin)

Available(w) ==
  LET c == call[w] IN
  /\ c.at = "available"
  /\ IF ~Runs(c.backend.bin, HostOf(w)) THEN Ends(w, "ZJCTL_UNAVAILABLE")
     ELSE At(w, IF c.op = "look" THEN "act" ELSE IF c.unresolved THEN "reconcile" ELSE "ready")
  /\ UNCHANGED <<host, changes, backends>>

(* revalidate_all.  A local list without its Zellij looks at no handle; the *)
(* first that it does look at needs a session that is ready, but for one    *)
(* whose pane is still to be found, where an error is nothing.             *)
Survey(w) ==
  LET c == call[w]
      bound == {h \in DOMAIN BoundTo : BoundTo[h] = c.target}
      looks == c.target # Local \/ Runs(c.backend.bin, HostOf(w))
  IN /\ c.at = "survey"
     /\ \/ (~looks \/ bound \subseteq Provisional) /\ Ends(w, "ok")
        \/ looks /\ bound # {} /\ At(w, "ready")
     /\ UNCHANGED <<host, changes, backends>>

(* What the plugin says to the program that asks for its panes.            *)
PluginSays(h) ==
  CASE h.plugin = "absent" -> "MissingPlugin"
    [] h.helper # "attached" -> "HelperClientMissing"
    [] h.plugin = "asks" -> "PluginPermissionPrompt"
    [] h.plugin = "skewed" -> "ProtocolVersionMismatch"
    [] h.plugin \in {"stopped", "loading"} -> "RpcNotReady"
    [] OTHER -> "Ready"

(* What one listing of the panes may meet.  The local backend looks for the *)
(* plugin's file and pipes its request to Zellij.                          *)
LocalMeets(bin, h) ==
  {IF h.plugin # "absent" /\ ~Runs(bin, h) THEN "Unavailable" ELSE PluginSays(h)}

(* A host that is down refuses the connection, lets ssh give it up (a text  *)
(* that says it timed out), or lets the time of the command run out.       *)
DownErrors == {"CommandFailed", "RpcNotReady", "Timeout"}

(* A remote listing runs the host's zjctl, which is installed with its      *)
(* Zellij.                                                                 *)
RemoteMeets(bin, h) ==
  IF ~h.up THEN DownErrors ELSE {IF Runs(bin, h) THEN PluginSays(h) ELSE "CommandFailed"}

Meets(t, bin, h) == IF t = Local THEN LocalMeets(bin, h) ELSE RemoteMeets(bin, h)

(* classify_ssh_readiness_failure: anything it does not know means that the *)
(* host is unreachable.                                                    *)
Classify(error) ==
  CASE error = "Timeout" -> "RpcNotReady"
    [] error = "CommandFailed" -> "SshUnreachable"
    [] OTHER -> error

(* classify_ssh_backend_readiness: find the binary again, then list.        *)
Verdicts(t, bin, h) ==
  IF bin = "bare" /\ h.up /\ h.zellij = "none" THEN {"MissingBinary"}
  ELSE {Classify(e) : e \in Meets(t, Resolved(bin, h), h)}

AutoFixable == {"MissingBinary", "HelperClientMissing", "RpcNotReady"}

\* Mutant: every text is taken for one of the plugin's.
CodeOfBroadly(error) ==
  CASE error \in {"MissingBinary", "Unavailable"} -> "ZJCTL_UNAVAILABLE"
    [] error = "Timeout" -> "WAIT_TIMEOUT"
    [] error = "ProtocolVersionMismatch" -> "PROTOCOL_VERSION_MISMATCH"
    [] OTHER -> "PLUGIN_NOT_READY"

(* map_adapter_error; a verdict comes to it as a text of its own           *)
(* (readiness_failure_to_adapter_error).                                   *)
CodeOf(error) ==
  CASE error \in {"MissingBinary", "Unavailable"} -> "ZJCTL_UNAVAILABLE"
    [] error \in {"SshUnreachable", "CommandFailed"} -> "FAILED"
    [] error = "Timeout" -> "WAIT_TIMEOUT"
    [] error = "ProtocolVersionMismatch" -> "PROTOCOL_VERSION_MISMATCH"
    [] OTHER -> "PLUGIN_NOT_READY"

\* A call after a check: it acts, or the error is its answer.
Judged(c, error) ==
  IF error = "Ready" THEN [c EXCEPT !.at = "act"]
  ELSE [c EXCEPT !.at = "done", !.code = CodeOf(error)]

(* ensure_session_ready up to the first verdict.  The local backend only   *)
(* lists.                                                                  *)
Check(w) ==
  LET c == call[w] IN
  /\ c.at = "ready"
  /\ IF c.target = Local
     THEN \E e \in Meets(Local, c.backend.bin, HostOf(w)) : Goes(w, Judged(c, e))
     ELSE \E v \in Verdicts(c.target, c.backend.bin, HostOf(w)) :
            Goes(w, IF v \in AutoFixable THEN [c EXCEPT !.at = "helper", !.first = v]
                    ELSE Judged(c, v))
  /\ UNCHANGED <<host, changes, backends>>

(* refresh_binding_target on a handle whose pane is still to be found       *)
(* (reconcile_spawn_binding): the panes are listed, without a check of the  *)
(* session, until the pane is among them or the time is over.  With the     *)
(* pane the call goes the way of the others, without it acts unchecked.     *)
Reconcile(w) ==
  LET c == call[w] IN
  /\ c.at = "reconcile"
  /\ \E e \in Meets(c.target, c.backend.bin, HostOf(w)) :
       \/ e = "Ready" /\ Goes(w, [c EXCEPT !.at = "ready", !.unresolved = FALSE])
       \/ Goes(w, Judged(c, e))
  /\ UNCHANGED <<host, changes, backends>>

---------------------------------------------------------------------------
(***************************************************************************)
(* The remedies.                                                           *)
(***************************************************************************)

(* The remediation finds the binary by itself, and needs one that is there. *)
CanRun(w) == LET h == HostOf(w) IN Findable(h) /\ call[w].backend.bin \in {"bare", h.zellij}

(* A change of a host; calls on it other than w notice.                    *)
Becomes(w, h, c) ==
  LET m == Machine(call[w].target) IN
  /\ host' = [host EXCEPT ![m] = h]
  /\ call' = [v \in Callers |->
                IF v = w THEN c
                ELSE IF call[v] # NotYet /\ h # host[m] /\ Machine(call[v].target) = m
                     THEN [call[v] EXCEPT !.before = Touched] ELSE call[v]]

(* start_helper_client: tmux starts a detached client of the session, if it *)
(* runs none yet, and returns before the client is attached.               *)
StartHelperClient(w) ==
  LET c == call[w]
      h == HostOf(w)
  IN /\ c.at = "helper"
     /\ IF CanRun(w) /\ h.tmux
        THEN Becomes(w, [h EXCEPT !.helper = IF @ = "none" THEN "coming" ELSE @],
                     [c EXCEPT !.at = "launch", !.helped = @ \union {"helper"}])
        ELSE UNCHANGED host /\ At(w, "launch")
     /\ UNCHANGED <<changes, backends>>

\* Mutant: the second remedy is tried only when the first failed.
LaunchOtherwise(w) ==
  LET c == call[w]
      h == HostOf(w)
  IN /\ c.at = "launch"
     /\ IF c.helped = {} /\ CanRun(w)
        THEN Becomes(w, [h EXCEPT !.plugin = IF @ = "stopped" THEN "loading" ELSE @],
                     [c EXCEPT !.at = "recheck", !.helped = @ \union {"plugin"}])
        ELSE /\ UNCHANGED host
             /\ IF c.helped # {} THEN At(w, "recheck") ELSE Ends(w, CodeOf(c.first))
     /\ UNCHANGED <<changes, backends>>

(* launch_zrpc_plugin: Zellij begins to load a plugin that was not loaded,  *)
(* and the command returns.  Without a remedy that worked the first verdict *)
(* is the answer.                                                          *)
LaunchZrpcPlugin(w) ==
  LET c == call[w]
      h == HostOf(w)
  IN /\ c.at = "launch"
     /\ IF CanRun(w)
        THEN Becomes(w, [h EXCEPT !.plugin = IF @ = "stopped" THEN "loading" ELSE @],
                     [c EXCEPT !.at = "recheck", !.helped = @ \union {"plugin"}])
        ELSE /\ UNCHANGED host
             /\ IF c.helped # {} THEN At(w, "recheck") ELSE Ends(w, CodeOf(c.first))
     /\ UNCHANGED <<changes, backends>>

\* Mutant: the remedies are tried for as long as they may help.
RecheckAgain(w) ==
  /\ call[w].at = "recheck"
  /\ \E v \in Verdicts(call[w].target, call[w].backend.bin, HostOf(w)) :
       IF v \in AutoFixable THEN At(w, "helper") ELSE Goes(w, Judged(call[w], v))
  /\ UNCHANGED <<host, changes, backends>>

(* The one retry, as soon as the last remedy has returned.                  *)
Recheck(w) ==
  LET c == [call[w] EXCEPT !.early = OnItsWay(HostOf(w))] IN
  /\ call[w].at = "recheck"
  /\ \E v \in Verdicts(c.target, c.backend.bin, HostOf(w)) : Goes(w, Judged(c, v))
  /\ UNCHANGED <<host, changes, backends>>

\* Mutant: the error of the operation is dropped.
ActUnanswered(w) ==
  /\ call[w].at = "act"
  /\ \E e \in Meets(call[w].target, call[w].backend.bin, HostOf(w)) :
       IF e = "Ready" THEN Ends(w, "ok") ELSE At(w, "done")
  /\ UNCHANGED <<host, changes, backends>>

(* The operation itself, as far as its first listing.                      *)
Act(w) ==
  /\ call[w].at = "act"
  /\ \E e \in Meets(call[w].target, call[w].backend.bin, HostOf(w)) :
       Ends(w, IF e = "Ready" THEN "ok" ELSE CodeOf(e))
  /\ UNCHANGED <<host, changes, backends>>

---------------------------------------------------------------------------
(* What a remedy started takes effect: the client is attached, the plugin   *)
(* runs or asks the user.                                                  *)
Settles ==
  /\ \E m \in Machines :
       \/ host[m].helper = "coming" /\ host' = [host EXCEPT ![m].helper = "attached"]
       \/ /\ host[m].plugin = "loading"
          /\ \E p \in {"running", "asks"} : host' = [host EXCEPT ![m].plugin = p]
  /\ UNCHANGED <<changes, backends, call>>

(* A host goes down, comes up, is installed, restarted or repaired.        *)
HostChanges ==
  /\ changes < MaxChanges /\ changes' = changes + 1
  /\ \E m \in Machines \ {LocalMachine}, h \in HostStates :
       /\ h # host[m]
       /\ host' = [host EXCEPT ![m] = h]
       /\ call' = [v \in Callers |->
                     IF call[v] # NotYet /\ Machine(call[v].target) = m
                     THEN [call[v] EXCEPT !.before = Touched] ELSE call[v]]
  /\ UNCHANGED backends

(* main: the local backend is there from the start, the others are not.    *)
RouterInit ==
  /\ host \in [Machines -> HostStates]
  /\ host[LocalMachine].up /\ host[LocalMachine].zellij # "local_bin"
  /\ changes = 0
  /\ backends = [t \in {Local} |-> [by |-> NoAlias, bin |-> "bare"]]
  /\ call = [w \in Callers |-> NotYet]

CallStep(w) ==
  \/ Lookup(w) \/ Create(w) \/ Insert(w) \/ Available(w) \/ Survey(w) \/ Reconcile(w) \/ Check(w)
  \/ StartHelperClient(w) \/ LaunchZrpcPlugin(w) \/ Recheck(w) \/ Act(w)

RouterNext ==
  \/ HostChanges \/ Settles
  \/ \E w \in Callers : (\E r \in Requests : Arrive(w, r)) \/ CallStep(w)

(* A call to an ssh target that has begun runs on, as every command of its  *)
(* backend has a time-out.  Those of the local backend have none, so that a *)
(* local call may wait for its command for ever.  What a remedy started     *)
(* need not take effect.                                                   *)
RemoteStep(w) == call[w] # NotYet /\ call[w].target # Local /\ CallStep(w)

RouterFairness == \A w \in Callers : WF_routerVars(RemoteStep(w))

RouterSpec == RouterInit /\ [][RouterNext]_routerVars /\ RouterFairness

---------------------------------------------------------------------------
(***************************************************************************)
(* Properties.                                                             *)
(***************************************************************************)

Calls == {call[w] : w \in {v \in Callers : call[v] # NotYet}}
Done == {c \in Calls : c.at = "done"}

\* Nobody else has touched the call's host.
Alone(c) == c.before # Touched

(* RouterTypeOK: hosts are hosts, every backend in the map is one some call *)
(* made for the target it stands under, and a call's record has the shape   *)
(* its steps give it.                                                      *)
RouterTypeOK ==
  /\ host \in [Machines -> Hosts]
  /\ changes \in 0 .. MaxChanges
  /\ Local \in DOMAIN backends /\ DOMAIN backends \subseteq Targets
  /\ \A t \in DOMAIN backends \ {Local} :
       backends[t].by \in Callers /\ call[backends[t].by].target = t
  /\ \A c \in Calls :
       /\ c.target \in Targets
       /\ c.at \in {"lookup", "create", "insert", "available", "survey", "reconcile", "ready",
                   "helper", "launch", "recheck", "act", "done"}
       /\ (c.at = "done") <=> (c.code # "none")
       /\ c.before \in Hosts \union {Touched}
       /\ c.helped \subseteq {"helper", "plugin"}
       /\ c.unresolved => c.target # Local

(* OneBackendPerTarget: all calls to a target act through the one backend   *)
(* the map holds, also those that made their own while it was missing, and  *)
(* whichever way they wrote the target or whatever handle they came by      *)
(* (router.rs backend_for_target_id).                                       *)
OneBackendPerTarget ==
  \A c \in Calls :
    (c.at \notin {"lookup", "create", "insert"} /\ c.code # "HANDLE_NOT_FOUND") =>
      c.target \in DOMAIN backends /\ c.backend = backends[c.target]

(* One remediation is enough for this host: its plugin is installed, and    *)
(* what is missing is a client or a loaded plugin.                         *)
Repairable(h) ==
  /\ h.up /\ h.zellij # "none"
  /\ h.helper # "none" \/ h.tmux
  /\ h.plugin \in {"stopped", "loading", "running"}

(* OneRetryIsEnough: a call on a handle of a host like that which nobody    *)
(* else touches, through a backend whose binary works, succeeds, unless the *)
(* plugin asks the user for permission, or the retry came before the client *)
(* was attached or the plugin loaded, as nothing waits for them (client.rs  *)
(* ensure_session_ready).  In particular both remedies are tried whichever  *)
(* the check asked for.  A call that ends while the pane of its handle is   *)
(* still to be found is left out: its session is neither checked nor        *)
(* repaired.                                                               *)
OneRetryIsEnough ==
  \A c \in Done :
    (/\ c.op \in {"read", "use"} /\ ~c.unresolved /\ Alone(c) /\ c.target # Local
     /\ Repairable(c.before) /\ Runs(c.backend.bin, c.before)) =>
      \/ c.code = "ok"
      \/ c.code = "PLUGIN_NOT_READY" /\ (c.early \/ host[Machine(c.target)].plugin = "asks")

(* RefusalHasACause: a host that was sound and left alone refuses only the  *)
(* calls whose backend was made when its binary was elsewhere or could not  *)
(* be found, and says so with the code for it (client.rs is_available,      *)
(* check_rpc_readiness).                                                    *)
Sound(h) == Repairable(h) /\ h.helper = "attached" /\ h.plugin = "running"

RefusalHasACause ==
  \A c \in Done :
    (Alone(c) /\ Sound(c.before) /\ c.code \notin {"ok", "HANDLE_NOT_FOUND"}) =>
      ~Runs(c.backend.bin, c.before) /\ c.code \in {"ZJCTL_UNAVAILABLE", "FAILED"}

(* RemoteCallsAnswer: every call to an ssh target is answered, whatever the *)
(* hosts do and whether or not the remedies take effect: a check that fails *)
(* again after them is not repeated (client.rs ensure_session_ready).       *)
RemoteCallsAnswer ==
  \A w \in Callers :
    (call[w] # NotYet /\ call[w].target # Local) ~> (call[w] # NotYet /\ call[w].at = "done")


=============================================================================
