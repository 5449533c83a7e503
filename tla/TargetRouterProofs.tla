------------------------ MODULE TargetRouterProofs ------------------------
(***************************************************************************)
(* Proofs about TargetRouter, for every set of calls, aliases, overrides,  *)
(* bindings and host states: that a call's record is well formed, that all *)
(* calls to a target use one backend, that one remediation is enough, and  *)
(* that a sound host refuses only for its backend's binary.                *)
(***************************************************************************)
EXTENDS TargetRouter, TLAPS

---------------------------------------------------------------------------
(* The inductive invariant. *)

Bins == Places \union {"bare"} \union {ConfigOf(a).bin : a \in Aliases}
BackendRecords == [by : Callers \union {NoAlias}, bin : Bins]

Stages == {"lookup", "create", "insert", "available", "survey", "reconcile", "ready",
           "helper", "launch", "recheck", "act", "done"}
Codes == {"none", "ok", "HANDLE_NOT_FOUND", "ZJCTL_UNAVAILABLE", "FAILED", "WAIT_TIMEOUT",
          "PROTOCOL_VERSION_MISMATCH", "PLUGIN_NOT_READY"}

CallRecords ==
  [at : Stages, op : {r.op : r \in Requests}, target : Targets, unresolved : BOOLEAN,
   backend : {Nothing} \union BackendRecords, first : {"none"} \union AutoFixable,
   helped : SUBSET {"helper", "plugin"}, early : BOOLEAN,
   before : Hosts \union {Touched}, code : Codes]

\* The call has its backend.
Past(c) == c.at \notin {"lookup", "create", "insert"} /\ c.code # "HANDLE_NOT_FOUND"

\* What a call that was not disturbed on a sound host can have come to.
KeptSound(c, h) ==
  Sound(c.before) =>
    /\ h = c.before
    /\ c.at \notin {"helper", "launch", "recheck"}
    /\ c.code \in {"none", "ok", "HANDLE_NOT_FOUND", "ZJCTL_UNAVAILABLE", "FAILED"}
    /\ Past(c) /\ Runs(c.backend.bin, c.before) => c.code \in {"none", "ok"}

\* The same on a host that one remediation repairs: how far the remedies are.
Repaired(c, h) ==
  /\ c.at = "launch" => h.helper # "none"
  /\ c.at = "recheck" => h.helper # "none" /\ h.plugin \in {"loading", "running", "asks"}
  /\ c.at = "act" => h.helper = "attached" /\ h.plugin = "running"
  /\ c.at = "done" => c.code = "ok" \/ (c.code = "PLUGIN_NOT_READY" /\ (c.early \/ h.plugin = "asks"))

\* What the remedies, and what they started, make of such a host.
Repairing(b, h) ==
  /\ h.up /\ h.zellij = b.zellij /\ h.zellij # "none"
  /\ h.helper # "none" \/ h.tmux
  /\ h.plugin \in {"stopped", "loading", "running", "asks"}

\* A call on a handle of a host that one round of remedies can repair.
OnRepairable(c) == c.op \in {"read", "use"} /\ c.target # Local /\ Repairable(c.before)

\* The call is checked, and its backend's binary works.
Helped(c) == OnRepairable(c) /\ ~c.unresolved /\ Runs(c.backend.bin, c.before)

KeptRepairable(c, h) ==
  /\ OnRepairable(c) => Repairing(c.before, h)
  /\ Past(c) /\ Helped(c) => Repaired(c, h)

CallInv(w, c, hs, bs) ==
  /\ c \in CallRecords
  /\ c.at = "done" <=> c.code # "none"
  /\ c.at = "insert" => c.backend \in BackendRecords /\ c.backend.by = w
  /\ c.at \in {"create", "insert"} => c.target # Local
  /\ c.code = "HANDLE_NOT_FOUND" => c.target = Local
  /\ Past(c) => c.target \in DOMAIN bs /\ c.backend = bs[c.target]
  /\ c.unresolved => c.target # Local
  /\ c.at = "reconcile" => c.unresolved
  /\ Alone(c) => KeptSound(c, hs[Machine(c.target)]) /\ KeptRepairable(c, hs[Machine(c.target)])

BackendsInv(bs) ==
  /\ Local \in DOMAIN bs /\ DOMAIN bs \subseteq Targets
  /\ \A t \in DOMAIN bs : bs[t] \in BackendRecords

\* A backend was made by a call for the target it stands under.
MadeFor(bs, cs) ==
  \A t \in DOMAIN bs \ {Local} :
    bs[t].by \in Callers /\ cs[bs[t].by] # NotYet /\ cs[bs[t].by].target = t

IInv ==
  /\ host \in [Machines -> Hosts]
  /\ changes \in 0 .. MaxChanges
  /\ BackendsInv(backends)
  /\ call \in [Callers -> {NotYet} \union CallRecords]
  /\ MadeFor(backends, call)
  /\ \A w \in Callers : call[w] # NotYet => CallInv(w, call[w], host, backends)

USE DEF Alone

---------------------------------------------------------------------------
(* Kinds of step. *)

\* A call is not the absence of one, and its host is a host.
LEMMA CallFacts ==
  ASSUME IInv, NEW w \in Callers, call[w] # NotYet
  PROVE  /\ call[w] \in CallRecords
         /\ CallInv(w, call[w], host, backends)
         /\ call[w].target \in Targets
         /\ Machine(call[w].target) \in Machines
         /\ HostOf(w) = host[Machine(call[w].target)]
         /\ HostOf(w) \in Hosts
<1>1. call[w] \in CallRecords /\ CallInv(w, call[w], host, backends)
  BY DEF IInv
<1>2. call[w].target \in Targets
  BY <1>1 DEF CallRecords
<1>3. Machine(call[w].target) \in Machines
  BY <1>2 DEF Machines
<1> QED
  BY <1>1, <1>2, <1>3 DEF IInv, HostOf

\* A record of a call is not NotYet.
LEMMA RecordsAreCalls == NotYet \notin CallRecords
BY DEF NotYet, CallRecords, Stages

\* A step that only changes the record of its own call, or makes one, keeps the
\* invariant if the new record is sound and for the same target.
LEMMA OwnStepKeeps ==
  ASSUME IInv, NEW w \in Callers, NEW c, CallInv(w, c, host, backends),
         call[w] = NotYet \/ c.target = call[w].target,
         call' = [call EXCEPT ![w] = c],
         UNCHANGED <<host, changes, backends>>
  PROVE  IInv'
<1>1. c \in CallRecords /\ c # NotYet
  BY RecordsAreCalls DEF CallInv
<1>2. call' \in [Callers -> {NotYet} \union CallRecords]
  BY <1>1 DEF IInv
<1>3. MadeFor(backends', call')
  <2> SUFFICES ASSUME NEW t \in DOMAIN backends \ {Local}
               PROVE  /\ backends[t].by \in Callers
                      /\ call'[backends[t].by] # NotYet
                      /\ call'[backends[t].by].target = t
    BY DEF MadeFor
  <2>1. /\ backends[t].by \in Callers
        /\ call[backends[t].by] # NotYet
        /\ call[backends[t].by].target = t
    BY DEF IInv, MadeFor
  <2> QED
    BY <2>1, <1>1 DEF IInv
<1>4. ASSUME NEW v \in Callers, call'[v] # NotYet
      PROVE  CallInv(v, call'[v], host', backends')
  <2>1. CASE v = w
    BY <2>1 DEF IInv
  <2>2. CASE v # w
    BY <1>4, <2>2 DEF IInv
  <2> QED
    BY <2>1, <2>2
<1> QED
  BY <1>2, <1>3, <1>4 DEF IInv

\* What becomes of the record of a call when host m becomes h.
Noticing(v, m, h) ==
  IF h # host[m] /\ Machine(call[v].target) = m
  THEN [call[v] EXCEPT !.before = Touched] ELSE call[v]

\* A call whose host changed is no longer alone, and one whose host did not is
\* as it was.
LEMMA OthersKeep ==
  ASSUME IInv, NEW v \in Callers, call[v] # NotYet,
         NEW m \in Machines, NEW h \in Hosts
  PROVE  /\ CallInv(v, Noticing(v, m, h), [host EXCEPT ![m] = h], backends)
         /\ Noticing(v, m, h) \in CallRecords
         /\ Noticing(v, m, h).target = call[v].target
<1> DEFINE hs == [host EXCEPT ![m] = h]
           c == Noticing(v, m, h)
<1>1. /\ call[v] \in CallRecords
      /\ CallInv(v, call[v], host, backends)
      /\ Machine(call[v].target) \in Machines
  BY CallFacts
<1>2. CASE h # host[m] /\ Machine(call[v].target) = m
  <2>1. c = [call[v] EXCEPT !.before = Touched]
    BY <1>2 DEF Noticing
  <2> HIDE DEF c
  <2>2. c \in CallRecords /\ ~Alone(c)
    BY <1>1, <2>1 DEF CallRecords
  <2>3. /\ c.at = call[v].at /\ c.target = call[v].target /\ c.code = call[v].code
        /\ c.backend = call[v].backend /\ c.unresolved = call[v].unresolved
    BY <1>1, <2>1 DEF CallRecords
  <2> QED
    BY <1>1, <2>2, <2>3 DEF CallInv, Past, c
<1>3. CASE ~(h # host[m] /\ Machine(call[v].target) = m)
  <2>1. c = call[v]
    BY <1>3 DEF Noticing
  <2>2. hs[Machine(call[v].target)] = host[Machine(call[v].target)]
    BY <1>1, <1>3 DEF IInv
  <2> HIDE DEF hs, c
  <2>3. CallInv(v, c, hs, backends)
    BY <1>1, <2>1, <2>2 DEF CallInv
  <2> QED
    BY <1>1, <2>1, <2>3 DEF hs, c
<1> QED
  BY <1>2, <1>3

\* The same for a step that changes the host of its call.
LEMMA BecomesKeeps ==
  ASSUME IInv, NEW w \in Callers, call[w] # NotYet, NEW c, NEW h \in Hosts,
         CallInv(w, c, [host EXCEPT ![Machine(call[w].target)] = h], backends),
         c.target = call[w].target,
         Becomes(w, h, c), UNCHANGED <<changes, backends>>
  PROVE  IInv'
<1> DEFINE m == Machine(call[w].target)
<1>1. m \in Machines
  BY CallFacts
<1>2. host' = [host EXCEPT ![m] = h] /\ host' \in [Machines -> Hosts]
  BY <1>1 DEF Becomes, IInv
<1>3. c \in CallRecords /\ c # NotYet
  BY RecordsAreCalls DEF CallInv
<1>4. \A v \in Callers :
        /\ v = w => call'[v] = c
        /\ v # w /\ call[v] # NotYet => call'[v] = Noticing(v, m, h)
        /\ v # w /\ call[v] = NotYet => call'[v] = NotYet
  BY DEF Becomes, Noticing
<1> HIDE DEF m
<1>5. ASSUME NEW v \in Callers, v # w, call[v] # NotYet
      PROVE  /\ CallInv(v, call'[v], host', backends)
             /\ call'[v] \in CallRecords
             /\ call'[v].target = call[v].target
  <2>1. call'[v] = Noticing(v, m, h)
    BY <1>4, <1>5
  <2>2. /\ CallInv(v, Noticing(v, m, h), [host EXCEPT ![m] = h], backends)
        /\ Noticing(v, m, h) \in CallRecords
        /\ Noticing(v, m, h).target = call[v].target
    BY <1>1, <1>5, OthersKeep
  <2> QED
    BY <1>2, <2>1, <2>2
<1>6. \A v \in Callers : v # w /\ call[v] = NotYet => call'[v] = NotYet
  BY <1>4
<1>7. call' \in [Callers -> {NotYet} \union CallRecords]
  <2>1. DOMAIN call' = Callers /\ call' = [v \in Callers |-> call'[v]]
    BY DEF Becomes
  <2>2. \A v \in Callers : call'[v] \in {NotYet} \union CallRecords
    BY <1>3, <1>4, <1>5, <1>6
  <2> QED
    BY <2>1, <2>2
<1>8. \A v \in Callers : call[v] # NotYet => call'[v] # NotYet /\ call'[v].target = call[v].target
  BY <1>3, <1>4, <1>5, RecordsAreCalls
<1>9. MadeFor(backends', call')
  BY <1>8 DEF IInv, MadeFor
<1>10. ASSUME NEW v \in Callers, call'[v] # NotYet
       PROVE  CallInv(v, call'[v], host', backends')
  <2>1. CASE v = w
    BY <1>2, <1>4, <2>1 DEF m
  <2>2. CASE v # w
    BY <1>5, <1>6, <1>10, <2>2
  <2> QED
    BY <2>1, <2>2
<1> QED
  BY <1>2, <1>7, <1>9, <1>10 DEF IInv

---------------------------------------------------------------------------
(* What a check finds. *)

\* The codes an error can come to.
LEMMA CodesOfErrors == \A e : CodeOf(e) \in Codes \ {"none", "ok", "HANDLE_NOT_FOUND"}
BY DEF CodeOf, Codes

\* A listing on a sound host fails only for the binary.
LEMMA SoundMeets ==
  ASSUME NEW t \in Targets, NEW bin, NEW h \in Hosts, Sound(h), NEW e \in Meets(t, bin, h)
  PROVE  \/ e = "Ready"
         \/ ~Runs(bin, h) /\ CodeOf(e) \in {"ZJCTL_UNAVAILABLE", "FAILED"}
<1>1. PluginSays(h) = "Ready"
  BY DEF Sound, PluginSays
<1>2. h.up
  BY DEF Sound, Repairable
<1> QED
  BY <1>1, <1>2 DEF Meets, LocalMeets, RemoteMeets, CodeOf

\* A binary that runs is found again.
LEMMA ResolvedRuns ==
  ASSUME NEW bin, NEW h \in Hosts, Runs(bin, h)
  PROVE  Runs(Resolved(bin, h), h)
BY DEF Runs, Resolved, Findable

\* So does the check of a remote session, and it asks for no remedy.
LEMMA SoundVerdicts ==
  ASSUME NEW t \in Targets \ {Local}, NEW bin, NEW h \in Hosts, Sound(h),
         NEW v \in Verdicts(t, bin, h)
  PROVE  \/ v = "Ready"
         \/ ~Runs(bin, h) /\ v \notin AutoFixable /\ CodeOf(v) \in {"ZJCTL_UNAVAILABLE", "FAILED"}
<1>1. PluginSays(h) = "Ready"
  BY DEF Sound, PluginSays
<1>2. h.up /\ h.zellij # "none"
  BY DEF Sound, Repairable
<1>3. CASE Runs(Resolved(bin, h), h)
  BY <1>1, <1>2, <1>3 DEF Verdicts, Meets, RemoteMeets, Classify
<1>4. CASE ~Runs(Resolved(bin, h), h)
  <2>1. v = "SshUnreachable"
    BY <1>2, <1>4 DEF Verdicts, Meets, RemoteMeets, Classify
  <2>2. ~Runs(bin, h)
    BY <1>4, ResolvedRuns
  <2> QED
    BY <2>1, <2>2 DEF AutoFixable, CodeOf
<1> QED
  BY <1>3, <1>4

\* With a binary that runs, a remote check or listing tells the plugin's state.
LEMMA RunsTells ==
  ASSUME NEW t \in Targets \ {Local}, NEW bin, NEW h \in Hosts, Runs(bin, h)
  PROVE  /\ Meets(t, bin, h) = {PluginSays(h)}
         /\ Verdicts(t, bin, h) = {PluginSays(h)}
<1>1. Meets(t, bin, h) = {PluginSays(h)} /\ Meets(t, Resolved(bin, h), h) = {PluginSays(h)}
  BY ResolvedRuns DEF Meets, RemoteMeets, Runs
<1>2. Classify(PluginSays(h)) = PluginSays(h)
  BY DEF Classify, PluginSays
<1> QED
  BY <1>1, <1>2 DEF Verdicts, Runs

---------------------------------------------------------------------------
(* The steps of a call that has its backend. *)

\* The parts of a record its checks and remedies leave alone.
SameCall(c, d) ==
  /\ d.op = c.op /\ d.target = c.target /\ d.backend = c.backend
  /\ d.unresolved = c.unresolved /\ d.before = c.before

\* Such a step keeps the invariant if it keeps what is known of its host.
LEMMA MoveKept ==
  ASSUME NEW w \in Callers, NEW d, NEW hs, NEW bs, NEW c \in CallRecords,
         CallInv(w, d, host, bs), Past(d), SameCall(d, c),
         c.at \notin {"lookup", "create", "insert"}, c.code # "HANDLE_NOT_FOUND",
         c.at = "done" <=> c.code # "none", c.at = "reconcile" => c.unresolved,
         Alone(c) => /\ KeptSound(c, hs[Machine(c.target)])
                    /\ KeptRepairable(c, hs[Machine(c.target)])
  PROVE  CallInv(w, c, hs, bs)
BY DEF CallInv, Past, SameCall

---------------------------------------------------------------------------
(* The actions. *)

\* A name or a binding leads to a target.
LEMMA ArriveKeeps ==
  ASSUME IInv, NEW w \in Callers, NEW r \in Requests, Arrive(w, r)
  PROVE  IInv'
<1> USE DEF Arrive
<1>1. ASSUME NEW t \in Targets, NEW u \in BOOLEAN, u => t # Local
      PROVE  CallInv(w, Started(r, t, u), host, backends)
  <2> DEFINE c == Started(r, t, u)
  <2>1. host[Machine(t)] \in Hosts
    BY DEF IInv, Machines
  <2>2. c \in CallRecords
    BY <2>1 DEF Started, CallRecords, Stages, Codes
  <2>3. /\ c.at = "lookup" /\ c.code = "none" /\ c.target = t /\ c.unresolved = u
        /\ c.before = host[Machine(t)]
    BY DEF Started
  <2> HIDE DEF c
  <2>4. KeptSound(c, host[Machine(t)])
    BY <2>3 DEF KeptSound, Past
  <2>5. KeptRepairable(c, host[Machine(t)])
    BY <2>3 DEF KeptRepairable, OnRepairable, Repairable, Repairing, Past
  <2> QED
    BY <1>1, <2>2, <2>3, <2>4, <2>5 DEF CallInv, Past, c
<1>2. CASE r.by = "name"
  <2>1. ResolveTargetId(r.name) \in Targets
    BY <1>2, NamesAreAliases DEF ResolveTargetId, Targets
  <2>2. call' = [call EXCEPT ![w] = Started(r, ResolveTargetId(r.name), FALSE)]
    BY <1>2 DEF Goes
  <2> QED
    BY <1>1, <2>1, <2>2, OwnStepKeeps
<1>3. CASE r.by # "name" /\ r.handle \in DOMAIN BoundTo
  <2>1. BoundTo[r.handle] \in Targets
    BY <1>3, AliasesOfMachines
  <2>2. PICK u \in BOOLEAN :
          /\ u => r.handle \in Provisional
          /\ call' = [call EXCEPT ![w] = Started(r, BoundTo[r.handle], u)]
    BY <1>3 DEF Goes
  <2>3. u => BoundTo[r.handle] # Local
    BY <2>2, RemoteSpawnsAreProvisional
  <2> QED
    BY <1>1, <2>1, <2>2, <2>3, OwnStepKeeps
<1>4. CASE r.by # "name" /\ r.handle \notin DOMAIN BoundTo
  <2> DEFINE c0 == Started(r, Local, FALSE)
             c == [c0 EXCEPT !.at = "done", !.code = "HANDLE_NOT_FOUND"]
  <2>1. CallInv(w, c0, host, backends) /\ c0 \in CallRecords
    BY <1>1 DEF Targets, CallInv
  <2>2. c0.target = Local /\ c0.before = host[Machine(Local)]
    BY DEF Started
  <2>3. call' = [call EXCEPT ![w] = c]
    BY <1>4 DEF Goes
  <2> HIDE DEF c0
  <2>4. c \in CallRecords /\ SameCall(c0, c) /\ c.at = "done" /\ c.code = "HANDLE_NOT_FOUND"
    BY <2>1 DEF CallRecords, SameCall, Stages, Codes
  <2> HIDE DEF c
  <2>5. KeptSound(c, host[Machine(c.target)]) /\ KeptRepairable(c, host[Machine(c.target)])
    BY <2>2, <2>4 DEF KeptSound, KeptRepairable, OnRepairable, Helped, SameCall, Past
  <2>6. CallInv(w, c, host, backends)
    BY <2>1, <2>2, <2>4, <2>5 DEF CallInv, Past, SameCall
  <2> QED
    BY <2>3, <2>6, OwnStepKeeps
<1> QED
  BY <1>2, <1>3, <1>4

\* What is done first with a backend.
LEMMA WithKeeps ==
  ASSUME NEW w \in Callers, NEW d, NEW b, NEW hs, NEW bs, CallInv(w, d, hs, bs),
         d.at \in {"lookup", "insert"}, d.target \in DOMAIN bs, b = bs[d.target],
         b \in BackendRecords
  PROVE  CallInv(w, [d EXCEPT !.backend = b, !.at = FirstCheck(d)], hs, bs)
<1> DEFINE c == [d EXCEPT !.backend = b, !.at = FirstCheck(d)]
<1>1. d \in CallRecords /\ d.code = "none"
  BY DEF CallInv
<1>2. /\ FirstCheck(d) \in {"available", "survey", "reconcile", "act"}
      /\ d.op \in {"read", "use"} => FirstCheck(d) \in {"available", "reconcile"}
      /\ FirstCheck(d) = "reconcile" => d.unresolved
  BY DEF FirstCheck
<1>3. c \in CallRecords
  BY <1>1, <1>2 DEF CallRecords, Stages
<1>4. /\ c.at = FirstCheck(d) /\ c.backend = b /\ c.target = d.target /\ c.code = "none"
      /\ c.op = d.op /\ c.unresolved = d.unresolved /\ c.before = d.before
  BY <1>1 DEF CallRecords
<1> HIDE DEF c
<1>5. ASSUME Alone(d)
      PROVE  KeptSound(c, hs[Machine(c.target)]) /\ KeptRepairable(c, hs[Machine(c.target)])
  <2>1. KeptSound(d, hs[Machine(c.target)]) /\ KeptRepairable(d, hs[Machine(c.target)])
    BY <1>4, <1>5 DEF CallInv
  <2>2. KeptSound(c, hs[Machine(c.target)])
    BY <1>1, <1>2, <1>4, <2>1 DEF KeptSound
  <2>3. KeptRepairable(c, hs[Machine(c.target)])
    BY <1>1, <1>2, <1>4, <2>1 DEF KeptRepairable, OnRepairable, Helped, Repaired
  <2> QED
    BY <2>2, <2>3
<1>6. CallInv(w, c, hs, bs)
  BY <1>2, <1>3, <1>4, <1>5 DEF CallInv, Past
<1> QED
  BY <1>6 DEF c

\* A call that looks its backend up finds it, or goes on to make one.
LEMMA LookupKeeps ==
  ASSUME IInv, NEW w \in Callers, Lookup(w)
  PROVE  IInv'
<1> USE DEF Lookup
<1> DEFINE t == call[w].target
<1>1. call[w] # NotYet
  BY DEF NotYet
<1>2. call[w] \in CallRecords /\ CallInv(w, call[w], host, backends) /\ t \in Targets
  BY <1>1, CallFacts
<1>3. CASE t \in DOMAIN backends
  <2>1. backends[t] \in BackendRecords
    BY <1>3 DEF IInv, BackendsInv
  <2>2. CallInv(w, [call[w] EXCEPT !.backend = backends[t], !.at = FirstCheck(call[w])], host, backends)
    BY <1>2, <1>3, <2>1, WithKeeps
  <2>3. [call[w] EXCEPT !.backend = backends[t], !.at = FirstCheck(call[w])].target = t
    BY <1>2 DEF CallRecords
  <2>4. call' = [call EXCEPT ![w] = [call[w] EXCEPT !.backend = backends[t], !.at = FirstCheck(call[w])]]
    BY <1>3 DEF With, Goes
  <2> HIDE DEF t
  <2> QED
    BY <2>2, <2>3, <2>4, OwnStepKeeps DEF t
<1>4. CASE t \notin DOMAIN backends
  <2> DEFINE c == [call[w] EXCEPT !.at = "create"]
  <2>1. call' = [call EXCEPT ![w] = c]
    BY <1>4 DEF At, Goes
  <2>2. c \in CallRecords /\ SameCall(call[w], c) /\ c.at = "create" /\ c.code = call[w].code
    BY <1>2 DEF CallRecords, SameCall, Stages
  <2> HIDE DEF c
  <2>3. c.target # Local
    BY <1>4, <2>2 DEF IInv, BackendsInv, SameCall
  <2>4. ASSUME Alone(c)
        PROVE  KeptSound(c, host[Machine(c.target)]) /\ KeptRepairable(c, host[Machine(c.target)])
    <3>1. KeptSound(call[w], host[Machine(c.target)]) /\ KeptRepairable(call[w], host[Machine(c.target)])
      BY <1>2, <2>2, <2>4 DEF CallInv, SameCall
    <3> QED
      BY <2>2, <3>1 DEF KeptSound, KeptRepairable, OnRepairable, SameCall, Past
  <2>5. CallInv(w, c, host, backends)
    BY <1>2, <2>2, <2>3, <2>4 DEF CallInv, Past
  <2>6. c.target = call[w].target
    BY <2>2 DEF SameCall
  <2> QED
    BY <2>1, <2>5, <2>6, OwnStepKeeps
<1> QED
  BY <1>3, <1>4

\* A backend is made, without the lock.
LEMMA CreateKeeps ==
  ASSUME IInv, NEW w \in Callers, Create(w)
  PROVE  IInv'
<1> USE DEF Create
<1> DEFINE b == [by |-> w, bin |-> Resolved(ConfigOf(call[w].target.alias).bin, HostOf(w))]
           c == [call[w] EXCEPT !.backend = b, !.at = "insert"]
<1>1. call[w] # NotYet
  BY DEF NotYet
<1>2. /\ call[w] \in CallRecords /\ CallInv(w, call[w], host, backends)
      /\ call[w].target \in Targets /\ call[w].target # Local /\ HostOf(w) \in Hosts
      /\ call[w].code = "none"
  BY <1>1, CallFacts DEF CallInv
<1>3. b \in BackendRecords
  <2>1. call[w].target.alias \in Aliases
    BY <1>2 DEF Targets, Ssh
  <2>2. ConfigOf(call[w].target.alias).bin \in Bins
    BY <2>1 DEF Bins
  <2>3. HostOf(w).zellij \in Bins
    BY <1>2 DEF Bins, Hosts
  <2>4. Resolved(ConfigOf(call[w].target.alias).bin, HostOf(w)) \in Bins
    BY <2>2, <2>3 DEF Resolved
  <2> QED
    BY <2>4 DEF BackendRecords
<1>4. call' = [call EXCEPT ![w] = c]
  BY DEF Goes
<1>5. b.by = w
  OBVIOUS
<1> HIDE DEF b
<1>6. /\ c \in CallRecords /\ c.at = "insert" /\ c.backend = b /\ c.code = "none"
      /\ c.target = call[w].target /\ c.op = call[w].op /\ c.unresolved = call[w].unresolved
      /\ c.before = call[w].before
  BY <1>2, <1>3 DEF CallRecords, Stages
<1> HIDE DEF c
<1>7. ASSUME Alone(c)
      PROVE  KeptSound(c, host[Machine(c.target)]) /\ KeptRepairable(c, host[Machine(c.target)])
  <2>1. KeptSound(call[w], host[Machine(c.target)]) /\ KeptRepairable(call[w], host[Machine(c.target)])
    BY <1>2, <1>6, <1>7 DEF CallInv
  <2> QED
    BY <1>6, <2>1 DEF KeptSound, KeptRepairable, OnRepairable, Past
<1>8. CallInv(w, c, host, backends)
  BY <1>2, <1>3, <1>5, <1>6, <1>7 DEF CallInv, Past
<1> QED
  BY <1>4, <1>6, <1>8, OwnStepKeeps

\* A map that only grew serves the calls as before.
LEMMA GrownKeeps ==
  ASSUME NEW v \in Callers, NEW d, NEW hs, NEW bs, NEW bs2, CallInv(v, d, hs, bs),
         \A t \in DOMAIN bs : t \in DOMAIN bs2 /\ bs2[t] = bs[t]
  PROVE  CallInv(v, d, hs, bs2)
BY DEF CallInv

\* The first backend for a target is kept, and a later call takes that one.
LEMMA InsertKeeps ==
  ASSUME IInv, NEW w \in Callers, Insert(w)
  PROVE  IInv'
<1> DEFINE d == call[w]
           t == call[w].target
           kept == IF t \in DOMAIN backends THEN backends[t] ELSE call[w].backend
           c == [d EXCEPT !.backend = kept, !.at = FirstCheck(d)]
<1>1. d # NotYet /\ d.at = "insert"
  BY DEF Insert, NotYet
<1>2. d \in CallRecords /\ CallInv(w, d, host, backends) /\ t \in Targets /\ d.backend \in BackendRecords
  BY <1>1, CallFacts DEF CallInv
<1>3. backends' = [u \in DOMAIN backends \union {t} |-> IF u = t THEN kept ELSE backends[u]]
  BY DEF Insert
<1>4. call' = [call EXCEPT ![w] = c] /\ UNCHANGED <<host, changes>>
  BY DEF Insert, With, Goes
<1>5. kept \in BackendRecords /\ (t \notin DOMAIN backends => kept.by = w)
  BY <1>1, <1>2 DEF CallInv, IInv, BackendsInv
<1>6. \A u \in DOMAIN backends : u \in DOMAIN backends' /\ backends'[u] = backends[u]
  BY <1>3
<1>7. t \in DOMAIN backends' /\ kept = backends'[t] /\ DOMAIN backends' = DOMAIN backends \union {t}
  BY <1>3
<1>8. BackendsInv(backends')
  BY <1>2, <1>5, <1>6, <1>7 DEF BackendsInv, IInv
<1> HIDE DEF kept
<1>9. CallInv(w, c, host, backends')
  <2>1. CallInv(w, d, host, backends')
    BY <1>2, <1>6, GrownKeeps
  <2> QED
    BY <1>1, <1>5, <1>7, <2>1, WithKeeps
<1>10. c \in CallRecords /\ c # NotYet
  BY <1>9, RecordsAreCalls DEF CallInv
<1>11. c.target = t
  BY <1>2 DEF CallRecords
<1> HIDE DEF c
<1>12. call' \in [Callers -> {NotYet} \union CallRecords]
  BY <1>4, <1>10 DEF IInv
<1>13. MadeFor(backends', call')
  <2> SUFFICES ASSUME NEW u \in DOMAIN backends' \ {Local}
               PROVE  /\ backends'[u].by \in Callers
                      /\ call'[backends'[u].by] # NotYet
                      /\ call'[backends'[u].by].target = u
    BY DEF MadeFor
  <2>1. CASE u \in DOMAIN backends
    <3>1. backends'[u] = backends[u]
      BY <1>6, <2>1
    <3>2. /\ backends[u].by \in Callers
          /\ call[backends[u].by] # NotYet
          /\ call[backends[u].by].target = u
      BY <2>1 DEF IInv, MadeFor
    <3> QED
      BY <1>4, <1>10, <1>11, <3>1, <3>2 DEF IInv
  <2>2. CASE u \notin DOMAIN backends
    <3>1. u = t /\ backends'[u].by = w
      BY <1>5, <1>7, <2>2
    <3> QED
      BY <1>4, <1>10, <1>11, <3>1 DEF IInv
  <2> QED
    BY <2>1, <2>2
<1>14. ASSUME NEW v \in Callers, call'[v] # NotYet
       PROVE  CallInv(v, call'[v], host', backends')
  <2>1. CASE v = w
    BY <1>4, <1>9, <2>1 DEF IInv
  <2>2. CASE v # w
    <3>1. call'[v] = call[v] /\ CallInv(v, call[v], host, backends)
      BY <1>4, <1>14, <2>2 DEF IInv
    <3>2. CallInv(v, call[v], host, backends')
      BY <1>6, <3>1, GrownKeeps
    <3> QED
      BY <1>4, <3>1, <3>2
  <2> QED
    BY <2>1, <2>2
<1> QED
  BY <1>4, <1>8, <1>12, <1>13, <1>14 DEF IInv

\* A step of a call that has its backend keeps the invariant if it keeps what is
\* known of the call's host.
LEMMA MoveKeeps ==
  ASSUME IInv, NEW w \in Callers, call[w] # NotYet, Past(call[w]),
         NEW c \in CallRecords, SameCall(call[w], c),
         c.at \notin {"lookup", "create", "insert"}, c.code # "HANDLE_NOT_FOUND",
         c.at = "done" <=> c.code # "none", c.at = "reconcile" => c.unresolved,
         Alone(call[w]) => KeptSound(c, HostOf(w)) /\ KeptRepairable(c, HostOf(w)),
         call' = [call EXCEPT ![w] = c], UNCHANGED <<host, changes, backends>>
  PROVE  IInv'
<1>1. CallInv(w, call[w], host, backends)
  BY CallFacts
<1>2. c.target = call[w].target /\ c.before = call[w].before
  BY DEF SameCall
<1>3. CallInv(w, c, host, backends)
  BY <1>1, <1>2, MoveKept DEF HostOf
<1> QED
  BY <1>2, <1>3, OwnStepKeeps

\* A call that is neither new nor done has its backend, and its host is as known.
LEMMA RunningFacts ==
  ASSUME IInv, NEW w \in Callers, call[w] # NotYet,
         call[w].at \in Stages \ {"lookup", "create", "insert", "done"}
  PROVE  /\ Past(call[w]) /\ call[w].code = "none"
         /\ call[w] \in CallRecords /\ call[w].target \in Targets /\ HostOf(w) \in Hosts
         /\ call[w].at = "reconcile" => call[w].unresolved
         /\ Alone(call[w]) =>
              KeptSound(call[w], HostOf(w)) /\ KeptRepairable(call[w], HostOf(w))
BY CallFacts DEF CallInv, Past

\* A call that goes to a stage, and one that ends with a code.
LEMMA GoesTo ==
  ASSUME IInv, NEW w \in Callers, call[w] # NotYet,
         call[w].at \in Stages \ {"lookup", "create", "insert", "done"},
         NEW s \in Stages \ {"lookup", "create", "insert", "done"}, At(w, s),
         s = "reconcile" => call[w].unresolved,
         \A c \in CallRecords :
           SameCall(call[w], c) /\ c.at = s /\ c.code = "none" /\ Alone(c) =>
             KeptSound(c, HostOf(w)) /\ KeptRepairable(c, HostOf(w)),
         UNCHANGED <<host, changes, backends>>
  PROVE  IInv'
<1> DEFINE c == [call[w] EXCEPT !.at = s]
<1>1. Past(call[w]) /\ call[w].code = "none" /\ call[w] \in CallRecords
  BY RunningFacts
<1>2. c \in CallRecords /\ SameCall(call[w], c) /\ c.at = s /\ c.code = "none"
  BY <1>1 DEF CallRecords, SameCall
<1>3. call' = [call EXCEPT ![w] = c]
  BY DEF At, Goes
<1> HIDE DEF c
<1>4. Alone(call[w]) => KeptSound(c, HostOf(w)) /\ KeptRepairable(c, HostOf(w))
  BY <1>2 DEF SameCall
<1>5. c.at = "reconcile" => c.unresolved
  BY <1>2 DEF SameCall
<1> QED
  BY <1>1, <1>2, <1>3, <1>4, <1>5, MoveKeeps

\* A call that ends, with its answer or with a refusal.
LEMMA EndsWith ==
  ASSUME IInv, NEW w \in Callers, call[w] # NotYet,
         call[w].at \in Stages \ {"lookup", "create", "insert", "done"},
         NEW k \in Codes \ {"none", "HANDLE_NOT_FOUND"}, Ends(w, k),
         \A c \in CallRecords :
           SameCall(call[w], c) /\ c.at = "done" /\ c.code = k /\ Alone(c) =>
             KeptSound(c, HostOf(w)) /\ KeptRepairable(c, HostOf(w)),
         UNCHANGED <<host, changes, backends>>
  PROVE  IInv'
<1> DEFINE c == [call[w] EXCEPT !.at = "done", !.code = k]
<1>1. Past(call[w]) /\ call[w] \in CallRecords
  BY RunningFacts
<1>2. c \in CallRecords /\ SameCall(call[w], c) /\ c.at = "done" /\ c.code = k
  BY <1>1 DEF CallRecords, SameCall, Stages
<1>3. call' = [call EXCEPT ![w] = c]
  BY DEF Ends, Goes
<1> HIDE DEF c
<1>4. Alone(call[w]) => KeptSound(c, HostOf(w)) /\ KeptRepairable(c, HostOf(w))
  BY <1>2 DEF SameCall
<1>5. c.at = "reconcile" => c.unresolved
  BY <1>2 DEF SameCall
<1> QED
  BY <1>1, <1>2, <1>3, <1>4, <1>5, MoveKeeps

\* The check that the binary of the backend runs.
LEMMA AvailableKeeps ==
  ASSUME IInv, NEW w \in Callers, Available(w)
  PROVE  IInv'
<1> DEFINE d == call[w]
           h == HostOf(w)
<1>1. d # NotYet /\ d.at = "available" /\ UNCHANGED <<host, changes, backends>>
  BY DEF Available, NotYet
<1>2. /\ Past(d) /\ d.code = "none" /\ d.at \in Stages \ {"lookup", "create", "insert", "done"}
      /\ Alone(d) => KeptSound(d, h) /\ KeptRepairable(d, h)
  BY <1>1, RunningFacts DEF Stages
<1>3. CASE ~Runs(d.backend.bin, h)
  <2>1. Ends(w, "ZJCTL_UNAVAILABLE")
    BY <1>3 DEF Available
  <2>2. ASSUME NEW c \in CallRecords, SameCall(d, c), c.at = "done", c.code = "ZJCTL_UNAVAILABLE",
               Alone(c)
        PROVE  KeptSound(c, h) /\ KeptRepairable(c, h)
    <3>1. KeptSound(d, h) /\ KeptRepairable(d, h)
      BY <1>2, <2>2 DEF SameCall
    <3> HIDE DEF d, h
    <3>2. KeptSound(c, h)
      BY <1>3, <2>2, <3>1 DEF KeptSound, SameCall
    <3>3. KeptRepairable(c, h)
      BY <1>1, <1>3, <2>2, <3>1 DEF KeptRepairable, OnRepairable, Helped, Repairing, Runs, SameCall
    <3> QED
      BY <3>2, <3>3
  <2> QED
    BY <1>1, <1>2, <2>1, <2>2, EndsWith DEF Codes
<1>4. CASE Runs(d.backend.bin, h)
  <2> DEFINE s == IF d.op = "look" THEN "act" ELSE IF d.unresolved THEN "reconcile" ELSE "ready"
  <2>1. At(w, s)
    BY <1>4 DEF Available
  <2>2. ASSUME NEW c \in CallRecords, SameCall(d, c), c.at = s, c.code = "none", Alone(c)
        PROVE  KeptSound(c, h) /\ KeptRepairable(c, h)
    <3>1. KeptSound(d, h) /\ KeptRepairable(d, h)
      BY <1>2, <2>2 DEF SameCall
    <3> HIDE DEF d, h
    <3>2. KeptSound(c, h)
      BY <1>2, <2>2, <3>1 DEF KeptSound, SameCall
    <3>3. KeptRepairable(c, h)
      BY <1>1, <2>2, <3>1 DEF KeptRepairable, OnRepairable, Helped, Repaired, SameCall
    <3> QED
      BY <3>2, <3>3
  <2>3. s \in Stages \ {"lookup", "create", "insert", "done"} /\ (s = "reconcile" => d.unresolved)
    BY DEF Stages
  <2> HIDE DEF s
  <2> QED
    BY <1>1, <1>2, <2>1, <2>2, <2>3, GoesTo
<1> QED
  BY <1>3, <1>4

\* What a check or a listing must tell: of a sound host that it is ready, unless the
\* binary is wrong, and of one to be repaired whether it is.
Tells(c, h, e) ==
  /\ Sound(c.before) =>
       \/ e = "Ready"
       \/ ~Runs(c.backend.bin, h) /\ CodeOf(e) \in {"ZJCTL_UNAVAILABLE", "FAILED"}
  /\ Helped(c) =>
       /\ e = "Ready" => h.helper = "attached" /\ h.plugin = "running"
       /\ e # "Ready" => CodeOf(e) = "PLUGIN_NOT_READY" /\ (c.early \/ h.plugin = "asks")

\* The verdict of a check or of a listing settles the call, or lets it act.  (b is
\* the call's record, but that the retry may have marked it early.)
LEMMA JudgedKeeps ==
  ASSUME IInv, NEW w \in Callers, call[w] # NotYet,
         call[w].at \in Stages \ {"lookup", "create", "insert", "done"},
         NEW b \in CallRecords, SameCall(call[w], b), b.code = "none",
         NEW e,
         \/ call' = [call EXCEPT ![w] = Judged(b, e)]
         \/ call' = [call EXCEPT ![w] = [b EXCEPT !.at = "done",
                                                  !.code = IF e = "Ready" THEN "ok" ELSE CodeOf(e)]],
         KeptSound(call[w], HostOf(w)) /\ KeptRepairable(call[w], HostOf(w)) => Tells(b, HostOf(w), e),
         UNCHANGED <<host, changes, backends>>
  PROVE  IInv'
<1> DEFINE d == call[w]
           h == HostOf(w)
<1>1. /\ Past(d) /\ d.code = "none"
      /\ Alone(d) => KeptSound(d, h) /\ KeptRepairable(d, h)
  BY RunningFacts
<1>2. ASSUME NEW c \in CallRecords, SameCall(b, c), c.early = b.early,
             \/ c.at = "act" /\ c.code = "none" /\ e = "Ready"
             \/ c.at = "done" /\ c.code = "ok" /\ e = "Ready"
             \/ c.at = "done" /\ c.code = CodeOf(e) /\ e # "Ready",
             call' = [call EXCEPT ![w] = c]
      PROVE  IInv'
  <2>1. SameCall(d, c)
    BY <1>2 DEF SameCall
  <2>2. c.code # "HANDLE_NOT_FOUND" /\ (c.at = "done" <=> c.code # "none")
    BY <1>2, CodesOfErrors
  <2>3. ASSUME Alone(d)
        PROVE  KeptSound(c, h) /\ KeptRepairable(c, h)
    <3>1. KeptSound(d, h) /\ KeptRepairable(d, h) /\ Tells(b, h, e)
      BY <1>1, <2>3
    <3> HIDE DEF d, h
    <3>2. KeptSound(c, h)
      BY <1>2, <2>1, <3>1 DEF KeptSound, Tells, SameCall
    <3>3. KeptRepairable(c, h)
      BY <1>2, <2>1, <3>1 DEF KeptRepairable, OnRepairable, Helped, Repaired, Tells, SameCall
    <3> QED
      BY <3>2, <3>3
  <2> QED
    BY <1>1, <1>2, <2>1, <2>2, <2>3, MoveKeeps
<1>3. CASE e = "Ready" /\ call' = [call EXCEPT ![w] = Judged(b, e)]
  <2> DEFINE c == [b EXCEPT !.at = "act"]
  <2>1. c \in CallRecords /\ SameCall(b, c) /\ c.early = b.early /\ c.at = "act" /\ c.code = "none"
    BY DEF CallRecords, SameCall, Stages
  <2>2. call' = [call EXCEPT ![w] = c]
    BY <1>3 DEF Judged
  <2> HIDE DEF c
  <2> QED
    BY <1>2, <1>3, <2>1, <2>2
<1>4. CASE ~(e = "Ready" /\ call' = [call EXCEPT ![w] = Judged(b, e)])
  <2> DEFINE k == IF e = "Ready" THEN "ok" ELSE CodeOf(e)
             c == [b EXCEPT !.at = "done", !.code = k]
  <2>1. k \in Codes
    BY CodesOfErrors DEF Codes
  <2>2. call' = [call EXCEPT ![w] = c]
    BY <1>4 DEF Judged
  <2> HIDE DEF k
  <2>3. c \in CallRecords /\ SameCall(b, c) /\ c.early = b.early /\ c.at = "done" /\ c.code = k
    BY <2>1 DEF CallRecords, SameCall, Stages
  <2> HIDE DEF c
  <2> QED
    BY <1>2, <2>2, <2>3 DEF k
<1> QED
  BY <1>3, <1>4

\* What the plugin of a host under repair can say.
LEMMA RepairingSays ==
  ASSUME NEW b, NEW h \in Hosts, Repairing(b, h)
  PROVE  \/ PluginSays(h) = "Ready" /\ h.helper = "attached" /\ h.plugin = "running"
         \/ PluginSays(h) = "PluginPermissionPrompt" /\ h.plugin = "asks"
         \/ /\ PluginSays(h) \in AutoFixable /\ CodeOf(PluginSays(h)) = "PLUGIN_NOT_READY"
            /\ h.helper # "attached" \/ h.plugin \in {"stopped", "loading"}
BY DEF Repairing, PluginSays, AutoFixable, CodeOf

\* The handles a list looks at.
LEMMA SurveyKeeps ==
  ASSUME IInv, NEW w \in Callers, Survey(w)
  PROVE  IInv'
<1> DEFINE d == call[w]
           h == HostOf(w)
<1>1. d.at = "survey" /\ UNCHANGED <<host, changes, backends>> /\ (Ends(w, "ok") \/ At(w, "ready"))
  BY DEF Survey
<1>2. d # NotYet
  BY <1>1 DEF NotYet
<1>3. /\ Past(d) /\ d.code = "none" /\ d.at \in Stages \ {"lookup", "create", "insert", "done"}
      /\ Alone(d) => KeptSound(d, h) /\ KeptRepairable(d, h)
  BY <1>1, <1>2, RunningFacts DEF Stages
<1>4. ASSUME NEW c \in CallRecords, SameCall(d, c), Alone(c),
             (c.at = "ready" /\ c.code = "none") \/ (c.at = "done" /\ c.code = "ok")
      PROVE  KeptSound(c, h) /\ KeptRepairable(c, h)
  <2>1. KeptSound(d, h) /\ KeptRepairable(d, h)
    BY <1>3, <1>4 DEF SameCall
  <2> HIDE DEF d, h
  <2>2. KeptSound(c, h)
    BY <1>4, <2>1 DEF KeptSound, SameCall
  <2>3. KeptRepairable(c, h)
    BY <1>4, <2>1 DEF KeptRepairable, OnRepairable, Repaired, SameCall
  <2> QED
    BY <2>2, <2>3
<1>5. "ready" \in Stages \ {"lookup", "create", "insert", "done"} /\ "ok" \in Codes \ {"none", "HANDLE_NOT_FOUND"}
  BY DEF Stages, Codes
<1> QED
  BY <1>1, <1>2, <1>3, <1>4, <1>5, GoesTo, EndsWith

\* A call that looks for the pane of its handle finds it, or acts as it is.
LEMMA ReconcileKeeps ==
  ASSUME IInv, NEW w \in Callers, Reconcile(w)
  PROVE  IInv'
<1> DEFINE d == call[w]
           h == HostOf(w)
           bin == d.backend.bin
<1>1. d.at = "reconcile" /\ UNCHANGED <<host, changes, backends>>
  BY DEF Reconcile
<1>2. d # NotYet
  BY <1>1 DEF NotYet
<1>3. /\ Past(d) /\ d.code = "none" /\ d.at \in Stages \ {"lookup", "create", "insert", "done"}
      /\ d \in CallRecords /\ d.target \in Targets /\ h \in Hosts /\ d.unresolved
      /\ Alone(d) => KeptSound(d, h) /\ KeptRepairable(d, h)
  BY <1>1, <1>2, RunningFacts DEF Stages
<1>4. PICK e \in Meets(d.target, bin, h) :
        \/ e = "Ready" /\ Goes(w, [d EXCEPT !.at = "ready", !.unresolved = FALSE])
        \/ Goes(w, Judged(d, e))
  BY DEF Reconcile
<1>5. CASE Goes(w, [d EXCEPT !.at = "ready", !.unresolved = FALSE])
  <2> DEFINE c == [d EXCEPT !.at = "ready", !.unresolved = FALSE]
  <2>1. /\ c \in CallRecords /\ c.at = "ready" /\ c.code = "none" /\ ~c.unresolved
        /\ c.op = d.op /\ c.target = d.target /\ c.backend = d.backend /\ c.before = d.before
    BY <1>3 DEF CallRecords, Stages
  <2>2. call' = [call EXCEPT ![w] = c]
    BY <1>5 DEF Goes
  <2> HIDE DEF c
  <2>3. ASSUME Alone(c)
        PROVE  KeptSound(c, h) /\ KeptRepairable(c, h)
    <3>1. KeptSound(d, h) /\ KeptRepairable(d, h)
      BY <1>3, <2>1, <2>3
    <3> HIDE DEF d, h
    <3>2. KeptSound(c, h)
      BY <1>3, <2>1, <3>1 DEF KeptSound, Past
    <3>3. KeptRepairable(c, h)
      BY <2>1, <3>1 DEF KeptRepairable, OnRepairable, Repaired
    <3> QED
      BY <3>2, <3>3
  <2>4. CallInv(w, d, host, backends)
    BY <1>2, CallFacts
  <2>5. CallInv(w, c, host, backends)
    BY <1>3, <2>1, <2>3, <2>4 DEF CallInv, Past, HostOf
  <2> QED
    BY <1>1, <2>1, <2>2, <2>5, OwnStepKeeps
<1>6. CASE Goes(w, Judged(d, e))
  <2>1. SameCall(d, d)
    BY DEF SameCall
  <2>2. KeptSound(d, h) /\ KeptRepairable(d, h) => Tells(d, h, e)
    BY <1>3, <1>4, SoundMeets DEF Tells, KeptSound, Helped
  <2> QED
    BY <1>1, <1>2, <1>3, <1>6, <2>1, <2>2, JudgedKeeps DEF Goes
<1> QED
  BY <1>4, <1>5, <1>6

\* The first verdict: ready, refused, or a remedy is tried.
LEMMA CheckKeeps ==
  ASSUME IInv, NEW w \in Callers, Check(w)
  PROVE  IInv'
<1> DEFINE d == call[w]
           h == HostOf(w)
           bin == d.backend.bin
<1>1. d # NotYet /\ d.at = "ready" /\ UNCHANGED <<host, changes, backends>>
  <2>1. d.at = "ready" /\ UNCHANGED <<host, changes, backends>>
    BY Zenon DEF Check
  <2> QED
    BY <2>1 DEF NotYet
<1>2. /\ Past(d) /\ d.code = "none" /\ d.at \in Stages \ {"lookup", "create", "insert", "done"}
      /\ d \in CallRecords /\ d.target \in Targets /\ h \in Hosts
      /\ Alone(d) => KeptSound(d, h) /\ KeptRepairable(d, h)
  BY <1>1, RunningFacts DEF Stages
<1>3. SameCall(d, d)
  BY DEF SameCall
<1>4. ASSUME d.target = Local, NEW e \in Meets(Local, bin, h), Goes(w, Judged(d, e))
      PROVE  IInv'
  <2>1. KeptSound(d, h) => Tells(d, h, e)
    BY <1>2, <1>4, SoundMeets DEF Tells, KeptSound, Helped, OnRepairable
  <2> HIDE DEF h, bin
  <2> QED
    BY <1>1, <1>2, <1>3, <1>4, <2>1, JudgedKeeps DEF Goes, h, bin
<1>5. ASSUME d.target # Local, NEW v \in Verdicts(d.target, bin, h), v \in AutoFixable,
             Goes(w, [d EXCEPT !.at = "helper", !.first = v])
      PROVE  IInv'
  <2> DEFINE c == [d EXCEPT !.at = "helper", !.first = v]
  <2>1. c \in CallRecords /\ SameCall(d, c) /\ c.at = "helper" /\ c.code = "none"
    BY <1>2, <1>5 DEF CallRecords, SameCall, Stages
  <2>2. call' = [call EXCEPT ![w] = c]
    BY <1>5 DEF Goes
  <2> HIDE DEF c
  <2>3. ~Sound(h)
    BY <1>2, <1>5, SoundVerdicts DEF AutoFixable
  <2>4. ASSUME Alone(d)
        PROVE  KeptSound(c, h) /\ KeptRepairable(c, h)
    <3>1. KeptSound(d, h) /\ KeptRepairable(d, h)
      BY <1>2, <2>4
    <3> HIDE DEF d, h, bin
    <3>2. KeptSound(c, h)
      BY <2>1, <2>3, <3>1 DEF KeptSound, SameCall
    <3>3. KeptRepairable(c, h)
      BY <2>1, <3>1 DEF KeptRepairable, OnRepairable, Repaired, SameCall
    <3> QED
      BY <3>2, <3>3
  <2> QED
    BY <1>1, <1>2, <2>1, <2>2, <2>4, MoveKeeps
<1>6. ASSUME d.target # Local, NEW v \in Verdicts(d.target, bin, h), v \notin AutoFixable,
             Goes(w, Judged(d, v))
      PROVE  IInv'
  <2>1. KeptSound(d, h) /\ Sound(d.before) =>
          \/ v = "Ready"
          \/ ~Runs(bin, h) /\ CodeOf(v) \in {"ZJCTL_UNAVAILABLE", "FAILED"}
    BY <1>2, <1>6, SoundVerdicts DEF KeptSound
  <2>2. ASSUME KeptRepairable(d, h), Helped(d)
        PROVE  /\ v = "Ready" => h.helper = "attached" /\ h.plugin = "running"
               /\ v # "Ready" => CodeOf(v) = "PLUGIN_NOT_READY" /\ h.plugin = "asks"
    <3>1. Repairing(d.before, h) /\ Runs(bin, d.before)
      BY <2>2 DEF KeptRepairable, Helped
    <3>2. Runs(bin, h)
      BY <3>1 DEF Repairing, Runs
    <3>3. v = PluginSays(h)
      BY <1>2, <1>6, <3>2, RunsTells
    <3> QED
      BY <1>2, <1>6, <3>1, <3>3, RepairingSays DEF CodeOf
  <2>3. KeptSound(d, h) /\ KeptRepairable(d, h) => Tells(d, h, v)
    BY <2>1, <2>2 DEF Tells
  <2> QED
    BY <1>1, <1>2, <1>3, <1>6, <2>3, JudgedKeeps DEF Goes
<1> QED
  BY <1>4, <1>5, <1>6 DEF Check

\* The second verdict, which is the last.
LEMMA RecheckKeeps ==
  ASSUME IInv, NEW w \in Callers, Recheck(w)
  PROVE  IInv'
<1> DEFINE d == call[w]
           h == HostOf(w)
           bin == d.backend.bin
           b == [d EXCEPT !.early = OnItsWay(h)]
<1>1. d.at = "recheck" /\ UNCHANGED <<host, changes, backends>>
  BY DEF Recheck
<1>2. d # NotYet
  BY <1>1 DEF NotYet
<1>3. /\ Past(d) /\ d.code = "none" /\ d.at \in Stages \ {"lookup", "create", "insert", "done"}
      /\ d \in CallRecords /\ d.target \in Targets /\ h \in Hosts
  BY <1>1, <1>2, RunningFacts DEF Stages
<1>4. PICK v \in Verdicts(b.target, b.backend.bin, h) : Goes(w, Judged(b, v))
  BY DEF Recheck
<1>5. /\ b \in CallRecords /\ SameCall(d, b) /\ b.code = "none"
      /\ b.early <=> OnItsWay(h)
  BY <1>3 DEF CallRecords, SameCall, OnItsWay
<1> HIDE DEF b
<1>6. ASSUME KeptRepairable(d, h), Helped(b)
      PROVE  /\ v = "Ready" => h.helper = "attached" /\ h.plugin = "running"
             /\ v # "Ready" => CodeOf(v) = "PLUGIN_NOT_READY" /\ (b.early \/ h.plugin = "asks")
  <2>1. Helped(d) /\ d.target # Local /\ Runs(bin, d.before)
    BY <1>5, <1>6 DEF Helped, OnRepairable, SameCall
  <2>2. /\ Repairing(d.before, h)
        /\ h.helper # "none" /\ h.plugin \in {"loading", "running", "asks"}
    BY <1>1, <1>3, <1>6, <2>1 DEF KeptRepairable, Helped, Repaired
  <2>3. Runs(bin, h)
    BY <2>1, <2>2 DEF Repairing, Runs
  <2>4. v = PluginSays(h)
    BY <1>3, <1>4, <1>5, <2>1, <2>3, RunsTells DEF SameCall
  <2>5. h.helper # "attached" => h.helper = "coming"
    BY <1>3, <2>2 DEF Hosts
  <2> QED
    BY <1>3, <1>5, <2>2, <2>4, <2>5, RepairingSays DEF CodeOf, OnItsWay, AutoFixable
<1>7. KeptSound(d, h) => ~Sound(b.before)
  BY <1>1, <1>5 DEF KeptSound, SameCall
<1>8. KeptSound(d, h) /\ KeptRepairable(d, h) => Tells(b, h, v)
  BY <1>6, <1>7 DEF Tells
<1> QED
  BY <1>1, <1>2, <1>3, <1>4, <1>5, <1>8, JudgedKeeps DEF Goes

\* The operation itself.
LEMMA ActKeeps ==
  ASSUME IInv, NEW w \in Callers, Act(w)
  PROVE  IInv'
<1> DEFINE d == call[w]
           h == HostOf(w)
           bin == d.backend.bin
<1>1. d.at = "act" /\ UNCHANGED <<host, changes, backends>>
  BY DEF Act
<1>2. d # NotYet
  BY <1>1 DEF NotYet
<1>3. /\ Past(d) /\ d.code = "none" /\ d.at \in Stages \ {"lookup", "create", "insert", "done"}
      /\ d \in CallRecords /\ d.target \in Targets /\ h \in Hosts
  BY <1>1, <1>2, RunningFacts DEF Stages
<1>4. PICK e \in Meets(d.target, bin, h) : Ends(w, IF e = "Ready" THEN "ok" ELSE CodeOf(e))
  BY DEF Act
<1>5. ASSUME KeptRepairable(d, h), Helped(d)
      PROVE  e = "Ready" /\ h.helper = "attached" /\ h.plugin = "running"
  <2>1. /\ Repairing(d.before, h) /\ h.helper = "attached" /\ h.plugin = "running"
        /\ d.target # Local /\ Runs(bin, d.before)
    BY <1>1, <1>3, <1>5 DEF KeptRepairable, Helped, OnRepairable, Repaired
  <2>2. Runs(bin, h)
    BY <2>1 DEF Repairing, Runs
  <2>3. e = PluginSays(h)
    BY <1>3, <1>4, <2>1, <2>2, RunsTells
  <2> QED
    BY <1>3, <2>1, <2>3, RepairingSays
<1>6. KeptSound(d, h) /\ Sound(d.before) =>
        \/ e = "Ready"
        \/ ~Runs(bin, h) /\ CodeOf(e) \in {"ZJCTL_UNAVAILABLE", "FAILED"}
  BY <1>3, <1>4, SoundMeets DEF KeptSound
<1>7. KeptSound(d, h) /\ KeptRepairable(d, h) => Tells(d, h, e)
  BY <1>5, <1>6 DEF Tells
<1>8. SameCall(d, d)
  BY DEF SameCall
<1> QED
  BY <1>1, <1>2, <1>3, <1>4, <1>7, <1>8, JudgedKeeps DEF Ends, Goes

\* A remedy of a host keeps the invariant if it leaves the host known.
LEMMA RemedyKeeps ==
  ASSUME IInv, NEW w \in Callers, call[w] # NotYet, Past(call[w]),
         NEW h \in Hosts, NEW c \in CallRecords, SameCall(call[w], c),
         c.at \in {"launch", "recheck"}, c.code = "none",
         Alone(c) => KeptSound(c, h) /\ KeptRepairable(c, h),
         Becomes(w, h, c), UNCHANGED <<changes, backends>>
  PROVE  IInv'
<1> DEFINE m == Machine(call[w].target)
           hs == [host EXCEPT ![m] = h]
<1>1. CallInv(w, call[w], host, backends) /\ m \in Machines
  BY CallFacts
<1>2. c.target = call[w].target
  BY DEF SameCall
<1>3. hs[Machine(c.target)] = h
  BY <1>1, <1>2 DEF IInv
<1> HIDE DEF hs
<1>4. CallInv(w, c, hs, backends)
  BY <1>1, <1>3, MoveKept
<1> QED
  BY <1>2, <1>4, BecomesKeeps DEF hs

\* The first remedy: a client for the session.
LEMMA StartHelperKeeps ==
  ASSUME IInv, NEW w \in Callers, StartHelperClient(w)
  PROVE  IInv'
<1> DEFINE d == call[w]
           h == HostOf(w)
<1>1. d.at = "helper" /\ UNCHANGED <<changes, backends>>
  BY DEF StartHelperClient
<1>2. d # NotYet
  BY <1>1 DEF NotYet
<1>3. /\ Past(d) /\ d.at \in Stages \ {"lookup", "create", "insert", "done"} /\ d.code = "none"
      /\ d \in CallRecords /\ h \in Hosts
      /\ Alone(d) => KeptSound(d, h) /\ KeptRepairable(d, h)
  BY <1>1, <1>2, RunningFacts DEF Stages
<1>4. Alone(d) => ~Sound(d.before)
  BY <1>1, <1>3 DEF KeptSound
<1>5. Alone(d) /\ OnRepairable(d) => Repairing(d.before, h)
  BY <1>3 DEF KeptRepairable
<1>6. CASE CanRun(w) /\ h.tmux
  <2> DEFINE g == [h EXCEPT !.helper = IF @ = "none" THEN "coming" ELSE @]
             c == [d EXCEPT !.at = "launch", !.helped = @ \union {"helper"}]
  <2>1. Becomes(w, g, c)
    BY <1>6 DEF StartHelperClient
  <2>2. /\ g \in Hosts /\ g.helper # "none" /\ g.up = h.up /\ g.zellij = h.zellij
        /\ g.plugin = h.plugin
    BY <1>3 DEF Hosts
  <2>3. c \in CallRecords /\ SameCall(d, c) /\ c.at = "launch" /\ c.code = "none"
    BY <1>3 DEF CallRecords, SameCall, Stages
  <2> HIDE DEF c, g
  <2>4. ASSUME Alone(c)
        PROVE  KeptSound(c, g) /\ KeptRepairable(c, g)
    <3>1. KeptSound(c, g)
      BY <1>4, <2>3, <2>4 DEF KeptSound, SameCall
    <3>2. KeptRepairable(c, g)
      BY <1>5, <2>2, <2>3, <2>4
         DEF KeptRepairable, OnRepairable, Repairing, Repaired, SameCall
    <3> QED
      BY <3>1, <3>2
  <2> QED
    BY <1>1, <1>2, <1>3, <2>1, <2>2, <2>3, <2>4, RemedyKeeps
<1>7. CASE ~(CanRun(w) /\ h.tmux)
  <2>1. At(w, "launch") /\ UNCHANGED host
    BY <1>7 DEF StartHelperClient
  <2>2. ASSUME NEW c \in CallRecords, SameCall(d, c), c.at = "launch", c.code = "none", Alone(c)
        PROVE  KeptSound(c, h) /\ KeptRepairable(c, h)
    <3>1. KeptSound(c, h)
      BY <1>4, <2>2 DEF KeptSound, SameCall
    <3>2. OnRepairable(c) => Repairing(c.before, h)
      BY <1>5, <2>2 DEF OnRepairable, SameCall
    <3>3. KeptRepairable(c, h)
      <4> SUFFICES ASSUME Helped(c) PROVE h.helper # "none"
        BY <2>2, <3>2 DEF KeptRepairable, Repaired
      <4>1. Repairing(c.before, h) /\ Runs(c.backend.bin, c.before)
        BY <3>2 DEF Helped
      <4>2. CanRun(w)
        BY <2>2, <4>1 DEF Repairing, Runs, CanRun, Findable, SameCall
      <4> QED
        BY <1>7, <4>1, <4>2 DEF Repairing
    <3> QED
      BY <3>1, <3>3
  <2>3. "launch" \in Stages \ {"lookup", "create", "insert", "done"}
    BY DEF Stages
  <2> QED
    BY <1>1, <1>2, <1>3, <2>1, <2>2, <2>3, GoesTo
<1> QED
  BY <1>6, <1>7

\* The second remedy: the plugin.
LEMMA LaunchKeeps ==
  ASSUME IInv, NEW w \in Callers, LaunchZrpcPlugin(w)
  PROVE  IInv'
<1> DEFINE d == call[w]
           h == HostOf(w)
<1>1. d.at = "launch" /\ UNCHANGED <<changes, backends>>
  BY DEF LaunchZrpcPlugin
<1>2. d # NotYet
  BY <1>1 DEF NotYet
<1>3. /\ Past(d) /\ d.at \in Stages \ {"lookup", "create", "insert", "done"} /\ d.code = "none"
      /\ d \in CallRecords /\ h \in Hosts
      /\ Alone(d) => KeptSound(d, h) /\ KeptRepairable(d, h)
  BY <1>1, <1>2, RunningFacts DEF Stages
<1>4. Alone(d) => ~Sound(d.before)
  BY <1>1, <1>3 DEF KeptSound
<1>5. Alone(d) =>
        /\ OnRepairable(d) => Repairing(d.before, h)
        /\ Helped(d) => h.helper # "none" /\ CanRun(w)
  BY <1>1, <1>3 DEF KeptRepairable, Helped, Repaired, Repairing, Runs, CanRun, Findable
<1>6. CASE CanRun(w)
  <2> DEFINE p == IF h.plugin = "stopped" THEN "loading" ELSE h.plugin
             g == [h EXCEPT !.plugin = p]
             c == [d EXCEPT !.at = "recheck", !.helped = @ \union {"plugin"}]
  <2>1. Becomes(w, g, c)
    BY <1>6 DEF LaunchZrpcPlugin
  <2>2. /\ g \in Hosts /\ g.helper = h.helper /\ g.up = h.up /\ g.zellij = h.zellij
        /\ g.tmux = h.tmux /\ g.plugin = p
    BY <1>3 DEF Hosts
  <2>3. c \in CallRecords /\ SameCall(d, c) /\ c.at = "recheck" /\ c.code = "none"
    BY <1>3 DEF CallRecords, SameCall, Stages
  <2>4. h.plugin \in {"stopped", "loading", "running", "asks"} => p \in {"loading", "running", "asks"}
    OBVIOUS
  <2> HIDE DEF c, g, p
  <2>5. ASSUME Alone(c)
        PROVE  KeptSound(c, g) /\ KeptRepairable(c, g)
    <3>1. KeptSound(c, g)
      BY <1>4, <2>3, <2>5 DEF KeptSound, SameCall
    <3>2. KeptRepairable(c, g)
      BY <1>5, <2>2, <2>3, <2>4, <2>5
         DEF KeptRepairable, OnRepairable, Helped, Repairing, Repaired, SameCall
    <3> QED
      BY <3>1, <3>2
  <2> QED
    BY <1>1, <1>2, <1>3, <2>1, <2>2, <2>3, <2>5, RemedyKeeps
<1>7. CASE ~CanRun(w) /\ d.helped # {}
  <2>1. At(w, "recheck") /\ UNCHANGED host
    BY <1>7 DEF LaunchZrpcPlugin
  <2>2. ASSUME NEW c \in CallRecords, SameCall(d, c), c.at = "recheck", c.code = "none", Alone(c)
        PROVE  KeptSound(c, h) /\ KeptRepairable(c, h)
    <3>1. KeptSound(c, h)
      BY <1>4, <2>2 DEF KeptSound, SameCall
    <3>2. KeptRepairable(c, h)
      BY <1>5, <1>7, <2>2 DEF KeptRepairable, OnRepairable, Helped, SameCall
    <3> QED
      BY <3>1, <3>2
  <2>3. "recheck" \in Stages \ {"lookup", "create", "insert", "done"}
    BY DEF Stages
  <2> QED
    BY <1>1, <1>2, <1>3, <2>1, <2>2, <2>3, GoesTo
<1>8. CASE ~CanRun(w) /\ d.helped = {}
  <2>1. Ends(w, CodeOf(d.first)) /\ UNCHANGED host
    BY <1>8 DEF LaunchZrpcPlugin
  <2>2. ASSUME NEW c \in CallRecords, SameCall(d, c), c.at = "done", c.code = CodeOf(d.first), Alone(c)
        PROVE  KeptSound(c, h) /\ KeptRepairable(c, h)
    <3>1. KeptSound(c, h)
      BY <1>4, <2>2 DEF KeptSound, SameCall
    <3>2. KeptRepairable(c, h)
      BY <1>5, <1>8, <2>2 DEF KeptRepairable, OnRepairable, Helped, SameCall
    <3> QED
      BY <3>1, <3>2
  <2> QED
    BY <1>1, <1>2, <1>3, <2>1, <2>2, CodesOfErrors, EndsWith
<1> QED
  BY <1>6, <1>7, <1>8

\* A change of a host: its calls notice, and the others are as they were.
LEMMA HostChangesKeeps ==
  ASSUME IInv, HostChanges
  PROVE  IInv'
<1>1. /\ changes' \in 0 .. MaxChanges /\ backends' = backends
  BY ChangesAreBounded DEF HostChanges, IInv
<1>2. PICK m \in Machines, h \in HostStates :
        /\ h # host[m]
        /\ host' = [host EXCEPT ![m] = h]
        /\ call' = [v \in Callers |->
                      IF call[v] # NotYet /\ Machine(call[v].target) = m
                      THEN [call[v] EXCEPT !.before = Touched] ELSE call[v]]
  BY DEF HostChanges
<1>3. h \in Hosts
  BY StatesAreHosts
<1>4. \A v \in Callers :
        /\ call[v] # NotYet => call'[v] = Noticing(v, m, h)
        /\ call[v] = NotYet => call'[v] = NotYet
  BY <1>2 DEF Noticing
<1>5. ASSUME NEW v \in Callers, call[v] # NotYet
      PROVE  /\ CallInv(v, call'[v], host', backends')
             /\ call'[v] \in CallRecords /\ call'[v] # NotYet
             /\ call'[v].target = call[v].target
  <2>1. /\ CallInv(v, Noticing(v, m, h), [host EXCEPT ![m] = h], backends)
        /\ Noticing(v, m, h) \in CallRecords
        /\ Noticing(v, m, h).target = call[v].target
    BY <1>3, <1>5, OthersKeep
  <2> QED
    BY <1>1, <1>2, <1>4, <1>5, <2>1, RecordsAreCalls
<1>6. call' \in [Callers -> {NotYet} \union CallRecords]
  <2>1. DOMAIN call' = Callers /\ call' = [v \in Callers |-> call'[v]]
    BY <1>2
  <2>2. \A v \in Callers : call'[v] \in {NotYet} \union CallRecords
    BY <1>4, <1>5
  <2> QED
    BY <2>1, <2>2
<1>7. MadeFor(backends', call')
  BY <1>1, <1>5 DEF IInv, MadeFor
<1>8. \A v \in Callers : call'[v] # NotYet => CallInv(v, call'[v], host', backends')
  BY <1>4, <1>5
<1>9. host' \in [Machines -> Hosts]
  BY <1>2, <1>3 DEF IInv
<1> QED
  BY <1>1, <1>6, <1>7, <1>8, <1>9 DEF IInv

\* A host on which something settles: what was on its way has come.
Settled(h, g) ==
  /\ g.up = h.up /\ g.zellij = h.zellij /\ g.tmux = h.tmux
  /\ \/ h.helper = "coming" /\ g.helper = "attached" /\ g.plugin = h.plugin
     \/ h.plugin = "loading" /\ g.plugin \in {"running", "asks"} /\ g.helper = h.helper

\* A sound host has nothing on its way, and one under repair comes no further from
\* being repaired.
LEMMA SettlesKeeps ==
  ASSUME IInv, Settles
  PROVE  IInv'
<1>1. UNCHANGED <<changes, backends, call>>
  BY DEF Settles
<1>2. PICK m \in Machines, g \in Hosts : host' = [host EXCEPT ![m] = g] /\ Settled(host[m], g)
  <2>1. PICK m \in Machines :
          \/ host[m].helper = "coming" /\ host' = [host EXCEPT ![m].helper = "attached"]
          \/ /\ host[m].plugin = "loading"
             /\ \E p \in {"running", "asks"} : host' = [host EXCEPT ![m].plugin = p]
    BY DEF Settles
  <2>2. host[m] \in Hosts
    BY DEF IInv
  <2>3. CASE host[m].helper = "coming" /\ host' = [host EXCEPT ![m].helper = "attached"]
    <3> DEFINE g == [host[m] EXCEPT !.helper = "attached"]
    <3>1. g \in Hosts /\ Settled(host[m], g)
      BY <2>2, <2>3 DEF Hosts, Settled
    <3>2. host' = [host EXCEPT ![m] = g]
      BY <2>3
    <3> QED
      BY <3>1, <3>2
  <2>4. ASSUME NEW p \in {"running", "asks"}, host[m].plugin = "loading",
               host' = [host EXCEPT ![m].plugin = p]
        PROVE  \E g \in Hosts : host' = [host EXCEPT ![m] = g] /\ Settled(host[m], g)
    <3> DEFINE g == [host[m] EXCEPT !.plugin = p]
    <3>1. g \in Hosts /\ Settled(host[m], g)
      BY <2>2, <2>4 DEF Hosts, Settled
    <3>2. host' = [host EXCEPT ![m] = g]
      BY <2>4
    <3> QED
      BY <3>1, <3>2
  <2> QED
    BY <2>1, <2>3, <2>4
<1>3. ASSUME NEW c \in CallRecords, KeptSound(c, host[m]), KeptRepairable(c, host[m])
      PROVE  KeptSound(c, g) /\ KeptRepairable(c, g)
  <2>1. ~Sound(c.before)
    BY <1>2, <1>3 DEF KeptSound, Settled, Sound
  <2>2. Repairing(c.before, host[m]) => Repairing(c.before, g)
    BY <1>2 DEF Repairing, Settled
  <2>3. Repaired(c, host[m]) => Repaired(c, g)
    BY <1>2 DEF Repaired, Settled
  <2> QED
    BY <1>3, <2>1, <2>2, <2>3 DEF KeptSound, KeptRepairable
<1>4. ASSUME NEW v \in Callers, call[v] # NotYet
      PROVE  CallInv(v, call[v], host', backends)
  <2>1. /\ CallInv(v, call[v], host, backends) /\ call[v] \in CallRecords
        /\ Machine(call[v].target) \in Machines
    BY <1>4, CallFacts
  <2>2. CASE Machine(call[v].target) = m
    <3>1. host'[Machine(call[v].target)] = g /\ host[Machine(call[v].target)] = host[m]
      BY <1>2, <2>2 DEF IInv
    <3> QED
      BY <1>3, <2>1, <3>1 DEF CallInv
  <2>3. CASE Machine(call[v].target) # m
    <3>1. host'[Machine(call[v].target)] = host[Machine(call[v].target)]
      BY <1>2, <2>1, <2>3 DEF IInv
    <3> QED
      BY <2>1, <3>1 DEF CallInv
  <2> QED
    BY <2>2, <2>3
<1>5. host' \in [Machines -> Hosts]
  BY <1>2 DEF IInv
<1> QED
  BY <1>1, <1>4, <1>5 DEF IInv, MadeFor, BackendsInv

---------------------------------------------------------------------------
(* The invariant holds of every behaviour, and the properties follow from it. *)

\* No call has begun and only the local backend is known.
LEMMA InitIInv ==
  ASSUME RouterInit
  PROVE  IInv
<1> USE DEF RouterInit
<1>1. host \in [Machines -> Hosts]
  BY StatesAreHosts
<1>2. BackendsInv(backends)
  BY DEF BackendsInv, BackendRecords, Bins, Targets
<1>3. MadeFor(backends, call)
  BY DEF MadeFor
<1> QED
  BY <1>1, <1>2, <1>3, ChangesAreBounded DEF IInv

\* Every step, and a stutter, keeps the invariant.
LEMMA NextIInv ==
  ASSUME IInv, [RouterNext]_routerVars
  PROVE  IInv'
<1>1. CASE HostChanges \/ Settles
  BY <1>1, HostChangesKeeps, SettlesKeeps
<1>2. ASSUME NEW w \in Callers, (\E r \in Requests : Arrive(w, r)) \/ CallStep(w)
      PROVE  IInv'
  BY <1>2, ArriveKeeps, LookupKeeps, CreateKeeps, InsertKeeps, AvailableKeeps, SurveyKeeps,
     ReconcileKeeps, CheckKeeps, StartHelperKeeps, LaunchKeeps, RecheckKeeps, ActKeeps DEF CallStep
<1>3. CASE UNCHANGED routerVars
  BY <1>3 DEF routerVars, IInv, MadeFor, CallInv, BackendsInv
<1> QED
  BY <1>1, <1>2, <1>3 DEF RouterNext

\* In every reachable state the hosts, the map of backends and the calls'
\* records are well formed, and a backend was made for its target.
THEOREM RouterTypeCorrect == RouterSpec => []RouterTypeOK
<1>1. IInv => RouterTypeOK
  <2> SUFFICES ASSUME IInv PROVE RouterTypeOK
    OBVIOUS
  <2>1. \A t \in DOMAIN backends \ {Local} :
          backends[t].by \in Callers /\ call[backends[t].by].target = t
    BY DEF IInv, MadeFor
  <2>2. ASSUME NEW w \in Callers, call[w] # NotYet
        PROVE  /\ call[w].target \in Targets /\ call[w].at \in Stages
               /\ (call[w].at = "done") <=> (call[w].code # "none")
               /\ call[w].before \in Hosts \union {Touched}
               /\ call[w].helped \subseteq {"helper", "plugin"}
               /\ call[w].unresolved => call[w].target # Local
    BY <2>2, CallFacts DEF CallInv, CallRecords
  <2> QED
    BY <2>1, <2>2 DEF IInv, BackendsInv, RouterTypeOK, Calls, Stages
<1> QED
  BY InitIInv, NextIInv, <1>1, PTL DEF RouterSpec

\* All calls to a target act through the one backend the map holds.
THEOREM BackendUniqueness == RouterSpec => []OneBackendPerTarget
<1>1. IInv => OneBackendPerTarget
  BY DEF IInv, CallInv, Past, OneBackendPerTarget, Calls
<1> QED
  BY InitIInv, NextIInv, <1>1, PTL DEF RouterSpec

\* A call that has the pane of its handle, through a backend that works and on a
\* repairable host left alone, succeeds after one remediation, unless the plugin asks
\* the user or the retry came before what the remedies started had taken effect.
THEOREM OneRetrySuffices == RouterSpec => []OneRetryIsEnough
<1>1. IInv => OneRetryIsEnough
  <2> SUFFICES ASSUME IInv, NEW w \in Callers, call[w] # NotYet, call[w].at = "done",
                      Alone(call[w]), Helped(call[w])
               PROVE  \/ call[w].code = "ok"
                      \/ /\ call[w].code = "PLUGIN_NOT_READY"
                         /\ call[w].early \/ host[Machine(call[w].target)].plugin = "asks"
    BY DEF OneRetryIsEnough, Done, Calls, Helped, OnRepairable
  <2>1. CallInv(w, call[w], host, backends)
    BY CallFacts
  <2>2. call[w].code # "HANDLE_NOT_FOUND"
    BY <2>1 DEF CallInv, Helped, OnRepairable
  <2>3. Past(call[w]) /\ KeptRepairable(call[w], host[Machine(call[w].target)])
    BY <2>1, <2>2 DEF CallInv, Past
  <2> QED
    BY <2>3 DEF KeptRepairable, Repaired
<1> QED
  BY InitIInv, NextIInv, <1>1, PTL DEF RouterSpec

\* A sound host left alone refuses only calls whose backend has a binary that
\* does not run there, and says so.
THEOREM RefusalsHaveCauses == RouterSpec => []RefusalHasACause
<1>1. IInv => RefusalHasACause
  <2> SUFFICES ASSUME IInv, NEW w \in Callers, call[w] # NotYet, call[w].at = "done",
                      Alone(call[w]), Sound(call[w].before),
                      call[w].code \notin {"ok", "HANDLE_NOT_FOUND"}
               PROVE  /\ ~Runs(call[w].backend.bin, call[w].before)
                      /\ call[w].code \in {"ZJCTL_UNAVAILABLE", "FAILED"}
    BY DEF RefusalHasACause, Done, Calls
  <2>1. CallInv(w, call[w], host, backends)
    BY CallFacts
  <2> QED
    BY <2>1 DEF CallInv, KeptSound, Past
<1> QED
  BY InitIInv, NextIInv, <1>1, PTL DEF RouterSpec

=============================================================================
