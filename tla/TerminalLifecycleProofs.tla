----------------------- MODULE TerminalLifecycleProofs -----------------------
(***************************************************************************)
(* For a local target and one tool call at a time, TerminalService         *)
(* implements HandleLifecycle: every step of the service changes the       *)
(* registry, the panes and the answers given as one action of              *)
(* HandleLifecycle does, or leaves all three alone.                        *)
(***************************************************************************)
EXTENDS TerminalSequentialProofs

\* What HandleLifecycle sees of the service.
Entries == [h \in Handles |-> [status |-> registry[h].status, pane |-> registry[h].pane]]
Spent == {h \in Handles : life[h] \notin {"fresh", "pending"}}
Dead == {p \in Panes : pane[p] = "gone"}

\* A step of the service and the step of HandleLifecycle it implements.
Follows == [Lifecycle!LifecycleNext]_(Lifecycle!lifecycleVars)

----------------------------------------------------------------------------
(* One lemma for each action of HandleLifecycle. *)

\* A step that changes nothing of what is seen.
LEMMA Unseen ==
  ASSUME UNCHANGED <<Entries, Spent, Dead>>
  PROVE  Follows
BY DEF Follows, Entries, Spent, Dead, Lifecycle!lifecycleVars

\* The entries after a change of one binding.
LEMMA OneEntry ==
  ASSUME NEW h \in Handles, SameButOne(registry', registry, h)
  PROVE  Entries' = [Entries EXCEPT ![h] = [status |-> registry'[h].status,
                                            pane |-> registry'[h].pane]]
BY DEF Entries, SameButOne

\* A binding is revised.
LEMMA Judges ==
  ASSUME TypeOK, TypeOK', NEW h \in Handles, SameButOne(registry', registry, h),
         Open(registry[h]), Open(registry'[h]), registry[h].pane \in {registry'[h].pane, NoPane},
         UNCHANGED <<pane, life>>
  PROVE  Follows
<1>1. PICK st : st = registry'[h].status
  OBVIOUS
<1>2. PICK p \in Panes \union {NoPane} : p = registry'[h].pane
  BY DEF TypeOK, Registry, Binding
<1>3. Entries' = [Entries EXCEPT ![h] = Lifecycle!Entry(st, p)]
  BY <1>1, <1>2, OneEntry DEF Lifecycle!Entry
<1>4. Entries[h].status \in Lifecycle!Open /\ Entries[h].pane \in {p, NoPane}
  BY <1>2 DEF Entries, Open, Lifecycle!Open, Lifecycle!Active
<1>5. st \in Lifecycle!Open
  BY <1>1 DEF Open, Lifecycle!Open, Lifecycle!Active
<1>6. Lifecycle!Judge(h, st, p)
  BY <1>3, <1>4 DEF Lifecycle!Judge, Entries
<1> QED  BY <1>5, <1>6 DEF Follows, Lifecycle!LifecycleNext

\* A pane is closed.
LEMMA Dies ==
  ASSUME NEW p \in Panes, pane \in [Panes -> PaneState], pane' = [pane EXCEPT ![p] = "gone"],
         UNCHANGED <<registry, life>>
  PROVE  Follows
<1>1. CASE pane[p] = "gone"
  <2>1. pane' = pane
    BY <1>1
  <2> QED  BY <2>1, Unseen DEF Entries, Spent, Dead
<1>2. CASE pane[p] # "gone"
  <2>1. Dead' = Dead \union {p} /\ p \notin Dead
    BY <1>2 DEF Dead
  <2>2. Lifecycle!PaneDies(p)
    BY <2>1 DEF Lifecycle!PaneDies, Dead
  <2> QED  BY <2>2 DEF Follows, Lifecycle!LifecycleNext
<1> QED  BY <1>1, <1>2
\* A new handle gets its entry.
LEMMA Provisions ==
  ASSUME TypeOK, TypeOK', NEW h \in Handles, SameButOne(registry', registry, h),
         registry[h] = NoBinding, registry'[h].status = "busy", life[h] = "pending",
         UNCHANGED <<pane, life>>
  PROVE  Follows
<1>1. PICK p \in Panes \union {NoPane} : p = registry'[h].pane
  BY DEF TypeOK, Registry, Binding
<1>2. Entries' = [Entries EXCEPT ![h] = Lifecycle!Entry("busy", p)]
  BY <1>1, OneEntry DEF Lifecycle!Entry
<1>3. Entries[h].status = "absent" /\ h \notin Spent
  BY DEF Entries, NoBinding, Spent
<1>4. Lifecycle!Provision(h, p)
  BY <1>2, <1>3 DEF Lifecycle!Provision, Entries, Spent
<1> QED  BY <1>4 DEF Follows, Lifecycle!LifecycleNext

\* A binding is closed, its pane being gone.
LEMMA Retires ==
  ASSUME TypeOK, TypeOK', NEW h \in Handles, SameButOne(registry', registry, h),
         Open(registry[h]), registry'[h].status = "closed", registry'[h].pane = registry[h].pane,
         Over(registry[h], pane), UNCHANGED <<pane, life>>
  PROVE  Follows
<1>1. /\ Entries[h].status = registry[h].status /\ Entries[h].pane = registry[h].pane
      /\ Entries[h] = [status |-> registry[h].status, pane |-> registry[h].pane]
  BY DEF Entries
<1>2. Entries' = [Entries EXCEPT ![h].status = "closed"]
  BY <1>1, OneEntry
<1>3. Entries[h].status \in Lifecycle!Open
  BY <1>1 DEF Open, Lifecycle!Open, Lifecycle!Active
<1>4. Entries[h].pane \in Dead \union {NoPane}
  BY <1>1 DEF Over, Dead, TypeOK, Registry, Binding
<1>5. Lifecycle!Retire(h)
  BY <1>2, <1>3, <1>4 DEF Lifecycle!Retire, Entries, Dead
<1> QED  BY <1>5 DEF Follows, Lifecycle!LifecycleNext

\* A closed binding is called stale.
LEMMA Misjudges ==
  ASSUME TypeOK, NEW h \in Handles, SameButOne(registry', registry, h),
         registry[h].status = "closed", registry'[h].status = "stale",
         registry'[h].pane = registry[h].pane, UNCHANGED <<pane, life>>
  PROVE  Follows
<1>1. /\ Entries[h].status = "closed"
      /\ Entries[h] = [status |-> registry[h].status, pane |-> registry[h].pane]
  BY DEF Entries
<1>2. Entries' = [Entries EXCEPT ![h].status = "stale"]
  BY <1>1, OneEntry
<1>3. Lifecycle!Misjudge(h)
  BY <1>1, <1>2 DEF Lifecycle!Misjudge, Entries
<1> QED  BY <1>3 DEF Follows, Lifecycle!LifecycleNext

\* Entries are taken out.
LEMMA Forgets ==
  ASSUME NEW hs \in SUBSET Handles,
         \A k \in Handles : registry'[k] = IF k \in hs THEN NoBinding ELSE registry[k],
         Spent' = Spent, UNCHANGED pane
  PROVE  Follows
<1>1. Entries' = [k \in Handles |-> IF k \in hs THEN Lifecycle!Entry("absent", NoPane)
                                                ELSE Entries[k]]
  BY DEF Entries, NoBinding, Lifecycle!Entry
<1>2. Lifecycle!Forget(hs)
  BY <1>1 DEF Lifecycle!Forget, Entries, Spent
<1> QED  BY <1>2 DEF Follows, Lifecycle!LifecycleNext

\* Callers have their answer, or will never have it.
LEMMA Concludes ==
  ASSUME NEW hs \in SUBSET Handles, Spent' = Spent \union hs, UNCHANGED <<registry, pane>>
  PROVE  Follows
<1>1. Lifecycle!Conclude(hs)
  BY DEF Lifecycle!Conclude, Entries, Spent
<1> QED  BY <1>1 DEF Follows, Lifecycle!LifecycleNext

----------------------------------------------------------------------------
(* Every step of the service. *)

\* A step that writes neither the registry nor an answer, and closes at most one pane.
LEMMA ClosesOne ==
  ASSUME TypeOK, UNCHANGED <<registry, life>>,
         \/ UNCHANGED pane
         \/ \E p \in Panes : pane' = [pane EXCEPT ![p] = "gone"]
  PROVE  Follows
<1>1. CASE UNCHANGED pane
  BY <1>1, Unseen DEF Entries, Spent, Dead
<1>2. CASE \E p \in Panes : pane' = [pane EXCEPT ![p] = "gone"]
  BY <1>2, Dies DEF TypeOK
<1> QED  BY <1>1, <1>2

\* A step in which a pane that was not there starts or appears, and at most a call
\* on a new handle begins.
LEMMA OpensOne ==
  ASSUME TypeOK, UNCHANGED registry,
         \/ UNCHANGED pane
         \/ \E p \in Panes, s \in {"starting", "alive"} :
              pane[p] \in {"unborn", "starting"} /\ pane' = [pane EXCEPT ![p] = s],
         \/ UNCHANGED life
         \/ \E h \in Handles : life[h] = "fresh" /\ life' = [life EXCEPT ![h] = "pending"]
  PROVE  Follows
<1>1. Dead' = Dead
  BY DEF Dead, TypeOK
<1>2. Spent' = Spent
  BY DEF Spent, TypeOK
<1> QED  BY <1>1, <1>2, Unseen DEF Entries

\* A refresh writes what it found.
LEMMA RefreshStoreFollows ==
  ASSUME IInv, SInv, IInv', NEW w, Workers = {w}, RefreshStore(w)
  PROVE  Follows
<1> DEFINE c == call[w]
<1>1. c.pc = "refreshStore" /\ registry' = c.inner /\ UNCHANGED <<pane, life>>
  BY DEF RefreshStore
<1>2. Refound(c, registry) /\ c.h \in Handles
  BY <1>1, SeqNow, RefreshNow DEF Lab, Refreshing
<1> HIDE DEF c
<1>3. /\ SameButOne(registry', registry, c.h) /\ Open(registry[c.h]) /\ Open(registry'[c.h])
      /\ registry[c.h].pane \in {registry'[c.h].pane, NoPane}
  BY <1>1, <1>2 DEF Refound, Open
<1> QED  BY <1>1, <1>2, <1>3, Judges DEF IInv

\* A binding is marked stale.
LEMMA MarkStaleStoreFollows ==
  ASSUME IInv, SInv, IInv', NEW w, Workers = {w}, MarkStaleStore(w)
  PROVE  Follows
<1> DEFINE c == call[w]
           h == c.h
<1>1. /\ c.pc = "markStore" /\ UNCHANGED <<pane, life>>
      /\ registry' = IF Present(c.inner[h]) THEN [c.inner EXCEPT ![h].status = "stale"]
                     ELSE registry
  BY DEF MarkStaleStore
<1>2. c.inner = registry /\ h \in Handles /\ registry \in Registry
  BY <1>1, SeqNow, Placed DEF Lab, Marking
<1> HIDE DEF h
<1>3. CASE ~Present(registry[h])
  BY <1>1, <1>2, <1>3, ClosesOne DEF IInv
<1>4. CASE Present(registry[h])
  <2>1. registry' = [registry EXCEPT ![h].status = "stale"]
    BY <1>1, <1>2, <1>4
  <2>2. /\ SameButOne(registry', registry, h) /\ registry'[h].status = "stale"
        /\ registry'[h].pane = registry[h].pane
    BY <1>2, <2>1 DEF SameButOne, Registry, Binding
  <2>3. CASE registry[h].status = "closed"
    BY <1>1, <1>2, <2>2, <2>3, Misjudges DEF IInv
  <2>4. CASE registry[h].status # "closed"
    <3>1. Open(registry[h])
      BY <1>2, <1>4, <2>4 DEF Open, Present, Registry, Binding, Status
    <3>2. Open(registry'[h])
      BY <2>2 DEF Open
    <3> QED  BY <1>1, <1>2, <2>2, <3>1, <3>2, Judges DEF IInv
  <2> QED  BY <2>3, <2>4
<1> QED  BY <1>3, <1>4

\* The response of a spawn or attach leaves.
LEMMA ReturnFollows ==
  ASSUME IInv, NEW w, Return(w)
  PROVE  Follows
<1> DEFINE h == call[w].h
<1>1. /\ UNCHANGED <<registry, pane>> /\ life \in [Handles -> Life]
      /\ \/ UNCHANGED life
         \/ \E s \in {"issued", "failed"} : life[h] = "pending" /\ life' = [life EXCEPT ![h] = s]
  BY DEF Return, IInv, TypeOK
<1> HIDE DEF h
<1>2. CASE h \in Handles /\ life' # life
  <2>1. PICK hs \in SUBSET Handles : hs = {h}
    BY <1>2
  <2>2. Spent' = Spent \union hs
    BY <1>1, <1>2, <2>1 DEF Spent
  <2> QED  BY <1>1, <2>2, Concludes
<1>3. CASE h \notin Handles \/ life' = life
  <2>1. life' = life
    BY <1>1, <1>3
  <2> QED  BY <1>1, <2>1, ClosesOne DEF IInv
<1> QED  BY <1>2, <1>3

\* A crash ends the calls under way.
LEMMA RestartFollows ==
  ASSUME Restart
  PROVE  Follows
<1> DEFINE hs == {h \in Handles : life[h] = "pending"}
<1>1. Spent' = Spent \union hs
  BY DEF Restart, Spent
<1>2. UNCHANGED <<registry, pane>> /\ hs \in SUBSET Handles
  BY DEF Restart
<1> QED  BY <1>1, <1>2, Concludes

\* A handler writes the registry.
LEMMA StoreFollows ==
  ASSUME IInv, SInv, IInv', ~Remote, NEW w, Workers = {w}, Store(w)
  PROVE  Follows
<1> DEFINE c == call[w]
           r == registry
           h == c.h
<1>1. /\ c \in Call /\ CallInv(c, pane) /\ Pos(c, r, observations) /\ Lab(c, r, observations)
      /\ Serves(c.tool, c.at) /\ Lives(c, r, life) /\ r \in Registry
      /\ c.pc = "store" /\ UNCHANGED pane
  BY SeqNow DEF Store, World
<1>2. c.at \in EditAt \union WriteAt /\ (c.at # "prune" => h \in Handles)
  BY <1>1, Placed
<1>3. c.at \in EditAt => c.snap = r
  BY <1>1 DEF Lab
<1>4. TypeOK /\ TypeOK' /\ c.snap \in Registry
  BY <1>1 DEF IInv, Call
<1>5. CASE SpawnEntryGone(c)
  <2>1. UNCHANGED <<registry, life>>
    BY <1>5 DEF Store, SpawnEntryGone
  <2> QED  BY <1>1, <1>4, <2>1, ClosesOne
<1>6. CASE ~SpawnEntryGone(c)
  <2>1. /\ registry' = EditRegistry(c)
        /\ life' = IF c.at = "prune"
                     THEN [k \in Handles |-> IF k \in c.todo THEN "removed" ELSE life[k]]
                     ELSE life
    BY <1>6 DEF Store
  <2>2. ASSUME NEW st \in Status, NEW s, s = [c.snap EXCEPT ![h].status = st], h \in Handles
        PROVE  /\ SameButOne(s, c.snap, h) /\ s[h].status = st /\ s[h].pane = c.snap[h].pane
    BY <1>4, <2>2 DEF SameButOne, Registry, Binding
  <2> HIDE DEF c
  <2>3. CASE c.at = "persist"
    <3>1. registry' = [r EXCEPT ![h] = c.own] /\ UNCHANGED life /\ h \in Handles
      BY <1>2, <1>3, <2>1, <2>3 DEF EditRegistry, EditAt
    <3>2. c.own.status = "busy" /\ r[h] = NoBinding /\ life[h] = "pending"
      BY <1>1, <2>3 DEF Pos, Serves, Lives
    <3>3. registry'[h] = c.own /\ SameButOne(registry', r, h)
      BY <1>1, <3>1 DEF Registry, SameButOne
    <3> QED  BY <1>1, <1>4, <3>1, <3>2, <3>3, Provisions
  <2>4. CASE c.at = "discard"
    <3>1. registry' = [r EXCEPT ![h] = NoBinding] /\ UNCHANGED life /\ h \in Handles
      BY <1>2, <1>3, <2>1, <2>4 DEF EditRegistry, EditAt
    <3>2. PICK hs \in SUBSET Handles : hs = {h}
      BY <3>1
    <3>3. \A k \in Handles : registry'[k] = IF k \in hs THEN NoBinding ELSE r[k]
      BY <1>1, <3>1, <3>2 DEF Registry
    <3>4. Spent' = Spent
      BY <3>1 DEF Spent
    <3> QED  BY <1>1, <3>3, <3>4, Forgets
  <2>5. CASE c.at = "prune"
    <3>1. /\ registry' = [k \in Handles |-> IF k \in c.todo THEN NoBinding ELSE r[k]]
          /\ life' = [k \in Handles |-> IF k \in c.todo THEN "removed" ELSE life[k]]
      BY <1>3, <2>1, <2>5 DEF EditRegistry, EditAt
    <3>2. c.todo \in SUBSET Handles /\ c.tool = "cleanup"
      BY <1>1, <2>5 DEF Serves, Call
    <3>3. \A k \in c.todo : life[k] \notin {"fresh", "pending"}
      BY <1>1, <2>5, <3>2 DEF Lab, Lives, Making, Present, NoBinding
    <3>4. Spent' = Spent
      BY <3>1, <3>2, <3>3 DEF Spent
    <3>5. PICK hs \in SUBSET Handles : hs = c.todo
      BY <3>2
    <3> QED  BY <1>1, <3>1, <3>4, <3>5, Forgets
  <2>6. CASE c.at = "seal"
    <3>1. registry' = [c.snap EXCEPT ![h].status = "closed"] /\ UNCHANGED life /\ h \in Handles
      BY <1>2, <2>1, <2>6 DEF EditRegistry
    <3>2. c.tool = "close"
      BY <1>1, <2>6 DEF Serves
    <3>3. Carried(c, r) /\ Open(r[h])
      BY <1>1, <2>6, <3>2 DEF Pos, CarryAt, OpenAt
    <3>4. /\ SameButOne(registry', c.snap, h) /\ registry'[h].status = "closed"
          /\ registry'[h].pane = c.snap[h].pane
      BY <2>2, <3>1 DEF Status
    <3>5. SameButOne(registry', r, h) /\ registry'[h].pane = r[h].pane
      BY <3>3, <3>4 DEF Carried, SameButOne
    <3>6. Over(r[h], pane)
      BY <1>1, <2>6, <3>3 DEF CallInv, Core, Carried, Over
    <3> QED  BY <1>1, <1>4, <3>1, <3>3, <3>4, <3>5, <3>6, Retires
  <2>7. CASE c.at \in {"busy", "record"}
    <3>1. /\ c.at = "busy" => c.tool = "wait"
          /\ c.at = "record" => c.tool = "capture"
          /\ h \in Handles /\ UNCHANGED life
      BY <1>1, <1>2, <2>1, <2>7 DEF Serves
    <3>2. Carried(c, r) /\ Open(r[h])
      BY <1>1, <2>7, <3>1 DEF Pos, CarryAt, OpenAt
    <3>3. SameButOne(c.snap, r, h) /\ IsActive(c.snap[h]) /\ c.snap[h].pane = r[h].pane
      BY <3>2 DEF Carried
    <3>4. \/ registry' = c.snap
          \/ \E st \in {"busy", "ready"} : registry' = [c.snap EXCEPT ![h].status = st]
      BY <2>1, <2>7 DEF EditRegistry
    <3>5. /\ SameButOne(registry', c.snap, h) /\ registry'[h].pane = c.snap[h].pane
          /\ registry'[h].status \in {"busy", "ready"}
      BY <2>2, <3>1, <3>3, <3>4 DEF SameButOne, IsActive, Status
    <3>6. SameButOne(registry', r, h) /\ registry'[h].pane = r[h].pane
      BY <3>3, <3>5 DEF SameButOne
    <3>7. Open(registry'[h])
      BY <3>5 DEF Open
    <3> QED  BY <1>1, <1>4, <3>1, <3>2, <3>6, <3>7, Judges
  <2>8. CASE c.at \in {"settle", "markReady", "leaveBusy"}
    <3>1. c.snap = r /\ h \in Handles /\ UNCHANGED life
      BY <1>2, <1>3, <2>1, <2>8 DEF EditAt
    <3>2. Open(r[h])
      <4>1. c.tool \in Making \/ (c.tool = "wait" /\ c.at # "markReady")
        BY <1>1, <2>8 DEF Serves, Making
      <4>2. OpenAt(c.tool, c.at)
        BY <2>8, <4>1 DEF OpenAt
      <4> QED  BY <1>1, <4>2 DEF Pos
    <3>3. \E st \in {"busy", "ready"} : registry' = [c.snap EXCEPT ![h].status = st]
      <4>1. Present(c.snap[h])
        BY <3>1, <3>2 DEF Open, Present
      <4> QED  BY <2>1, <2>8, <4>1 DEF EditRegistry
    <3>4. /\ SameButOne(registry', r, h) /\ registry'[h].pane = r[h].pane
          /\ registry'[h].status \in {"busy", "ready"}
      BY <2>2, <3>1, <3>3 DEF Status
    <3>5. Open(registry'[h])
      BY <3>4 DEF Open
    <3> QED  BY <1>1, <1>4, <3>1, <3>2, <3>4, <3>5, Judges
  <2> QED  BY <1>2, <2>3, <2>4, <2>5, <2>6, <2>7, <2>8 DEF EditAt, WriteAt
<1> QED  BY <1>5, <1>6

\* A step of a call in progress.
LEMMA StepFollows ==
  ASSUME IInv, SInv, IInv', ~Remote, NEW w, Workers = {w}, Step(w)
  PROVE  Follows
<1>1. TypeOK
  BY DEF IInv
<1>2. CASE Refresh(w) \/ Resolve(w) \/ Reconcile(w) \/ ReconcileList(w)
  BY <1>1, <1>2, ClosesOne DEF Refresh, Resolve, Reconcile, ReconcileList
<1>3. CASE Observe(w) \/ MarkStaleLoad(w) \/ Verify(w) \/ Load(w) \/ Read(w)
  BY <1>1, <1>3, ClosesOne DEF Observe, MarkStaleLoad, Verify, Load, Read
<1>4. CASE SlotLoad(w) \/ SlotRead(w) \/ SlotStore(w)
  BY <1>1, <1>4, ClosesOne DEF SlotLoad, SlotRead, SlotStore
<1>5. CASE Operate(w)
  <2>1. UNCHANGED <<registry, life>>
        /\ (UNCHANGED pane \/ \E p \in AlivePanes : pane' = [pane EXCEPT ![p] = "gone"])
    BY <1>5 DEF Operate, Reach
  <2> QED  BY <1>1, <2>1, ClosesOne DEF AlivePanes
<1>6. CASE ShellExit(w)
  <2>1. UNCHANGED <<registry, life>>
        /\ (UNCHANGED pane \/ \E p \in AlivePanes : pane' = [pane EXCEPT ![p] = "gone"])
    BY <1>6 DEF ShellExit, Reach
  <2> QED  BY <1>1, <2>1, ClosesOne DEF AlivePanes
<1>7. CASE RefreshStore(w) \/ MarkStaleStore(w) \/ Store(w) \/ Return(w)
  BY <1>7, RefreshStoreFollows, MarkStaleStoreFollows, StoreFollows, ReturnFollows
<1> QED  BY <1>2, <1>3, <1>4, <1>5, <1>6, <1>7 DEF Step

\* A call begins.
LEMMA BeginFollows ==
  ASSUME IInv, NEW w, Begin(w)
  PROVE  Follows
<1>1. TypeOK
  BY DEF IInv
<1>2. CASE BeginSpawn(w)
  BY <1>1, <1>2, OpensOne DEF BeginSpawn
<1>3. CASE BeginAttach(w)
  BY <1>1, <1>3, OpensOne DEF BeginAttach
<1>4. CASE BeginOnHandle(w) \/ BeginList(w) \/ BeginCleanup(w)
  BY <1>1, <1>4, OpensOne DEF BeginOnHandle, BeginList, BeginCleanup
<1> QED  BY <1>2, <1>3, <1>4 DEF Begin

\* The session and the process move.
LEMMA EnvironmentFollows ==
  ASSUME IInv, Environment
  PROVE  Follows
<1>1. TypeOK
  BY DEF IInv
<1>2. CASE PaneAppears \/ UserOpens
  BY <1>1, <1>2, OpensOne DEF PaneAppears, UserOpens
<1>3. CASE UserCloses
  BY <1>1, <1>3, ClosesOne DEF UserCloses, AlivePanes
<1>4. CASE Restart
  BY <1>4, RestartFollows
<1> QED  BY <1>2, <1>3, <1>4 DEF Environment

----------------------------------------------------------------------------
(* The refinement. *)

\* The service starts as HandleLifecycle does.
LEMMA InitFollows == Init => Lifecycle!LifecycleInit
BY DEF Init, EmptyRegistry, NoBinding, Lifecycle!LifecycleInit, Lifecycle!Entry

\* Every step of the service is one of HandleLifecycle, or changes nothing there.
LEMMA NextFollows ==
  OneAtATime /\ ~Remote /\ IInv /\ SInv /\ [Next]_vars =>
    [Lifecycle!LifecycleNext]_(Lifecycle!lifecycleVars)
<1> SUFFICES ASSUME OneAtATime, ~Remote, IInv, SInv, [Next]_vars  PROVE Follows
  BY DEF Follows
<1>1. PICK w : Workers = {w}
  BY DEF OneAtATime
<1>2. IInv'
  BY NextIInv
<1>3. CASE \E v \in Workers : Begin(v)
  BY <1>3, BeginFollows
<1>4. CASE \E v \in Workers : Step(v)
  BY <1>1, <1>2, <1>4, StepFollows
<1>5. CASE Environment
  BY <1>5, EnvironmentFollows
<1>6. CASE UNCHANGED vars
  <2>1. UNCHANGED <<registry, pane, life>>
    BY <1>6 DEF vars
  <2> QED  BY <2>1, ClosesOne DEF IInv
<1> QED  BY <1>3, <1>4, <1>5, <1>6 DEF Next

\* For a local target, one call at a time, the service implements HandleLifecycle:
\* an entry is provisioned once, names one pane for life, is closed only of a
\* pane that is gone, and leaves the registry only by a cleanup or when its spawn
\* fails.
THEOREM ServiceKeepsLifecycle == OneAtATime /\ ~Remote => (Spec => LifecycleKept)
<1> SUFFICES ASSUME OneAtATime, ~Remote  PROVE Spec => LifecycleKept
  OBVIOUS
<1>1. IInv /\ SInv /\ [Next]_vars => [Lifecycle!LifecycleNext]_(Lifecycle!lifecycleVars)
  BY NextFollows
<1> QED  BY <1>1, InitFollows, Invariance, SequentialInvariance, PTL
         DEF Spec, LifecycleKept, Lifecycle!LifecycleSpec

=============================================================================
