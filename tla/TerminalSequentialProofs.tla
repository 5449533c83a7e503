---------------------- MODULE TerminalSequentialProofs ----------------------
(***************************************************************************)
(* Proofs about TerminalService when one tool call runs at a time, for     *)
(* every set of handles, panes and tools: no handle is lost, answers agree *)
(* with the registry, a list tells the dead panes, a closed handle keeps   *)
(* no slot, and, for a local target, the service implements                *)
(* HandleLifecycle.  With two calls at once none of this holds: a call may *)
(* write back a copy read before the other call wrote.                     *)
(***************************************************************************)
EXTENDS TerminalServiceProofs

\* The runtime executes one call at a time.
OneAtATime == \E w : Workers = {w}

----------------------------------------------------------------------------
(* The inductive invariant, over one call c, the registry r, the           *)
(* observations o, the history lf and the panes pn.                        *)

Making == {"spawn", "attach"}
Reading == {"capture", "wait", "close"}
Sending == {"send", "replace"}

Open(b) == b.status \in {"busy", "ready", "stale"}

\* Only the detached launch of a remote spawn leaves an entry without a pane.
Provisioned(b) == Present(b) /\ b.pane = NoPane => Remote /\ b.source = "spawned"

\* What a refresh returns: an attached pane is found or it is not.
Judged(b) == b.status = "busy" => b.source = "spawned"

\* The tools that have a position.
Serves(t, a) ==
  /\ a \in {"persist", "persistSlot"} => t \in Making
  /\ a \in {"discard", "discardSlot", "markReady"} => t = "spawn"
  /\ a \in {"prune", "pruneSlots"} => t = "cleanup"
  /\ a \in {"seal", "sealSlot"} => t = "close"
  /\ a = "busy" => t = "wait"
  /\ a \in {"record", "recordSlot"} => t = "capture"
  /\ a = "settle" => t \in {"attach", "wait"}
  /\ a = "leaveBusy" => t \in {"spawn", "wait"}
  /\ a = "baselineSlot" => t \in Making \union {"wait"}
  /\ a \in {"boundary", "boundarySlot", "stamp", "reset"} => t \in Sending
  /\ a = "hold" => t \in Sending \union {"capture"}
  /\ a = "enter" => t \in Reading
  /\ a \in {"scan", "examine"} => t \in Listing

\* The positions at which the entry of the handle is there and not closed, at
\* which it is ready, at which the handler's binding is the entry, from which
\* the handler's copies of the two files will be written.
OpenAt(t, a) ==
  \/ t \in Making /\ a \notin {"persist", "discardSlot", "none", "fail"}
  \/ t = "capture" /\ a \in {"capture", "hold", "record", "recordSlot"}
  \/ t \in Sending /\ a \in {"boundarySlot", "deliver", "probe", "redeliver", "stamp", "reset"}
  \/ t = "wait" /\ a \in {"busy", "idle", "poll", "leaveBusy", "settle", "capture",
                          "baselineSlot"}
  \/ t = "close" /\ a \in Closing \union {"seal"}

ReadyAt(t, a) ==
  \/ t = "wait" /\ a \in {"capture", "baselineSlot"}
  \/ t = "capture" /\ a = "recordSlot"

OwnAt(t, a) ==
  \/ t \in Reading /\ a = "enter"
  \/ t \in Sending /\ a \in {"boundary", "boundarySlot", "hold"}

CarryAt(t, a) ==
  \/ t = "capture" /\ a \in {"capture", "hold", "record"}
  \/ t = "wait" /\ a = "busy"
  \/ t = "close" /\ a \in Closing \union {"seal"}

HoldAt(t, a) ==
  \/ t = "capture" /\ a \in {"record", "recordSlot"}
  \/ t \in Sending /\ a \in {"deliver", "probe", "redeliver", "stamp"}

\* The copy s differs from r at most in the entry of h.
SameButOne(s, r, h) == \A k \in Handles \ {h} : s[k] = r[k]

\* The handler's copy is as good as the registry: its own entry may be older,
\* but was active, and a local one names the same pane.
Carried(c, r) ==
  /\ SameButOne(c.snap, r, c.h)
  /\ IsActive(c.snap[c.h]) /\ Judged(c.snap[c.h]) /\ Provisioned(c.snap[c.h])
  /\ Remote \/ c.snap[c.h].pane = r[c.h].pane

Owned(c, r) == c.own = r[c.h] /\ Present(c.own) /\ Judged(c.own)

\* What a list must find out of k.
Told(c, r, k) == Present(r[k]) /\ r[k].pane \in c.gone => ~IsActive(r[k])

\* A list has dealt with all handles but those in rest, of which it has a copy.
Listed(c, r, rest) ==
  /\ \A k \in rest : c.snap[k] = r[k]
  /\ \A k \in Handles \ rest : Told(c, r, k)

\* What a position promises.
Pos(c, r, o) ==
  /\ Serves(c.tool, c.at)
  /\ OpenAt(c.tool, c.at) => Open(r[c.h])
  /\ ReadyAt(c.tool, c.at) => r[c.h].status = "ready"
  /\ c.at = "sealSlot" => r[c.h].status = "closed"
  /\ OwnAt(c.tool, c.at) => Owned(c, r)
  /\ c.at = "boundary" => c.own.source = "attached"
  /\ CarryAt(c.tool, c.at) => Carried(c, r)
  /\ HoldAt(c.tool, c.at) => c.slots = o
  /\ c.at = "persist" => r[c.h] = NoBinding /\ c.own.status = "busy" /\ Provisioned(c.own)
  /\ c.at = "examine" => c.h \notin c.todo /\ Listed(c, r, c.todo \union {c.h})

\* What an answer promises.
Answer(c, r) ==
  c.pc = "return" =>
    /\ c.tool = "close" => r[c.h].status = "closed"
    /\ c.tool \in {"capture", "wait"} => r[c.h].status = "ready"
    /\ c.tool \in Making => Open(r[c.h])
    /\ c.tool \in Listing => Listed(c, r, {})

\* A refresh about to write: it judged the entry of the handle, or bound it.
Refound(c, r) ==
  /\ SameButOne(c.inner, r, c.h)
  /\ Open(r[c.h])
  /\ c.inner[c.h].status \in {"ready", "stale"}
  /\ c.inner[c.h].source = r[c.h].source
  /\ r[c.h].pane \in {c.inner[c.h].pane, NoPane}
  /\ c.inner[c.h].pane # NoPane
  /\ c.inner[c.h].status = "ready" => c.inner[c.h].pane \notin c.gone

\* What a label promises: a copy just read is the file.
Lab(c, r, o) ==
  /\ c.pc = "reconcile" => IsUnresolvedSpawn(r[c.h]) /\ Open(r[c.h])
  /\ c.pc = "resolve" => c.inner = r /\ Open(r[c.h]) /\ r[c.h].pane # NoPane
  /\ c.pc = "reconcileList" => c.inner = r /\ IsUnresolvedSpawn(r[c.h]) /\ Open(r[c.h])
  /\ c.pc = "refreshStore" => Refound(c, r)
  /\ c.pc = "markStore" => c.inner = r
  /\ c.pc = "store" /\ c.at \in EditAt => c.snap = r
  /\ c.pc = "store" /\ c.at = "prune" => \A k \in c.todo : Present(r[k])
  /\ c.pc = "slotStore" /\ c.at \in SlotEditAt => c.slots = o

\* What the caller was told of the handles agrees with the registry.
Lives(c, r, lf) ==
  /\ \A k \in Handles : lf[k] = "fresh" => r[k] = NoBinding
  /\ \A k \in Handles : lf[k] = "issued" => Present(r[k])
  /\ \A k \in Handles : lf[k] = "pending" => k = c.h /\ c.tool \in Making
  /\ c.tool \in Making => lf[c.h] = "pending"

\* Between its two writes a handler leaves slots it still has to take out.
Unswept(c) ==
  IF c.at \in {"discardSlot", "sealSlot"} THEN {c.h}
  ELSE IF c.at = "pruneSlots" THEN c.todo ELSE {}

\* No other slot is left of a handle that is gone or closed.
Slotted(r, o, unswept) ==
  Crashes \/ \A k \in Handles \ unswept : o[k].kept = "yes" => Open(r[k])

SeqInv(c, r, o, lf, pn) ==
  /\ \A k \in Handles : Provisioned(r[k])
  /\ \A p \in c.gone : pn[p] = "gone"
  /\ c.pc = "idle" => c.tool = "none"
  /\ Lives(c, r, lf)
  /\ Slotted(r, o, Unswept(c))
  /\ Pos(c, r, o)
  /\ Answer(c, r)
  /\ Lab(c, r, o)

SInv == \A w \in Workers : SeqInv(call[w], registry, observations, life, pane)

----------------------------------------------------------------------------
(* Lemmas about the control flow. *)

\* A row leads to a position of its tool; none leads back to the first write of
\* a new handle.
LEMMA RowsServe ==
  ASSUME NEW t, NEW a, NEW e, NEW n, <<a, e, n>> \in Flow(t)
  PROVE  /\ Serves(t, a) => Serves(t, n)
         /\ n \notin {"persist", "prune", "scan", "enter"} \/ (n = "enter" /\ a = "revalidate" /\ e = "ok")
<1>1. CASE t = "spawn"
  <2>1. <<a, e, n>> \in SpawnFlow  BY <1>1 DEF Flow
  <2> QED  BY <1>1, <2>1 DEF SpawnFlow, Serves, Making, Reading, Sending, Listing
<1>2. CASE t = "attach"
  <2>1. <<a, e, n>> \in AttachFlow  BY <1>2 DEF Flow
  <2> QED  BY <1>2, <2>1 DEF AttachFlow, Serves, Making, Reading, Sending, Listing
<1>3. CASE t = "capture"
  <2>1. <<a, e, n>> \in CaptureFlow  BY <1>3 DEF Flow
  <2> QED  BY <1>3, <2>1 DEF CaptureFlow, Serves, Making, Reading, Sending, Listing
<1>4. CASE t = "send"
  <2>1. <<a, e, n>> \in SendFlow  BY <1>4 DEF Flow
  <2> QED  BY <1>4, <2>1 DEF SendFlow, Serves, Making, Reading, Sending, Listing
<1>5. CASE t = "replace"
  <2>1. <<a, e, n>> \in ReplaceFlow  BY <1>5 DEF Flow
  <2>2. CASE <<a, e, n>> \in SendFlow
    BY <1>5, <2>2 DEF SendFlow, Serves, Making, Reading, Sending, Listing
  <2>3. CASE <<a, e, n>> \notin SendFlow
    BY <1>5, <2>1, <2>3 DEF ReplaceFlow, Serves, Making, Reading, Sending, Listing
  <2> QED  BY <2>2, <2>3
<1>6. CASE t = "wait"
  <2>1. <<a, e, n>> \in WaitFlow  BY <1>6 DEF Flow
  <2> QED  BY <1>6, <2>1 DEF WaitFlow, Serves, Making, Reading, Sending, Listing
<1>7. CASE t = "close"
  <2>1. <<a, e, n>> \in CloseFlow  BY <1>7 DEF Flow
  <2> QED  BY <1>7, <2>1 DEF CloseFlow, Serves, Making, Reading, Sending, Listing
<1>8. CASE t = "cleanup"
  <2>1. <<a, e, n>> \in CleanupFlow  BY <1>8 DEF Flow
  <2> QED  BY <1>8, <2>1 DEF CleanupFlow, Serves, Making, Reading, Sending, Listing
<1>9. CASE t \notin {"spawn", "attach", "capture", "send", "replace", "wait", "close", "cleanup"}
  <2>1. <<a, e, n>> \in ListFlow  BY <1>9 DEF Flow
  <2>2. Serves(t, a) => t \in Listing
    BY <2>1 DEF ListFlow, Serves
  <2>3. n \in {"examine", "return", "fail"}
    BY <2>1 DEF ListFlow
  <2> QED  BY <2>2, <2>3 DEF Serves
<1> QED  BY <1>1, <1>2, <1>3, <1>4, <1>5, <1>6, <1>7, <1>8, <1>9

\* An entry that is open, or ready, or closed, at a position or in an answer was
\* so when the position before it ended, or that position made it so.
LEMMA RowsOpen ==
  ASSUME NEW t, NEW a, NEW e, NEW n, <<a, e, n>> \in Flow(t)
  PROVE  /\ OpenAt(t, n) \/ (t \in Making /\ n = "return") =>
              \/ OpenAt(t, a) /\ a \notin {"discard", "seal"}
              \/ e = "ok" /\ a = "persist"
              \/ e = "ok" /\ t \in Reading /\ a = "enter"
              \/ e = "ok" /\ t \in Sending /\ a \in {"boundary", "hold"}
         /\ ReadyAt(t, n) \/ (t \in {"capture", "wait"} /\ n = "return") =>
              e = "ok" /\ (ReadyAt(t, a) \/ a \in {"settle", "record"})
         /\ n = "sealSlot" \/ (t = "close" /\ n = "return") =>
              a \in {"seal", "sealSlot"} \/ (a = "enter" /\ e = "closed")
<1>1. CASE t = "spawn"
  <2>1. <<a, e, n>> \in SpawnFlow  BY <1>1 DEF Flow
  <2> QED  BY <1>1, <2>1 DEF SpawnFlow, OpenAt, ReadyAt, Making, Reading, Sending, Closing
<1>2. CASE t = "attach"
  <2>1. <<a, e, n>> \in AttachFlow  BY <1>2 DEF Flow
  <2> QED  BY <1>2, <2>1 DEF AttachFlow, OpenAt, ReadyAt, Making, Reading, Sending, Closing
<1>3. CASE t = "capture"
  <2>1. <<a, e, n>> \in CaptureFlow  BY <1>3 DEF Flow
  <2> QED  BY <1>3, <2>1 DEF CaptureFlow, OpenAt, ReadyAt, Making, Reading, Sending, Closing
<1>4. CASE t = "send"
  <2>1. <<a, e, n>> \in SendFlow  BY <1>4 DEF Flow
  <2> QED  BY <1>4, <2>1 DEF SendFlow, OpenAt, ReadyAt, Making, Reading, Sending, Closing
<1>5. CASE t = "replace"
  <2>1. <<a, e, n>> \in ReplaceFlow  BY <1>5 DEF Flow
  <2>2. CASE <<a, e, n>> \in SendFlow
    BY <1>5, <2>2 DEF SendFlow, OpenAt, ReadyAt, Making, Reading, Sending, Closing
  <2>3. CASE <<a, e, n>> \notin SendFlow
    BY <1>5, <2>1, <2>3 DEF ReplaceFlow, OpenAt, ReadyAt, Making, Reading, Sending, Closing
  <2> QED  BY <2>2, <2>3
<1>6. CASE t = "wait"
  <2>1. <<a, e, n>> \in WaitFlow  BY <1>6 DEF Flow
  <2> QED  BY <1>6, <2>1 DEF WaitFlow, OpenAt, ReadyAt, Making, Reading, Sending, Closing
<1>7. CASE t = "close"
  <2>1. <<a, e, n>> \in CloseFlow  BY <1>7 DEF Flow
  <2> QED  BY <1>7, <2>1 DEF CloseFlow, OpenAt, ReadyAt, Making, Reading, Sending, Closing
<1>8. CASE t = "cleanup"
  <2>1. <<a, e, n>> \in CleanupFlow  BY <1>8 DEF Flow
  <2> QED  BY <1>8, <2>1 DEF CleanupFlow, OpenAt, ReadyAt, Making, Reading, Sending, Closing
<1>9. CASE t \notin {"spawn", "attach", "capture", "send", "replace", "wait", "close", "cleanup"}
  <2>1. <<a, e, n>> \in ListFlow  BY <1>9 DEF Flow
  <2> QED  BY <1>9, <2>1 DEF ListFlow, OpenAt, ReadyAt, Making, Reading, Sending, Closing
<1> QED  BY <1>1, <1>2, <1>3, <1>4, <1>5, <1>6, <1>7, <1>8, <1>9

\* What a position works on comes from the refresh, from the read or from the
\* position before it.
LEMMA RowsCarry ==
  ASSUME NEW t, NEW a, NEW e, NEW n, <<a, e, n>> \in Flow(t)
  PROVE  /\ OwnAt(t, n) =>
              e = "ok" /\ (a = "revalidate" \/ OwnAt(t, a)) /\ a # "enter" /\ t \notin Making
         /\ CarryAt(t, n) =>
              \/ e = "ok" /\ a = "enter"
              \/ CarryAt(t, a) /\ a \notin {"record", "busy", "seal"}
         /\ HoldAt(t, n) =>
              \/ e = "ok" /\ a = "hold"
              \/ HoldAt(t, a) /\ a \notin {"recordSlot", "stamp"}
<1>1. CASE t = "spawn"
  <2>1. <<a, e, n>> \in SpawnFlow  BY <1>1 DEF Flow
  <2> QED  BY <1>1, <2>1 DEF SpawnFlow, OwnAt, CarryAt, HoldAt, Making, Reading, Sending, Closing
<1>2. CASE t = "attach"
  <2>1. <<a, e, n>> \in AttachFlow  BY <1>2 DEF Flow
  <2> QED  BY <1>2, <2>1 DEF AttachFlow, OwnAt, CarryAt, HoldAt, Making, Reading, Sending, Closing
<1>3. CASE t = "capture"
  <2>1. <<a, e, n>> \in CaptureFlow  BY <1>3 DEF Flow
  <2> QED  BY <1>3, <2>1 DEF CaptureFlow, OwnAt, CarryAt, HoldAt, Making, Reading, Sending, Closing
<1>4. CASE t = "send"
  <2>1. <<a, e, n>> \in SendFlow  BY <1>4 DEF Flow
  <2> QED  BY <1>4, <2>1 DEF SendFlow, OwnAt, CarryAt, HoldAt, Making, Reading, Sending, Closing
<1>5. CASE t = "replace"
  <2>1. <<a, e, n>> \in ReplaceFlow  BY <1>5 DEF Flow
  <2>2. CASE <<a, e, n>> \in SendFlow
    BY <1>5, <2>2 DEF SendFlow, OwnAt, CarryAt, HoldAt, Making, Reading, Sending, Closing
  <2>3. CASE <<a, e, n>> \notin SendFlow
    BY <1>5, <2>1, <2>3 DEF ReplaceFlow, OwnAt, CarryAt, HoldAt, Making, Reading, Sending, Closing
  <2> QED  BY <2>2, <2>3
<1>6. CASE t = "wait"
  <2>1. <<a, e, n>> \in WaitFlow  BY <1>6 DEF Flow
  <2> QED  BY <1>6, <2>1 DEF WaitFlow, OwnAt, CarryAt, HoldAt, Making, Reading, Sending, Closing
<1>7. CASE t = "close"
  <2>1. <<a, e, n>> \in CloseFlow  BY <1>7 DEF Flow
  <2> QED  BY <1>7, <2>1 DEF CloseFlow, OwnAt, CarryAt, HoldAt, Making, Reading, Sending, Closing
<1>8. CASE t = "cleanup"
  <2>1. <<a, e, n>> \in CleanupFlow  BY <1>8 DEF Flow
  <2> QED  BY <1>8, <2>1 DEF CleanupFlow, OwnAt, CarryAt, HoldAt, Making, Reading, Sending, Closing
<1>9. CASE t \notin {"spawn", "attach", "capture", "send", "replace", "wait", "close", "cleanup"}
  <2>1. <<a, e, n>> \in ListFlow  BY <1>9 DEF Flow
  <2> QED  BY <1>9, <2>1 DEF ListFlow, OwnAt, CarryAt, HoldAt, Making, Reading, Sending, Closing
<1> QED  BY <1>1, <1>2, <1>3, <1>4, <1>5, <1>6, <1>7, <1>8, <1>9

\* A list goes on to the next handle, or answers, only when its position succeeded;
\* a handler takes out a slot right after it wrote the registry.
LEMMA RowsList ==
  ASSUME NEW t, NEW a, NEW e, NEW n, <<a, e, n>> \in Flow(t)
  PROVE  /\ n = "examine" => a \in {"scan", "examine"} /\ e = "ok"
         /\ t \in Listing /\ n = "return" =>
              (a = "scan" /\ e \in {"ok", "none"}) \/ (a = "examine" /\ e = "ok")
         /\ n = "discardSlot" <=> a = "discard"
         /\ n = "sealSlot" <=> a = "seal"
         /\ n = "pruneSlots" <=> a = "prune" /\ e = "ok"
<1>1. CASE t = "spawn"
  <2>1. <<a, e, n>> \in SpawnFlow  BY <1>1 DEF Flow
  <2> QED  BY <1>1, <2>1 DEF SpawnFlow, Listing
<1>2. CASE t = "attach"
  <2>1. <<a, e, n>> \in AttachFlow  BY <1>2 DEF Flow
  <2> QED  BY <1>2, <2>1 DEF AttachFlow, Listing
<1>3. CASE t = "capture"
  <2>1. <<a, e, n>> \in CaptureFlow  BY <1>3 DEF Flow
  <2> QED  BY <1>3, <2>1 DEF CaptureFlow, Listing
<1>4. CASE t = "send"
  <2>1. <<a, e, n>> \in SendFlow  BY <1>4 DEF Flow
  <2> QED  BY <1>4, <2>1 DEF SendFlow, Listing
<1>5. CASE t = "replace"
  <2>1. <<a, e, n>> \in ReplaceFlow  BY <1>5 DEF Flow
  <2>2. CASE <<a, e, n>> \in SendFlow
    BY <1>5, <2>2 DEF SendFlow, Listing
  <2>3. CASE <<a, e, n>> \notin SendFlow
    BY <1>5, <2>1, <2>3 DEF ReplaceFlow, Listing
  <2> QED  BY <2>2, <2>3
<1>6. CASE t = "wait"
  <2>1. <<a, e, n>> \in WaitFlow  BY <1>6 DEF Flow
  <2> QED  BY <1>6, <2>1 DEF WaitFlow, Listing
<1>7. CASE t = "close"
  <2>1. <<a, e, n>> \in CloseFlow  BY <1>7 DEF Flow
  <2> QED  BY <1>7, <2>1 DEF CloseFlow, Listing
<1>8. CASE t = "cleanup"
  <2>1. <<a, e, n>> \in CleanupFlow  BY <1>8 DEF Flow
  <2> QED  BY <1>8, <2>1 DEF CleanupFlow, Listing
<1>9. CASE t \notin {"spawn", "attach", "capture", "send", "replace", "wait", "close", "cleanup"}
  <2>1. <<a, e, n>> \in ListFlow  BY <1>9 DEF Flow
  <2> QED  BY <1>9, <2>1 DEF ListFlow, Listing
<1> QED  BY <1>1, <1>2, <1>3, <1>4, <1>5, <1>6, <1>7, <1>8, <1>9

\* What a position has established when it ends with an event.
Leaves(c, e, r, o) ==
  LET t == c.tool
      a == c.at
      b == r[c.h]
  IN
  /\ (\/ OpenAt(t, a) /\ a \notin {"discard", "seal"}
      \/ e = "ok" /\ a = "persist"
      \/ e = "ok" /\ t \in Reading /\ a = "enter"
      \/ e = "ok" /\ t \in Sending /\ a \in {"boundary", "hold"}) => Open(b)
  /\ e = "ok" /\ (ReadyAt(t, a) \/ a \in {"settle", "record"}) => b.status = "ready"
  /\ a \in {"seal", "sealSlot"} \/ (a = "enter" /\ e = "closed") => b.status = "closed"
  /\ e = "ok" /\ t \notin Making /\ a # "enter" /\ (a = "revalidate" \/ OwnAt(t, a)) =>
       Owned(c, r)
  /\ (e = "ok" /\ a = "enter") \/ (CarryAt(t, a) /\ a \notin {"record", "busy", "seal"}) =>
       Carried(c, r)
  /\ (e = "ok" /\ a = "hold") \/ (HoldAt(t, a) /\ a \notin {"recordSlot", "stamp"}) =>
       c.slots = o
  /\ e = "ok" /\ t \in Listing /\ a \in {"scan", "examine"} => Listed(c, r, c.todo)
  /\ e = "none" /\ a = "scan" => Listed(c, r, {})

\* The slots a handler has still to take out after an event.
Sweeps(c, e) ==
  IF c.at \in {"discard", "seal"} THEN {c.h}
  ELSE IF c.at = "prune" /\ e = "ok" THEN c.todo ELSE {}

\* The fields of a call that advancing leaves alone.
Same(d, c) ==
  d.own = c.own /\ d.snap = c.snap /\ d.inner = c.inner /\ d.slots = c.slots

\* What becomes of the fields of a call that advances.
Becomes(c, e, n, d) ==
  /\ <<c.at, e, n>> \in Flow(c.tool) /\ Permitted(c, n)
  /\ d.tool = c.tool /\ d.gone = c.gone
  /\ \/ n \in Ends /\ d.pc = n /\ d.at = "none" /\ d.h = c.h
     \/ /\ n = "examine" /\ d.pc = "refresh" /\ d.at = n /\ Same(d, c)
        /\ d.h \in c.todo /\ d.todo = c.todo \ {d.h}
     \/ /\ n \in Positions \ {"examine"} /\ d.pc = Entry(n) /\ d.at = n /\ Same(d, c)
        /\ d.h = c.h /\ d.todo = c.todo

\* A call that advances ends or arrives with the fields it had.
LEMMA AfterFields ==
  ASSUME NEW c \in Call, NEW e, NEW d \in After(c, e)
  PROVE  \E n \in Positions \union Ends : Becomes(c, e, n, d)
<1>1. PICK n \in Positions \union Ends : Onward(c, e, n, d)
  BY AfterShape
<1>2. <<c.at, e, n>> \in Flow(c.tool) /\ Permitted(c, n)
  BY <1>1 DEF Onward
<1>3. CASE n \in Ends /\ d = Finish(c, n)
  <2>1. d.pc = n /\ d.at = "none" /\ d.tool = c.tool /\ d.h = c.h /\ d.gone = c.gone
    <3> DEFINE i == Idle
    <3>1. i \in Call /\ i.at = "none"
      BY IdleInCall DEF Idle
    <3>2. d = [i EXCEPT !.pc = n, !.tool = c.tool, !.h = c.h, !.own = c.own, !.gone = c.gone]
      BY <1>3 DEF Finish
    <3> HIDE DEF i
    <3> QED  BY <3>1, <3>2 DEF Call
  <2> QED  BY <1>2, <1>3, <2>1 DEF Becomes
<1>4. CASE n \in Positions \ {"examine"} /\ d = Arrive(c, n)
  <2>1. /\ d.at = n /\ d.own = c.own /\ d.snap = c.snap /\ d.inner = c.inner /\ d.h = c.h
        /\ d.tool = c.tool /\ d.todo = c.todo
    BY <1>4, ArriveInCall
  <2>2. d.pc = Entry(n) /\ d.slots = c.slots /\ d.gone = c.gone
    BY <1>4 DEF Arrive, Call
  <2> QED  BY <1>2, <1>4, <2>1, <2>2 DEF Becomes, Same
<1>5. ASSUME NEW k \in c.todo, n = "examine", d = Examine(c, k)
      PROVE  Becomes(c, e, n, d)
  <2> DEFINE f == Arrive(c, n)
  <2>1. n \in Positions
    BY <1>5 DEF Positions, RefreshAt
  <2>2. /\ f \in Call /\ f.at = n /\ f.own = c.own /\ f.snap = c.snap /\ f.inner = c.inner
        /\ f.h = c.h /\ f.tool = c.tool /\ f.todo = c.todo
    BY <2>1, ArriveInCall
  <2>3. f.pc = "refresh" /\ f.slots = c.slots /\ f.gone = c.gone
    BY <1>5 DEF Arrive, Call, Entry, RefreshAt, OperateAt, ObserveAt, VerifyAt, ReadAt,
       EditAt, WriteAt, SlotEditAt, SlotWriteAt
  <2>4. d = [f EXCEPT !.h = k, !.todo = f.todo \ {k}]
    BY <1>5, <2>2 DEF Examine, Call
  <2> HIDE DEF f
  <2>5. /\ d.pc = "refresh" /\ d.at = n /\ d.own = c.own /\ d.snap = c.snap
        /\ d.inner = c.inner /\ d.slots = c.slots /\ d.tool = c.tool /\ d.gone = c.gone
        /\ d.h = k /\ d.todo = c.todo \ {k}
    BY <2>2, <2>3, <2>4 DEF Call
  <2> QED  BY <1>2, <1>5, <2>5 DEF Becomes, Same
<1> QED  BY <1>1, <1>3, <1>4, <1>5 DEF Onward

\* A position begins with no copy of a file just read.
LEMMA EntryPlain ==
  ASSUME NEW n \in Positions
  PROVE  /\ Entry(n) \notin {"idle", "return", "fail", "reconcile", "resolve", "reconcileList",
                             "refreshStore", "markStore"}
         /\ Entry(n) = "store" => n \notin EditAt
         /\ Entry(n) = "slotStore" => n \notin SlotEditAt
         /\ n \notin {"none", "return", "fail"}
  BY DEF Entry, Positions, ReadAt, VerifyAt, EditAt, WriteAt, SlotEditAt, SlotWriteAt,
         ObserveAt, OperateAt, RefreshAt

\* At no position, a call promises nothing but its answer.
LEMMA NowherePromises ==
  ASSUME NEW d, NEW r, NEW o, d.at = "none", d.pc \in {"idle"} \union Ends
  PROVE  Pos(d, r, o) /\ Lab(d, r, o) /\ Unswept(d) = {}
<1> DEFINE t == d.tool
<1>1. /\ Serves(t, "none") /\ ~OpenAt(t, "none") /\ ~ReadyAt(t, "none") /\ ~OwnAt(t, "none")
      /\ ~CarryAt(t, "none") /\ ~HoldAt(t, "none")
  BY DEF Serves, OpenAt, ReadyAt, OwnAt, CarryAt, HoldAt, Closing
<1> QED  BY <1>1 DEF Pos, Lab, Unswept, Ends

\* What a position established is what the next one, or the answer, promises.
LEMMA AdvanceSeq ==
  ASSUME NEW c \in Call, NEW e, NEW r, NEW o, NEW lf, NEW pn, NEW d \in After(c, e),
         Serves(c.tool, c.at), Leaves(c, e, r, o),
         \A k \in Handles : Provisioned(r[k]),
         \A p \in c.gone : pn[p] = "gone",
         Lives(c, r, lf),
         Slotted(r, o, Sweeps(c, e))
  PROVE  SeqInv(d, r, o, lf, pn)
<1>1. PICK n \in Positions \union Ends : Becomes(c, e, n, d)
  BY AfterFields
<1> DEFINE t == c.tool
           a == c.at
<1>2. <<a, e, n>> \in Flow(t) /\ Permitted(c, n) /\ d.tool = t /\ d.gone = c.gone
  BY <1>1 DEF Becomes
<1>3. Serves(t, n) /\ n \notin {"persist", "prune", "scan"}
  <2> HIDE DEF t, a
  <2>1. Serves(t, a) => Serves(t, n)
    BY <1>2, RowsServe
  <2>2. n \notin {"persist", "prune", "scan"}
    BY <1>2, RowsServe
  <2> QED  BY <2>1, <2>2 DEF t, a
<1>4. /\ (\/ OpenAt(t, a) /\ a \notin {"discard", "seal"}
          \/ e = "ok" /\ a = "persist"
          \/ e = "ok" /\ t \in Reading /\ a = "enter"
          \/ e = "ok" /\ t \in Sending /\ a \in {"boundary", "hold"}) => Open(r[c.h])
      /\ e = "ok" /\ (ReadyAt(t, a) \/ a \in {"settle", "record"}) => r[c.h].status = "ready"
      /\ a \in {"seal", "sealSlot"} \/ (a = "enter" /\ e = "closed") => r[c.h].status = "closed"
      /\ e = "ok" /\ t \notin Making /\ a # "enter" /\ (a = "revalidate" \/ OwnAt(t, a)) =>
           Owned(c, r)
      /\ (e = "ok" /\ a = "enter") \/ (CarryAt(t, a) /\ a \notin {"record", "busy", "seal"}) =>
           Carried(c, r)
      /\ (e = "ok" /\ a = "hold") \/ (HoldAt(t, a) /\ a \notin {"recordSlot", "stamp"}) =>
           c.slots = o
      /\ e = "ok" /\ t \in Listing /\ a \in {"scan", "examine"} => Listed(c, r, c.todo)
      /\ e = "none" /\ a = "scan" => Listed(c, r, {})
  BY DEF Leaves
<1> HIDE DEF t, a
<1>5. /\ OpenAt(t, n) \/ (t \in Making /\ n = "return") => Open(r[c.h])
      /\ ReadyAt(t, n) \/ (t \in {"capture", "wait"} /\ n = "return") => r[c.h].status = "ready"
      /\ n = "sealSlot" \/ (t = "close" /\ n = "return") => r[c.h].status = "closed"
  BY <1>2, <1>4, RowsOpen
<1>6. /\ OwnAt(t, n) => Owned(c, r)
      /\ CarryAt(t, n) => Carried(c, r)
      /\ HoldAt(t, n) => c.slots = o
  BY <1>2, <1>4, RowsCarry
<1>7. /\ n = "examine" => t \in Listing /\ Listed(c, r, c.todo)
      /\ t \in Listing /\ n = "return" => Listed(c, r, {})
  <2>1. n = "examine" => t \in Listing
    BY <1>3 DEF Serves
  <2>2. n = "return" /\ t \in Listing => c.todo = {}
    BY <1>2 DEF Permitted, t
  <2> QED  BY <1>2, <1>4, <2>1, <2>2, RowsList
<1>8. /\ n = "discardSlot" <=> a = "discard"
      /\ n = "sealSlot" <=> a = "seal"
      /\ n = "pruneSlots" <=> a = "prune" /\ e = "ok"
  BY <1>2, RowsList
<1>9. CASE n \in Ends
  <2>1. d.pc = n /\ d.at = "none" /\ d.h = c.h
    BY <1>1, <1>9, EntryPlain DEF Becomes, Ends
  <2>2. Pos(d, r, o) /\ Lab(d, r, o) /\ Unswept(d) = {}
    BY <1>9, <2>1, NowherePromises
  <2>3. Lives(d, r, lf)
    BY <1>2, <2>1 DEF Lives, t
  <2>4. Sweeps(c, e) = {}
    BY <1>8, <1>9 DEF Sweeps, Ends, a
  <2>5. Answer(d, r)
    <3>1. t \in Listing /\ n = "return" => Listed(d, r, {})
      BY <1>2, <1>7 DEF Listed, Told
    <3> QED  BY <1>2, <1>5, <2>1, <3>1 DEF Answer
  <2> QED  BY <1>2, <1>9, <2>1, <2>2, <2>3, <2>4, <2>5 DEF SeqInv, Ends
<1>10. CASE n = "examine"
  <2>1. /\ d.pc = "refresh" /\ d.at = n /\ Same(d, c)
        /\ d.h \in c.todo /\ d.todo = c.todo \ {d.h}
    BY <1>1, <1>10 DEF Becomes, Ends
  <2>2. t \in Listing /\ t \notin Making /\ Listed(c, r, c.todo)
    BY <1>7, <1>10 DEF Listing, Making
  <2>3. Lives(d, r, lf)
    BY <1>2, <2>2 DEF Lives, t
  <2>4. Listed(d, r, d.todo \union {d.h})
    <3>1. d.todo \union {d.h} = c.todo
      BY <2>1
    <3> QED  BY <1>2, <2>1, <2>2, <3>1 DEF Listed, Told, Same
  <2>5. /\ ~OpenAt(t, n) /\ ~ReadyAt(t, n) /\ ~OwnAt(t, n) /\ ~CarryAt(t, n) /\ ~HoldAt(t, n)
    BY <1>10, <2>2 DEF OpenAt, ReadyAt, OwnAt, CarryAt, HoldAt, Listing, Making, Sending, Reading
  <2>6. Pos(d, r, o)
    BY <1>2, <1>3, <1>10, <2>1, <2>4, <2>5 DEF Pos
  <2>7. Unswept(d) = {} /\ Sweeps(c, e) = {}
    BY <1>8, <1>10, <2>1 DEF Unswept, Sweeps, a
  <2>8. Answer(d, r) /\ Lab(d, r, o)
    BY <2>1 DEF Answer, Lab
  <2> QED  BY <1>2, <2>1, <2>3, <2>6, <2>7, <2>8 DEF SeqInv
<1>11. CASE n \in Positions \ {"examine"}
  <2>1. d.pc = Entry(n) /\ d.at = n /\ Same(d, c) /\ d.h = c.h /\ d.todo = c.todo
    BY <1>1, <1>11, EntryPlain DEF Becomes, Ends
  <2>2. Lives(d, r, lf)
    BY <1>2, <2>1 DEF Lives, t
  <2>3. n = "boundary" => d.own.source = "attached"
    BY <1>2, <2>1 DEF Permitted, Same
  <2>4. /\ OwnAt(t, n) => Owned(d, r)
        /\ CarryAt(t, n) => Carried(d, r)
        /\ HoldAt(t, n) => d.slots = o
    BY <1>6, <2>1 DEF Owned, Carried, Same
  <2>5. Pos(d, r, o)
    BY <1>2, <1>3, <1>5, <1>11, <2>1, <2>3, <2>4 DEF Pos
  <2>6. Unswept(d) = Sweeps(c, e)
    BY <1>8, <2>1 DEF Unswept, Sweeps, a
  <2>7. Answer(d, r) /\ Lab(d, r, o) /\ d.pc # "idle"
    <3>1. /\ d.pc \notin {"idle", "return", "reconcile", "resolve", "reconcileList",
                          "refreshStore", "markStore"}
          /\ d.pc = "store" => d.at \notin EditAt
          /\ d.pc = "slotStore" => d.at \notin SlotEditAt
      BY <1>11, <2>1, EntryPlain
    <3>2. "prune" \in EditAt
      BY DEF EditAt
    <3> QED  BY <3>1, <3>2 DEF Answer, Lab
  <2> QED  BY <1>2, <2>1, <2>2, <2>5, <2>6, <2>7 DEF SeqInv
<1> QED  BY <1>9, <1>10, <1>11

----------------------------------------------------------------------------
(* Lemmas about the steps. *)

\* The fields positions make promises about, own apart.
Agree(x, c) ==
  /\ x.tool = c.tool /\ x.at = c.at /\ x.h = c.h /\ x.todo = c.todo /\ x.gone = c.gone
  /\ x.snap = c.snap /\ x.slots = c.slots

\* Pos speaks of these fields only.
LEMMA SamePos ==
  ASSUME NEW c, NEW x, NEW r, NEW o, Agree(x, c), x.own = c.own, Pos(c, r, o)
  PROVE  Pos(x, r, o)
<1> DEFINE t == c.tool
           a == c.at
<1>1. x.tool = t /\ x.at = a /\ x.h = c.h /\ x.todo = c.todo /\ x.gone = c.gone
      /\ x.snap = c.snap /\ x.slots = c.slots
  BY DEF Agree
<1>2. /\ Owned(c, r) => Owned(x, r)
      /\ Carried(c, r) => Carried(x, r)
      /\ \A rest : Listed(c, r, rest) => Listed(x, r, rest)
  BY <1>1 DEF Owned, Carried, Listed, Told
<1> QED  BY <1>1, <1>2 DEF Pos

\* The positions whose end establishes something new.
Turning == {"persist", "revalidate", "enter", "boundary", "hold", "settle", "record",
            "scan", "examine"}

\* The other positions hand on what they promised, and so does one that fails.
LEMMA PosLeaves ==
  ASSUME NEW c, NEW r, NEW o, NEW e, Pos(c, r, o), c.at # "seal",
         c.at \notin Turning \/ e \notin {"ok", "closed", "none"}
  PROVE  Leaves(c, e, r, o)
<1> DEFINE t == c.tool
           a == c.at
<1>1. /\ OpenAt(t, a) => Open(r[c.h])
      /\ ReadyAt(t, a) => r[c.h].status = "ready"
      /\ a = "sealSlot" => r[c.h].status = "closed"
      /\ OwnAt(t, a) => Owned(c, r)
      /\ CarryAt(t, a) => Carried(c, r)
      /\ HoldAt(t, a) => c.slots = o
  BY DEF Pos
<1> HIDE DEF t, a
<1>2. a # "seal" /\ (a \notin Turning \/ e \notin {"ok", "closed", "none"})
  BY DEF a
<1>3. /\ (\/ OpenAt(t, a) /\ a \notin {"discard", "seal"}
          \/ e = "ok" /\ a = "persist"
          \/ e = "ok" /\ t \in Reading /\ a = "enter"
          \/ e = "ok" /\ t \in Sending /\ a \in {"boundary", "hold"}) => Open(r[c.h])
      /\ e = "ok" /\ (ReadyAt(t, a) \/ a \in {"settle", "record"}) => r[c.h].status = "ready"
      /\ a \in {"seal", "sealSlot"} \/ (a = "enter" /\ e = "closed") => r[c.h].status = "closed"
      /\ e = "ok" /\ t \notin Making /\ a # "enter" /\ (a = "revalidate" \/ OwnAt(t, a)) =>
           Owned(c, r)
      /\ (e = "ok" /\ a = "enter") \/ (CarryAt(t, a) /\ a \notin {"record", "busy", "seal"}) =>
           Carried(c, r)
      /\ (e = "ok" /\ a = "hold") \/ (HoldAt(t, a) /\ a \notin {"recordSlot", "stamp"}) =>
           c.slots = o
      /\ ~(e = "ok" /\ t \in Listing /\ a \in {"scan", "examine"})
      /\ ~(e = "none" /\ a = "scan")
  BY <1>1, <1>2 DEF Turning
<1> QED  BY <1>3 DEF Leaves, t, a

\* What holds of the files and panes beside what c's position promises.
World(c, r, o, lf, pn, unswept) ==
  /\ \A k \in Handles : Provisioned(r[k])
  /\ \A p \in c.gone : pn[p] = "gone"
  /\ Lives(c, r, lf)
  /\ Slotted(r, o, unswept)

\* The only worker's call becomes d.
LEMMA SeqStep ==
  ASSUME IInv, NEW w, Workers = {w}, NEW d, Local(w, d),
         SeqInv(d, registry', observations', life', pane')
  PROVE  SInv'
<1>1. call'[w] = d
  BY DEF IInv, TypeOK, Local
<1> QED  BY <1>1 DEF SInv

\* The only worker's call advances.
LEMMA SeqAdvance ==
  ASSUME IInv, NEW w, Workers = {w}, NEW x \in Call, NEW e, Advance(w, x, e),
         Serves(x.tool, x.at), Leaves(x, e, registry', observations'),
         World(x, registry', observations', life', pane', Sweeps(x, e))
  PROVE  SInv'
<1>1. PICK d \in After(x, e) : Local(w, d)
  BY DEF Advance
<1>2. SeqInv(d, registry', observations', life', pane')
  BY AdvanceSeq DEF World
<1> QED  BY <1>1, <1>2, SeqStep

\* What a step finds.
LEMMA SeqNow ==
  ASSUME IInv, SInv, NEW w, Workers = {w}
  PROVE  LET c == call[w]
         IN  /\ c \in Call /\ CallInv(c, pane) /\ w \in Workers
             /\ SeqInv(c, registry, observations, life, pane)
             /\ World(c, registry, observations, life, pane, Unswept(c))
             /\ Pos(c, registry, observations) /\ Lab(c, registry, observations)
             /\ Answer(c, registry) /\ Serves(c.tool, c.at)
             /\ registry \in Registry /\ observations \in Observations
<1>1. call[w] \in Call /\ CallInv(call[w], pane) /\ w \in Workers
      /\ registry \in Registry /\ observations \in Observations
  BY DEF IInv, TypeOK
<1>2. SeqInv(call[w], registry, observations, life, pane)
  BY <1>1 DEF SInv
<1> QED  BY <1>1, <1>2 DEF SeqInv, World, Pos

SlotSweeps == {"discardSlot", "sealSlot", "pruneSlots"}

\* The files stay, the panes move on: what holds beside the promises stays too.
LEMMA QuietWorld ==
  ASSUME NEW c, NEW x, NEW r, NEW o, NEW lf, NEW pn, NEW qn, NEW u,
         c \in Call, World(c, r, o, lf, pn, Unswept(c)), Forward(pn, qn),
         x.tool = c.tool, x.h = c.h, x.gone = c.gone,
         u = Unswept(c) \/ c.at \notin SlotSweeps
  PROVE  World(x, r, o, lf, qn, u)
<1>1. \A p \in x.gone : qn[p] = "gone"
  BY DEF World, Forward, Call
<1>2. Slotted(r, o, u)
  BY DEF World, Slotted, Unswept, SlotSweeps
<1> QED  BY <1>1, <1>2 DEF World, Lives

\* A step that leaves the files alone and ends a position.
LEMMA QuietAdvance ==
  ASSUME IInv, SInv, NEW w, Workers = {w}, UNCHANGED <<registry, observations, life>>,
         Forward(pane, pane'), NEW x \in Call, x.tool = call[w].tool, x.at = call[w].at,
         x.h = call[w].h, x.gone = call[w].gone, call[w].at \notin SlotSweeps,
         NEW e, Advance(w, x, e), Leaves(x, e, registry, observations)
  PROVE  SInv'
<1>1. /\ call[w] \in Call /\ World(call[w], registry, observations, life, pane, Unswept(call[w]))
      /\ Serves(call[w].tool, call[w].at)
  BY SeqNow
<1> DEFINE u == Sweeps(x, e)
<1> HIDE DEF u
<1>2. World(x, registry, observations, life, pane', u)
  BY <1>1, QuietWorld
<1>3. World(x, registry', observations', life', pane', Sweeps(x, e))
  BY <1>2 DEF u
<1> QED  BY <1>1, <1>3, SeqAdvance

\* A step that leaves the files alone and hands on what its position promised.
LEMMA PlainAdvance ==
  ASSUME IInv, SInv, NEW w, Workers = {w}, UNCHANGED <<registry, observations, life>>,
         Forward(pane, pane'), NEW x \in Call, Agree(x, call[w]), x.own = call[w].own,
         call[w].at \notin SlotSweeps \union {"seal"},
         NEW e, Advance(w, x, e), call[w].at \notin Turning \/ e \notin {"ok", "closed", "none"}
  PROVE  SInv'
<1>1. Pos(x, registry, observations)
  BY SeqNow, SamePos
<1>2. x.tool = call[w].tool /\ x.at = call[w].at /\ x.h = call[w].h /\ x.gone = call[w].gone
  BY DEF Agree
<1>3. Leaves(x, e, registry, observations)
  BY <1>1, <1>2, PosLeaves
<1> QED  BY <1>2, <1>3, QuietAdvance

\* A step that leaves the files alone and changes the label within a position.
LEMMA QuietStay ==
  ASSUME IInv, SInv, NEW w, Workers = {w}, UNCHANGED <<registry, observations, life>>,
         Forward(pane, pane'), NEW d, Local(w, d), Agree(d, call[w]), d.own = call[w].own,
         d.pc \notin {"idle", "return"}, Lab(d, registry, observations)
  PROVE  SInv'
<1>1. /\ call[w] \in Call /\ World(call[w], registry, observations, life, pane, Unswept(call[w]))
      /\ Pos(d, registry, observations)
  BY SeqNow, SamePos
<1>2. Unswept(d) = Unswept(call[w])
  BY DEF Unswept, Agree
<1>3. World(d, registry, observations, life, pane', Unswept(d))
  BY <1>1, <1>2, QuietWorld DEF Agree
<1>4. SeqInv(d, registry', observations', life', pane')
  BY <1>1, <1>3 DEF World, SeqInv, Answer
<1> QED  BY <1>4, SeqStep

\* The copy of the call that a step leaves with, its own copy of the registry
\* and its hints dropped, agrees with the call.
LEMMA DropsCopies ==
  ASSUME NEW c \in Call
  PROVE  LET x == [c EXCEPT !.inner = EmptyRegistry, !.before = {}]
             y == [c EXCEPT !.inner = EmptyRegistry]
         IN  /\ x \in Call /\ Agree(x, c) /\ x.own = c.own
             /\ y \in Call /\ Agree(y, c) /\ y.own = c.own
<1> DEFINE y == [c EXCEPT !.inner = EmptyRegistry]
           x == [c EXCEPT !.inner = EmptyRegistry, !.before = {}]
<1>1. EmptyRegistry \in Registry /\ {} \in SUBSET Panes
  BY DEF EmptyRegistry, Registry, NoBinding, Binding, Status
<1>2. y \in Call
  BY <1>1, UpdateCall
<1>3. x = [y EXCEPT !.before = {}]
  BY DEF Call
<1>4. Agree(y, c) /\ y.own = c.own
  BY DEF Agree, Call
<1> HIDE DEF y
<1>5. [y EXCEPT !.before = {}] \in Call
  BY <1>1, <1>2, UpdateCall
<1>6. Agree([y EXCEPT !.before = {}], c) /\ [y EXCEPT !.before = {}].own = c.own
  BY <1>2, <1>4 DEF Agree, Call
<1>7. x \in Call /\ Agree(x, c) /\ x.own = c.own
  BY <1>3, <1>5, <1>6
<1> QED  BY <1>2, <1>4, <1>7 DEF y

\* Setting the bindings of a call.
LEMMA BindingUpdate ==
  ASSUME NEW c \in Call, NEW b \in Binding
  PROVE  /\ [c EXCEPT !.cur = b] \in Call /\ Agree([c EXCEPT !.cur = b], c)
         /\ [c EXCEPT !.cur = b].own = c.own
         /\ [c EXCEPT !.own = b] \in Call /\ Agree([c EXCEPT !.own = b], c)
         /\ [c EXCEPT !.own = b].own = b
<1>1. [c EXCEPT !.cur = b] \in Call /\ [c EXCEPT !.own = b] \in Call
  BY UpdateCall
<1>2. Agree([c EXCEPT !.cur = b], c) /\ [c EXCEPT !.cur = b].own = c.own
  BY DEF Agree, Call
<1>3. Agree([c EXCEPT !.own = b], c) /\ [c EXCEPT !.own = b].own = b
  BY DEF Agree, Call
<1> QED  BY <1>1, <1>2, <1>3

\* What a refresh has to establish of the registry it leaves: the entry b of the
\* handle was judged, and what the position promised holds of it still.
Renewed(c, r, o) ==
  /\ Present(r[c.h]) /\ Judged(r[c.h])
  /\ OpenAt(c.tool, c.at) => Open(r[c.h])
  /\ ReadyAt(c.tool, c.at) /\ IsActive(r[c.h]) => r[c.h].status = "ready"
  /\ CarryAt(c.tool, c.at) => Carried(c, r)
  /\ HoldAt(c.tool, c.at) => c.slots = o
  /\ c.at = "examine" => Listed(c, r, c.todo)

\* The positions of a refresh are not among those of the files.
LEMMA RefreshApart ==
  ASSUME NEW t, NEW a \in OperateAt \union RefreshAt
  PROVE  /\ a \notin SlotSweeps \union {"seal", "discard", "prune", "enter", "hold", "boundary",
                                        "boundarySlot", "persist", "settle", "record", "scan", "none"}
         /\ ~OwnAt(t, a)
         /\ a \in RefreshAt => ~ReadyAt(t, a)
         /\ a \in OperateAt => a \notin Turning
  BY DEF OperateAt, RefreshAt, SlotSweeps, OwnAt, ReadyAt, Turning

\* The handler goes on from a refresh with what the refresh established.
LEMMA RenewedLeaves ==
  ASSUME NEW c, NEW r, NEW o, c.at \in OperateAt \union RefreshAt, Renewed(c, r, o),
         NEW x, Agree(x, c), NEW e,
         \/ c.at \in OperateAt /\ e = "stale"
         \/ c.at \in RefreshAt /\ x.own = r[c.h] /\ e \in {"ok", "inactive"}
  PROVE  Leaves(x, e, r, o)
<1> DEFINE t == c.tool
           a == c.at
<1>1. /\ x.tool = t /\ x.at = a /\ x.h = c.h /\ x.todo = c.todo /\ x.gone = c.gone
      /\ x.snap = c.snap /\ x.slots = c.slots
  BY DEF Agree
<1>2. /\ OpenAt(t, a) => Open(r[c.h])
      /\ CarryAt(t, a) => Carried(x, r)
      /\ HoldAt(t, a) => x.slots = o
      /\ a = "examine" => Listed(x, r, x.todo)
  BY <1>1 DEF Renewed, Carried, Listed, Told
<1>3. a \in RefreshAt => Owned(x, r)
  BY <1>1, RefreshApart DEF Renewed, Owned, OperateAt, RefreshAt
<1>4. a \in RefreshAt \/ e = "stale"
  OBVIOUS
<1>5. a \in OperateAt \union RefreshAt
  OBVIOUS
<1>6. /\ a \notin {"seal", "sealSlot", "discard", "enter", "hold", "boundary", "persist",
                   "settle", "record", "scan"}
      /\ ~OwnAt(t, a) /\ (a \in RefreshAt => ~ReadyAt(t, a))
  BY <1>5, RefreshApart DEF SlotSweeps
<1>7. a = "revalidate" => a \in RefreshAt
  BY DEF RefreshAt
<1>8. e \in {"stale", "ok", "inactive"}
  OBVIOUS
<1> HIDE DEF t, a
<1>9. /\ (\/ OpenAt(t, a) /\ a \notin {"discard", "seal"}
          \/ e = "ok" /\ a = "persist"
          \/ e = "ok" /\ t \in Reading /\ a = "enter"
          \/ e = "ok" /\ t \in Sending /\ a \in {"boundary", "hold"}) => Open(r[c.h])
      /\ e = "ok" /\ (ReadyAt(t, a) \/ a \in {"settle", "record"}) => r[c.h].status = "ready"
      /\ a \in {"seal", "sealSlot"} \/ (a = "enter" /\ e = "closed") => r[c.h].status = "closed"
      /\ e = "ok" /\ t \notin Making /\ a # "enter" /\ (a = "revalidate" \/ OwnAt(t, a)) =>
           Owned(x, r)
      /\ (e = "ok" /\ a = "enter") \/ (CarryAt(t, a) /\ a \notin {"record", "busy", "seal"}) =>
           Carried(x, r)
      /\ (e = "ok" /\ a = "hold") \/ (HoldAt(t, a) /\ a \notin {"recordSlot", "stamp"}) =>
           x.slots = o
      /\ e = "ok" /\ t \in Listing /\ a \in {"scan", "examine"} => Listed(x, r, x.todo)
      /\ ~(e = "none" /\ a = "scan")
  BY <1>2, <1>3, <1>4, <1>6, <1>7, <1>8
<1> QED  BY <1>1, <1>9 DEF Leaves

\* A retry stays at its position, whose promises the refresh renewed.
LEMMA RenewedPos ==
  ASSUME NEW c, NEW r, NEW o, c.at \in OperateAt, Serves(c.tool, c.at), Renewed(c, r, o),
         IsActive(r[c.h])
  PROVE  Pos(c, r, o)
<1> DEFINE t == c.tool
           a == c.at
<1>1. /\ a \notin {"sealSlot", "boundary", "persist", "examine"} /\ ~OwnAt(t, a)
  BY RefreshApart DEF SlotSweeps, OperateAt
<1>2. /\ OpenAt(t, a) => Open(r[c.h])
      /\ ReadyAt(t, a) => r[c.h].status = "ready"
      /\ CarryAt(t, a) => Carried(c, r)
      /\ HoldAt(t, a) => c.slots = o
  BY DEF Renewed
<1> QED  BY <1>1, <1>2 DEF Pos

\* refresh_binding_target returns the entry of the handle.
LEMMA RefreshedSeq ==
  ASSUME IInv, SInv, NEW w, Workers = {w}, call[w].pc \in Refreshing,
         UNCHANGED <<observations, pane, life>>, registry' \in Registry,
         Refreshed(w, call[w], registry'[call[w].h]),
         World(call[w], registry', observations, life, pane, {}),
         Renewed(call[w], registry', observations)
  PROVE  SInv'
<1> DEFINE c == call[w]
           b == registry'[c.h]
           x == [c EXCEPT !.inner = EmptyRegistry, !.before = {}]
<1>1. c \in Call /\ CallInv(c, pane) /\ Serves(c.tool, c.at)
  BY SeqNow
<1>2. c.at \in OperateAt \union RefreshAt /\ c.h \in Handles /\ b \in Binding
  <2>1. c.at \in OperateAt \union RefreshAt /\ c.h \in Handles
    BY <1>1, Placed
  <2> QED  BY <2>1 DEF Registry
<1>3. x \in Call /\ Agree(x, c) /\ x.own = c.own
  BY <1>1, DropsCopies
<1>4. IF Retrying(c)
        THEN IF IsActive(b)
               THEN Local(w, RetryWith([x EXCEPT !.cur = b]))
               ELSE Advance(w, x, "stale")
        ELSE Advance(w, [x EXCEPT !.own = b],
                     IF c.at = "first" /\ ~IsActive(b) THEN "inactive" ELSE "ok")
  BY DEF Refreshed
<1>5. ASSUME NEW y \in Call, Agree(y, c), NEW e, Advance(w, y, e),
             \/ c.at \in OperateAt /\ e = "stale"
             \/ c.at \in RefreshAt /\ y.own = b /\ e \in {"ok", "inactive"}
      PROVE  SInv'
  <2>1. y.tool = c.tool /\ y.at = c.at /\ y.h = c.h /\ y.gone = c.gone
    BY <1>5 DEF Agree
  <2>2. Leaves(y, e, registry', observations')
    BY <1>2, <1>5, RenewedLeaves
  <2>3. Sweeps(y, e) = {}
    <3>1. c.at \notin {"seal", "discard", "prune"}
      BY <1>2, RefreshApart
    <3> QED  BY <2>1, <3>1 DEF Sweeps
  <2>4. World(y, registry', observations', life', pane', Sweeps(y, e))
    BY <2>1, <2>3 DEF World, Lives
  <2> QED  BY <1>1, <1>5, <2>1, <2>2, <2>4, SeqAdvance
<1>6. CASE Retrying(c) /\ IsActive(b)
  <2> DEFINE y == [x EXCEPT !.cur = b]
             d == RetryWith(y)
  <2>1. c.at \in OperateAt
    BY <1>6 DEF Retrying
  <2> HIDE DEF x
  <2>2. y \in Call /\ Agree(y, c) /\ y.own = c.own
    BY <1>2, <1>3, BindingUpdate DEF Agree
  <2> HIDE DEF y
  <2>3. Agree(d, c) /\ d.pc \in {"operate", "markLoad"} /\ d.own = y.own
    BY <2>2 DEF RetryWith, Agree, Call
  <2>4. d.own = c.own
    BY <2>2, <2>3
  <2>5. Local(w, d)
    BY <1>4, <1>6 DEF y, x
  <2> HIDE DEF d
  <2>6. Pos(d, registry', observations')
    BY <1>1, <1>6, <2>1, <2>3, <2>4, RenewedPos, SamePos
  <2>7. Unswept(d) = {}
    <3>1. c.at \notin SlotSweeps
      BY <1>2, RefreshApart
    <3> QED  BY <2>3, <3>1 DEF Unswept, Agree, SlotSweeps
  <2>8. World(d, registry', observations', life', pane', {})
    BY <2>3 DEF World, Lives, Agree
  <2>9. SeqInv(d, registry', observations', life', pane')
    BY <2>3, <2>6, <2>7, <2>8 DEF SeqInv, World, Answer, Lab
  <2> QED  BY <2>5, <2>9, SeqStep
<1>7. CASE Retrying(c) /\ ~IsActive(b)
  <2>1. c.at \in OperateAt /\ Advance(w, x, "stale")
    BY <1>4, <1>7 DEF Retrying
  <2> HIDE DEF x
  <2> QED  BY <1>3, <1>5, <2>1
<1>8. CASE ~Retrying(c)
  <2> DEFINE y == [x EXCEPT !.own = b]
             e == IF c.at = "first" /\ ~IsActive(b) THEN "inactive" ELSE "ok"
  <2>1. c.at \in RefreshAt /\ e \in {"ok", "inactive"} /\ Advance(w, y, e)
    BY <1>2, <1>4, <1>8 DEF Retrying
  <2> HIDE DEF x
  <2>2. y \in Call /\ Agree(y, c) /\ y.own = b
    BY <1>2, <1>3, BindingUpdate DEF Agree
  <2> HIDE DEF y, e
  <2> QED  BY <1>5, <2>1, <2>2
<1> QED  BY <1>6, <1>7, <1>8

\* What a step of a refresh finds.
LEMMA RefreshNow ==
  ASSUME IInv, SInv, NEW w, Workers = {w}, call[w].pc \in Refreshing
  PROVE  LET c == call[w]
         IN  /\ c.at \in OperateAt \union RefreshAt /\ c.h \in Handles /\ w \in Workers
             /\ registry[c.h] \in Binding /\ Provisioned(registry[c.h])
             /\ World(c, registry, observations, life, pane, {})
             /\ NoPane \notin c.gone /\ \A p \in c.gone : pane[p] = "gone"
<1> DEFINE c == call[w]
<1>1. /\ c \in Call /\ CallInv(c, pane) /\ registry \in Registry /\ w \in Workers
      /\ World(c, registry, observations, life, pane, Unswept(c))
  BY SeqNow
<1>2. c.at \in OperateAt \union RefreshAt /\ c.h \in Handles
  BY <1>1, Placed
<1>3. registry[c.h] \in Binding
  BY <1>1, <1>2 DEF Registry
<1>4. Unswept(c) = {}
  <2>1. c.at \notin SlotSweeps
    BY <1>2, RefreshApart
  <2> QED  BY <2>1 DEF Unswept, SlotSweeps
<1>5. c.gone \subseteq Panes
  BY <1>1 DEF Call
<1>6. NoPane \notin c.gone
  BY <1>5, ConstantsAssumption
<1> QED  BY <1>1, <1>2, <1>3, <1>4, <1>6 DEF World

\* A list that was told of a handle turns to the next.
LEMMA ListLeaves ==
  ASSUME NEW x, NEW r, NEW o, x.tool \in Listing, x.at = "examine", Listed(x, r, x.todo)
  PROVE  Leaves(x, "ok", r, o)
<1> DEFINE t == x.tool
<1>1. /\ t \notin {"spawn", "attach", "capture", "send", "replace", "wait", "close"}
      /\ ~OpenAt(t, "examine") /\ ~ReadyAt(t, "examine") /\ ~OwnAt(t, "examine")
      /\ ~CarryAt(t, "examine") /\ ~HoldAt(t, "examine")
  BY DEF Listing, OpenAt, ReadyAt, OwnAt, CarryAt, HoldAt, Making, Sending, Reading
<1> QED  BY <1>1 DEF Leaves

\* refresh_binding_target returns an error, which revalidate_all ignores of a
\* spawn that has no pane yet.
LEMMA RefreshFailedSeq ==
  ASSUME IInv, SInv, NEW w, Workers = {w}, call[w].pc \in Refreshing,
         UNCHANGED <<registry, observations, pane, life>>, RefreshFailed(w, call[w])
  PROVE  SInv'
<1> DEFINE c == call[w]
           x == [c EXCEPT !.inner = EmptyRegistry, !.before = {}]
<1>1. c \in Call /\ Pos(c, registry, observations)
  BY SeqNow
<1>2. c.at \in OperateAt \union RefreshAt /\ c.h \in Handles /\ NoPane \notin c.gone
  BY RefreshNow
<1>3. x \in Call /\ Agree(x, c) /\ x.own = c.own
  BY <1>1, DropsCopies
<1>4. c.at \notin SlotSweeps \union {"seal", "scan"}
  BY <1>2, RefreshApart
<1>5. Forward(pane, pane')
  BY DEF Forward
<1>6. \/ \E e \in {"error", "timeout"} : Advance(w, x, e)
      \/ IgnoresErrors(c) /\ Advance(w, x, "ok")
  BY DEF RefreshFailed
<1> HIDE DEF x
<1>7. CASE \E e \in {"error", "timeout"} : Advance(w, x, e)
  <2>1. PICK e \in {"error", "timeout"} : Advance(w, x, e)
    BY <1>7
  <2> QED  BY <1>3, <1>4, <1>5, <2>1, PlainAdvance
<1>8. CASE IgnoresErrors(c) /\ Advance(w, x, "ok")
  <2>1. /\ x.tool = c.tool /\ x.at = c.at /\ x.h = c.h /\ x.todo = c.todo /\ x.gone = c.gone
        /\ x.snap = c.snap
    BY <1>3 DEF Agree
  <2>2. c.tool \in Listing /\ c.snap[c.h].pane = NoPane
    BY <1>8 DEF IgnoresErrors, IsUnresolvedSpawn
  <2>3. PICK d \in After(x, "ok"), n \in Positions \union Ends : Onward(x, "ok", n, d)
    BY <1>3, <1>8, AfterShape DEF Advance
  <2>4. <<c.at, "ok", n>> \in ListFlow
    <3>1. <<c.at, "ok", n>> \in Flow(c.tool)
      BY <2>1, <2>3 DEF Onward
    <3> QED  BY <2>2, <3>1 DEF Flow, Listing
  <2>5. c.at = "examine"
    BY <1>4, <2>4 DEF ListFlow
  <2>6. Listed(x, registry, x.todo)
    <3>1. c.h \notin c.todo /\ Listed(c, registry, c.todo \union {c.h})
      BY <1>1, <2>5 DEF Pos
    <3>2. Told(c, registry, c.h)
      BY <1>2, <2>2, <3>1 DEF Listed, Told
    <3> QED  BY <2>1, <3>1, <3>2 DEF Listed, Told
  <2>7. Leaves(x, "ok", registry, observations)
    BY <2>1, <2>2, <2>5, <2>6, ListLeaves
  <2> QED  BY <1>3, <1>4, <1>5, <1>8, <2>1, <2>7, QuietAdvance
<1> QED  BY <1>6, <1>7, <1>8

\* A refresh that leaves the registry as it is renews what the position promised.
LEMMA RenewedStay ==
  ASSUME NEW c, NEW r, NEW o, Pos(c, r, o), Present(r[c.h]), Judged(r[c.h]),
         c.at = "examine" => Told(c, r, c.h)
  PROVE  Renewed(c, r, o)
<1>1. c.at = "examine" => Listed(c, r, c.todo)
  <2>1. c.at = "examine" => c.h \notin c.todo /\ Listed(c, r, c.todo \union {c.h})
    BY DEF Pos
  <2> QED  BY <2>1 DEF Listed
<1> QED  BY <1>1 DEF Renewed, Pos

\* The read of refresh_binding_target.
LEMMA RefreshSeq ==
  ASSUME IInv, SInv, NEW w, Workers = {w}, Refresh(w)
  PROVE  SInv'
<1> DEFINE c == call[w]
           b == registry[c.h]
<1>1. c.pc = "refresh" /\ c.pc \in Refreshing /\ UNCHANGED <<registry, observations, pane, life>>
  BY DEF Refresh, Refreshing
<1>2. /\ c \in Call /\ Pos(c, registry, observations) /\ registry \in Registry
  BY SeqNow
<1>3. /\ c.h \in Handles /\ b \in Binding /\ Provisioned(b)
      /\ World(c, registry, observations, life, pane, {})
  BY <1>1, RefreshNow
<1>4. \/ RefreshFailed(w, c)
      \/ b.status = "closed" /\ Refreshed(w, c, b)
      \/ Open(b) /\ IsUnresolvedSpawn(b) /\ Local(w, [c EXCEPT !.pc = "reconcile"])
      \/ Open(b) /\ ~IsUnresolvedSpawn(b)
         /\ Local(w, [c EXCEPT !.pc = "resolve", !.inner = registry])
  <2>1. \/ ~Present(b) /\ RefreshFailed(w, c)
        \/ b.status = "closed" /\ Refreshed(w, c, b)
        \/ /\ Present(b) /\ b.status # "closed" /\ IsUnresolvedSpawn(b)
           /\ Local(w, [c EXCEPT !.pc = "reconcile"])
        \/ /\ Present(b) /\ b.status # "closed" /\ ~IsUnresolvedSpawn(b)
           /\ Local(w, [c EXCEPT !.pc = "resolve", !.inner = registry])
    BY DEF Refresh
  <2>2. Present(b) /\ b.status # "closed" => Open(b)
    BY <1>3 DEF Open, Present, Binding, Status
  <2> QED  BY <2>1, <2>2
<1>5. Forward(pane, pane')
  BY <1>1 DEF Forward
<1>6. CASE RefreshFailed(w, c)
  BY <1>1, <1>6, RefreshFailedSeq
<1>7. CASE b.status = "closed" /\ Refreshed(w, c, b)
  <2>1. Present(b) /\ Judged(b) /\ Told(c, registry, c.h)
    BY <1>7 DEF Present, Judged, Told, IsActive
  <2>2. Renewed(c, registry', observations)
    BY <1>1, <1>2, <2>1, RenewedStay
  <2>3. Refreshed(w, c, registry'[c.h])
    BY <1>1, <1>7
  <2>4. World(c, registry', observations, life, pane, {})
    BY <1>1, <1>3
  <2> QED  BY <1>1, <1>2, <2>2, <2>3, <2>4, RefreshedSeq
<1>8. CASE Open(b) /\ IsUnresolvedSpawn(b) /\ Local(w, [c EXCEPT !.pc = "reconcile"])
  <2> DEFINE d == [c EXCEPT !.pc = "reconcile"]
  <2>1. Agree(d, c) /\ d.own = c.own /\ d.pc = "reconcile" /\ d.h = c.h
    BY <1>2 DEF Agree, Call
  <2>2. Local(w, d)
    BY <1>8
  <2> HIDE DEF d
  <2>3. Lab(d, registry, observations)
    BY <1>8, <2>1 DEF Lab
  <2> QED  BY <1>1, <1>5, <2>1, <2>2, <2>3, QuietStay
<1>9. CASE /\ Open(b) /\ ~IsUnresolvedSpawn(b)
           /\ Local(w, [c EXCEPT !.pc = "resolve", !.inner = registry])
  <2> DEFINE d == [c EXCEPT !.pc = "resolve", !.inner = registry]
  <2>1. Agree(d, c) /\ d.own = c.own /\ d.pc = "resolve" /\ d.h = c.h /\ d.inner = registry
    BY <1>2 DEF Agree, Call
  <2>2. Local(w, d)
    BY <1>9
  <2> HIDE DEF d
  <2>3. b.pane # NoPane
    BY <1>3, <1>9 DEF Open, Provisioned, Present, IsUnresolvedSpawn
  <2>4. Lab(d, registry, observations)
    BY <1>9, <2>1, <2>3 DEF Lab
  <2> QED  BY <1>1, <1>5, <2>1, <2>2, <2>4, QuietStay
<1> QED  BY <1>4, <1>6, <1>7, <1>8, <1>9

\* A search that found the pane of a binding, or did not, has judged it.
LEMMA FoundSeq ==
  ASSUME IInv, SInv, NEW w, Workers = {w}, call[w].pc \in Refreshing,
         UNCHANGED <<registry, observations, pane, life>>, Open(registry[call[w].h]),
         NEW b \in Binding, b.status \in {"ready", "stale"},
         b.source = registry[call[w].h].source, b.pane # NoPane,
         registry[call[w].h].pane \in {b.pane, NoPane},
         b.status = "ready" => b.pane \in AlivePanes,
         Local(w, [call[w] EXCEPT !.pc = "refreshStore", !.inner = [registry EXCEPT ![call[w].h] = b]])
  PROVE  SInv'
<1> DEFINE c == call[w]
           r == [registry EXCEPT ![c.h] = b]
           d == [c EXCEPT !.pc = "refreshStore", !.inner = r]
<1>1. c \in Call /\ registry \in Registry
  BY SeqNow
<1>2. c.h \in Handles /\ \A p \in c.gone : pane[p] = "gone"
  BY RefreshNow
<1>3. r[c.h] = b /\ SameButOne(r, registry, c.h)
  BY <1>1, <1>2 DEF Registry, SameButOne
<1> HIDE DEF r
<1>4. /\ Agree(d, c) /\ d.own = c.own /\ d.pc = "refreshStore" /\ d.h = c.h /\ d.inner = r
      /\ d.gone = c.gone
  BY <1>1 DEF Agree, Call
<1>5. Local(w, d)
  BY DEF r
<1> HIDE DEF d
<1>6. b.status = "ready" => b.pane \notin c.gone
  BY <1>2 DEF AlivePanes
<1>7. Refound(d, registry)
  BY <1>3, <1>4, <1>6 DEF Refound
<1>8. Lab(d, registry, observations)
  BY <1>4, <1>7 DEF Lab
<1>9. Forward(pane, pane')
  BY DEF Forward
<1> QED  BY <1>4, <1>5, <1>8, <1>9, QuietStay

\* The search for a bound pane.
LEMMA ResolveSeq ==
  ASSUME IInv, SInv, NEW w, Workers = {w}, Resolve(w)
  PROVE  SInv'
<1> DEFINE c == call[w]
           R(status) == [c.inner EXCEPT ![c.h].status = status]
<1>1. c.pc = "resolve" /\ c.pc \in Refreshing /\ UNCHANGED <<registry, observations, pane, life>>
  BY DEF Resolve, Refreshing
<1>2. c \in Call /\ registry \in Registry /\ Lab(c, registry, observations)
  BY SeqNow
<1>3. c.h \in Handles /\ registry[c.h] \in Binding
  BY <1>1, RefreshNow
<1>4. c.inner = registry /\ Open(registry[c.h]) /\ registry[c.h].pane # NoPane
  BY <1>1, <1>2 DEF Lab
<1>5. \/ \E s \in {"ready", "stale"} :
           /\ s = "ready" => registry[c.h].pane \in AlivePanes
           /\ Local(w, [c EXCEPT !.pc = "refreshStore", !.inner = R(s)])
      \/ RefreshFailed(w, c)
  BY <1>2, <1>4 DEF Resolve, Call
<1>6. CASE RefreshFailed(w, c)
  BY <1>1, <1>6, RefreshFailedSeq
<1>7. ASSUME NEW s \in {"ready", "stale"}, s = "ready" => registry[c.h].pane \in AlivePanes,
             Local(w, [c EXCEPT !.pc = "refreshStore", !.inner = R(s)])
      PROVE  SInv'
  <2> DEFINE b == [registry[c.h] EXCEPT !.status = s]
  <2>1. b \in Binding /\ b.status = s /\ b.pane = registry[c.h].pane
        /\ b.source = registry[c.h].source
    BY <1>3 DEF Binding, Status
  <2>2. Local(w, [c EXCEPT !.pc = "refreshStore", !.inner = [registry EXCEPT ![c.h] = b]])
    BY <1>4, <1>7
  <2> HIDE DEF b
  <2> QED  BY <1>1, <1>4, <1>7, <2>1, <2>2, FoundSeq
<1> QED  BY <1>5, <1>6, <1>7

\* One entry that is there is rewritten and stays there, open if it was.
LEMMA EntryWorld ==
  ASSUME NEW c, NEW r, NEW s, NEW o, NEW lf, NEW pn, NEW u, NEW h,
         World(c, r, o, lf, pn, u), SameButOne(s, r, h), Provisioned(s[h]),
         Present(r[h]) /\ Present(s[h]), Open(r[h]) => Open(s[h])
  PROVE  World(c, s, o, lf, pn, u)
<1>1. \A k \in Handles : Provisioned(s[k])
  BY DEF World, SameButOne
<1>2. Lives(c, s, lf)
  <2>1. Lives(c, r, lf) /\ r[h] # NoBinding
    BY DEF World, Present, NoBinding
  <2> QED  BY <2>1 DEF Lives, SameButOne
<1>3. Slotted(s, o, u)
  <2>1. Slotted(r, o, u)
    BY DEF World
  <2> QED  BY <2>1 DEF Slotted, SameButOne
<1> QED  BY <1>1, <1>2, <1>3 DEF World

\* The write of a refresh: the entry it judged, or bound.
LEMMA RefreshStoreSeq ==
  ASSUME IInv, SInv, NEW w, Workers = {w}, RefreshStore(w)
  PROVE  SInv'
<1> DEFINE c == call[w]
           r == registry
           s == c.inner
           h == c.h
           o == observations
<1>1. /\ c.pc = "refreshStore" /\ c.pc \in Refreshing /\ registry' = s
      /\ Refreshed(w, c, s[h]) /\ UNCHANGED <<observations, pane, life>>
  BY DEF RefreshStore, Refreshing
<1>2. c \in Call /\ Pos(c, r, o) /\ Lab(c, r, o) /\ s \in Registry
  <2>1. c \in Call /\ Pos(c, r, o) /\ Lab(c, r, o)
    BY SeqNow
  <2> QED  BY <2>1 DEF Call
<1>3. h \in Handles /\ Provisioned(r[h]) /\ World(c, r, o, life, pane, {})
  BY <1>1, RefreshNow
<1>4. Refound(c, r)
  BY <1>1, <1>2 DEF Lab
<1>5. /\ SameButOne(s, r, h) /\ Open(r[h]) /\ s[h].status \in {"ready", "stale"}
      /\ r[h].pane \in {s[h].pane, NoPane} /\ s[h].pane # NoPane
      /\ s[h].status = "ready" => s[h].pane \notin c.gone
  BY <1>4 DEF Refound
<1>6. Present(r[h]) /\ Present(s[h]) /\ Open(s[h]) /\ Provisioned(s[h]) /\ Judged(s[h])
  BY <1>5 DEF Present, Open, Provisioned, Judged
<1>7. World(c, s, o, life, pane, {})
  BY <1>3, <1>5, <1>6, EntryWorld
<1>8. CarryAt(c.tool, c.at) => Carried(c, s)
  <2>1. CarryAt(c.tool, c.at) => Carried(c, r)
    BY <1>2 DEF Pos
  <2>2. Remote \/ r[h].pane = s[h].pane
    BY <1>3, <1>5, <1>6 DEF Provisioned
  <2> HIDE DEF s, h, r
  <2>3. Carried(c, r) => Carried(c, s)
    BY <1>5, <2>2 DEF Carried, SameButOne, h
  <2> QED  BY <2>1, <2>3
<1>9. c.at = "examine" => Listed(c, s, c.todo)
  <2>1. c.at = "examine" => h \notin c.todo /\ Listed(c, r, c.todo \union {h})
    BY <1>2 DEF Pos
  <2>2. Told(c, s, h)
    BY <1>5 DEF Told, IsActive
  <2>3. \A k \in Handles \ {h} : s[k] = r[k] /\ (Told(c, r, k) => Told(c, s, k))
    BY <1>5 DEF SameButOne, Told
  <2>4. c.todo \subseteq Handles
    BY <1>2 DEF Call
  <2> HIDE DEF c, s, h, r
  <2> QED  BY <2>1, <2>2, <2>3, <2>4 DEF Listed
<1>10. Renewed(c, s, o)
  <2>1. /\ OpenAt(c.tool, c.at) => Open(s[h])
        /\ ReadyAt(c.tool, c.at) /\ IsActive(s[h]) => s[h].status = "ready"
        /\ HoldAt(c.tool, c.at) => c.slots = o
    BY <1>2, <1>5, <1>6 DEF Pos, IsActive
  <2> QED  BY <1>6, <1>8, <1>9, <2>1 DEF Renewed
<1>11. /\ registry' \in Registry /\ Refreshed(w, c, registry'[c.h])
       /\ World(c, registry', observations, life, pane, {})
       /\ Renewed(c, registry', observations)
  BY <1>1, <1>2, <1>7, <1>10
<1> QED  BY <1>1, <1>11, RefreshedSeq

\* The reads of a reconcile round.
LEMMA ReconcileSeq ==
  ASSUME IInv, SInv, NEW w, Workers = {w}, Reconcile(w)
  PROVE  SInv'
<1> DEFINE c == call[w]
           b == registry[c.h]
           hints == observations[c.h].before
           d == [c EXCEPT !.pc = "reconcileList", !.inner = registry, !.before = hints]
<1>1. c.pc = "reconcile" /\ UNCHANGED <<registry, observations, pane, life>>
  BY DEF Reconcile
<1>2. c \in Call /\ Lab(c, registry, observations)
  BY SeqNow
<1>3. IsUnresolvedSpawn(b) /\ Open(b)
  BY <1>1, <1>2 DEF Lab
<1>4. Present(b) /\ ~(b.pane # NoPane)
  BY <1>3 DEF Open, Present, IsUnresolvedSpawn
<1>5. Local(w, d)
  BY <1>4 DEF Reconcile
<1> HIDE DEF hints
<1>6. /\ Agree(d, c) /\ d.own = c.own /\ d.pc = "reconcileList" /\ d.h = c.h
      /\ d.inner = registry
  BY <1>2 DEF Agree, Call
<1> HIDE DEF d
<1>7. Lab(d, registry, observations)
  BY <1>3, <1>6 DEF Lab
<1>8. Forward(pane, pane')
  BY <1>1 DEF Forward
<1> QED  BY <1>1, <1>5, <1>6, <1>7, <1>8, QuietStay

\* A spawn without a pane is bound, is left as it is, or the list of panes fails.
LEMMA ReconcileListSeq ==
  ASSUME IInv, SInv, NEW w, Workers = {w}, ReconcileList(w)
  PROVE  SInv'
<1> DEFINE c == call[w]
           b == registry[c.h]
           Bound(p) == [b EXCEPT !.pane = p, !.status = "ready"]
<1>1. /\ c.pc = "reconcileList" /\ c.pc \in Refreshing
      /\ UNCHANGED <<registry, observations, pane, life>>
  BY DEF ReconcileList, Refreshing
<1>2. /\ c \in Call /\ Pos(c, registry, observations) /\ Lab(c, registry, observations)
      /\ registry \in Registry
  BY SeqNow
<1>3. /\ c.h \in Handles /\ b \in Binding /\ World(c, registry, observations, life, pane, {})
      /\ NoPane \notin c.gone
  BY <1>1, RefreshNow
<1>4. c.inner = registry /\ IsUnresolvedSpawn(b) /\ Open(b)
  BY <1>1, <1>2 DEF Lab
<1>5. \/ \E p \in AlivePanes : Local(w, [c EXCEPT !.pc = "refreshStore",
                                         !.inner = [registry EXCEPT ![c.h] = Bound(p)]])
      \/ Refreshed(w, c, b)
      \/ RefreshFailed(w, c)
  BY <1>2, <1>3, <1>4 DEF ReconcileList, Call, Registry
<1>6. CASE RefreshFailed(w, c)
  BY <1>1, <1>6, RefreshFailedSeq
<1>7. CASE Refreshed(w, c, b)
  <2>1. Present(b) /\ Judged(b) /\ Told(c, registry, c.h)
    BY <1>3, <1>4 DEF Open, Present, Judged, IsUnresolvedSpawn, Told
  <2>2. Renewed(c, registry', observations)
    BY <1>1, <1>2, <2>1, RenewedStay
  <2>3. Refreshed(w, c, registry'[c.h]) /\ registry' \in Registry
    BY <1>1, <1>2, <1>7
  <2>4. World(c, registry', observations, life, pane, {})
    BY <1>1, <1>3
  <2> QED  BY <1>1, <2>2, <2>3, <2>4, RefreshedSeq
<1>8. ASSUME NEW p \in AlivePanes,
             Local(w, [c EXCEPT !.pc = "refreshStore",
                                !.inner = [registry EXCEPT ![c.h] = Bound(p)]])
      PROVE  SInv'
  <2> DEFINE new == Bound(p)
  <2>1. p # NoPane /\ p \in Panes
    BY ConstantsAssumption DEF AlivePanes
  <2>2. new \in Binding /\ new.pane = p /\ new.status = "ready" /\ new.source = b.source
    BY <1>3, <2>1 DEF Binding, Status
  <2>3. Local(w, [c EXCEPT !.pc = "refreshStore", !.inner = [registry EXCEPT ![c.h] = new]])
    BY <1>8
  <2>4. b.pane = NoPane
    BY <1>4 DEF IsUnresolvedSpawn
  <2> HIDE DEF new
  <2> QED  BY <1>1, <1>4, <2>1, <2>2, <2>3, <2>4, FoundSeq
<1> QED  BY <1>5, <1>6, <1>7, <1>8

\* A call goes over to a refresh or to the marking of its binding.
LEMMA TurnSeq ==
  ASSUME IInv, SInv, NEW w, Workers = {w}, UNCHANGED <<registry, observations, pane, life>>,
         NEW p \in {"refresh", "markLoad"}, Local(w, [call[w] EXCEPT !.pc = p])
  PROVE  SInv'
<1> DEFINE c == call[w]
           d == [c EXCEPT !.pc = p]
<1>1. c \in Call
  BY SeqNow
<1>2. Agree(d, c) /\ d.own = c.own /\ d.pc = p
  BY <1>1 DEF Agree, Call
<1>3. Local(w, d)
  OBVIOUS
<1> HIDE DEF d
<1>4. Lab(d, registry, observations)
  BY <1>2 DEF Lab
<1>5. Forward(pane, pane')
  BY DEF Forward
<1> QED  BY <1>2, <1>3, <1>4, <1>5, QuietStay

\* The call itself advances and hands on what its position promised.
LEMMA OnSeq ==
  ASSUME IInv, SInv, NEW w, Workers = {w}, UNCHANGED <<registry, observations, life>>,
         Forward(pane, pane'), call[w].at \notin SlotSweeps \union {"seal"},
         NEW e, Advance(w, call[w], e), call[w].at \notin Turning \/ e \notin {"ok", "closed", "none"}
  PROVE  SInv'
<1> DEFINE c == call[w]
<1>1. c \in Call
  BY SeqNow
<1>2. Agree(c, c)
  BY DEF Agree
<1> HIDE DEF c
<1> QED  BY <1>1, <1>2, PlainAdvance DEF c

\* An adapter operation.
LEMMA OperateSeq ==
  ASSUME IInv, SInv, NEW w, Workers = {w}, Operate(w)
  PROVE  SInv'
<1> DEFINE c == call[w]
<1>1. c.pc = "operate" /\ c \in Call /\ CallInv(c, pane)
  BY SeqNow DEF Operate
<1>2. c.at \in OperateAt
  BY <1>1, Placed
<1>3. c.at \notin SlotSweeps \union {"seal"} /\ c.at \notin Turning
  BY <1>2, RefreshApart
<1>4. \/ \E p \in AlivePanes :
           Advance(w, c, "ok") /\ pane' \in {pane, [pane EXCEPT ![p] = "gone"]}
      \/ Local(w, [c EXCEPT !.pc = "refresh"]) /\ UNCHANGED pane
      \/ \E e \in {"error", "timeout"} : Advance(w, c, e) /\ UNCHANGED pane
  BY DEF Operate, Reach
<1>5. UNCHANGED <<registry, observations, life>>
  BY DEF Operate
<1>6. UNCHANGED pane => Forward(pane, pane')
  BY DEF Forward
<1>7. CASE Local(w, [c EXCEPT !.pc = "refresh"]) /\ UNCHANGED pane
  BY <1>5, <1>7, TurnSeq
<1>8. CASE \E p \in AlivePanes :
             Advance(w, c, "ok") /\ pane' \in {pane, [pane EXCEPT ![p] = "gone"]}
  <2>1. Advance(w, c, "ok") /\ Forward(pane, pane')
    BY <1>8, PaneGone
  <2> QED  BY <1>3, <1>5, <2>1, OnSeq
<1>9. CASE \E e \in {"error", "timeout"} : Advance(w, c, e) /\ UNCHANGED pane
  BY <1>3, <1>5, <1>6, <1>9, OnSeq
<1> QED  BY <1>4, <1>7, <1>8, <1>9

\* A capture outside the retry loop: one at the boundary that reaches the attached
\* pane finds the entry open.
LEMMA ObserveSeq ==
  ASSUME IInv, SInv, NEW w, Workers = {w}, Observe(w)
  PROVE  SInv'
<1> DEFINE c == call[w]
           r == registry
           o == observations
<1>1. /\ c.pc = "observe" /\ UNCHANGED <<registry, observations, pane, life>>
  BY DEF Observe
<1>2. /\ c \in Call /\ CallInv(c, pane) /\ Pos(c, r, o) /\ Serves(c.tool, c.at)
      /\ World(c, r, o, life, pane, Unswept(c))
  BY SeqNow
<1>3. c.at \in ObserveAt /\ c.h \in Handles
  BY <1>1, <1>2, Placed
<1>4. c.at \notin SlotSweeps \union {"seal"} /\ (c.at \notin Turning \/ c.at = "boundary")
  BY <1>3 DEF ObserveAt, SlotSweeps, Turning
<1>5. Forward(pane, pane')
  BY <1>1 DEF Forward
<1>6. \/ Reach(c.own) # {} /\ Advance(w, c, "ok")
      \/ Local(w, [c EXCEPT !.pc = "markLoad"])
      \/ Advance(w, c, "error")
  BY DEF Observe
<1>7. CASE Local(w, [c EXCEPT !.pc = "markLoad"])
  BY <1>1, <1>7, TurnSeq
<1>8. CASE Advance(w, c, "error") \/ (c.at \notin Turning /\ Advance(w, c, "ok"))
  BY <1>1, <1>4, <1>5, <1>8, OnSeq
<1>9. CASE c.at = "boundary" /\ Reach(c.own) # {} /\ Advance(w, c, "ok")
  <2>1. c.tool \in Sending
    BY <1>2, <1>9 DEF Serves
  <2>2. Owned(c, r) /\ c.own.source = "attached"
    BY <1>2, <1>9, <2>1 DEF Pos, OwnAt
  <2>3. c.own.pane \in AlivePanes
    <3>1. c.own.pane # NoPane
      BY <1>2, <1>3, <2>2 DEF World, Provisioned, Owned
    <3> QED  BY <1>9, <3>1 DEF Reach
  <2>4. Open(r[c.h])
    <3>1. c.own \in Binding /\ Sound(c.own, pane)
      BY <1>2 DEF CallInv, Core, Call
    <3>2. c.own.status # "closed"
      <4>1. pane[c.own.pane] = "alive" /\ c.own.pane \in Panes
        BY <2>3 DEF AlivePanes
      <4> QED  BY <3>1, <4>1, ConstantsAssumption DEF Sound
    <3> QED  BY <2>2, <3>1, <3>2 DEF Owned, Present, Open, Binding, Status
  <2>5. /\ c.tool \notin {"capture", "wait", "close"} /\ c.tool \notin Listing
    BY <2>1 DEF Sending, Listing
  <2>6. Leaves(c, "ok", r, o)
    BY <1>9, <2>2, <2>4, <2>5 DEF Leaves, ReadyAt, CarryAt, HoldAt
  <2> QED  BY <1>1, <1>2, <1>4, <1>5, <1>9, <2>6, QuietAdvance
<1> QED  BY <1>4, <1>6, <1>7, <1>8, <1>9

\* The read of mark_binding_stale.
LEMMA MarkStaleLoadSeq ==
  ASSUME IInv, SInv, NEW w, Workers = {w}, MarkStaleLoad(w)
  PROVE  SInv'
<1> DEFINE c == call[w]
           d == [c EXCEPT !.pc = "markStore", !.inner = registry]
<1>1. c.pc = "markLoad" /\ Local(w, d) /\ UNCHANGED <<registry, observations, pane, life>>
  BY DEF MarkStaleLoad
<1>2. c \in Call
  BY SeqNow
<1>3. Agree(d, c) /\ d.own = c.own /\ d.pc = "markStore" /\ d.inner = registry
  BY <1>2 DEF Agree, Call
<1> HIDE DEF d
<1>4. Lab(d, registry, observations)
  BY <1>3 DEF Lab
<1>5. Forward(pane, pane')
  BY <1>1 DEF Forward
<1> QED  BY <1>1, <1>3, <1>4, <1>5, QuietStay

\* The write of mark_binding_stale: an entry that is there becomes stale.
LEMMA MarkStaleStoreSeq ==
  ASSUME IInv, SInv, NEW w, Workers = {w}, MarkStaleStore(w)
  PROVE  SInv'
<1> DEFINE c == call[w]
           x == [c EXCEPT !.inner = EmptyRegistry]
           r == registry
           o == observations
           h == c.h
           s == IF Present(r[h]) THEN [r EXCEPT ![h].status = "stale"] ELSE r
<1>1. /\ c.pc = "markStore" /\ c.pc \in Marking /\ Advance(w, x, "stale")
      /\ UNCHANGED <<observations, pane, life>>
  BY DEF MarkStaleStore, Marking
<1>2. /\ c \in Call /\ CallInv(c, pane) /\ Pos(c, r, o) /\ Lab(c, r, o) /\ Serves(c.tool, c.at)
      /\ World(c, r, o, life, pane, Unswept(c)) /\ r \in Registry
  BY SeqNow
<1>3. c.at \in OperateAt \union ObserveAt /\ h \in Handles
  BY <1>1, <1>2, Placed
<1>4. registry' = s
  <2>1. c.inner = r
    BY <1>1, <1>2 DEF Lab
  <2> QED  BY <2>1 DEF MarkStaleStore
<1>5. SameButOne(s, r, h) /\ s[h].pane = r[h].pane /\ s[h].source = r[h].source
      /\ (IF Present(r[h]) THEN s[h].status = "stale" ELSE s = r)
  BY <1>2, <1>3 DEF SameButOne, Registry, Binding
<1>6. x \in Call /\ Agree(x, c) /\ x.own = c.own
  BY <1>2, DropsCopies
<1> HIDE DEF x, s
<1>7. /\ c.at \notin SlotSweeps \union {"seal", "discard", "prune", "enter"}
  BY <1>3 DEF OperateAt, ObserveAt, SlotSweeps
<1>8. Sweeps(x, "stale") = {} /\ Unswept(c) = {}
  BY <1>6, <1>7 DEF Sweeps, Unswept, Agree, SlotSweeps
<1>9. World(c, s, o, life, pane, {})
  <2>1. CASE Present(r[h])
    <3>1. Provisioned(s[h]) /\ Present(s[h]) /\ Open(s[h])
      BY <1>2, <1>3, <1>5, <2>1 DEF World, Provisioned, Present, Open
    <3> QED  BY <1>2, <1>5, <1>8, <2>1, <3>1, EntryWorld
  <2>2. CASE ~Present(r[h])
    BY <1>2, <1>5, <1>8, <2>2
  <2> QED  BY <2>1, <2>2
<1>10. World(x, registry', observations', life', pane', Sweeps(x, "stale"))
  BY <1>1, <1>4, <1>6, <1>8, <1>9 DEF World, Lives, Agree
<1>11. Leaves(x, "stale", s, o)
  <2> DEFINE t == c.tool
             a == c.at
  <2>1. x.tool = t /\ x.at = a /\ x.h = h /\ x.snap = c.snap /\ x.slots = c.slots
    BY <1>6 DEF Agree
  <2>2. OpenAt(t, a) => Open(s[h])
    BY <1>2, <1>5 DEF Pos, Open, Present
  <2>3. CarryAt(t, a) => Carried(x, s)
    <3>1. CarryAt(t, a) => Carried(c, r)
      BY <1>2 DEF Pos
    <3>2. Carried(c, r) => Carried(x, s)
      BY <1>5, <2>1 DEF Carried, SameButOne
    <3> QED  BY <3>1, <3>2
  <2>4. HoldAt(t, a) => x.slots = o
    BY <1>2, <2>1 DEF Pos
  <2>5. a \notin {"seal", "sealSlot"}
    BY <1>7 DEF SlotSweeps
  <2> HIDE DEF t, a
  <2> QED  BY <2>1, <2>2, <2>3, <2>4, <2>5 DEF Leaves
<1>12. Serves(x.tool, x.at) /\ Leaves(x, "stale", registry', observations')
  BY <1>1, <1>2, <1>4, <1>6, <1>11 DEF Agree
<1> QED  BY <1>1, <1>6, <1>10, <1>12, SeqAdvance

\* Verification.
LEMMA VerifySeq ==
  ASSUME IInv, SInv, NEW w, Workers = {w}, Verify(w)
  PROVE  SInv'
<1> DEFINE c == call[w]
<1>1. c.pc = "verify" /\ UNCHANGED <<registry, observations, pane, life>> /\ CallInv(c, pane)
  BY SeqNow DEF Verify
<1>2. c.at \in VerifyAt
  BY <1>1, Placed
<1>3. c.at \notin SlotSweeps \union {"seal"} /\ c.at \notin Turning
  BY <1>2 DEF VerifyAt, SlotSweeps, Turning
<1>4. Forward(pane, pane')
  BY <1>1 DEF Forward
<1>5. \E e \in {"none", "present", "error"} : Advance(w, c, e)
  BY DEF Verify
<1> QED  BY <1>1, <1>3, <1>4, <1>5, OnSeq

\* Typing exit.
LEMMA ShellExitSeq ==
  ASSUME IInv, SInv, NEW w, Workers = {w}, ShellExit(w)
  PROVE  SInv'
<1> DEFINE c == call[w]
<1>1. c.pc = "shellExit" /\ CallInv(c, pane)
  BY SeqNow DEF ShellExit
<1>2. c.at = "shellExit"
  BY <1>1, Placed
<1>3. c.at \notin SlotSweeps \union {"seal"} /\ c.at \notin Turning
  BY <1>2 DEF SlotSweeps, Turning
<1>4. UNCHANGED <<registry, observations, life>>
      /\ (UNCHANGED pane \/ \E p \in AlivePanes : pane' \in {pane, [pane EXCEPT ![p] = "gone"]})
  BY DEF ShellExit, Reach
<1>5. Forward(pane, pane')
  <2>1. UNCHANGED pane => Forward(pane, pane')
    BY DEF Forward
  <2> QED  BY <1>4, <2>1, PaneGone
<1>6. \E e \in {"ok", "error"} : Advance(w, c, e)
  BY DEF ShellExit
<1> QED  BY <1>3, <1>4, <1>5, <1>6, OnSeq

\* A call before a write takes a new copy of a file.
LEMMA FreshCopy ==
  ASSUME IInv, SInv, NEW w, Workers = {w}, UNCHANGED <<registry, observations, pane, life>>,
         NEW d, Local(w, d), NEW c, c = call[w],
         d.tool = c.tool, d.at = c.at, d.h = c.h, d.gone = c.gone, d.own = c.own,
         d.pc \in {"store", "slotStore"}, Lab(d, registry, observations),
         c.at \in EditAt \union SlotEditAt, c.at # "pruneSlots"
  PROVE  SInv'
<1> DEFINE t == c.tool
           a == c.at
           r == registry
           o == observations
<1>1. Pos(c, r, o) /\ World(c, r, o, life, pane, Unswept(c))
  BY SeqNow
<1>2. ~CarryAt(t, a) /\ ~HoldAt(t, a) /\ a \notin {"examine", "boundary"}
  BY DEF CarryAt, HoldAt, EditAt, SlotEditAt, Closing
<1>3. Pos(d, r, o)
  <2>1. Owned(c, r) => Owned(d, r)
    BY DEF Owned
  <2>2. d.tool = t /\ d.at = a /\ d.h = c.h /\ d.own = c.own
    OBVIOUS
  <2> HIDE DEF t, a
  <2> QED  BY <1>1, <1>2, <2>1, <2>2 DEF Pos, t, a
<1>4. Unswept(d) = Unswept(c)
  BY DEF Unswept
<1>5. World(d, r, o, life, pane, Unswept(d))
  BY <1>1, <1>4 DEF World, Lives
<1>6. SeqInv(d, r, o, life, pane)
  BY <1>3, <1>5 DEF SeqInv, World, Answer
<1>7. SeqInv(d, registry', observations', life', pane')
  BY <1>6
<1> QED  BY <1>7, SeqStep

\* The read before a write of the registry.
LEMMA LoadSeq ==
  ASSUME IInv, SInv, NEW w, Workers = {w}, Load(w)
  PROVE  SInv'
<1> DEFINE c == call[w]
           D(old) == [c EXCEPT !.pc = "store", !.snap = registry, !.todo = old]
<1>1. c.pc = "load" /\ UNCHANGED <<registry, observations, pane, life>>
  BY DEF Load
<1>2. c \in Call /\ CallInv(c, pane) /\ Serves(c.tool, c.at)
  BY SeqNow
<1>3. c.at \in EditAt
  BY <1>1, <1>2, Placed
<1>4. c.at = "prune" <=> c.tool = "cleanup"
  BY <1>2, <1>3 DEF Serves, EditAt, Making
<1>5. \/ c.at = "prune" /\ Advance(w, c, "none")
      \/ \E old \in SUBSET Handles :
           Local(w, D(old)) /\ (c.at = "prune" => \A k \in old : Present(registry[k]))
  <2>1. CASE c.tool = "cleanup"
    <3>1. PICK statuses \in CleanupStatuses : \E old \in Removable(statuses) :
            Advance(w, c, "none") \/ Local(w, D(old))
      BY <2>1 DEF Load
    <3>2. \A old \in Removable(statuses) :
            old \in SUBSET Handles /\ \A k \in old : Present(registry[k])
      BY DEF Removable
    <3> HIDE DEF D
    <3> QED  BY <1>4, <2>1, <3>1, <3>2
  <2>2. CASE c.tool # "cleanup"
    <3>1. c.todo \in SUBSET Handles /\ D(c.todo) = [c EXCEPT !.pc = "store", !.snap = registry]
      BY <1>2 DEF Call
    <3>2. Local(w, [c EXCEPT !.pc = "store", !.snap = registry])
      BY <2>2 DEF Load
    <3>3. Local(w, D(c.todo))
      BY <3>1, <3>2
    <3> HIDE DEF D
    <3> QED  BY <1>4, <2>2, <3>1, <3>3
  <2> QED  BY <2>1, <2>2
<1>6. CASE c.at = "prune" /\ Advance(w, c, "none")
  <2>1. c.at \notin SlotSweeps \union {"seal"} \union Turning
    BY <1>6 DEF SlotSweeps, Turning
  <2>2. Forward(pane, pane')
    BY <1>1 DEF Forward
  <2> QED  BY <1>1, <1>6, <2>1, <2>2, OnSeq
<1>7. ASSUME NEW old \in SUBSET Handles, Local(w, D(old)),
             c.at = "prune" => \A k \in old : Present(registry[k])
      PROVE  SInv'
  <2> DEFINE d == D(old)
  <2>1. /\ d.tool = c.tool /\ d.at = c.at /\ d.h = c.h /\ d.gone = c.gone /\ d.own = c.own
        /\ d.pc = "store" /\ d.snap = registry /\ d.todo = old
    BY <1>2 DEF Call
  <2>2. Local(w, d)
    BY <1>7
  <2> HIDE DEF d
  <2>3. Lab(d, registry, observations)
    BY <1>7, <2>1 DEF Lab
  <2>4. c.at # "pruneSlots"
    BY <1>3 DEF EditAt
  <2> QED  BY <1>1, <1>3, <2>1, <2>2, <2>3, <2>4, FreshCopy
<1> QED  BY <1>5, <1>6, <1>7

\* The read before an edit of the observations.
LEMMA SlotLoadSeq ==
  ASSUME IInv, SInv, NEW w, Workers = {w}, SlotLoad(w)
  PROVE  SInv'
<1> DEFINE c == call[w]
           d == [c EXCEPT !.pc = "slotStore", !.slots = observations]
<1>1. c.pc = "slotLoad" /\ Local(w, d) /\ UNCHANGED <<registry, observations, pane, life>>
  BY DEF SlotLoad
<1>2. /\ c \in Call /\ CallInv(c, pane) /\ Pos(c, registry, observations)
      /\ World(c, registry, observations, life, pane, Unswept(c))
  BY SeqNow
<1>3. c.at \in SlotEditAt
  BY <1>1, <1>2 DEF CallInv, Fits, Refreshing, Marking, Ends
<1>4. /\ d.tool = c.tool /\ d.at = c.at /\ d.h = c.h /\ d.gone = c.gone /\ d.own = c.own
      /\ d.pc = "slotStore" /\ d.slots = observations /\ d.todo = c.todo
  BY <1>2 DEF Call
<1> HIDE DEF d
<1>5. Lab(d, registry, observations)
  BY <1>4 DEF Lab
<1>6. CASE c.at # "pruneSlots"
  BY <1>1, <1>3, <1>4, <1>5, <1>6, FreshCopy
<1>7. CASE c.at = "pruneSlots"
  <2>1. Pos(d, registry, observations)
    <3>1. \A t : ~CarryAt(t, "pruneSlots") /\ ~HoldAt(t, "pruneSlots") /\ ~OwnAt(t, "pruneSlots")
      BY DEF CarryAt, HoldAt, OwnAt, Closing
    <3> QED  BY <1>2, <1>4, <1>7, <3>1 DEF Pos
  <2>2. Unswept(d) = Unswept(c)
    BY <1>4 DEF Unswept
  <2>3. World(d, registry, observations, life, pane, Unswept(d))
    BY <1>2, <1>4, <2>2 DEF World, Lives
  <2>4. SeqInv(d, registry', observations', life', pane')
    BY <1>1, <1>4, <1>5, <2>1, <2>3 DEF SeqInv, World, Answer
  <2> QED  BY <1>1, <2>4, SeqStep
<1> QED  BY <1>6, <1>7

\* The read of the observations that capture and send hold on to.
LEMMA SlotReadSeq ==
  ASSUME IInv, SInv, NEW w, Workers = {w}, SlotRead(w)
  PROVE  SInv'
<1> DEFINE c == call[w]
           r == registry
           o == observations
           x == [c EXCEPT !.slots = o]
           e == IF c.tool # "capture" /\ ~IsActive(c.own) THEN "inactive" ELSE "ok"
<1>1. c.pc = "slotRead" /\ Advance(w, x, e) /\ UNCHANGED <<registry, observations, pane, life>>
  BY DEF SlotRead
<1>2. /\ c \in Call /\ CallInv(c, pane) /\ Pos(c, r, o) /\ Serves(c.tool, c.at)
      /\ o \in Observations
  BY SeqNow
<1>3. c.at = "hold"
  BY <1>1, <1>2, Placed
<1>4. c.tool \in Sending \union {"capture"}
  BY <1>2, <1>3 DEF Serves
<1>5. x \in Call
  BY <1>2, UpdateCall
<1>6. /\ x.tool = c.tool /\ x.at = "hold" /\ x.h = c.h /\ x.gone = c.gone /\ x.own = c.own
      /\ x.snap = c.snap /\ x.slots = o
  BY <1>2, <1>3 DEF Call
<1> HIDE DEF x
<1>7. Leaves(x, e, r, o)
  <2>1. e = "ok" /\ c.tool \in Sending => Owned(x, r) /\ Open(r[c.h])
    <3>1. c.tool \in Sending => Owned(c, r)
      BY <1>2, <1>3 DEF Pos, OwnAt
    <3>2. e = "ok" /\ c.tool \in Sending => IsActive(c.own)
      BY DEF Sending
    <3> QED  BY <1>6, <3>1, <3>2 DEF Owned, IsActive, Open
  <2>2. c.tool = "capture" => Open(r[c.h]) /\ Carried(x, r)
    <3>1. c.tool = "capture" => Open(r[c.h]) /\ Carried(c, r)
      BY <1>2, <1>3 DEF Pos, OpenAt, CarryAt
    <3> QED  BY <1>6, <3>1 DEF Carried
  <2> HIDE DEF e
  <2>3. \/ c.tool = "capture" /\ c.tool \notin Sending /\ c.tool \notin Reading \ {"capture"}
        \/ c.tool \in Sending /\ c.tool \notin Reading
    BY <1>4 DEF Sending, Reading
  <2>4. c.tool \notin Making \union Listing
    BY <1>4 DEF Sending, Making, Listing
  <2>5. ~OpenAt(c.tool, "hold") \/ c.tool = "capture"
    BY <2>4 DEF OpenAt, Closing
  <2>6. ~ReadyAt(c.tool, "hold") /\ (OwnAt(c.tool, "hold") => c.tool \in Sending)
    BY DEF ReadyAt, OwnAt
  <2>7. CarryAt(c.tool, "hold") => c.tool = "capture"
    BY DEF CarryAt, Closing
  <2> QED  BY <1>6, <2>1, <2>2, <2>3, <2>4, <2>5, <2>6, <2>7 DEF Leaves
<1>8. Forward(pane, pane') /\ "hold" \notin SlotSweeps
  BY <1>1 DEF Forward, SlotSweeps
<1> HIDE DEF e
<1> QED  BY <1>1, <1>3, <1>5, <1>6, <1>7, <1>8, QuietAdvance

\* What a write of the observations leaves: its own slot is of an open entry.
LEMMA SlotStoreSeq ==
  ASSUME IInv, SInv, NEW w, Workers = {w}, SlotStore(w)
  PROVE  SInv'
<1> DEFINE c == call[w]
           r == registry
           o == observations
           x == [c EXCEPT !.slots = EmptyObservations, !.before = {}]
           e == IF c.tool = "spawn" /\ c.at = "persistSlot" /\ c.own.pane = NoPane
                  THEN "detached" ELSE "ok"
<1>1. /\ c.pc = "slotStore" /\ observations' = EditSlots(c) /\ Advance(w, x, e)
      /\ UNCHANGED <<registry, pane, life>>
  BY DEF SlotStore
<1>2. /\ c \in Call /\ CallInv(c, pane) /\ Pos(c, r, o) /\ Lab(c, r, o) /\ Serves(c.tool, c.at)
      /\ World(c, r, o, life, pane, Unswept(c)) /\ o \in Observations
  BY SeqNow
<1>3. /\ c.at \in SlotEditAt \union SlotWriteAt /\ (c.at # "pruneSlots" => c.h \in Handles)
  BY <1>1, <1>2, Placed
<1>4. x \in Call
  <2> DEFINE y == [c EXCEPT !.slots = EmptyObservations]
  <2>1. EmptyObservations \in Observations /\ {} \in SUBSET Panes
    BY DEF EmptyObservations, Observations, NoSlot, Slot
  <2>2. y \in Call
    BY <1>2, <2>1, UpdateCall
  <2>3. x = [y EXCEPT !.before = {}]
    OBVIOUS
  <2> HIDE DEF x, y
  <2> QED  BY <2>1, <2>2, <2>3, UpdateCall
<1>5. /\ x.tool = c.tool /\ x.at = c.at /\ x.h = c.h /\ x.gone = c.gone /\ x.own = c.own
      /\ x.snap = c.snap /\ x.todo = c.todo
  BY <1>2 DEF Call
<1> HIDE DEF x, e
<1>6. c.slots = o
  <2>1. CASE c.at \in SlotEditAt
    BY <1>1, <1>2, <2>1 DEF Lab
  <2>2. CASE c.at \in SlotWriteAt
    BY <1>2, <2>2 DEF SlotWriteAt, Pos, HoldAt, Serves
  <2> QED  BY <1>3, <2>1, <2>2
<1>7. Slotted(r, observations', {})
  <2> DEFINE q == observations'
  <2>1. Slotted(r, o, Unswept(c))
    BY <1>2 DEF World
  <2>2. CASE c.at \in {"discardSlot", "sealSlot"}
    <3>1. c.h \in Handles /\ q = [o EXCEPT ![c.h] = NoSlot]
      BY <1>1, <1>3, <1>6, <2>2 DEF EditSlots
    <3>2. q[c.h].kept = "no" /\ \A k \in Handles \ {c.h} : q[k] = o[k]
      BY <1>2, <3>1 DEF Observations, NoSlot
    <3>3. Unswept(c) = {c.h}
      BY <2>2 DEF Unswept
    <3> QED  BY <2>1, <3>2, <3>3 DEF Slotted
  <2>3. CASE c.at = "pruneSlots"
    <3>1. q = [k \in Handles |-> IF k \in c.todo THEN NoSlot ELSE o[k]]
      BY <1>1, <1>6, <2>3 DEF EditSlots
    <3>2. Unswept(c) = c.todo
      BY <2>3 DEF Unswept
    <3> QED  BY <2>1, <3>1, <3>2 DEF Slotted, NoSlot
  <2>4. CASE c.at \notin {"discardSlot", "sealSlot", "pruneSlots"}
    <3>1. Open(r[c.h])
      <4>1. OpenAt(c.tool, c.at)
        BY <1>2, <1>3, <2>4 DEF SlotEditAt, SlotWriteAt, OpenAt, Serves, Making
      <4> QED  BY <1>2, <4>1 DEF Pos
    <3>2. c.h \in Handles /\ \A k \in Handles \ {c.h} : q[k] = o[k]
      BY <1>1, <1>2, <1>3, <1>6, <2>4 DEF EditSlots, Observations
    <3>3. Unswept(c) = {}
      BY <1>3, <2>4 DEF Unswept
    <3> QED  BY <2>1, <3>1, <3>2, <3>3 DEF Slotted
  <2> QED  BY <2>2, <2>3, <2>4
<1>8. Leaves(x, e, r, observations')
  <2>1. c.at \notin Turning \union {"seal", "hold"}
    BY <1>3 DEF SlotEditAt, SlotWriteAt, Turning
  <2>2. Leaves(c, e, r, o)
    BY <1>2, <2>1, PosLeaves
  <2>3. HoldAt(c.tool, c.at) => c.at \in {"recordSlot", "stamp"}
    BY <1>3 DEF SlotEditAt, SlotWriteAt, HoldAt
  <2>4. c.at \notin {"scan", "examine", "hold"}
    BY <1>3 DEF SlotEditAt, SlotWriteAt
  <2>5. /\ Owned(c, r) => Owned(x, r)
        /\ Carried(c, r) => Carried(x, r)
    BY <1>5 DEF Owned, Carried
  <2> QED  BY <1>5, <2>2, <2>3, <2>4, <2>5 DEF Leaves
<1>9. Sweeps(x, e) = {}
  BY <1>3, <1>5 DEF Sweeps, SlotEditAt, SlotWriteAt
<1>10. World(x, registry', observations', life', pane', Sweeps(x, e))
  BY <1>1, <1>2, <1>5, <1>7, <1>9 DEF World, Lives
<1>11. Leaves(x, e, registry', observations') /\ Serves(x.tool, x.at)
  BY <1>1, <1>2, <1>5, <1>8
<1> QED  BY <1>1, <1>4, <1>10, <1>11, SeqAdvance

\* The writes of the registry that leave the entry of the handle there and open.
LEMMA MendSeq ==
  ASSUME IInv, SInv, NEW w, Workers = {w}, call[w].pc = "store",
         UNCHANGED <<observations, pane, life>>,
         call[w].at \in {"busy", "record", "settle", "markReady", "leaveBusy"},
         NEW x \in Call, x.own = call[w].own, x.tool = call[w].tool, x.at = call[w].at,
         x.h = call[w].h, x.gone = call[w].gone, x.slots = call[w].slots,
         SameButOne(registry', registry, call[w].h), call[w].h \in Handles,
         Open(registry[call[w].h]), Open(registry'[call[w].h]),
         Provisioned(registry'[call[w].h]),
         call[w].at \in {"record", "settle", "markReady"} => registry'[call[w].h].status = "ready",
         Advance(w, x, "ok")
  PROVE  SInv'
<1> DEFINE c == call[w]
           t == c.tool
           a == c.at
           r == registry
           s == registry'
           o == observations
<1>1. /\ Pos(c, r, o) /\ Serves(t, a) /\ World(c, r, o, life, pane, Unswept(c))
  BY SeqNow
<1>2. Sweeps(x, "ok") = {} /\ Unswept(c) = {}
  BY DEF Sweeps, Unswept
<1>3. World(c, s, o, life, pane, {})
  <2>1. Present(r[c.h]) /\ Present(s[c.h])
    BY DEF Open, Present
  <2> QED  BY <1>1, <1>2, <2>1, EntryWorld
<1>4. World(x, registry', observations', life', pane', Sweeps(x, "ok"))
  BY <1>2, <1>3 DEF World, Lives
<1>5. Leaves(x, "ok", s, o)
  <2>1. /\ t \notin Listing /\ t \notin Sending /\ ~ReadyAt(t, a) /\ ~OwnAt(t, a)
        /\ a \notin {"persist", "enter", "boundary", "hold", "seal", "sealSlot", "revalidate",
                     "scan", "examine"}
        /\ CarryAt(t, a) => a \in {"record", "busy"}
    BY <1>1 DEF Serves, ReadyAt, OwnAt, CarryAt, Listing, Making, Sending, Closing
  <2>2. HoldAt(t, a) => x.slots = o
    BY <1>1 DEF Pos
  <2>3. a \in {"settle", "record"} => s[c.h].status = "ready"
    OBVIOUS
  <2>4. x.tool = t /\ x.at = a /\ x.h = c.h /\ Open(s[c.h])
    OBVIOUS
  <2> HIDE DEF t, a, s, c
  <2> QED  BY <2>1, <2>2, <2>3, <2>4 DEF Leaves
<1>6. Leaves(x, "ok", registry', observations') /\ Serves(x.tool, x.at)
  BY <1>1, <1>5
<1> QED  BY <1>4, <1>6, SeqAdvance

\* A write of the registry.
LEMMA StoreSeq ==
  ASSUME IInv, SInv, NEW w, Workers = {w}, Store(w)
  PROVE  SInv'
<1> DEFINE c == call[w]
           r == registry
           o == observations
           h == c.h
           x == [c EXCEPT !.snap = EmptyRegistry]
<1>1. c.pc = "store" /\ UNCHANGED <<observations, pane>>
  BY DEF Store
<1>2. /\ c \in Call /\ CallInv(c, pane) /\ Pos(c, r, o) /\ Lab(c, r, o) /\ Serves(c.tool, c.at)
      /\ World(c, r, o, life, pane, Unswept(c)) /\ r \in Registry
  BY SeqNow
<1>3. c.at \in EditAt \union WriteAt /\ (c.at # "prune" => h \in Handles)
  BY <1>1, <1>2, Placed
<1>4. c.at \in EditAt => c.snap = r
  BY <1>1, <1>2 DEF Lab
<1>5. ~SpawnEntryGone(c)
  <2>1. c.tool = "spawn" /\ c.at \in {"leaveBusy", "markReady"} => Open(r[h]) /\ c.snap = r
    BY <1>2, <1>4 DEF Pos, OpenAt, Making, EditAt
  <2> QED  BY <2>1 DEF SpawnEntryGone, Open, Present
<1>6. /\ registry' = EditRegistry(c) /\ Advance(w, x, "ok")
      /\ life' = IF c.at = "prune"
                   THEN [k \in Handles |-> IF k \in c.todo THEN "removed" ELSE life[k]]
                   ELSE life
  BY <1>5 DEF Store
<1>7. x \in Call
  <2>1. EmptyRegistry \in Registry
    BY EmptyIsSound DEF SoundRegistry
  <2> QED  BY <1>2, <2>1, UpdateCall
<1>8. /\ x.own = c.own /\ x.tool = c.tool /\ x.at = c.at /\ x.h = h /\ x.gone = c.gone
      /\ x.slots = c.slots /\ x.todo = c.todo
  BY <1>2 DEF Call
<1> HIDE DEF x
<1>9. c.snap \in Registry
  BY <1>2 DEF Call
<1>10. ASSUME NEW st \in Status, NEW s, s = [c.snap EXCEPT ![h].status = st], h \in Handles
       PROVE  /\ SameButOne(s, c.snap, h) /\ s[h].status = st
              /\ s[h].pane = c.snap[h].pane /\ s[h].source = c.snap[h].source
  BY <1>9, <1>10 DEF SameButOne, Registry, Binding
<1>11. CASE c.at = "persist"
  <2>1. registry' = [r EXCEPT ![h] = c.own] /\ UNCHANGED life /\ h \in Handles
    BY <1>3, <1>4, <1>6, <1>11 DEF EditRegistry, EditAt
  <2>2. /\ c.own.status = "busy" /\ Provisioned(c.own) /\ c.tool \in Making /\ life[h] = "pending"
    BY <1>2, <1>11 DEF Pos, Serves, World, Lives
  <2>3. registry'[h] = c.own /\ SameButOne(registry', r, h)
    BY <1>2, <2>1 DEF Registry, SameButOne
  <2>4. Open(registry'[h])
    BY <2>2, <2>3 DEF Open
  <2>5. Sweeps(x, "ok") = {} /\ Unswept(c) = {}
    BY <1>8, <1>11 DEF Sweeps, Unswept
  <2>6. World(x, registry', observations', life', pane', Sweeps(x, "ok"))
    <3>1. Lives(x, registry', life)
      BY <1>2, <1>8, <2>2, <2>3 DEF World, Lives, SameButOne
    <3>2. Slotted(registry', o, {})
      BY <1>2, <2>3, <2>4, <2>5 DEF World, Slotted, SameButOne
    <3>3. \A k \in Handles : Provisioned(registry'[k])
      BY <1>2, <2>2, <2>3 DEF World, SameButOne
    <3> QED  BY <1>1, <1>2, <1>8, <2>1, <2>5, <3>1, <3>2, <3>3 DEF World
  <2>7. Leaves(x, "ok", registry', observations')
    <3>1. c.tool \notin Listing /\ c.tool \notin {"capture", "wait", "close"}
          /\ c.tool \notin Sending
      BY <2>2 DEF Making, Listing, Sending
    <3> QED  BY <1>8, <1>11, <2>2, <2>4, <3>1
        DEF Leaves, ReadyAt, OwnAt, CarryAt, HoldAt
  <2>8. Serves(x.tool, x.at)
    BY <1>2, <1>8
  <2> QED  BY <1>6, <1>7, <2>6, <2>7, <2>8, SeqAdvance
<1>12. CASE c.at = "discard"
  <2>1. registry' = [r EXCEPT ![h] = NoBinding] /\ UNCHANGED life /\ h \in Handles
    BY <1>3, <1>4, <1>6, <1>12 DEF EditRegistry, EditAt
  <2>2. c.tool = "spawn" /\ life[h] = "pending"
    BY <1>2, <1>12 DEF Serves, World, Lives, Making
  <2>3. registry'[h] = NoBinding /\ SameButOne(registry', r, h)
    BY <1>2, <2>1 DEF Registry, SameButOne
  <2>4. Sweeps(x, "ok") = {h} /\ Unswept(c) = {}
    BY <1>8, <1>12 DEF Sweeps, Unswept
  <2>5. World(x, registry', observations', life', pane', Sweeps(x, "ok"))
    <3>1. Lives(x, registry', life)
      BY <1>2, <1>8, <2>2, <2>3 DEF World, Lives, SameButOne
    <3>2. Slotted(registry', o, {h})
      BY <1>2, <2>3, <2>4 DEF World, Slotted, SameButOne
    <3>3. \A k \in Handles : Provisioned(registry'[k])
      BY <1>2, <2>3 DEF World, SameButOne, Provisioned, Present, NoBinding
    <3> QED  BY <1>1, <1>2, <1>8, <2>1, <2>4, <3>1, <3>2, <3>3 DEF World
  <2>6. Leaves(x, "ok", registry', observations')
    BY <1>8, <1>12, <2>2 DEF Leaves, ReadyAt, OwnAt, CarryAt, HoldAt, Making, Listing, Sending,
       Reading
  <2>7. Serves(x.tool, x.at)
    BY <1>2, <1>8
  <2> QED  BY <1>6, <1>7, <2>5, <2>6, <2>7, SeqAdvance
<1>13. CASE c.at = "prune"
  <2>1. /\ registry' = [k \in Handles |-> IF k \in c.todo THEN NoBinding ELSE r[k]]
        /\ life' = [k \in Handles |-> IF k \in c.todo THEN "removed" ELSE life[k]]
    BY <1>4, <1>6, <1>13 DEF EditRegistry, EditAt
  <2>2. c.tool = "cleanup"
    BY <1>2, <1>13 DEF Serves
  <2>3. Sweeps(x, "ok") = c.todo /\ Unswept(c) = {}
    BY <1>8, <1>13 DEF Sweeps, Unswept
  <2>4. World(x, registry', observations', life', pane', Sweeps(x, "ok"))
    <3>1. Lives(x, registry', life')
      BY <1>2, <1>8, <2>1, <2>2 DEF World, Lives, Making
    <3>2. Slotted(registry', o, c.todo)
      BY <1>2, <2>1, <2>3 DEF World, Slotted
    <3>3. \A k \in Handles : Provisioned(registry'[k])
      BY <1>2, <2>1 DEF World, Provisioned, Present, NoBinding
    <3> QED  BY <1>1, <1>2, <1>8, <2>3, <3>1, <3>2, <3>3 DEF World
  <2>5. Leaves(x, "ok", registry', observations')
    BY <1>8, <1>13, <2>2 DEF Leaves, OpenAt, ReadyAt, OwnAt, CarryAt, HoldAt, Making, Listing,
       Sending, Reading, Closing
  <2>6. Serves(x.tool, x.at)
    BY <1>2, <1>8
  <2> QED  BY <1>6, <1>7, <2>4, <2>5, <2>6, SeqAdvance
<1>14. CASE c.at = "seal"
  <2>1. registry' = [c.snap EXCEPT ![h].status = "closed"] /\ UNCHANGED life /\ h \in Handles
    BY <1>3, <1>6, <1>14 DEF EditRegistry
  <2>2. c.tool = "close"
    BY <1>2, <1>14 DEF Serves
  <2>3. Carried(c, r) /\ Open(r[h])
    BY <1>2, <1>14, <2>2 DEF Pos, CarryAt, OpenAt
  <2>4. /\ SameButOne(registry', c.snap, h) /\ registry'[h].status = "closed"
        /\ registry'[h].pane = c.snap[h].pane /\ registry'[h].source = c.snap[h].source
    BY <1>10, <2>1 DEF Status
  <2>5. SameButOne(registry', r, h) /\ Provisioned(registry'[h])
    BY <2>3, <2>4 DEF Carried, SameButOne, Provisioned, Present, IsActive
  <2>6. Sweeps(x, "ok") = {h} /\ Unswept(c) = {}
    BY <1>8, <1>14 DEF Sweeps, Unswept
  <2>7. World(x, registry', observations', life', pane', Sweeps(x, "ok"))
    <3>1. Lives(x, registry', life)
      BY <1>2, <1>8, <2>3, <2>4, <2>5
      DEF World, Lives, SameButOne, Open, Present, NoBinding
    <3>2. Slotted(registry', o, {h})
      BY <1>2, <2>5, <2>6 DEF World, Slotted, SameButOne
    <3>3. \A k \in Handles : Provisioned(registry'[k])
      BY <1>2, <2>5 DEF World, SameButOne
    <3> QED  BY <1>1, <1>2, <1>8, <2>1, <2>6, <3>1, <3>2, <3>3 DEF World
  <2>8. Leaves(x, "ok", registry', observations')
    BY <1>8, <1>14, <2>2, <2>4 DEF Leaves, ReadyAt, OwnAt, HoldAt, Making, Listing, Sending
  <2>9. Serves(x.tool, x.at)
    BY <1>2, <1>8
  <2> QED  BY <1>6, <1>7, <2>7, <2>8, <2>9, SeqAdvance
<1>15. CASE c.at \in {"busy", "record"}
  <2>1. /\ c.at = "busy" => c.tool = "wait"
        /\ c.at = "record" => c.tool = "capture"
        /\ h \in Handles /\ UNCHANGED life
    BY <1>2, <1>3, <1>6, <1>15 DEF Serves
  <2>2. Carried(c, r) /\ Open(r[h])
    BY <1>2, <1>15, <2>1 DEF Pos, CarryAt, OpenAt
  <2>3. /\ SameButOne(c.snap, r, h) /\ IsActive(c.snap[h]) /\ Judged(c.snap[h])
        /\ Provisioned(c.snap[h])
    BY <2>2 DEF Carried
  <2>4. /\ SameButOne(registry', c.snap, h)
        /\ registry'[h].pane = c.snap[h].pane /\ registry'[h].source = c.snap[h].source
        /\ registry'[h].status = IF c.at = "busy" THEN "busy" ELSE "ready"
    <3>1. CASE c.at = "busy"
      <4>1. registry' = [c.snap EXCEPT ![h].status = "busy"]
        BY <1>6, <3>1 DEF EditRegistry
      <4> QED  BY <1>10, <2>1, <3>1, <4>1 DEF Status
    <3>2. CASE c.at = "record" /\ c.snap[h].status = "busy"
      <4>1. registry' = [c.snap EXCEPT ![h].status = "ready"]
        BY <1>6, <2>3, <3>2 DEF EditRegistry, Judged
      <4> QED  BY <1>10, <2>1, <3>2, <4>1 DEF Status
    <3>3. CASE c.at = "record" /\ c.snap[h].status # "busy"
      <4>1. registry' = c.snap
        BY <1>6, <3>3 DEF EditRegistry
      <4> QED  BY <2>3, <3>3, <4>1 DEF IsActive, SameButOne
    <3> QED  BY <1>15, <3>1, <3>2, <3>3
  <2>5. /\ SameButOne(registry', r, h) /\ Provisioned(registry'[h]) /\ Open(registry'[h])
    BY <2>3, <2>4 DEF SameButOne, Provisioned, Present, IsActive, Open
  <2> QED  BY <1>1, <1>6, <1>7, <1>8, <1>15, <2>1, <2>2, <2>4, <2>5, MendSeq
<1>16. CASE c.at \in {"settle", "markReady", "leaveBusy"}
  <2>1. c.snap = r /\ h \in Handles /\ UNCHANGED life
    BY <1>3, <1>4, <1>6, <1>16 DEF EditAt
  <2>2. Open(r[h])
    <3>1. c.tool \in Making \/ (c.tool = "wait" /\ c.at # "markReady")
      BY <1>2, <1>16 DEF Serves, Making
    <3>2. OpenAt(c.tool, c.at)
      BY <1>16, <3>1 DEF OpenAt
    <3> QED  BY <1>2, <3>2 DEF Pos
  <2>3. Present(r[h]) /\ Provisioned(r[h])
    BY <1>2, <2>1, <2>2 DEF Open, Present, World
  <2> DEFINE st == IF c.at = "leaveBusy" THEN "busy" ELSE "ready"
  <2>4. registry' = [c.snap EXCEPT ![h].status = st]
    BY <1>6, <1>16, <2>1, <2>3 DEF EditRegistry
  <2>5. st \in Status
    BY DEF Status
  <2>6. /\ SameButOne(registry', c.snap, h) /\ registry'[h].status = st
        /\ registry'[h].pane = c.snap[h].pane /\ registry'[h].source = c.snap[h].source
    <3> HIDE DEF st
    <3> QED  BY <1>10, <2>1, <2>4, <2>5
  <2>7. /\ SameButOne(registry', r, h) /\ Provisioned(registry'[h]) /\ Open(registry'[h])
    BY <2>1, <2>3, <2>6 DEF Provisioned, Present, Open
  <2>8. c.at \in {"record", "settle", "markReady"} => registry'[h].status = "ready"
    BY <1>16, <2>6
  <2> QED  BY <1>1, <1>6, <1>7, <1>8, <1>16, <2>1, <2>2, <2>7, <2>8, MendSeq
<1> QED  BY <1>3, <1>11, <1>12, <1>13, <1>14, <1>15, <1>16 DEF EditAt, WriteAt

\* The reads of capture, wait, close and list: the binding the handler refreshed is
\* the entry it reads.
LEMMA ReadSeq ==
  ASSUME IInv, SInv, NEW w, Workers = {w}, Read(w)
  PROVE  SInv'
<1> DEFINE c == call[w]
           r == registry
           o == observations
           b == r[c.h]
           all == {k \in Handles : Present(r[k])}
           synced == [r EXCEPT ![c.h].status = c.own.status, ![c.h].pane = c.own.pane]
<1>1. c.pc = "read" /\ UNCHANGED <<registry, observations, pane, life>>
  BY DEF Read
<1>2. /\ c \in Call /\ CallInv(c, pane) /\ Pos(c, r, o) /\ Serves(c.tool, c.at)
      /\ World(c, r, o, life, pane, Unswept(c)) /\ r \in Registry
  BY SeqNow
<1>3. c.at \in {"enter", "scan"} /\ (c.at = "enter" => c.h \in Handles)
  BY <1>1, <1>2, Placed DEF ReadAt
<1>4. Forward(pane, pane') /\ "enter" \notin SlotSweeps
  BY <1>1 DEF Forward, SlotSweeps
<1>5. CASE c.at = "scan"
  <2> DEFINE x == [c EXCEPT !.snap = r, !.todo = all]
             y == [c EXCEPT !.gone = {}]
  <2>1. Advance(w, x, "ok") \/ Advance(w, y, "none")
    BY <1>5 DEF Read
  <2>2. c.tool \in Listing
    BY <1>2, <1>5 DEF Serves
  <2>3. x \in Call /\ y \in Call
    <3> DEFINE z == [c EXCEPT !.snap = r]
    <3>1. all \in SUBSET Handles /\ {} \in SUBSET Panes
      OBVIOUS
    <3> HIDE DEF all
    <3>2. z \in Call /\ y \in Call
      BY <1>2, <3>1, UpdateCall
    <3>3. x = [z EXCEPT !.todo = all]
      OBVIOUS
    <3> HIDE DEF x, z
    <3> QED  BY <3>1, <3>2, <3>3, UpdateCall
  <2> HIDE DEF all
  <2>4. /\ x.tool = c.tool /\ x.at = c.at /\ x.h = c.h /\ x.gone = c.gone /\ x.snap = r
        /\ x.todo = all
        /\ y.tool = c.tool /\ y.at = c.at /\ y.h = c.h /\ y.gone = {}
    BY <1>2 DEF Call
  <2> HIDE DEF x, y
  <2>5. Listed(x, r, x.todo) /\ Listed(y, r, {})
    BY <2>4 DEF Listed, Told, all
  <2>6. /\ c.tool \notin {"spawn", "attach", "capture", "send", "replace", "wait", "close"}
    BY <2>2 DEF Listing
  <2>7. Leaves(x, "ok", r, o) /\ Leaves(y, "none", r, o)
    BY <1>5, <2>4, <2>5, <2>6 DEF Leaves, OpenAt, ReadyAt, OwnAt, CarryAt, HoldAt, Making, Sending,
       Reading
  <2>8. /\ Sweeps(x, "ok") = {} /\ Sweeps(y, "none") = {} /\ Unswept(c) = {}
    BY <1>5, <2>4 DEF Sweeps, Unswept
  <2>9. World(x, r, o, life, pane, {}) /\ World(y, r, o, life, pane, {})
    BY <1>2, <2>4, <2>8 DEF World, Lives
  <2>10. CASE Advance(w, x, "ok")
    <3>1. /\ World(x, registry', observations', life', pane', Sweeps(x, "ok"))
          /\ Leaves(x, "ok", registry', observations') /\ Serves(x.tool, x.at)
      BY <1>1, <1>2, <2>4, <2>7, <2>8, <2>9
    <3> QED  BY <2>3, <2>10, <3>1, SeqAdvance
  <2>11. CASE Advance(w, y, "none")
    <3>1. /\ World(y, registry', observations', life', pane', Sweeps(y, "none"))
          /\ Leaves(y, "none", registry', observations') /\ Serves(y.tool, y.at)
      BY <1>1, <1>2, <2>4, <2>7, <2>8, <2>9
    <3> QED  BY <2>3, <2>11, <3>1, SeqAdvance
  <2> QED  BY <2>1, <2>10, <2>11
<1>6. CASE c.at = "enter"
  <2> DEFINE e == CASE IsActive(c.own)         -> "ok"
                    [] c.own.status = "closed" -> "closed"
                    [] OTHER                   -> "inactive"
             x == [c EXCEPT !.snap = r, !.own = b]
  <2>1. c.tool \in Reading /\ c.h \in Handles
    BY <1>2, <1>3, <1>6 DEF Serves
  <2>2. c.own = b /\ Present(b) /\ Judged(b)
    BY <1>2, <1>6, <2>1 DEF Pos, OwnAt, Owned
  <2>3. synced = r /\ synced[c.h] = b
    <3>1. b \in Binding
      BY <1>2, <2>1 DEF Registry
    <3> QED  BY <1>2, <2>1, <2>2, <3>1 DEF Registry, Binding
  <2>4. Advance(w, x, e)
    <3>1. Advance(w, [c EXCEPT !.snap = synced, !.own = synced[c.h]], e)
      BY <1>6, <2>2 DEF Read
    <3> HIDE DEF e, synced
    <3> QED  BY <2>3, <3>1
  <2>5. x \in Call
    <3> DEFINE z == [c EXCEPT !.snap = r]
    <3>1. b \in Binding
      BY <1>2, <2>1 DEF Registry
    <3>2. z \in Call
      BY <1>2, UpdateCall
    <3>3. x = [z EXCEPT !.own = b]
      OBVIOUS
    <3> HIDE DEF x, z, b
    <3> QED  BY <3>1, <3>2, <3>3, UpdateCall
  <2>6. /\ x.tool = c.tool /\ x.at = c.at /\ x.h = c.h /\ x.gone = c.gone /\ x.snap = r
        /\ x.own = b
    BY <1>2 DEF Call
  <2>7. /\ e = "ok" => IsActive(b)
        /\ e = "closed" => b.status = "closed"
        /\ e # "none"
    BY <2>2 DEF IsActive
  <2> HIDE DEF x, e
  <2>8. e = "ok" => Open(b) /\ Carried(x, r)
    BY <1>2, <2>1, <2>2, <2>6, <2>7 DEF Carried, SameButOne, World, IsActive, Open
  <2>9. Leaves(x, e, r, o)
    <3>1. c.tool \notin Listing
      BY <2>1 DEF Reading, Listing
    <3>2. /\ ~OpenAt(c.tool, "enter") /\ ~ReadyAt(c.tool, "enter") /\ ~CarryAt(c.tool, "enter")
          /\ ~HoldAt(c.tool, "enter")
      BY <2>1 DEF OpenAt, ReadyAt, CarryAt, HoldAt, Making, Reading, Sending, Closing
    <3> QED  BY <1>6, <2>6, <2>7, <2>8, <3>1, <3>2 DEF Leaves
  <2> QED  BY <1>1, <1>4, <1>6, <2>4, <2>5, <2>6, <2>9, QuietAdvance
<1> QED  BY <1>3, <1>5, <1>6

\* An idle worker promises nothing.
LEMMA IdleSeq ==
  ASSUME NEW r, NEW o, NEW lf, NEW pn, \A k \in Handles : Provisioned(r[k]),
         \A k \in Handles : /\ lf[k] = "fresh" => r[k] = NoBinding
                            /\ lf[k] = "issued" => Present(r[k])
                            /\ lf[k] # "pending",
         Slotted(r, o, {})
  PROVE  SeqInv(Idle, r, o, lf, pn)
<1>1. Idle.pc = "idle" /\ Idle.at = "none" /\ Idle.tool = "none" /\ Idle.gone = {}
  BY DEF Idle
<1>2. Pos(Idle, r, o) /\ Lab(Idle, r, o) /\ Unswept(Idle) = {}
  BY <1>1, NowherePromises
<1>3. Lives(Idle, r, lf)
  BY <1>1 DEF Lives, Making
<1>4. Answer(Idle, r)
  BY <1>1 DEF Answer
<1> HIDE DEF SeqInv
<1> QED  BY <1>1, <1>2, <1>3, <1>4 DEF SeqInv

\* The response leaves.
LEMMA ReturnSeq ==
  ASSUME IInv, SInv, NEW w, Workers = {w}, Return(w)
  PROVE  SInv'
<1> DEFINE c == call[w]
           r == registry
           o == observations
<1>1. /\ c.pc \in Ends /\ Local(w, Idle) /\ UNCHANGED <<registry, observations, pane>>
      /\ life' = IF c.tool \in {"spawn", "attach"} /\ life[c.h] = "pending"
                   THEN [life EXCEPT ![c.h] = IF c.pc = "return" THEN "issued" ELSE "failed"]
                   ELSE life
  BY DEF Return
<1>2. /\ c \in Call /\ CallInv(c, pane) /\ Answer(c, r)
      /\ World(c, r, o, life, pane, Unswept(c))
  BY SeqNow
<1>3. Lives(c, r, life) /\ life \in [Handles -> Life]
  BY <1>2 DEF World, IInv, TypeOK
<1>4. c.at = "none"
  BY <1>1, <1>2 DEF CallInv, Fits, Ends, Refreshing, Marking
<1>5. Unswept(c) = {}
  BY <1>4 DEF Unswept
<1>6. ASSUME NEW k \in Handles
      PROVE  /\ life'[k] = "fresh" => r[k] = NoBinding
             /\ life'[k] = "issued" => Present(r[k])
             /\ life'[k] # "pending"
  <2>1. CASE c.tool \in Making
    <3>1. life[c.h] = "pending"
      BY <1>3, <2>1 DEF Lives
    <3>2. life' = [life EXCEPT ![c.h] = IF c.pc = "return" THEN "issued" ELSE "failed"]
      BY <1>1, <2>1, <3>1 DEF Making
    <3>3. c.pc = "return" => Present(r[c.h])
      BY <1>2, <2>1 DEF Answer, Open, Present
    <3>4. /\ life[k] = "fresh" => r[k] = NoBinding
          /\ life[k] = "issued" => Present(r[k])
          /\ life[k] = "pending" => k = c.h
      BY <1>3 DEF Lives
    <3>5. CASE k = c.h
      BY <1>3, <3>2, <3>3, <3>5
    <3>6. CASE k # c.h
      BY <1>3, <3>2, <3>4, <3>6
    <3> QED  BY <3>5, <3>6
  <2>2. CASE c.tool \notin Making
    BY <1>1, <1>3, <2>2 DEF Lives, Making
  <2> QED  BY <2>1, <2>2
<1>7. /\ \A k \in Handles : Provisioned(r[k])
      /\ Slotted(r, o, {})
  BY <1>2, <1>5 DEF World
<1>8. SeqInv(Idle, r, o, life', pane')
  BY <1>6, <1>7, IdleSeq
<1>9. SeqInv(Idle, registry', observations', life', pane')
  BY <1>1, <1>8
<1> QED  BY <1>1, <1>9, SeqStep

\* What a call that begins finds.
LEMMA BeginNow ==
  ASSUME IInv, SInv, NEW w, Workers = {w}, call[w].pc = "idle"
  PROVE  /\ \A k \in Handles : Provisioned(registry[k])
         /\ \A k \in Handles : /\ life[k] = "fresh" => registry[k] = NoBinding
                               /\ life[k] = "issued" => Present(registry[k])
                               /\ life[k] # "pending"
         /\ Slotted(registry, observations, {})
         /\ life \in [Handles -> Life]
<1> DEFINE c == call[w]
<1>1. /\ CallInv(c, pane) /\ World(c, registry, observations, life, pane, Unswept(c))
      /\ c.tool = "none"
  BY SeqNow DEF SeqInv
<1>2. c.at = "none"
  BY <1>1 DEF CallInv, Fits, Refreshing, Marking
<1> QED  BY <1>1, <1>2 DEF World, Lives, Making, Unswept, IInv, TypeOK

\* The fields of a call that begins.
LEMMA StartFields ==
  ASSUME NEW tool \in AllTools, NEW h \in Handles \union {NoHandle},
         NEW n \in {"persist", "first", "revalidate", "scan", "prune"}
  PROVE  LET a == Arrive(Starting(tool, h), n)
         IN  /\ a \in Call /\ a.at = n /\ a.tool = tool /\ a.h = h /\ a.gone = {}
             /\ a.pc \in {"load", "refresh", "read"} /\ a.todo = {}
<1> DEFINE i == Idle
           s == Starting(tool, h)
           a == Arrive(s, n)
<1>1. i \in Call /\ i.todo = {}
  BY IdleInCall DEF Idle
<1>2. s = [i EXCEPT !.tool = tool, !.h = h]
  BY DEF Starting
<1> HIDE DEF i
<1>3. s \in Call /\ s.tool = tool /\ s.h = h /\ s.todo = {}
  <2>1. [i EXCEPT !.tool = tool] \in Call
    BY <1>1, UpdateCall
  <2>2. s \in Call
    BY <1>2, <2>1, UpdateCall
  <2> QED  BY <1>1, <1>2, <2>2 DEF Call
<1> HIDE DEF s
<1>4. n \in Positions
  BY DEF Positions, EditAt, RefreshAt, ReadAt
<1>5. a \in Call /\ a.at = n /\ a.tool = tool /\ a.h = h /\ a.todo = {}
  BY <1>3, <1>4, ArriveInCall
<1>6. a.pc \in {"load", "refresh", "read"}
  <2>1. a.pc = Entry(n)
    BY <1>3 DEF Arrive, Call
  <2>2. CASE n \in {"first", "revalidate"}
    BY <2>1, <2>2 DEF Entry, RefreshAt, OperateAt, ObserveAt, VerifyAt, ReadAt, EditAt, WriteAt,
                         SlotEditAt, SlotWriteAt
  <2>3. CASE n = "scan"
    BY <2>1, <2>3 DEF Entry, RefreshAt, OperateAt, ObserveAt, VerifyAt, ReadAt, EditAt, WriteAt,
                         SlotEditAt, SlotWriteAt
  <2>4. CASE n \in {"persist", "prune"}
    BY <2>1, <2>4 DEF Entry, RefreshAt, OperateAt, ObserveAt, VerifyAt, ReadAt, EditAt, WriteAt,
                         SlotEditAt, SlotWriteAt
  <2> QED  BY <2>2, <2>3, <2>4
<1>7. a.gone = {}
  BY BeginFields DEF s
<1> HIDE DEF a
<1> QED  BY <1>5, <1>6, <1>7 DEF a, s

\* A call begins at a position of its tool that promises nothing yet, or with a new
\* handle.
LEMMA StartSeq ==
  ASSUME IInv, SInv, NEW w, Workers = {w}, call[w].pc = "idle", UNCHANGED <<registry, observations>>,
         NEW d, Local(w, d), d.pc \in {"load", "refresh", "read"},
         \A p \in d.gone : pane'[p] = "gone",
         \/ /\ d.tool \in Making /\ d.at = "persist" /\ d.h \in Handles /\ life[d.h] = "fresh"
            /\ life' = [life EXCEPT ![d.h] = "pending"]
            /\ d.own.status = "busy" /\ Provisioned(d.own)
         \/ /\ d.tool \in {"capture", "send", "replace", "wait", "close"}
            /\ d.at \in {"first", "revalidate"} /\ UNCHANGED life
         \/ d.tool \in Listing /\ d.at = "scan" /\ UNCHANGED life
         \/ d.tool = "cleanup" /\ d.at = "prune" /\ UNCHANGED life
  PROVE  SInv'
<1> DEFINE r == registry
           o == observations
<1>1. /\ \A k \in Handles : Provisioned(r[k])
      /\ \A k \in Handles : /\ life[k] = "fresh" => r[k] = NoBinding
                            /\ life[k] = "issued" => Present(r[k])
                            /\ life[k] # "pending"
      /\ Slotted(r, o, {}) /\ life \in [Handles -> Life]
  BY BeginNow
<1>2. Lives(d, r, life') /\ (d.at = "persist" => r[d.h] = NoBinding)
  BY <1>1 DEF Lives, Making, Listing
<1>3. Unswept(d) = {}
  BY DEF Unswept
<1>4. Lab(d, r, o) /\ Answer(d, r)
  BY DEF Lab, Answer
<1>5. Pos(d, r, o)
  <2>1. Serves(d.tool, d.at)
    BY DEF Serves, Making, Listing
  <2>2. /\ ~OpenAt(d.tool, d.at) /\ ~ReadyAt(d.tool, d.at) /\ ~OwnAt(d.tool, d.at)
        /\ ~CarryAt(d.tool, d.at) /\ ~HoldAt(d.tool, d.at)
    BY DEF OpenAt, ReadyAt, OwnAt, CarryAt, HoldAt, Making, Sending, Reading, Closing, Listing
  <2>3. d.at \notin {"sealSlot", "boundary", "examine"}
    OBVIOUS
  <2>4. d.at = "persist" => d.own.status = "busy" /\ Provisioned(d.own)
    OBVIOUS
  <2> QED  BY <1>2, <2>1, <2>2, <2>3, <2>4 DEF Pos
<1>6. SeqInv(d, r, o, life', pane')
  BY <1>1, <1>2, <1>3, <1>4, <1>5 DEF SeqInv
<1>7. SeqInv(d, registry', observations', life', pane')
  BY <1>6
<1> QED  BY <1>7, SeqStep

\* A spawn begins; only a remote one may leave its binding without a pane.
LEMMA BeginSpawnSeq ==
  ASSUME IInv, SInv, NEW w, Workers = {w}, BeginSpawn(w)
  PROVE  SInv'
<1> DEFINE A(h) == Arrive(Starting("spawn", h), "persist")
           B(q) == [source |-> "spawned", status |-> "busy", pane |-> q]
           D(h, q, hints) == [A(h) EXCEPT !.own = B(q), !.before = hints]
<1>1. PICK h \in Handles, p \in Panes, hints \in {IF Remote THEN AlivePanes ELSE {}, {}} :
        /\ life[h] = "fresh"
        /\ \E q \in {p, NoPane} : Local(w, D(h, q, hints)) /\ (q = NoPane => Remote)
        /\ life' = [life EXCEPT ![h] = "pending"]
  <2>1. \A p \in Panes : p = NoPane => Remote
    BY ConstantsAssumption
  <2> HIDE DEF D
  <2> QED  BY <2>1 DEF BeginSpawn, D, A, B
<1>2. PICK q \in {p, NoPane} : Local(w, D(h, q, hints)) /\ (q = NoPane => Remote)
  BY <1>1
<1> DEFINE a == A(h)
           b == B(q)
           d == [a EXCEPT !.own = b, !.before = hints]
<1>3. Local(w, d)
  BY <1>2
<1>4. b.status = "busy" /\ Provisioned(b)
  BY <1>2 DEF Provisioned
<1>5. /\ a \in Call /\ a.at = "persist" /\ a.tool = "spawn" /\ a.h = h /\ a.gone = {}
      /\ a.pc \in {"load", "refresh", "read"}
  BY StartFields DEF AllTools
<1> HIDE DEF a, b
<1>6. /\ d.at = "persist" /\ d.tool = "spawn" /\ d.h = h /\ d.gone = {} /\ d.own = b
      /\ d.pc \in {"load", "refresh", "read"}
  BY <1>5 DEF Call
<1>7. call[w].pc = "idle" /\ UNCHANGED <<registry, observations>>
  BY DEF BeginSpawn, CanBegin
<1> HIDE DEF d
<1> QED  BY <1>1, <1>3, <1>4, <1>6, <1>7, StartSeq DEF Making

\* An attach begins.
LEMMA BeginAttachSeq ==
  ASSUME IInv, SInv, NEW w, Workers = {w}, BeginAttach(w)
  PROVE  SInv'
<1> DEFINE A(h) == Arrive(Starting("attach", h), "persist")
           B(q) == [source |-> "attached", status |-> "busy", pane |-> q]
<1>1. PICK h \in Handles, p \in AlivePanes :
        /\ life[h] = "fresh" /\ Local(w, [A(h) EXCEPT !.own = B(p)])
        /\ life' = [life EXCEPT ![h] = "pending"]
  BY DEF BeginAttach
<1> DEFINE a == A(h)
           b == B(p)
           d == [a EXCEPT !.own = b]
<1>2. Local(w, d)
  BY <1>1
<1>3. b.status = "busy" /\ Provisioned(b)
  BY ConstantsAssumption DEF Provisioned, AlivePanes
<1>4. /\ a \in Call /\ a.at = "persist" /\ a.tool = "attach" /\ a.h = h /\ a.gone = {}
      /\ a.pc \in {"load", "refresh", "read"}
  BY StartFields DEF AllTools
<1> HIDE DEF a, b
<1>5. /\ d.at = "persist" /\ d.tool = "attach" /\ d.h = h /\ d.gone = {} /\ d.own = b
      /\ d.pc \in {"load", "refresh", "read"}
  BY <1>4 DEF Call
<1>6. call[w].pc = "idle" /\ UNCHANGED <<registry, observations>>
  BY DEF BeginAttach, CanBegin
<1> HIDE DEF d
<1> QED  BY <1>1, <1>2, <1>3, <1>5, <1>6, StartSeq DEF Making

\* A call on a handle begins.
LEMMA BeginOnHandleSeq ==
  ASSUME IInv, SInv, NEW w, Workers = {w}, BeginOnHandle(w)
  PROVE  SInv'
<1>1. PICK tool \in {"capture", "send", "replace", "wait", "close"}, h \in Handles :
        CanBegin(w, tool) /\ Local(w, Arrive(Starting(tool, h), FirstPosition(tool)))
  BY DEF BeginOnHandle
<1> DEFINE d == Arrive(Starting(tool, h), FirstPosition(tool))
<1>2. /\ d.at \in {"first", "revalidate"} /\ d.tool = tool /\ d.gone = {}
      /\ d.pc \in {"load", "refresh", "read"}
  <2>1. tool \in AllTools /\ FirstPosition(tool) \in {"first", "revalidate"}
    BY DEF AllTools, FirstPosition
  <2> QED  BY <2>1, StartFields
<1>3. Local(w, d)
  BY <1>1
<1>4. call[w].pc = "idle" /\ UNCHANGED <<registry, observations, life>>
  BY <1>1 DEF BeginOnHandle, CanBegin
<1> HIDE DEF d
<1> QED  BY <1>2, <1>3, <1>4, StartSeq

\* The first call of a list knows the panes that are gone.
LEMMA ListCallFields ==
  ASSUME NEW tool \in Listing
  PROVE  LET d == ListCall(tool)
         IN  /\ d.at = "scan" /\ d.tool = tool /\ d.gone = {p \in Panes : pane[p] = "gone"}
             /\ d.pc \in {"load", "refresh", "read"}
<1> DEFINE a == Arrive(Starting(tool, NoHandle), "scan")
           g == {p \in Panes : pane[p] = "gone"}
<1>1. a \in Call /\ a.at = "scan" /\ a.tool = tool /\ a.pc \in {"load", "refresh", "read"}
  BY StartFields DEF AllTools, Listing
<1>2. ListCall(tool) = [a EXCEPT !.gone = g]
  BY DEF ListCall
<1> HIDE DEF a, g
<1>3. ListCall(tool).gone = g /\ ListCall(tool).at = "scan" /\ ListCall(tool).tool = tool
      /\ ListCall(tool).pc \in {"load", "refresh", "read"}
  BY <1>1, <1>2 DEF Call
<1> QED  BY <1>3 DEF g

\* A list begins.
LEMMA BeginListSeq ==
  ASSUME IInv, SInv, NEW w, Workers = {w}, BeginList(w)
  PROVE  SInv'
<1> DEFINE d == ListCall("list")
<1>1. /\ call[w].pc = "idle" /\ Local(w, d)
      /\ UNCHANGED <<registry, observations, pane, life>>
  BY DEF BeginList, CanBegin
<1>2. "list" \in Listing
  BY DEF Listing
<1>3. /\ d.at = "scan" /\ d.tool = "list" /\ d.gone = {p \in Panes : pane[p] = "gone"}
      /\ d.pc \in {"load", "refresh", "read"}
  BY <1>2, ListCallFields
<1> HIDE DEF d
<1> QED  BY <1>1, <1>2, <1>3, StartSeq

\* A cleanup begins.
LEMMA BeginCleanupSeq ==
  ASSUME IInv, SInv, NEW w, Workers = {w}, BeginCleanup(w)
  PROVE  SInv'
<1> DEFINE d == Arrive(Starting("cleanup", NoHandle), "prune")
<1>1. /\ call[w].pc = "idle" /\ Local(w, d)
      /\ UNCHANGED <<registry, observations, pane, life>>
  BY DEF BeginCleanup, CanBegin
<1>2. /\ d.at = "prune" /\ d.tool = "cleanup" /\ d.gone = {}
      /\ d.pc \in {"load", "refresh", "read"}
  BY StartFields DEF AllTools
<1> HIDE DEF d
<1> QED  BY <1>1, <1>2, StartSeq

\* A step of the session: a pane that is gone stays gone.
LEMMA SessionSeq ==
  ASSUME IInv, SInv, NEW w, Workers = {w}, PaneAppears \/ UserOpens \/ UserCloses
  PROVE  SInv'
<1> DEFINE c == call[w]
<1>1. UNCHANGED <<registry, observations, call, life>>
  BY DEF PaneAppears, UserOpens, UserCloses
<1>2. \E p \in Panes :
        \/ pane[p] \in {"starting", "unborn"} /\ pane' = [pane EXCEPT ![p] = "alive"]
        \/ pane[p] = "alive" /\ pane' = [pane EXCEPT ![p] = "gone"]
  BY DEF PaneAppears, UserOpens, UserCloses, AlivePanes
<1>3. \A p \in Panes : pane[p] = "gone" => pane'[p] = "gone"
  BY <1>2 DEF IInv, TypeOK
<1>4. c \in Call /\ SeqInv(c, registry, observations, life, pane)
  BY SeqNow
<1>5. \A p \in c.gone : pane'[p] = "gone"
  BY <1>3, <1>4 DEF SeqInv, Call
<1>6. SeqInv(c, registry, observations, life, pane')
  BY <1>4, <1>5 DEF SeqInv
<1> QED  BY <1>1, <1>6 DEF SInv

\* A restart: whatever was under way is forgotten.
LEMMA RestartSeq ==
  ASSUME IInv, SInv, NEW w, Workers = {w}, Restart
  PROVE  SInv'
<1> DEFINE r == registry
           o == observations
           d == ListCall("startup")
           e == IF Remote THEN Idle ELSE d
<1>1. /\ Crashes /\ UNCHANGED <<registry, observations, pane>>
      /\ life' = [h \in Handles |-> IF life[h] = "pending" THEN "lost" ELSE life[h]]
      /\ call' = [v \in Workers |-> e]
  BY DEF Restart
<1>2. call'[w] = e
  BY <1>1
<1>3. World(call[w], r, o, life, pane, Unswept(call[w]))
  BY SeqNow
<1>4. \A k \in Handles : /\ Provisioned(r[k])
                         /\ life'[k] = "fresh" => r[k] = NoBinding
                         /\ life'[k] = "issued" => Present(r[k])
                         /\ life'[k] # "pending"
  BY <1>1, <1>3 DEF World, Lives
<1>5. \A u : Slotted(r, o, u)
  BY <1>1 DEF Slotted
<1>6. SeqInv(Idle, r, o, life', pane')
  BY <1>4, <1>5, IdleSeq
<1>7. SeqInv(d, r, o, life', pane')
  <2>1. /\ d.at = "scan" /\ d.tool = "startup" /\ d.gone = {p \in Panes : pane[p] = "gone"}
        /\ d.pc \in {"load", "refresh", "read"}
    BY ListCallFields DEF Listing
  <2> HIDE DEF d
  <2>2. Pos(d, r, o)
    BY <2>1 DEF Pos, Serves, OpenAt, ReadyAt, OwnAt, CarryAt, HoldAt, Making, Sending, Reading,
       Closing, Listing
  <2>3. Lives(d, r, life')
    BY <1>4, <2>1 DEF Lives, Making
  <2>4. Answer(d, r) /\ Lab(d, r, o)
    BY <2>1 DEF Answer, Lab
  <2>5. \A p \in d.gone : pane'[p] = "gone"
    BY <1>1, <2>1
  <2> QED  BY <1>4, <1>5, <2>1, <2>2, <2>3, <2>4, <2>5 DEF SeqInv
<1> HIDE DEF d
<1>8. SeqInv(e, r, o, life', pane')
  BY <1>6, <1>7
<1> HIDE DEF e
<1>9. SeqInv(call'[w], registry', observations', life', pane')
  BY <1>1, <1>2, <1>8
<1> QED  BY <1>9 DEF SInv

----------------------------------------------------------------------------
(* The theorems. *)

\* The invariant holds initially.
LEMMA InitSInv == Init => SInv
<1> SUFFICES ASSUME Init, NEW w \in Workers
             PROVE  SeqInv(call[w], registry, observations, life, pane)
  BY DEF SInv
<1>1. call[w] = Idle
  BY DEF Init
<1>2. \A k \in Handles : registry[k] = NoBinding /\ observations[k] = NoSlot /\ life[k] = "fresh"
  BY DEF Init, EmptyRegistry, EmptyObservations
<1>3. \A k \in Handles : Provisioned(registry[k])
  BY <1>2 DEF Provisioned, Present, NoBinding
<1>4. Slotted(registry, observations, {})
  BY <1>2 DEF Slotted, NoSlot
<1> QED  BY <1>1, <1>2, <1>3, <1>4, IdleSeq

\* Every step keeps the invariant as long as one call runs at a time.
LEMMA NextSInv == OneAtATime /\ IInv /\ SInv /\ [Next]_vars => SInv'
<1> SUFFICES ASSUME OneAtATime, IInv, SInv, [Next]_vars  PROVE SInv'
  OBVIOUS
<1>1. PICK w : Workers = {w}
  BY DEF OneAtATime
<1>2. CASE Begin(w)
  BY <1>1, <1>2, BeginSpawnSeq, BeginAttachSeq, BeginOnHandleSeq, BeginListSeq, BeginCleanupSeq
  DEF Begin
<1>3. CASE Step(w)
  BY <1>1, <1>3, RefreshSeq, ResolveSeq, RefreshStoreSeq, ReconcileSeq, ReconcileListSeq,
     OperateSeq, ObserveSeq, MarkStaleLoadSeq, MarkStaleStoreSeq, VerifySeq, ShellExitSeq,
     LoadSeq, StoreSeq, ReadSeq, SlotLoadSeq, SlotReadSeq, SlotStoreSeq, ReturnSeq DEF Step
<1>4. CASE Environment
  BY <1>1, <1>4, SessionSeq, RestartSeq DEF Environment
<1>5. CASE UNCHANGED vars
  BY <1>5 DEF vars, SInv
<1> QED  BY <1>1, <1>2, <1>3, <1>4, <1>5 DEF Next

\* One call at a time, the invariant holds of every behaviour.
THEOREM SequentialInvariance == OneAtATime => (Spec => []SInv)
<1> SUFFICES ASSUME OneAtATime  PROVE Spec => []SInv
  OBVIOUS
<1>1. IInv /\ SInv /\ [Next]_vars => SInv'
  BY NextSInv
<1> QED  BY <1>1, InitSInv, Invariance, PTL DEF Spec

\* One call at a time, a handle that was given to a caller stays in the registry
\* until a cleanup removes it: no write takes it out.
THEOREM NoHandleIsLost == OneAtATime => (Spec => []NoHandleLost)
<1> SUFFICES ASSUME OneAtATime  PROVE Spec => []NoHandleLost
  OBVIOUS
<1>1. SInv => NoHandleLost
  <2>1. Workers # {}
    BY DEF OneAtATime
  <2> QED  BY <2>1 DEF SInv, SeqInv, Lives, NoHandleLost
<1> QED  BY <1>1, SequentialInvariance, PTL

\* One call at a time, an answer says of the handle what the registry says.
THEOREM AnswersMatch == OneAtATime => (Spec => []AnswerMatchesRegistry)
<1> SUFFICES ASSUME OneAtATime  PROVE Spec => []AnswerMatchesRegistry
  OBVIOUS
<1>1. SInv => AnswerMatchesRegistry
  BY DEF SInv, SeqInv, Answer, Open, Making, AnswerMatchesRegistry
<1> QED  BY <1>1, SequentialInvariance, PTL

\* One call at a time, a list that answers has found out every handle whose pane
\* was gone when it began.
THEOREM ListsTellDeadPanes == OneAtATime => (Spec => []ListTellsDeadPanes)
<1> SUFFICES ASSUME OneAtATime  PROVE Spec => []ListTellsDeadPanes
  OBVIOUS
<1>1. SInv => ListTellsDeadPanes
  BY DEF SInv, SeqInv, Answer, Listed, Told, ListTellsDeadPanes
<1> QED  BY <1>1, SequentialInvariance, PTL

\* One call at a time and with no crash between the two files, no closed or removed
\* handle keeps an observation.
THEOREM ClosedKeepNoSlot == OneAtATime /\ ~Crashes => (Spec => []NoSlotAfterClose)
<1> SUFFICES ASSUME OneAtATime, ~Crashes  PROVE Spec => []NoSlotAfterClose
  OBVIOUS
<1>1. IInv /\ SInv => NoSlotAfterClose
  <2> SUFFICES ASSUME IInv, SInv, NEW w, Workers = {w}, call[w].pc = "idle"
               PROVE  \A h \in Handles : observations[h].kept = "yes" =>
                        Present(registry[h]) /\ registry[h].status # "closed"
    BY DEF OneAtATime, NoSlotAfterClose
  <2>1. Slotted(registry, observations, {})
    BY BeginNow
  <2> QED  BY <2>1 DEF Slotted, Open, Present
<1> QED  BY <1>1, Invariance, SequentialInvariance, PTL

=============================================================================
