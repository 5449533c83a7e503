----------------------- MODULE TerminalServiceProofs -----------------------
(***************************************************************************)
(* Proofs about TerminalService, for every set of workers, handles, panes  *)
(* and tools, local or remote, with or without crashes.                    *)
(***************************************************************************)
EXTENDS TerminalService, TLAPS

----------------------------------------------------------------------------
(* The inductive invariant.  It is stated over a pane function pn, so that *)
(* one lemma carries it across the steps that change panes.                *)

\* A binding names no pane, or one that was there; if it says closed, the pane
\* is gone.
Sound(b, pn) ==
  b.pane # NoPane =>
    /\ pn[b.pane] \in {"alive", "gone"}
    /\ b.status = "closed" => pn[b.pane] = "gone"

Over(b, pn) == b.pane # NoPane => pn[b.pane] = "gone"

SoundRegistry(r, pn) == r \in Registry /\ \A h \in Handles : Sound(r[h], pn)

Refreshing == {"refresh", "resolve", "refreshStore", "reconcile", "reconcileList"}
Marking == {"markLoad", "markStore"}

\* The label of a call is one of those its position has.
Fits(c) ==
  \/ c.pc \in {"idle"} \union Ends /\ c.at = "none"
  \/ c.pc = "read" /\ c.at \in ReadAt
  \/ c.pc = "verify" /\ c.at \in VerifyAt
  \/ c.pc \in {"load", "store"} /\ c.at \in EditAt
  \/ c.pc = "store" /\ c.at \in WriteAt
  \/ c.pc \in {"slotLoad", "slotStore"} /\ c.at \in SlotEditAt
  \/ c.pc = "slotStore" /\ c.at \in SlotWriteAt
  \/ c.pc = "slotRead" /\ c.at = "hold"
  \/ c.pc = "shellExit" /\ c.at = "shellExit"
  \/ c.pc \in {"observe"} \union Marking /\ c.at \in ObserveAt
  \/ c.pc \in {"operate"} \union Marking /\ c.at \in OperateAt
  \/ c.pc \in Refreshing /\ c.at \in OperateAt \union RefreshAt

\* Only the first step of a list and a cleanup serve no handle.
Handled(c) ==
  \/ c.pc \in {"idle"} \union Ends
  \/ c.h \in Handles
  \/ c.tool \in Listing /\ c.at = "scan"
  \/ c.tool = "cleanup" /\ c.at \in {"prune", "pruneSlots"}

\* The part of close between its read and its write.
Closing == {"closing", "shellExit", "verify", "verifyExit"}

\* What holds of a call whatever its label.
Core(c, pn) ==
  /\ c \in Call
  /\ Sound(c.own, pn)
  /\ SoundRegistry(c.snap, pn)
  /\ SoundRegistry(c.inner, pn)
  /\ c.at \in Closing => c.snap[c.h].pane = c.own.pane
  /\ c.at \in {"seal", "sealSlot"} => Over(c.own, pn)

CallInv(c, pn) ==
  /\ Core(c, pn)
  /\ Fits(c)
  /\ Handled(c)
  /\ c.at = "seal" => c.snap[c.h].pane = c.own.pane
  /\ c.pc = "return" /\ c.tool = "close" => Over(c.own, pn)

IInv ==
  /\ TypeOK
  /\ SoundRegistry(registry, pane)
  /\ \A w \in Workers : CallInv(call[w], pane)

\* Panes only move forward.
Forward(pn, qn) ==
  \A p \in Panes :
    /\ pn[p] = "gone" => qn[p] = "gone"
    /\ pn[p] = "alive" => qn[p] \in {"alive", "gone"}

----------------------------------------------------------------------------
(* Lemmas about the control flow. *)

\* The rows of the tables that matter to a close: it is sealed only by a
\* verification that found nothing, and answers "closed" only when sealed or
\* already closed.
LEMMA FlowRows ==
  ASSUME NEW t, NEW a, NEW e, NEW n, <<a, e, n>> \in Flow(t)
  PROVE  /\ n = "seal" => a \in VerifyAt /\ e = "none"
         /\ n = "sealSlot" => a = "seal"
         /\ n = "closing" => a = "enter" /\ e = "ok"
         /\ n \in Closing \ {"closing"} => a \in Closing
         /\ t = "close" /\ n = "return" => a = "sealSlot" \/ (a = "enter" /\ e = "closed")
         /\ t \in Listing => n \in {"examine", "return", "fail"}
         /\ t = "cleanup" => n \in {"pruneSlots", "return"}
<1>1. CASE t = "spawn"
  <2>1. <<a, e, n>> \in SpawnFlow  BY <1>1 DEF Flow
  <2> QED  BY <1>1, <2>1 DEF SpawnFlow, Closing, Listing, VerifyAt
<1>2. CASE t = "attach"
  <2>1. <<a, e, n>> \in AttachFlow  BY <1>2 DEF Flow
  <2> QED  BY <1>2, <2>1 DEF AttachFlow, Closing, Listing, VerifyAt
<1>3. CASE t = "capture"
  <2>1. <<a, e, n>> \in CaptureFlow  BY <1>3 DEF Flow
  <2> QED  BY <1>3, <2>1 DEF CaptureFlow, Closing, Listing, VerifyAt
<1>4. CASE t = "send"
  <2>1. <<a, e, n>> \in SendFlow  BY <1>4 DEF Flow
  <2> QED  BY <1>4, <2>1 DEF SendFlow, Closing, Listing, VerifyAt
<1>5. CASE t = "replace"
  <2>1. <<a, e, n>> \in ReplaceFlow  BY <1>5 DEF Flow
  <2>2. CASE <<a, e, n>> \in SendFlow
    BY <1>5, <2>2 DEF SendFlow, Closing, Listing, VerifyAt
  <2>3. CASE <<a, e, n>> \notin SendFlow
    BY <1>5, <2>1, <2>3 DEF ReplaceFlow, Closing, Listing, VerifyAt
  <2> QED  BY <2>2, <2>3
<1>6. CASE t = "wait"
  <2>1. <<a, e, n>> \in WaitFlow  BY <1>6 DEF Flow
  <2> QED  BY <1>6, <2>1 DEF WaitFlow, Closing, Listing, VerifyAt
<1>7. CASE t = "close"
  <2>1. <<a, e, n>> \in CloseFlow  BY <1>7 DEF Flow
  <2> QED  BY <1>7, <2>1 DEF CloseFlow, Closing, Listing, VerifyAt
<1>8. CASE t = "cleanup"
  <2>1. <<a, e, n>> \in CleanupFlow  BY <1>8 DEF Flow
  <2> QED  BY <1>8, <2>1 DEF CleanupFlow, Closing, Listing, VerifyAt
<1>9. CASE t \notin {"spawn", "attach", "capture", "send", "replace", "wait", "close", "cleanup"}
  <2>1. <<a, e, n>> \in ListFlow  BY <1>9 DEF Flow
  <2> QED  BY <1>9, <2>1 DEF ListFlow, Closing, Listing, VerifyAt
<1> QED  BY <1>1, <1>2, <1>3, <1>4, <1>5, <1>6, <1>7, <1>8, <1>9

\* A position starts with a label that fits it.
LEMMA EntryFits ==
  ASSUME NEW c \in Call, NEW n \in Positions
  PROVE  Fits(Arrive(c, n)) /\ Arrive(c, n).pc \in Labels \ ({"idle"} \union Ends)
  BY DEF Arrive, Call, Fits, Entry, Positions, Labels, ReadAt, VerifyAt, EditAt, WriteAt,
         SlotEditAt, SlotWriteAt, ObserveAt, OperateAt, RefreshAt, Refreshing, Marking, Ends

\* The empty registry is sound: its entries name no pane.
LEMMA EmptyIsSound ==
  ASSUME NEW pn
  PROVE  SoundRegistry(EmptyRegistry, pn)
  BY ConstantsAssumption
  DEF SoundRegistry, EmptyRegistry, Registry, NoBinding, Binding, Status, Sound

\* A call stays a call when one of its fields is set.
LEMMA UpdateCall ==
  ASSUME NEW c \in Call
  PROVE  /\ \A x \in Labels : [c EXCEPT !.pc = x] \in Call
         /\ \A x \in AllTools \union {"none"} : [c EXCEPT !.tool = x] \in Call
         /\ \A x \in Positions \union {"none"} : [c EXCEPT !.at = x] \in Call
         /\ \A x \in Handles \union {NoHandle} : [c EXCEPT !.h = x] \in Call
         /\ \A x \in 0 .. 2 : [c EXCEPT !.tries = x] \in Call
         /\ \A x \in Binding : [c EXCEPT !.own = x] \in Call
         /\ \A x \in Binding : [c EXCEPT !.cur = x] \in Call
         /\ \A x \in Registry : [c EXCEPT !.snap = x] \in Call
         /\ \A x \in Registry : [c EXCEPT !.inner = x] \in Call
         /\ \A x \in Observations : [c EXCEPT !.slots = x] \in Call
         /\ \A x \in SUBSET Handles : [c EXCEPT !.todo = x] \in Call
         /\ \A x \in SUBSET Panes : [c EXCEPT !.before = x] \in Call
         /\ \A x \in SUBSET Panes : [c EXCEPT !.gone = x] \in Call
<1>1. \A x \in Labels : [c EXCEPT !.pc = x] \in Call  BY DEF Call
<1>2. \A x \in AllTools \union {"none"} : [c EXCEPT !.tool = x] \in Call  BY DEF Call
<1>3. \A x \in Positions \union {"none"} : [c EXCEPT !.at = x] \in Call  BY DEF Call
<1>4. \A x \in Handles \union {NoHandle} : [c EXCEPT !.h = x] \in Call  BY DEF Call
<1>5. \A x \in 0 .. 2 : [c EXCEPT !.tries = x] \in Call  BY DEF Call
<1>6. \A x \in Binding : [c EXCEPT !.own = x] \in Call  BY DEF Call
<1>7. \A x \in Binding : [c EXCEPT !.cur = x] \in Call  BY DEF Call
<1>8. \A x \in Registry : [c EXCEPT !.snap = x] \in Call  BY DEF Call
<1>9. \A x \in Registry : [c EXCEPT !.inner = x] \in Call  BY DEF Call
<1>10. \A x \in Observations : [c EXCEPT !.slots = x] \in Call  BY DEF Call
<1>11. \A x \in SUBSET Handles : [c EXCEPT !.todo = x] \in Call  BY DEF Call
<1>12. \A x \in SUBSET Panes : [c EXCEPT !.before = x] \in Call  BY DEF Call
<1>13. \A x \in SUBSET Panes : [c EXCEPT !.gone = x] \in Call  BY DEF Call
<1> QED  BY <1>1, <1>2, <1>3, <1>4, <1>5, <1>6, <1>7, <1>8, <1>9, <1>10, <1>11, <1>12, <1>13

\* The call of an idle worker is a well-formed call.
LEMMA IdleInCall == Idle \in Call
<1>1. EmptyRegistry \in Registry /\ NoBinding \in Binding
  BY DEF EmptyRegistry, Registry, NoBinding, Binding, Status
<1>2. EmptyObservations \in Observations
  BY DEF EmptyObservations, Observations, NoSlot, Slot
<1> QED  BY <1>1, <1>2 DEF Idle, Call, Labels

\* Arriving at a position changes nothing but the control fields.
LEMMA ArriveInCall ==
  ASSUME NEW c \in Call, NEW n \in Positions
  PROVE  /\ Arrive(c, n) \in Call
         /\ Arrive(c, n).at = n
         /\ Arrive(c, n).own = c.own
         /\ Arrive(c, n).snap = c.snap
         /\ Arrive(c, n).inner = c.inner
         /\ Arrive(c, n).h = c.h
         /\ Arrive(c, n).tool = c.tool
         /\ Arrive(c, n).todo = c.todo
<1>1. Entry(n) \in Labels
  BY DEF Entry, Positions, Labels, ReadAt, VerifyAt, EditAt, WriteAt, SlotEditAt, SlotWriteAt,
         ObserveAt, OperateAt, RefreshAt
<1>2. NoBinding \in Binding
  BY DEF NoBinding, Binding, Status
<1> DEFINE cur == IF n \in OperateAt THEN c.own ELSE NoBinding
<1>3. cur \in Binding
  BY <1>2 DEF Call
<1> HIDE DEF cur
<1>4. Arrive(c, n) = [c EXCEPT !.at = n, !.pc = Entry(n), !.tries = 0, !.cur = cur]
  BY DEF Arrive, cur
<1>5. 0 \in 0 .. 2
  OBVIOUS
<1>6. Arrive(c, n) \in Call
  <2>1. [c EXCEPT !.at = n] \in Call
    BY UpdateCall
  <2>2. [c EXCEPT !.at = n, !.pc = Entry(n)] \in Call
    BY <1>1, <2>1, UpdateCall
  <2>3. [c EXCEPT !.at = n, !.pc = Entry(n), !.tries = 0] \in Call
    BY <1>5, <2>2, UpdateCall
  <2> QED  BY <1>3, <1>4, <2>3, UpdateCall
<1> QED  BY <1>4, <1>6 DEF Call

\* A call that answers is a well-formed call with no copies left.
LEMMA FinishInCall ==
  ASSUME NEW c \in Call, NEW end \in Ends
  PROVE  /\ Finish(c, end) \in Call
         /\ Finish(c, end).pc = end
         /\ Finish(c, end).at = "none"
         /\ Finish(c, end).own = c.own
         /\ Finish(c, end).tool = c.tool
         /\ Finish(c, end).snap = EmptyRegistry
         /\ Finish(c, end).inner = EmptyRegistry
<1>1. EmptyRegistry \in Registry /\ NoBinding \in Binding
  BY DEF EmptyRegistry, Registry, NoBinding, Binding, Status
<1>2. EmptyObservations \in Observations
  BY DEF EmptyObservations, Observations, NoSlot, Slot
<1> DEFINE i == Idle
<1>3. /\ i \in Call /\ i.at = "none"
      /\ i.snap = EmptyRegistry /\ i.inner = EmptyRegistry
  BY IdleInCall DEF Idle
<1>4. Finish(c, end) = [i EXCEPT !.pc = end, !.tool = c.tool, !.h = c.h, !.own = c.own,
                                 !.gone = c.gone]
  BY DEF Finish
<1>5. end \in Labels
  BY DEF Ends, Labels
<1>6. c.tool \in AllTools \union {"none"} /\ c.h \in Handles \union {NoHandle}
      /\ c.own \in Binding /\ c.gone \in SUBSET Panes
  BY DEF Call
<1> HIDE DEF i
<1>7. Finish(c, end) \in Call
  <2>1. [i EXCEPT !.pc = end, !.tool = c.tool] \in Call
    BY <1>3, <1>5, <1>6, UpdateCall
  <2>2. [i EXCEPT !.pc = end, !.tool = c.tool, !.h = c.h] \in Call
    BY <1>6, <2>1, UpdateCall
  <2>3. [i EXCEPT !.pc = end, !.tool = c.tool, !.h = c.h, !.own = c.own] \in Call
    BY <1>6, <2>2, UpdateCall
  <2> QED  BY <1>4, <1>6, <2>3, UpdateCall
<1> QED  BY <1>3, <1>4, <1>7 DEF Call

\* After one position: the call answers, examines the next handle of a list, or
\* arrives at another position of its handler.
Onward(c, e, n, d) ==
  /\ <<c.at, e, n>> \in Flow(c.tool) /\ Permitted(c, n)
  /\ \/ n \in Ends /\ d = Finish(c, n)
     \/ n = "examine" /\ \E k \in c.todo : d = Examine(c, k)
     \/ n \in Positions \ {"examine"} /\ d = Arrive(c, n)

\* Every successor of a position goes onward by a row of its handler's table.
LEMMA AfterShape ==
  ASSUME NEW c, NEW e, NEW d \in After(c, e)
  PROVE  \E n \in Positions \union Ends : Onward(c, e, n, d)
<1> DEFINE N == {n \in Positions \union Ends :
                   <<c.at, e, n>> \in Flow(c.tool) /\ Permitted(c, n)}
           D(next) == IF next \in Ends THEN {Finish(c, next)}
                      ELSE IF next = "examine"
                           THEN {Examine(c, k) : k \in c.todo}
                      ELSE {Arrive(c, next)}
<1>1. After(c, e) = UNION {D(next) : next \in N}
  BY DEF After
<1>2. PICK n \in N : d \in D(n)
  BY <1>1
<1>3. n \in Positions \union Ends /\ <<c.at, e, n>> \in Flow(c.tool) /\ Permitted(c, n)
  OBVIOUS
<1>4. CASE n \in Ends
  <2>1. d = Finish(c, n)
    BY <1>2, <1>4
  <2> QED  BY <1>3, <1>4, <2>1 DEF Onward
<1>5. CASE n = "examine"
  <2>1. n \notin Ends
    BY <1>5 DEF Ends
  <2>2. d \in {Examine(c, k) : k \in c.todo}
    BY <1>2, <1>5, <2>1
  <2> QED  BY <1>3, <1>5, <2>2 DEF Onward
<1>6. CASE n \notin Ends \union {"examine"}
  <2>1. d = Arrive(c, n)
    BY <1>2, <1>6
  <2> QED  BY <1>3, <1>6, <2>1 DEF Onward
<1> QED  BY <1>4, <1>5, <1>6

\* A call that advances keeps the invariant, if what its position established
\* (the hypotheses on e) holds.
LEMMA AfterInv ==
  ASSUME NEW c, NEW e, NEW pn, NEW d \in After(c, e),
         Core(c, pn), Handled(c), c.pc \notin {"idle"} \union Ends,
         c.at \in VerifyAt /\ e = "none" => Over(c.own, pn),
         c.at = "enter" /\ e = "ok" => c.snap[c.h].pane = c.own.pane,
         c.at = "enter" /\ e = "closed" => Over(c.own, pn)
  PROVE  CallInv(d, pn)
<1>1. c \in Call
  BY DEF Core
<1>2. PICK n \in Positions \union Ends : Onward(c, e, n, d)
  BY AfterShape
<1> DEFINE a == c.at
           t == c.tool
<1>3. /\ n = "seal" => a \in VerifyAt /\ e = "none"
      /\ n = "sealSlot" => a = "seal"
      /\ n = "closing" => a = "enter" /\ e = "ok"
      /\ n \in Closing \ {"closing"} => a \in Closing
      /\ t = "close" /\ n = "return" => a = "sealSlot" \/ (a = "enter" /\ e = "closed")
      /\ t \in Listing => n \in {"examine", "return", "fail"}
      /\ t = "cleanup" => n \in {"pruneSlots", "return"}
  <2>1. <<a, e, n>> \in Flow(t)
    BY <1>2 DEF Onward
  <2> HIDE DEF a, t
  <2> QED  BY <2>1, FlowRows
<1>4. CASE n \in Ends /\ d = Finish(c, n)
  <2>1. /\ d \in Call /\ d.pc = n /\ d.at = "none" /\ d.own = c.own /\ d.tool = c.tool
        /\ d.snap = EmptyRegistry /\ d.inner = EmptyRegistry
    BY <1>1, <1>4, FinishInCall
  <2>2. Core(d, pn)
    BY <2>1, EmptyIsSound DEF Core, Closing
  <2>3. d.pc = "return" /\ d.tool = "close" => Over(d.own, pn)
    BY <1>3, <2>1 DEF Core
  <2> QED  BY <1>4, <2>1, <2>2, <2>3 DEF CallInv, Fits, Handled
<1>5. CASE n \in Positions \ {"examine"} /\ d = Arrive(c, n)
  <2>1. /\ d \in Call /\ d.own = c.own /\ d.at = n /\ d.snap = c.snap /\ d.inner = c.inner
        /\ d.h = c.h /\ d.tool = c.tool
    BY <1>1, <1>5, ArriveInCall
  <2>2. Fits(d) /\ d.pc \notin {"idle"} \union Ends
    BY <1>1, <1>5, EntryFits
  <2>3. c.h \in Handles \/ (c.tool \in Listing /\ n = "examine")
        \/ (c.tool = "cleanup" /\ n = "pruneSlots")
    BY <1>3, <1>5 DEF Handled, Positions, RefreshAt, OperateAt, ObserveAt, VerifyAt, ReadAt,
       EditAt, WriteAt, SlotEditAt, SlotWriteAt
  <2>4. Core(d, pn)
    BY <1>3, <2>1 DEF Core, Closing, VerifyAt
  <2>5. d.at = "seal" => d.snap[d.h].pane = d.own.pane
    BY <1>3, <2>1 DEF Core, Closing, VerifyAt
  <2>6. Handled(d)
    BY <1>5, <2>1, <2>3 DEF Handled
  <2> QED  BY <2>2, <2>4, <2>5, <2>6, <1>5 DEF CallInv, Ends
<1>6. ASSUME NEW k \in c.todo, n = "examine", d = Examine(c, k)
      PROVE  CallInv(d, pn)
  <2> DEFINE f == Arrive(c, n)
  <2>1. n \in Positions
    BY <1>6 DEF Positions, RefreshAt
  <2>2. f \in Call /\ f.at = n /\ f.own = c.own /\ f.snap = c.snap /\ f.inner = c.inner
        /\ f.todo = c.todo
    BY <1>1, <2>1, ArriveInCall
  <2>3. f.pc = "refresh"
    <3>1. Entry(n) = "refresh"
      BY <1>6 DEF Entry, RefreshAt, OperateAt, ObserveAt, VerifyAt, ReadAt, EditAt, WriteAt,
                  SlotEditAt, SlotWriteAt
    <3> QED  BY <1>1, <3>1 DEF Arrive, Call
  <2> HIDE DEF f
  <2>4. k \in Handles /\ f.todo \ {k} \in SUBSET Handles
    BY <1>1, <2>2 DEF Call
  <2>5. d = [f EXCEPT !.h = k, !.todo = f.todo \ {k}]
    BY <1>6, <2>2 DEF f, Examine, Call
  <2>6. /\ d \in Call /\ d.at = n /\ d.own = f.own /\ d.snap = f.snap /\ d.inner = f.inner
        /\ d.pc = f.pc /\ d.h = k
    <3>1. d \in Call
      BY <2>2, <2>4, <2>5, UpdateCall
    <3> QED  BY <2>2, <2>5, <3>1 DEF Call
  <2>7. Core(d, pn)
    BY <1>6, <2>2, <2>6 DEF Core, Closing
  <2>8. Fits(d)
    BY <1>6, <2>3, <2>6 DEF Fits, Refreshing, RefreshAt
  <2> QED  BY <1>6, <2>3, <2>4, <2>6, <2>7, <2>8 DEF CallInv, Handled
<1> QED  BY <1>2, <1>4, <1>5, <1>6 DEF Onward

----------------------------------------------------------------------------
(* Lemmas about the steps. *)

\* A call keeps Core if the fields Core speaks of stay as they are.
LEMMA SameCore ==
  ASSUME NEW c, NEW pn, Core(c, pn), NEW d \in Call,
         d.own = c.own, d.snap = c.snap, d.inner = c.inner, d.at = c.at, d.h = c.h
  PROVE  Core(d, pn)
  BY DEF Core

\* Core when one field is set.
LEMMA CoreUpdate ==
  ASSUME NEW c, NEW pn, Core(c, pn)
  PROVE  /\ \A x \in Labels : Core([c EXCEPT !.pc = x], pn)
         /\ \A x \in 0 .. 2 : Core([c EXCEPT !.tries = x], pn)
         /\ \A x \in Binding : Core([c EXCEPT !.cur = x], pn)
         /\ \A x \in Observations : Core([c EXCEPT !.slots = x], pn)
         /\ \A x \in SUBSET Handles : Core([c EXCEPT !.todo = x], pn)
         /\ \A x \in SUBSET Panes : Core([c EXCEPT !.before = x], pn)
         /\ \A x \in SUBSET Panes : Core([c EXCEPT !.gone = x], pn)
         /\ \A r : SoundRegistry(r, pn) => Core([c EXCEPT !.inner = r], pn)
         /\ c.at \notin Closing =>
              \A r : SoundRegistry(r, pn) => Core([c EXCEPT !.snap = r], pn)
         /\ c.at \notin Closing \union {"seal", "sealSlot"} =>
              \A b \in Binding : Sound(b, pn) => Core([c EXCEPT !.own = b], pn)
<1>1. c \in Call
  BY DEF Core
<1>2. ASSUME NEW x \in Labels  PROVE  Core([c EXCEPT !.pc = x], pn)
  <2> DEFINE d == [c EXCEPT !.pc = x]
  <2>1. d \in Call
    BY <1>1, UpdateCall
  <2>2. d.own = c.own /\ d.snap = c.snap /\ d.inner = c.inner /\ d.at = c.at /\ d.h = c.h
    BY <1>1 DEF Call
  <2> HIDE DEF d
  <2>3. Core(d, pn)
    BY <2>1, <2>2, SameCore
  <2> QED  BY <2>3 DEF d
<1>3. ASSUME NEW x \in 0 .. 2  PROVE  Core([c EXCEPT !.tries = x], pn)
  <2> DEFINE d == [c EXCEPT !.tries = x]
  <2>1. d \in Call
    BY <1>1, UpdateCall
  <2>2. d.own = c.own /\ d.snap = c.snap /\ d.inner = c.inner /\ d.at = c.at /\ d.h = c.h
    BY <1>1 DEF Call
  <2> HIDE DEF d
  <2>3. Core(d, pn)
    BY <2>1, <2>2, SameCore
  <2> QED  BY <2>3 DEF d
<1>4. ASSUME NEW x \in Binding  PROVE  Core([c EXCEPT !.cur = x], pn)
  <2> DEFINE d == [c EXCEPT !.cur = x]
  <2>1. d \in Call
    BY <1>1, UpdateCall
  <2>2. d.own = c.own /\ d.snap = c.snap /\ d.inner = c.inner /\ d.at = c.at /\ d.h = c.h
    BY <1>1 DEF Call
  <2> HIDE DEF d
  <2>3. Core(d, pn)
    BY <2>1, <2>2, SameCore
  <2> QED  BY <2>3 DEF d
<1>5. ASSUME NEW x \in Observations  PROVE  Core([c EXCEPT !.slots = x], pn)
  <2> DEFINE d == [c EXCEPT !.slots = x]
  <2>1. d \in Call
    BY <1>1, UpdateCall
  <2>2. d.own = c.own /\ d.snap = c.snap /\ d.inner = c.inner /\ d.at = c.at /\ d.h = c.h
    BY <1>1 DEF Call
  <2> HIDE DEF d
  <2>3. Core(d, pn)
    BY <2>1, <2>2, SameCore
  <2> QED  BY <2>3 DEF d
<1>6. ASSUME NEW x \in SUBSET Handles  PROVE  Core([c EXCEPT !.todo = x], pn)
  <2> DEFINE d == [c EXCEPT !.todo = x]
  <2>1. d \in Call
    BY <1>1, UpdateCall
  <2>2. d.own = c.own /\ d.snap = c.snap /\ d.inner = c.inner /\ d.at = c.at /\ d.h = c.h
    BY <1>1 DEF Call
  <2> HIDE DEF d
  <2>3. Core(d, pn)
    BY <2>1, <2>2, SameCore
  <2> QED  BY <2>3 DEF d
<1>7. ASSUME NEW x \in SUBSET Panes  PROVE  Core([c EXCEPT !.before = x], pn)
  <2> DEFINE d == [c EXCEPT !.before = x]
  <2>1. d \in Call
    BY <1>1, UpdateCall
  <2>2. d.own = c.own /\ d.snap = c.snap /\ d.inner = c.inner /\ d.at = c.at /\ d.h = c.h
    BY <1>1 DEF Call
  <2> HIDE DEF d
  <2>3. Core(d, pn)
    BY <2>1, <2>2, SameCore
  <2> QED  BY <2>3 DEF d
<1>8. ASSUME NEW x \in SUBSET Panes  PROVE  Core([c EXCEPT !.gone = x], pn)
  <2> DEFINE d == [c EXCEPT !.gone = x]
  <2>1. d \in Call
    BY <1>1, UpdateCall
  <2>2. d.own = c.own /\ d.snap = c.snap /\ d.inner = c.inner /\ d.at = c.at /\ d.h = c.h
    BY <1>1 DEF Call
  <2> HIDE DEF d
  <2>3. Core(d, pn)
    BY <2>1, <2>2, SameCore
  <2> QED  BY <2>3 DEF d
<1>9. ASSUME NEW r, SoundRegistry(r, pn)
      PROVE  /\ Core([c EXCEPT !.inner = r], pn)
             /\ c.at \notin Closing => Core([c EXCEPT !.snap = r], pn)
  <2> DEFINE d == [c EXCEPT !.inner = r]
             f == [c EXCEPT !.snap = r]
  <2>1. r \in Registry
    BY <1>9 DEF SoundRegistry
  <2>2. d \in Call /\ f \in Call
    BY <1>1, <2>1, UpdateCall
  <2>3. d.own = c.own /\ d.snap = c.snap /\ d.inner = r /\ d.at = c.at /\ d.h = c.h
    BY <1>1 DEF Call
  <2>4. f.own = c.own /\ f.snap = r /\ f.inner = c.inner /\ f.at = c.at /\ f.h = c.h
    BY <1>1 DEF Call
  <2> HIDE DEF d, f
  <2>5. Core(d, pn)
    BY <1>9, <2>2, <2>3 DEF Core
  <2>6. c.at \notin Closing => Core(f, pn)
    BY <1>9, <2>2, <2>4 DEF Core
  <2> QED  BY <2>5, <2>6 DEF d, f
<1>10. ASSUME NEW b \in Binding, Sound(b, pn), c.at \notin Closing \union {"seal", "sealSlot"}
       PROVE  Core([c EXCEPT !.own = b], pn)
  <2> DEFINE d == [c EXCEPT !.own = b]
  <2>1. d \in Call
    BY <1>1, UpdateCall
  <2>2. d.own = b /\ d.snap = c.snap /\ d.inner = c.inner /\ d.at = c.at /\ d.h = c.h
    BY <1>1 DEF Call
  <2> HIDE DEF d
  <2>3. Core(d, pn)
    BY <1>10, <2>1, <2>2 DEF Core
  <2> QED  BY <2>3 DEF d
<1> QED  BY <1>2, <1>3, <1>4, <1>5, <1>6, <1>7, <1>8, <1>9, <1>10

\* What is said of panes stays true as panes move forward.
LEMMA ForwardKeeps ==
  ASSUME NEW pn, NEW qn, Forward(pn, qn)
  PROVE  /\ \A b \in Binding : Sound(b, pn) => Sound(b, qn)
         /\ \A b \in Binding : Over(b, pn) => Over(b, qn)
         /\ \A r : SoundRegistry(r, pn) => SoundRegistry(r, qn)
         /\ \A c : Core(c, pn) => Core(c, qn)
         /\ \A c : CallInv(c, pn) => CallInv(c, qn)
<1>1. \A b \in Binding : Sound(b, pn) => Sound(b, qn)
  BY DEF Forward, Sound, Binding
<1>2. \A b \in Binding : Over(b, pn) => Over(b, qn)
  BY DEF Forward, Over, Binding
<1>3. \A r : SoundRegistry(r, pn) => SoundRegistry(r, qn)
  BY <1>1 DEF SoundRegistry, Registry
<1>4. \A c \in Call : c.own \in Binding
  BY DEF Call
<1>5. \A c : Core(c, pn) => Core(c, qn)
  BY <1>1, <1>2, <1>3, <1>4 DEF Core
<1>6. \A c : CallInv(c, pn) => CallInv(c, qn)
  BY <1>2, <1>4, <1>5 DEF CallInv, Core
<1> QED  BY <1>1, <1>2, <1>3, <1>5, <1>6

\* What a step leaves behind apart from the call.
Kept ==
  /\ SoundRegistry(registry', pane')
  /\ observations' \in Observations
  /\ pane' \in [Panes -> PaneState]
  /\ Forward(pane, pane')
  /\ life' \in [Handles -> Life]

\* The invariant survives a step that leaves sound files and moves one call to a
\* call that satisfies it.
LEMMA LocalStep ==
  ASSUME IInv, Kept, NEW w \in Workers, NEW d, Local(w, d), CallInv(d, pane')
  PROVE  IInv'
<1>1. call \in [Workers -> Call] /\ d \in Call /\ call' = [call EXCEPT ![w] = d]
  BY DEF IInv, TypeOK, CallInv, Core, Local
<1>2. TypeOK'
  BY <1>1 DEF TypeOK, Kept, SoundRegistry
<1>3. ASSUME NEW v \in Workers
      PROVE  CallInv(call'[v], pane')
  <2>1. CASE v = w
    BY <1>1, <2>1
  <2>2. CASE v # w
    <3>1. call'[v] = call[v] /\ CallInv(call[v], pane)
      BY <1>1, <2>2 DEF IInv
    <3>2. Forward(pane, pane')
      BY DEF Kept
    <3> QED  BY <3>1, <3>2, ForwardKeeps
  <2> QED  BY <2>1, <2>2
<1> QED  BY <1>2, <1>3 DEF IInv, Kept

\* The invariant survives a step that ends a position of one call.
LEMMA AdvanceStep ==
  ASSUME IInv, Kept, NEW w \in Workers, NEW c, NEW e, Advance(w, c, e),
         Core(c, pane'), Handled(c), c.pc \notin {"idle"} \union Ends,
         c.at \in VerifyAt /\ e = "none" => Over(c.own, pane'),
         c.at = "enter" /\ e = "ok" => c.snap[c.h].pane = c.own.pane,
         c.at = "enter" /\ e = "closed" => Over(c.own, pane')
  PROVE  IInv'
<1>1. PICK d \in After(c, e) : Local(w, d)
  BY DEF Advance
<1>2. CallInv(d, pane')
  BY AfterInv
<1> QED  BY <1>1, <1>2, LocalStep

\* A step that leaves the files and the panes alone.
LEMMA KeptSame ==
  ASSUME IInv, UNCHANGED <<registry, observations, pane, life>>
  PROVE  Kept
<1>1. Forward(pane, pane)
  BY DEF Forward
<1> QED  BY <1>1 DEF IInv, TypeOK, Kept

\* Where a call with a given label is, and that it serves a handle there.
LEMMA Placed ==
  ASSUME NEW c, NEW pn, CallInv(c, pn)
  PROVE  /\ c.pc \in Refreshing => c.at \in OperateAt \union RefreshAt /\ c.h \in Handles
         /\ c.pc = "operate" => c.at \in OperateAt /\ c.h \in Handles
         /\ c.pc \in Marking => c.at \in OperateAt \union ObserveAt /\ c.h \in Handles
         /\ c.pc = "observe" => c.at \in ObserveAt /\ c.h \in Handles
         /\ c.pc = "verify" => c.at \in VerifyAt /\ c.h \in Handles
         /\ c.pc = "shellExit" => c.at = "shellExit" /\ c.h \in Handles
         /\ c.pc = "load" => c.at \in EditAt /\ (c.tool # "cleanup" => c.h \in Handles)
         /\ c.pc = "store" => /\ c.at \in EditAt \union WriteAt
                              /\ c.at # "prune" => c.h \in Handles
         /\ c.pc = "read" => c.at \in ReadAt /\ (c.at = "enter" => c.h \in Handles)
         /\ c.pc \in {"slotLoad", "slotStore"} =>
              /\ c.at \in SlotEditAt \union SlotWriteAt
              /\ c.at # "pruneSlots" => c.h \in Handles
         /\ c.pc = "slotRead" => c.at = "hold" /\ c.h \in Handles
<1>1. Fits(c) /\ Handled(c)
  BY DEF CallInv
<1> DEFINE a == c.at
           p == c.pc
<1>2. /\ p \in Refreshing => a \in OperateAt \union RefreshAt
      /\ p = "operate" => a \in OperateAt
      /\ p \in Marking => a \in OperateAt \union ObserveAt
      /\ p = "observe" => a \in ObserveAt
      /\ p = "verify" => a \in VerifyAt
      /\ p = "shellExit" => a = "shellExit"
      /\ p = "load" => a \in EditAt
      /\ p = "store" => a \in EditAt \union WriteAt
      /\ p = "read" => a \in ReadAt
      /\ p \in {"slotLoad", "slotStore"} => a \in SlotEditAt \union SlotWriteAt
      /\ p = "slotRead" => a = "hold"
  BY <1>1 DEF Fits, Refreshing, Marking, Ends
<1>3. p \notin {"idle"} \union Ends =>
        \/ c.h \in Handles
        \/ c.tool \in Listing /\ a = "scan"
        \/ c.tool = "cleanup" /\ a \in {"prune", "pruneSlots"}
  BY <1>1 DEF Handled
<1> HIDE DEF a, p
<1>4. p \in Refreshing \union Marking \union {"operate", "observe", "verify", "shellExit",
              "load", "store", "read", "slotLoad", "slotStore", "slotRead"} =>
        p \notin {"idle"} \union Ends
  BY DEF Refreshing, Marking, Ends
<1>5. a \in OperateAt \union RefreshAt \union ObserveAt \union VerifyAt \union {"shellExit", "hold"} =>
        a \notin {"scan", "prune", "pruneSlots"}
  BY DEF OperateAt, RefreshAt, ObserveAt, VerifyAt
<1>6. /\ a \in EditAt \union WriteAt => a \notin {"scan", "pruneSlots"}
      /\ a \in SlotEditAt \union SlotWriteAt => a \notin {"scan", "prune"}
      /\ a = "enter" => a \notin {"scan", "prune", "pruneSlots"}
  BY DEF EditAt, WriteAt, SlotEditAt, SlotWriteAt
<1> QED  BY <1>2, <1>3, <1>4, <1>5, <1>6 DEF a, p

\* The positions of the adapter steps are not those of the reads and writes.
LEMMA Apart ==
  ASSUME NEW a
  PROVE  /\ a \in OperateAt \union RefreshAt \union ObserveAt \union {"shellExit", "hold"} =>
              a \notin VerifyAt \union {"enter", "seal", "sealSlot"}
         /\ a \in VerifyAt => a \notin {"enter", "seal", "sealSlot"}
         /\ a \in RefreshAt => a \notin Closing \union OperateAt
         /\ a \in SlotEditAt \union SlotWriteAt \union ReadAt \union EditAt \union WriteAt =>
              a \notin Closing \union VerifyAt
  BY DEF OperateAt, RefreshAt, ObserveAt, VerifyAt, ReadAt, EditAt, WriteAt, SlotEditAt,
         SlotWriteAt, Closing

\* A call that changes its label within one position.
LEMMA RelabelStep ==
  ASSUME IInv, Kept, NEW w \in Workers, NEW d, Local(w, d), Core(d, pane'), Fits(d),
         d.h \in Handles, d.pc # "return", d.at # "seal"
  PROVE  IInv'
<1>1. CallInv(d, pane')
  BY DEF CallInv, Handled
<1> QED  BY <1>1, LocalStep

\* The calls of a state, seen from the next.
LEMMA CallNow ==
  ASSUME IInv, Forward(pane, pane'), NEW w \in Workers
  PROVE  /\ CallInv(call[w], pane) /\ CallInv(call[w], pane')
         /\ Core(call[w], pane) /\ Core(call[w], pane')
         /\ call[w] \in Call /\ Handled(call[w])
<1>1. CallInv(call[w], pane)
  BY DEF IInv
<1>2. CallInv(call[w], pane')
  BY <1>1, ForwardKeeps
<1> QED  BY <1>1, <1>2 DEF CallInv, Core

\* refresh_binding_target returns a sound binding.
LEMMA RefreshedStep ==
  ASSUME IInv, Kept, NEW w \in Workers, call[w].pc \in Refreshing,
         NEW b \in Binding, Sound(b, pane'), Refreshed(w, call[w], b)
  PROVE  IInv'
<1> DEFINE c == call[w]
           d == [c EXCEPT !.inner = EmptyRegistry, !.before = {}]
<1>1. CallInv(c, pane') /\ Core(c, pane') /\ c \in Call /\ Handled(c)
  BY CallNow DEF Kept
<1>2. c.at \in OperateAt \union RefreshAt /\ c.h \in Handles
  BY <1>1, Placed
<1>3. c.pc \notin {"idle"} \union Ends /\ c.pc # "return"
  BY DEF Refreshing, Ends
<1>4. Core(d, pane')
  <2>1. Core([c EXCEPT !.inner = EmptyRegistry], pane')
    BY <1>1, EmptyIsSound, CoreUpdate
  <2> QED  BY <2>1, CoreUpdate
<1>5. /\ d.pc = c.pc /\ d.at = c.at /\ d.h = c.h /\ d.tool = c.tool /\ d.own = c.own
      /\ d.snap = c.snap
  BY <1>1 DEF Call
<1>6. Refreshed(w, c, b) <=>
        IF Retrying(c)
          THEN IF IsActive(b)
                 THEN Local(w, RetryWith([d EXCEPT !.cur = b]))
                 ELSE Advance(w, d, "stale")
          ELSE Advance(w, [d EXCEPT !.own = b],
                       IF c.at = "first" /\ ~IsActive(b) THEN "inactive" ELSE "ok")
  BY DEF Refreshed
<1> HIDE DEF c, d
<1>7. CASE Retrying(c) /\ IsActive(b)
  <2> DEFINE e == [d EXCEPT !.cur = b]
             f == [e EXCEPT !.tries = @ + 1, !.pc = "operate"]
             g == [e EXCEPT !.pc = "markLoad"]
  <2>1. Core(e, pane')
    BY <1>4, CoreUpdate
  <2>2. e \in Call /\ d \in Call
    BY <1>4, <2>1 DEF Core
  <2>3. e.at = c.at /\ e.h = c.h
    BY <1>5, <2>2 DEF Call
  <2>4. RetryWith(e) = IF e.tries < 2 THEN f ELSE g
    BY DEF RetryWith
  <2> HIDE DEF e
  <2>5. c.at \in OperateAt
    BY <1>7 DEF Retrying
  <2>6. CASE e.tries < 2
    <3>1. e.tries + 1 \in 0 .. 2
      BY <2>2, <2>6 DEF Call
    <3>2. Core([e EXCEPT !.tries = e.tries + 1], pane')
      BY <2>1, <3>1, CoreUpdate
    <3>3. Core(f, pane')
      BY <3>2, CoreUpdate DEF Labels
    <3>4. f.at = c.at /\ f.h = c.h /\ f.pc = "operate"
      BY <2>2, <2>3 DEF Call
    <3>5. Local(w, f)
      BY <1>6, <1>7, <2>4, <2>6 DEF e, c
    <3> HIDE DEF f
    <3>6. Fits(f)
      BY <2>5, <3>4 DEF Fits
    <3> QED  BY <1>2, <2>5, <3>3, <3>4, <3>5, <3>6, RelabelStep, Apart
  <2>7. CASE ~(e.tries < 2)
    <3>1. Core(g, pane')
      BY <2>1, CoreUpdate DEF Labels
    <3>2. g.at = c.at /\ g.h = c.h /\ g.pc = "markLoad"
      BY <2>2, <2>3 DEF Call
    <3>3. Local(w, g)
      BY <1>6, <1>7, <2>4, <2>7 DEF e, c
    <3> HIDE DEF g
    <3>4. Fits(g)
      BY <2>5, <3>2 DEF Fits, Marking
    <3> QED  BY <1>2, <2>5, <3>1, <3>2, <3>3, <3>4, RelabelStep, Apart
  <2> QED  BY <2>6, <2>7
<1>8. CASE Retrying(c) /\ ~IsActive(b)
  <2>1. Advance(w, d, "stale")
    BY <1>6, <1>8 DEF c
  <2>2. Handled(d) /\ d.pc \notin {"idle"} \union Ends
    BY <1>1, <1>3, <1>5 DEF Handled, c
  <2>3. d.at \notin VerifyAt \union {"enter"}
    BY <1>2, <1>5, Apart
  <2> QED  BY <1>4, <2>1, <2>2, <2>3, AdvanceStep
<1>9. CASE ~Retrying(c)
  <2> DEFINE e == [d EXCEPT !.own = b]
             event == IF c.at = "first" /\ ~IsActive(b) THEN "inactive" ELSE "ok"
  <2>1. Advance(w, e, event)
    BY <1>6, <1>9 DEF c
  <2>2. c.at \in RefreshAt
    BY <1>2, <1>9 DEF Retrying
  <2>3. d.at \notin Closing \union {"seal", "sealSlot"}
    BY <1>5, <2>2, Apart
  <2>4. Core(e, pane')
    BY <1>4, <2>3, CoreUpdate
  <2>5. e.pc = c.pc /\ e.at = c.at /\ e.h = c.h /\ e.tool = c.tool
    BY <1>4, <1>5 DEF Core, Call
  <2> HIDE DEF e, event
  <2>6. Handled(e) /\ e.pc \notin {"idle"} \union Ends
    BY <1>1, <1>3, <2>5 DEF Handled, c
  <2>7. e.at \notin VerifyAt \union {"enter"}
    BY <2>2, <2>5, Apart
  <2> QED  BY <2>1, <2>4, <2>6, <2>7, AdvanceStep
<1> QED  BY <1>7, <1>8, <1>9

\* refresh_binding_target returns an error: the handler goes on without it.
LEMMA RefreshFailedStep ==
  ASSUME IInv, Kept, NEW w \in Workers, call[w].pc \in Refreshing, RefreshFailed(w, call[w])
  PROVE  IInv'
<1> DEFINE c == call[w]
           d == [c EXCEPT !.inner = EmptyRegistry, !.before = {}]
<1>1. CallInv(c, pane') /\ Core(c, pane') /\ c \in Call /\ Handled(c)
  BY CallNow DEF Kept
<1>2. c.at \in OperateAt \union RefreshAt
  BY <1>1, Placed
<1>3. Core(d, pane')
  <2>1. Core([c EXCEPT !.inner = EmptyRegistry], pane')
    BY <1>1, EmptyIsSound, CoreUpdate
  <2> QED  BY <2>1, CoreUpdate
<1>4. d.pc = c.pc /\ d.at = c.at /\ d.h = c.h /\ d.tool = c.tool
  BY <1>1 DEF Call
<1>5. \E e \in {"ok", "error", "timeout"} : Advance(w, d, e)
  BY DEF RefreshFailed
<1>6. c.pc \notin {"idle"} \union Ends
  BY DEF Refreshing, Ends
<1> HIDE DEF c, d
<1>7. Handled(d) /\ d.pc \notin {"idle"} \union Ends
  BY <1>1, <1>4, <1>6 DEF Handled
<1>8. d.at \notin VerifyAt \union {"enter"}
  BY <1>2, <1>4, Apart
<1> QED  BY <1>3, <1>5, <1>7, <1>8, AdvanceStep

\* A sound registry with one entry edited.
LEMMA SoundEdit ==
  ASSUME NEW r, NEW pn, SoundRegistry(r, pn), NEW h \in Handles
  PROVE  /\ \A s \in Status : s # "closed" \/ Over(r[h], pn) =>
              SoundRegistry([r EXCEPT ![h].status = s], pn)
         /\ \A b \in Binding : Sound(b, pn) => SoundRegistry([r EXCEPT ![h] = b], pn)
         /\ r[h] \in Binding /\ Sound(r[h], pn)
<1>1. r \in Registry /\ r[h] \in Binding /\ Sound(r[h], pn)
  BY DEF SoundRegistry, Registry
<1>2. ASSUME NEW b \in Binding, Sound(b, pn)
      PROVE  SoundRegistry([r EXCEPT ![h] = b], pn)
  BY <1>1, <1>2 DEF SoundRegistry, Registry
<1>3. ASSUME NEW s \in Status, s # "closed" \/ Over(r[h], pn)
      PROVE  SoundRegistry([r EXCEPT ![h].status = s], pn)
  <2> DEFINE b == [r[h] EXCEPT !.status = s]
  <2>1. b \in Binding /\ b.pane = r[h].pane /\ b.status = s
    BY <1>1 DEF Binding
  <2> HIDE DEF b
  <2>2. Sound(b, pn)
    BY <1>1, <1>3, <2>1 DEF Sound, Over
  <2>3. SoundRegistry([r EXCEPT ![h] = b], pn)
    BY <1>2, <2>1, <2>2
  <2> QED  BY <2>3 DEF b
<1> QED  BY <1>1, <1>2, <1>3

\* Within a refresh, the call takes a sound copy of the registry and goes on.
LEMMA InnerStep ==
  ASSUME IInv, Kept, NEW w \in Workers, call[w].pc \in Refreshing,
         NEW r, SoundRegistry(r, pane'), NEW p \in Refreshing,
         Local(w, [call[w] EXCEPT !.pc = p, !.inner = r])
  PROVE  IInv'
<1> DEFINE c == call[w]
           d == [c EXCEPT !.pc = p, !.inner = r]
<1>1. CallInv(c, pane') /\ Core(c, pane') /\ c \in Call /\ Handled(c)
  BY CallNow DEF Kept
<1>2. c.at \in OperateAt \union RefreshAt /\ c.h \in Handles
  BY <1>1, Placed
<1>3. p \in Labels /\ p # "return"
  BY DEF Refreshing, Labels
<1>4. Core(d, pane')
  <2>1. Core([c EXCEPT !.pc = p], pane')
    BY <1>1, <1>3, CoreUpdate
  <2> QED  BY <2>1, CoreUpdate
<1>5. d.pc = p /\ d.at = c.at /\ d.h = c.h
  BY <1>1 DEF Call
<1> HIDE DEF c, d
<1>6. Fits(d)
  BY <1>2, <1>5 DEF Fits
<1>7. d.at # "seal"
  BY <1>2, <1>5, Apart
<1> QED  BY <1>2, <1>3, <1>4, <1>5, <1>6, <1>7, RelabelStep DEF c, d

\* The read of refresh_binding_target keeps the invariant.
LEMMA RefreshKeeps == ASSUME IInv, NEW w \in Workers, Refresh(w)  PROVE IInv'
<1> DEFINE c == call[w]
           b == registry[c.h]
<1>1. Kept /\ UNCHANGED <<registry, pane>>
  BY KeptSame DEF Refresh
<1>2. c.pc = "refresh" /\ c.pc \in Refreshing
  BY DEF Refresh, Refreshing
<1>3. CallInv(c, pane) /\ Core(c, pane') /\ c.h \in Handles
  <2>1. CallInv(c, pane) /\ Core(c, pane')
    BY <1>1, CallNow DEF Kept
  <2> QED  BY <1>2, <2>1, Placed
<1>4. SoundRegistry(registry, pane') /\ b \in Binding /\ Sound(b, pane')
  BY <1>1, <1>3, SoundEdit DEF Kept
<1>5. \/ RefreshFailed(w, c)
      \/ Refreshed(w, c, b)
      \/ Local(w, [c EXCEPT !.pc = "reconcile"])
      \/ Local(w, [c EXCEPT !.pc = "resolve", !.inner = registry])
  BY DEF Refresh
<1> HIDE DEF b
<1>6. CASE RefreshFailed(w, c)
  BY <1>1, <1>2, <1>6, RefreshFailedStep
<1>7. CASE Refreshed(w, c, b)
  BY <1>1, <1>2, <1>4, <1>7, RefreshedStep
<1>8. CASE Local(w, [c EXCEPT !.pc = "reconcile"])
  <2>1. SoundRegistry(c.inner, pane') /\ c \in Call
    BY <1>3 DEF Core
  <2>2. [c EXCEPT !.pc = "reconcile"] = [c EXCEPT !.pc = "reconcile", !.inner = c.inner]
    BY <2>1 DEF Call
  <2>3. Local(w, [c EXCEPT !.pc = "reconcile", !.inner = c.inner])
    BY <1>8, <2>2
  <2> QED  BY <1>1, <1>2, <2>1, <2>3, InnerStep DEF Refreshing
<1>9. CASE Local(w, [c EXCEPT !.pc = "resolve", !.inner = registry])
  BY <1>1, <1>2, <1>4, <1>9, InnerStep DEF Refreshing
<1> QED  BY <1>5, <1>6, <1>7, <1>8, <1>9

\* The search for a bound pane keeps the invariant: it sets only ready or stale.
LEMMA ResolveKeeps == ASSUME IInv, NEW w \in Workers, Resolve(w)  PROVE IInv'
<1> DEFINE c == call[w]
           R(status) == [c.inner EXCEPT ![c.h].status = status]
<1>1. Kept /\ UNCHANGED <<registry, pane>>
  BY KeptSame DEF Resolve
<1>2. c.pc = "resolve" /\ c.pc \in Refreshing
  BY DEF Resolve, Refreshing
<1>3. CallInv(c, pane) /\ Core(c, pane') /\ c.h \in Handles /\ c \in Call
  <2>1. CallInv(c, pane) /\ Core(c, pane') /\ c \in Call
    BY <1>1, CallNow DEF Kept
  <2> QED  BY <1>2, <2>1, Placed
<1>4. SoundRegistry(R("ready"), pane') /\ SoundRegistry(R("stale"), pane')
  <2>1. SoundRegistry(c.inner, pane')
    BY <1>3 DEF Core
  <2> QED  BY <1>3, <2>1, SoundEdit DEF Status
<1>5. \/ \E s \in {"ready", "stale"} : Local(w, [c EXCEPT !.pc = "refreshStore", !.inner = R(s)])
      \/ RefreshFailed(w, c)
  BY <1>3 DEF Resolve, Call
<1>6. CASE RefreshFailed(w, c)
  BY <1>1, <1>2, <1>6, RefreshFailedStep
<1>7. ASSUME NEW s \in {"ready", "stale"},
             Local(w, [c EXCEPT !.pc = "refreshStore", !.inner = R(s)])
      PROVE  IInv'
  <2> DEFINE r == R(s)
  <2>1. SoundRegistry(r, pane')
    BY <1>4
  <2>2. Local(w, [c EXCEPT !.pc = "refreshStore", !.inner = r])
    BY <1>7
  <2> HIDE DEF r
  <2> QED  BY <1>1, <1>2, <2>1, <2>2, InnerStep DEF Refreshing
<1> QED  BY <1>5, <1>6, <1>7

\* The write of a refresh keeps the invariant: the copy it writes is sound still.
LEMMA RefreshStoreKeeps == ASSUME IInv, NEW w \in Workers, RefreshStore(w)  PROVE IInv'
<1> DEFINE c == call[w]
<1>1. c.pc = "refreshStore" /\ c.pc \in Refreshing /\ registry' = c.inner
      /\ Refreshed(w, c, c.inner[c.h]) /\ UNCHANGED <<observations, pane, life>>
  BY DEF RefreshStore, Refreshing
<1>2. Forward(pane, pane')
  BY <1>1 DEF Forward
<1>3. CallInv(c, pane) /\ Core(c, pane') /\ c.h \in Handles
  <2>1. CallInv(c, pane) /\ Core(c, pane')
    BY <1>2, CallNow
  <2> QED  BY <1>1, <2>1, Placed
<1>4. SoundRegistry(c.inner, pane') /\ c.inner[c.h] \in Binding /\ Sound(c.inner[c.h], pane')
  <2>1. SoundRegistry(c.inner, pane')
    BY <1>3 DEF Core
  <2> QED  BY <1>3, <2>1, SoundEdit
<1>5. Kept
  BY <1>1, <1>2, <1>4 DEF Kept, IInv, TypeOK
<1> DEFINE b == c.inner[c.h]
<1>6. Refreshed(w, c, b) /\ b \in Binding /\ Sound(b, pane')
  BY <1>1, <1>4
<1> HIDE DEF b
<1> QED  BY <1>1, <1>5, <1>6, RefreshedStep

\* The reads of a reconcile round keep the invariant.
LEMMA ReconcileKeeps == ASSUME IInv, NEW w \in Workers, Reconcile(w)  PROVE IInv'
<1> DEFINE c == call[w]
           b == registry[c.h]
           hints == observations[c.h].before
           d == [c EXCEPT !.pc = "reconcileList", !.inner = registry, !.before = hints]
<1>1. Kept /\ UNCHANGED <<registry, pane>>
  BY KeptSame DEF Reconcile
<1>2. c.pc = "reconcile" /\ c.pc \in Refreshing
  BY DEF Reconcile, Refreshing
<1>3. CallInv(c, pane) /\ Core(c, pane') /\ c.h \in Handles /\ c.at \in OperateAt \union RefreshAt
      /\ c \in Call
  <2>1. CallInv(c, pane) /\ Core(c, pane') /\ c \in Call
    BY <1>1, CallNow DEF Kept
  <2> QED  BY <1>2, <2>1, Placed
<1>4. SoundRegistry(registry, pane') /\ b \in Binding /\ Sound(b, pane')
  BY <1>1, <1>3, SoundEdit DEF Kept
<1>5. hints \in SUBSET Panes
  BY <1>3 DEF IInv, TypeOK, Observations, Slot
<1>6. RefreshFailed(w, c) \/ Refreshed(w, c, b) \/ Local(w, d)
  BY DEF Reconcile
<1> HIDE DEF b, hints
<1>7. CASE RefreshFailed(w, c)
  BY <1>1, <1>2, <1>7, RefreshFailedStep
<1>8. CASE Refreshed(w, c, b)
  BY <1>1, <1>2, <1>4, <1>8, RefreshedStep
<1>9. CASE Local(w, d)
  <2>1. Core(d, pane')
    <3>1. Core([c EXCEPT !.pc = "reconcileList"], pane')
      BY <1>3, CoreUpdate DEF Labels
    <3>2. Core([c EXCEPT !.pc = "reconcileList", !.inner = registry], pane')
      BY <1>4, <3>1, CoreUpdate
    <3> QED  BY <1>5, <3>2, CoreUpdate
  <2>2. d.pc = "reconcileList" /\ d.at = c.at /\ d.h = c.h
    BY <1>3 DEF Call
  <2> HIDE DEF d
  <2>3. Fits(d) /\ d.at # "seal"
    BY <1>3, <2>2, Apart DEF Fits, Refreshing
  <2> QED  BY <1>1, <1>3, <1>9, <2>1, <2>2, <2>3, RelabelStep
<1> QED  BY <1>6, <1>7, <1>8, <1>9

\* Binding an unresolved spawn keeps the invariant: the pane it takes is alive.
LEMMA ReconcileListKeeps == ASSUME IInv, NEW w \in Workers, ReconcileList(w)  PROVE IInv'
<1> DEFINE c == call[w]
           b == c.inner[c.h]
           Bound(p) == [b EXCEPT !.pane = p, !.status = "ready"]
           R(p) == [c.inner EXCEPT ![c.h] = Bound(p)]
<1>1. Kept /\ UNCHANGED <<registry, pane>>
  BY KeptSame DEF ReconcileList
<1>2. c.pc = "reconcileList" /\ c.pc \in Refreshing
  BY DEF ReconcileList, Refreshing
<1>3. CallInv(c, pane) /\ Core(c, pane') /\ c.h \in Handles /\ c \in Call
  <2>1. CallInv(c, pane) /\ Core(c, pane') /\ c \in Call
    BY <1>1, CallNow DEF Kept
  <2> QED  BY <1>2, <2>1, Placed
<1>4. SoundRegistry(c.inner, pane') /\ b \in Binding /\ Sound(b, pane') /\ c.inner \in Registry
  <2>1. SoundRegistry(c.inner, pane')
    BY <1>3 DEF Core
  <2> QED  BY <1>3, <2>1, SoundEdit DEF SoundRegistry
<1>5. \/ \E p \in AlivePanes : Local(w, [c EXCEPT !.pc = "refreshStore", !.inner = R(p)])
      \/ Refreshed(w, c, b)
      \/ RefreshFailed(w, c)
  BY <1>3, <1>4 DEF ReconcileList, Call, Registry
<1>6. CASE RefreshFailed(w, c)
  BY <1>1, <1>2, <1>6, RefreshFailedStep
<1>7. CASE Refreshed(w, c, b)
  <2> HIDE DEF b
  <2> QED  BY <1>1, <1>2, <1>4, <1>7, RefreshedStep
<1>8. ASSUME NEW p \in AlivePanes,
             Local(w, [c EXCEPT !.pc = "refreshStore", !.inner = R(p)])
      PROVE  IInv'
  <2> DEFINE r == R(p)
             new == Bound(p)
  <2>1. new \in Binding /\ new.pane = p /\ new.status = "ready"
    BY <1>4 DEF Binding, Status, AlivePanes
  <2>2. pane'[p] = "alive"
    BY <1>1 DEF AlivePanes
  <2> HIDE DEF new
  <2>3. Sound(new, pane')
    BY <2>1, <2>2 DEF Sound
  <2>4. SoundRegistry(r, pane')
    <3>1. SoundRegistry([c.inner EXCEPT ![c.h] = new], pane')
      BY <1>3, <1>4, <2>1, <2>3, SoundEdit
    <3> QED  BY <3>1 DEF new
  <2>5. Local(w, [c EXCEPT !.pc = "refreshStore", !.inner = r])
    BY <1>8
  <2> HIDE DEF r
  <2> QED  BY <1>1, <1>2, <2>4, <2>5, InnerStep DEF Refreshing
<1> QED  BY <1>5, <1>6, <1>7, <1>8

\* The pane an operation may close moves forward.
LEMMA PaneGone ==
  ASSUME IInv, NEW p \in AlivePanes, pane' \in {pane, [pane EXCEPT ![p] = "gone"]}
  PROVE  pane' \in [Panes -> PaneState] /\ Forward(pane, pane')
<1>1. pane \in [Panes -> PaneState] /\ p \in Panes
  BY DEF IInv, TypeOK, AlivePanes
<1> QED  BY <1>1 DEF PaneState, Forward

\* A step that leaves the files alone and moves panes forward.
LEMMA KeptFiles ==
  ASSUME IInv, UNCHANGED <<registry, observations, life>>,
         pane' \in [Panes -> PaneState], Forward(pane, pane')
  PROVE  Kept
<1>1. SoundRegistry(registry, pane')
  BY ForwardKeeps DEF IInv
<1> QED  BY <1>1 DEF IInv, TypeOK, Kept

\* A call that advances as it is.
LEMMA OnwardStep ==
  ASSUME IInv, Kept, NEW w \in Workers, NEW e, Advance(w, call[w], e),
         call[w].pc \notin {"idle"} \union Ends,
         call[w].at \in VerifyAt /\ e = "none" => Over(call[w].own, pane'),
         call[w].at # "enter"
  PROVE  IInv'
<1> DEFINE c == call[w]
<1>1. Core(c, pane') /\ Handled(c)
  BY CallNow DEF Kept
<1> HIDE DEF c
<1> QED  BY <1>1, AdvanceStep DEF c

\* An adapter operation keeps the invariant: the only pane it changes is closed.
LEMMA OperateKeeps == ASSUME IInv, NEW w \in Workers, Operate(w)  PROVE IInv'
<1> DEFINE c == call[w]
           d == [c EXCEPT !.pc = "refresh"]
<1>1. c.pc = "operate" /\ c.pc \notin {"idle"} \union Ends
  BY DEF Operate, Ends
<1>2. UNCHANGED <<registry, observations, life>>
      /\ (UNCHANGED pane \/ \E p \in AlivePanes : pane' = [pane EXCEPT ![p] = "gone"])
  BY DEF Operate, Reach
<1>3. Kept
  BY <1>2, KeptSame, KeptFiles, PaneGone
<1>4. CallInv(c, pane) /\ Core(c, pane') /\ c \in Call /\ c.at \in OperateAt /\ c.h \in Handles
  <2>1. CallInv(c, pane) /\ Core(c, pane') /\ c \in Call
    BY <1>3, CallNow DEF Kept
  <2> QED  BY <1>1, <2>1, Placed
<1>5. c.at \notin VerifyAt \union {"enter", "seal"}
  BY <1>4, Apart
<1>6. Local(w, d) \/ \E e \in {"ok", "error", "timeout"} : Advance(w, c, e)
  BY DEF Operate
<1>7. CASE Local(w, d)
  <2>1. Core(d, pane')
    BY <1>4, CoreUpdate DEF Labels
  <2>2. d.pc = "refresh" /\ d.at = c.at /\ d.h = c.h
    BY <1>4 DEF Call
  <2> HIDE DEF d
  <2>3. Fits(d)
    BY <1>4, <2>2 DEF Fits, Refreshing
  <2> QED  BY <1>3, <1>4, <1>5, <1>7, <2>1, <2>2, <2>3, RelabelStep
<1>8. CASE \E e \in {"ok", "error", "timeout"} : Advance(w, c, e)
  BY <1>1, <1>3, <1>5, <1>8, OnwardStep
<1> QED  BY <1>6, <1>7, <1>8

\* A capture outside the retry loop keeps the invariant.
LEMMA ObserveKeeps == ASSUME IInv, NEW w \in Workers, Observe(w)  PROVE IInv'
<1> DEFINE c == call[w]
           d == [c EXCEPT !.pc = "markLoad"]
<1>1. c.pc = "observe" /\ c.pc \notin {"idle"} \union Ends
  BY DEF Observe, Ends
<1>2. Kept
  BY KeptSame DEF Observe
<1>3. CallInv(c, pane) /\ Core(c, pane') /\ c \in Call /\ c.at \in ObserveAt /\ c.h \in Handles
  <2>1. CallInv(c, pane) /\ Core(c, pane') /\ c \in Call
    BY <1>2, CallNow DEF Kept
  <2> QED  BY <1>1, <2>1, Placed
<1>4. c.at \notin VerifyAt \union {"enter", "seal"}
  BY <1>3, Apart
<1>5. Local(w, d) \/ \E e \in {"ok", "error"} : Advance(w, c, e)
  BY DEF Observe
<1>6. CASE Local(w, d)
  <2>1. Core(d, pane')
    BY <1>3, CoreUpdate DEF Labels
  <2>2. d.pc = "markLoad" /\ d.at = c.at /\ d.h = c.h
    BY <1>3 DEF Call
  <2> HIDE DEF d
  <2>3. Fits(d)
    BY <1>3, <2>2 DEF Fits, Marking
  <2> QED  BY <1>2, <1>3, <1>4, <1>6, <2>1, <2>2, <2>3, RelabelStep
<1>7. CASE \E e \in {"ok", "error"} : Advance(w, c, e)
  BY <1>1, <1>2, <1>4, <1>7, OnwardStep
<1> QED  BY <1>5, <1>6, <1>7

\* The read of mark_binding_stale keeps the invariant.
LEMMA MarkStaleLoadKeeps == ASSUME IInv, NEW w \in Workers, MarkStaleLoad(w)  PROVE IInv'
<1> DEFINE c == call[w]
           d == [c EXCEPT !.pc = "markStore", !.inner = registry]
<1>1. c.pc \in Marking /\ Local(w, d) /\ UNCHANGED registry /\ UNCHANGED pane
  BY DEF MarkStaleLoad, Marking
<1>2. Kept
  BY KeptSame DEF MarkStaleLoad
<1>3. CallInv(c, pane) /\ Core(c, pane') /\ c \in Call
  BY <1>2, CallNow DEF Kept
<1>4. c.at \in OperateAt \union ObserveAt /\ c.h \in Handles
  BY <1>1, <1>3, Placed
<1>5. Core(d, pane')
  <2>1. Core([c EXCEPT !.pc = "markStore"], pane')
    BY <1>3, CoreUpdate DEF Labels
  <2>2. SoundRegistry(registry, pane')
    BY <1>1 DEF IInv
  <2> QED  BY <2>1, <2>2, CoreUpdate
<1>6. d.pc = "markStore" /\ d.at = c.at /\ d.h = c.h
  BY <1>3 DEF Call
<1> HIDE DEF d
<1>7. Fits(d) /\ d.at # "seal"
  BY <1>4, <1>6, Apart DEF Fits, Marking
<1> QED  BY <1>1, <1>2, <1>4, <1>5, <1>6, <1>7, RelabelStep

\* The write of mark_binding_stale keeps the invariant: stale says nothing of panes.
LEMMA MarkStaleStoreKeeps == ASSUME IInv, NEW w \in Workers, MarkStaleStore(w)  PROVE IInv'
<1> DEFINE c == call[w]
           d == [c EXCEPT !.inner = EmptyRegistry]
           r == [c.inner EXCEPT ![c.h].status = "stale"]
<1>1. /\ c.pc \in Marking /\ c.pc \notin {"idle"} \union Ends /\ Advance(w, d, "stale")
      /\ registry' \in {r, registry} /\ UNCHANGED <<observations, pane, life>>
  BY DEF MarkStaleStore, Marking, Ends
<1>2. Forward(pane, pane') /\ UNCHANGED pane
  BY <1>1 DEF Forward
<1>3. CallInv(c, pane) /\ Core(c, pane') /\ c \in Call /\ Handled(c)
  BY <1>2, CallNow
<1>4. c.at \in OperateAt \union ObserveAt /\ c.h \in Handles
  BY <1>1, <1>3, Placed
<1>5. SoundRegistry(r, pane')
  <2>1. SoundRegistry(c.inner, pane')
    BY <1>3 DEF Core
  <2> QED  BY <1>4, <2>1, SoundEdit DEF Status
<1>6. Kept
  <2> HIDE DEF r
  <2>1. SoundRegistry(registry', pane')
    BY <1>1, <1>2, <1>5 DEF IInv
  <2> QED  BY <1>1, <1>2, <2>1 DEF Kept, IInv, TypeOK
<1>7. Core(d, pane')
  BY <1>3, EmptyIsSound, CoreUpdate
<1>8. d.pc = c.pc /\ d.at = c.at /\ d.h = c.h /\ d.tool = c.tool
  BY <1>3 DEF Call
<1> HIDE DEF c, d
<1>9. Handled(d) /\ d.at \notin VerifyAt \union {"enter"}
  BY <1>3, <1>4, <1>8, Apart DEF Handled
<1> QED  BY <1>1, <1>6, <1>7, <1>8, <1>9, AdvanceStep

\* Verification keeps the invariant: what it does not find alive was alive once, so
\* it is gone.
LEMMA VerifyKeeps == ASSUME IInv, NEW w \in Workers, Verify(w)  PROVE IInv'
<1> DEFINE c == call[w]
<1>1. c.pc = "verify" /\ c.pc \notin {"idle"} \union Ends /\ UNCHANGED pane
  BY DEF Verify, Ends
<1>2. Kept
  BY KeptSame DEF Verify
<1>3. CallInv(c, pane) /\ Core(c, pane') /\ c \in Call
  BY <1>2, CallNow DEF Kept
<1>4. c.at \in VerifyAt /\ c.at # "enter"
  BY <1>1, <1>3, Placed, Apart
<1>5. c.own.pane \notin AlivePanes => Over(c.own, pane')
  <2>1. c.own \in Binding /\ Sound(c.own, pane')
    BY <1>3 DEF Core, Call
  <2> QED  BY <1>1, <2>1 DEF Binding, Sound, Over, AlivePanes
<1>6. \/ c.own.pane \notin AlivePanes /\ Advance(w, c, "none")
      \/ \E e \in {"present", "error"} : Advance(w, c, e)
  BY DEF Verify
<1> QED  BY <1>1, <1>2, <1>4, <1>5, <1>6, OnwardStep

\* Typing exit into a pane keeps the invariant.
LEMMA ShellExitKeeps == ASSUME IInv, NEW w \in Workers, ShellExit(w)  PROVE IInv'
<1> DEFINE c == call[w]
<1>1. c.pc = "shellExit" /\ c.pc \notin {"idle"} \union Ends
  BY DEF ShellExit, Ends
<1>2. UNCHANGED <<registry, observations, life>>
      /\ (UNCHANGED pane \/ \E p \in AlivePanes : pane' \in {pane, [pane EXCEPT ![p] = "gone"]})
  BY DEF ShellExit, Reach
<1>3. Kept
  BY <1>2, KeptSame, KeptFiles, PaneGone
<1>4. CallInv(c, pane)
  BY <1>3, CallNow DEF Kept
<1>5. c.at \notin VerifyAt \union {"enter"}
  BY <1>1, <1>4, Placed, Apart
<1>6. \E e \in {"ok", "error"} : Advance(w, c, e)
  BY DEF ShellExit
<1> QED  BY <1>1, <1>3, <1>5, <1>6, OnwardStep

\* The edited copy that a handler writes is sound.
LEMMA EditIsSound ==
  ASSUME NEW c, NEW pn, CallInv(c, pn), c.pc = "store"
  PROVE  SoundRegistry(EditRegistry(c), pn)
<1> DEFINE r == c.snap
           h == c.h
           S(s) == [r EXCEPT ![h].status = s]
<1>1. Core(c, pn) /\ c \in Call /\ SoundRegistry(r, pn)
  BY DEF CallInv, Core
<1>2. c.at \in EditAt \union WriteAt /\ (c.at # "prune" => h \in Handles)
  BY Placed
<1>3. NoBinding \in Binding /\ Sound(NoBinding, pn)
  BY DEF NoBinding, Binding, Status, Sound
<1>4. CASE c.at = "prune"
  <2>1. EditRegistry(c) = [k \in Handles |-> IF k \in c.todo THEN NoBinding ELSE r[k]]
    BY <1>4 DEF EditRegistry
  <2> QED  BY <1>1, <1>3, <2>1 DEF SoundRegistry, Registry
<1>5. CASE c.at \in {"persist", "discard"}
  <2>1. c.own \in Binding /\ Sound(c.own, pn) /\ h \in Handles
    BY <1>1, <1>2, <1>5 DEF Core, Call
  <2>2. SoundRegistry([r EXCEPT ![h] = c.own], pn) /\ SoundRegistry([r EXCEPT ![h] = NoBinding], pn)
    BY <1>1, <1>3, <2>1, SoundEdit
  <2> QED  BY <1>5, <2>2 DEF EditRegistry
<1>6. CASE c.at = "seal"
  <2>1. h \in Handles /\ r[h].pane = c.own.pane /\ Over(c.own, pn)
    BY <1>1, <1>2, <1>6 DEF CallInv, Core
  <2>2. Over(r[h], pn)
    BY <2>1 DEF Over
  <2>3. SoundRegistry(S("closed"), pn)
    BY <1>1, <2>1, <2>2, SoundEdit DEF Status
  <2> QED  BY <1>6, <2>3 DEF EditRegistry
<1>7. CASE c.at \in {"busy", "record", "settle", "markReady", "leaveBusy"}
  <2>1. h \in Handles
    BY <1>2, <1>7
  <2>2. SoundRegistry(S("ready"), pn) /\ SoundRegistry(S("busy"), pn)
    BY <1>1, <2>1, SoundEdit DEF Status
  <2>3. EditRegistry(c) \in {S("ready"), S("busy"), r}
    BY <1>7 DEF EditRegistry
  <2> HIDE DEF S, r
  <2> QED  BY <1>1, <2>2, <2>3
<1> QED  BY <1>2, <1>4, <1>5, <1>6, <1>7 DEF EditAt, WriteAt

\* Reading the registry before an edit keeps the invariant.
LEMMA LoadKeeps == ASSUME IInv, NEW w \in Workers, Load(w)  PROVE IInv'
<1> DEFINE c == call[w]
           D(old) == [c EXCEPT !.pc = "store", !.snap = registry, !.todo = old]
<1>1. c.pc = "load" /\ c.pc \notin {"idle"} \union Ends /\ UNCHANGED <<registry, pane>>
  BY DEF Load, Ends
<1>2. Kept
  BY KeptSame DEF Load
<1>3. CallInv(c, pane) /\ Core(c, pane') /\ c \in Call /\ Handled(c)
  BY <1>2, CallNow DEF Kept
<1>4. c.at \in EditAt /\ c.at \notin Closing \union VerifyAt \union {"enter", "seal"}
  <2>1. c.at \in EditAt
    BY <1>1, <1>3, Placed
  <2> QED  BY <2>1, Apart DEF EditAt
<1>5. \/ Advance(w, c, "none")
      \/ \E old \in SUBSET Handles : Local(w, D(old))
  <2>1. c.todo \in SUBSET Handles /\ D(c.todo) = [c EXCEPT !.pc = "store", !.snap = registry]
    BY <1>3 DEF Call
  <2>2. \A statuses : Removable(statuses) \subseteq SUBSET Handles
    BY DEF Removable
  <2>3. \/ Advance(w, c, "none")
        \/ \E statuses : \E old \in Removable(statuses) : Local(w, D(old))
        \/ Local(w, [c EXCEPT !.pc = "store", !.snap = registry])
    BY DEF Load
  <2> QED  BY <2>1, <2>2, <2>3
<1>6. CASE Advance(w, c, "none")
  BY <1>1, <1>2, <1>4, <1>6, OnwardStep
<1>7. ASSUME NEW old \in SUBSET Handles, Local(w, D(old))
      PROVE  IInv'
  <2> DEFINE d == D(old)
  <2>1. Core(d, pane')
    <3>1. Core([c EXCEPT !.pc = "store"], pane')
      BY <1>3, CoreUpdate DEF Labels
    <3>2. [c EXCEPT !.pc = "store"].at \notin Closing
      BY <1>3, <1>4 DEF Call
    <3>3. SoundRegistry(registry, pane')
      BY <1>1 DEF IInv
    <3>4. Core([c EXCEPT !.pc = "store", !.snap = registry], pane')
      BY <3>1, <3>2, <3>3, CoreUpdate
    <3> QED  BY <3>4, CoreUpdate
  <2>2. d.pc = "store" /\ d.at = c.at /\ d.h = c.h /\ d.tool = c.tool
    BY <1>3 DEF Call
  <2>3. Local(w, d)
    BY <1>7
  <2> HIDE DEF d
  <2>4. Fits(d) /\ Handled(d)
    BY <1>1, <1>3, <1>4, <2>2 DEF Fits, Handled
  <2>5. CallInv(d, pane')
    BY <1>4, <2>1, <2>2, <2>4 DEF CallInv
  <2> QED  BY <1>2, <2>3, <2>5, LocalStep
<1> QED  BY <1>5, <1>6, <1>7

\* Writing the edited copy keeps the invariant, however old the copy is.
LEMMA StoreKeeps == ASSUME IInv, NEW w \in Workers, Store(w)  PROVE IInv'
<1> DEFINE c == call[w]
           d == [c EXCEPT !.snap = EmptyRegistry]
<1>1. /\ c.pc = "store" /\ c.pc \notin {"idle"} \union Ends
      /\ UNCHANGED <<observations, pane>>
      /\ registry' \in {registry, EditRegistry(c)}
      /\ \E e \in {"absent", "ok"} : Advance(w, d, e)
  BY DEF Store, Ends
<1>2. Forward(pane, pane')
  BY <1>1 DEF Forward
<1>3. CallInv(c, pane') /\ Core(c, pane') /\ c \in Call /\ Handled(c)
  BY <1>2, CallNow
<1>4. c.at \notin Closing \union VerifyAt \union {"enter"}
  <2>1. c.at \in EditAt \union WriteAt
    BY <1>1, <1>3, Placed
  <2> QED  BY <2>1, Apart DEF EditAt, WriteAt
<1>5. SoundRegistry(registry', pane')
  <2>1. SoundRegistry(EditRegistry(c), pane')
    BY <1>1, <1>3, EditIsSound
  <2> QED  BY <1>1, <2>1 DEF IInv
<1>6. life' \in [Handles -> Life]
  BY DEF Store, IInv, TypeOK, Life
<1>7. Kept
  BY <1>1, <1>2, <1>5, <1>6 DEF Kept, IInv, TypeOK
<1>8. Core(d, pane')
  BY <1>3, <1>4, EmptyIsSound, CoreUpdate
<1>9. d.pc = c.pc /\ d.at = c.at /\ d.h = c.h /\ d.tool = c.tool
  BY <1>3 DEF Call
<1> HIDE DEF c, d
<1>10. Handled(d)
  BY <1>3, <1>9 DEF Handled
<1> QED  BY <1>1, <1>4, <1>7, <1>8, <1>9, <1>10, AdvanceStep

\* The reads of capture, wait, close and list keep the invariant.
LEMMA ReadKeeps == ASSUME IInv, NEW w \in Workers, Read(w)  PROVE IInv'
<1> DEFINE c == call[w]
           b == registry[c.h]
           synced == [registry EXCEPT ![c.h].status = c.own.status, ![c.h].pane = c.own.pane]
<1>1. c.pc = "read" /\ c.pc \notin {"idle"} \union Ends /\ UNCHANGED <<registry, pane>>
  BY DEF Read, Ends
<1>2. Kept
  BY KeptSame DEF Read
<1>3. CallInv(c, pane') /\ Core(c, pane') /\ c \in Call /\ Handled(c)
  BY <1>2, CallNow DEF Kept
<1>4. c.at \in {"enter", "scan"} /\ (c.at = "enter" => c.h \in Handles)
  BY <1>1, <1>3, Placed DEF ReadAt
<1>5. c.at \notin Closing \union VerifyAt \union {"seal", "sealSlot"}
  BY <1>4 DEF Closing, VerifyAt
<1>6. SoundRegistry(registry, pane')
  BY <1>1 DEF IInv
<1>7. CASE c.at = "scan"
  <2> DEFINE all == {k \in Handles : Present(registry[k])}
             d == [c EXCEPT !.snap = registry, !.todo = all]
             f == [c EXCEPT !.gone = {}]
  <2>1. Advance(w, d, "ok") \/ Advance(w, f, "none")
    BY <1>7 DEF Read
  <2>2. Core(d, pane') /\ Core(f, pane')
    <3>1. Core([c EXCEPT !.snap = registry], pane')
      BY <1>3, <1>5, <1>6, CoreUpdate
    <3>2. all \in SUBSET Handles
      OBVIOUS
    <3> HIDE DEF all
    <3> QED  BY <1>3, <3>1, <3>2, CoreUpdate
  <2>3. /\ d.pc = c.pc /\ d.at = c.at /\ d.h = c.h /\ d.tool = c.tool
        /\ f.pc = c.pc /\ f.at = c.at /\ f.h = c.h /\ f.tool = c.tool
    BY <1>3 DEF Call
  <2> HIDE DEF d, f
  <2>4. Handled(d) /\ Handled(f)
    BY <1>3, <2>3 DEF Handled
  <2>5. CASE Advance(w, d, "ok")
    BY <1>1, <1>2, <1>5, <1>7, <2>2, <2>3, <2>4, <2>5, AdvanceStep
  <2>6. CASE Advance(w, f, "none")
    BY <1>1, <1>2, <1>5, <1>7, <2>2, <2>3, <2>4, <2>6, AdvanceStep
  <2> QED  BY <2>1, <2>5, <2>6
<1>8. CASE c.at = "enter" /\ ~Present(b)
  <2>1. Advance(w, c, "absent")
    BY <1>8 DEF Read
  <2> HIDE DEF c
  <2> QED  BY <1>1, <1>2, <1>3, <1>5, <2>1, AdvanceStep
<1>9. CASE c.at = "enter" /\ Present(b)
  <2> DEFINE new == [b EXCEPT !.status = c.own.status, !.pane = c.own.pane]
             r == [registry EXCEPT ![c.h] = new]
             d == [c EXCEPT !.snap = r, !.own = new]
             event == CASE IsActive(c.own)         -> "ok"
                        [] c.own.status = "closed" -> "closed"
                        [] OTHER                   -> "inactive"
  <2>1. registry \in Registry /\ c.own \in Binding /\ Sound(c.own, pane') /\ c.h \in Handles
    BY <1>3, <1>4, <1>6, <1>9 DEF Core, SoundRegistry, Call
  <2>2. synced = r /\ synced[c.h] = new
    BY <2>1 DEF Registry
  <2>3. Advance(w, d, event)
    <3>1. Advance(w, [c EXCEPT !.snap = synced, !.own = synced[c.h]], event)
      BY <1>9 DEF Read
    <3> HIDE DEF event, synced, r, new
    <3> QED  BY <2>2, <3>1
  <2>4. new \in Binding /\ new.pane = c.own.pane /\ new.status = c.own.status
    <3>1. b \in Binding
      BY <2>1 DEF Registry
    <3> HIDE DEF b, c
    <3> QED  BY <2>1, <3>1 DEF Binding
  <2>5. r[c.h] = new
    BY <2>1 DEF Registry
  <2>6. event = "closed" => c.own.status = "closed"
    OBVIOUS
  <2> HIDE DEF new, event
  <2>7. Sound(new, pane')
    BY <2>1, <2>4 DEF Sound
  <2>8. SoundRegistry(r, pane')
    BY <1>6, <2>1, <2>4, <2>7, SoundEdit
  <2> HIDE DEF r
  <2>9. Core(d, pane')
    <3>1. Core([c EXCEPT !.snap = r], pane')
      BY <1>3, <1>5, <2>8, CoreUpdate
    <3>2. [c EXCEPT !.snap = r].at = c.at
      BY <1>3 DEF Call
    <3> QED  BY <1>5, <2>4, <2>7, <3>1, <3>2, CoreUpdate
  <2>10. /\ d.pc = c.pc /\ d.at = c.at /\ d.h = c.h /\ d.tool = c.tool
         /\ d.own = new /\ d.snap = r
    BY <1>3 DEF Call
  <2>11. event = "closed" => Over(new, pane')
    BY <2>1, <2>4, <2>6 DEF Sound, Over
  <2> HIDE DEF c, d
  <2>12. Handled(d)
    BY <1>3, <2>10 DEF Handled
  <2> QED  BY <1>1, <1>2, <1>5, <2>3, <2>5, <2>9, <2>10, <2>11, <2>12, AdvanceStep
<1> QED  BY <1>4, <1>7, <1>8, <1>9

\* Reading the observations before an edit keeps the invariant.
LEMMA SlotLoadKeeps == ASSUME IInv, NEW w \in Workers, SlotLoad(w)  PROVE IInv'
<1> DEFINE c == call[w]
           d == [c EXCEPT !.pc = "slotStore", !.slots = observations]
<1>1. c.pc = "slotLoad" /\ c.pc \notin {"idle"} \union Ends /\ Local(w, d)
  BY DEF SlotLoad, Ends
<1>2. Kept
  BY KeptSame DEF SlotLoad
<1>3. CallInv(c, pane') /\ Core(c, pane') /\ c \in Call /\ Handled(c)
  BY <1>2, CallNow DEF Kept
<1>4. c.at \in SlotEditAt \union SlotWriteAt /\ c.at # "seal"
  <2>1. c.at \in SlotEditAt \union SlotWriteAt
    BY <1>1, <1>3, Placed
  <2> QED  BY <2>1 DEF SlotEditAt, SlotWriteAt
<1>5. Core(d, pane')
  <2>1. Core([c EXCEPT !.pc = "slotStore"], pane')
    BY <1>3, CoreUpdate DEF Labels
  <2>2. observations \in Observations
    BY DEF IInv, TypeOK
  <2> QED  BY <2>1, <2>2, CoreUpdate
<1>6. d.pc = "slotStore" /\ d.at = c.at /\ d.h = c.h /\ d.tool = c.tool
  BY <1>3 DEF Call
<1> HIDE DEF c, d
<1>7. CallInv(d, pane')
  BY <1>1, <1>3, <1>4, <1>5, <1>6 DEF CallInv, Fits, Handled
<1> QED  BY <1>1, <1>2, <1>7, LocalStep

\* Reading the observations in capture and send keeps the invariant.
LEMMA SlotReadKeeps == ASSUME IInv, NEW w \in Workers, SlotRead(w)  PROVE IInv'
<1> DEFINE c == call[w]
           d == [c EXCEPT !.slots = observations]
<1>1. c.pc = "slotRead" /\ c.pc \notin {"idle"} \union Ends
      /\ \E e \in {"inactive", "ok"} : Advance(w, d, e)
  BY DEF SlotRead, Ends
<1>2. Kept
  BY KeptSame DEF SlotRead
<1>3. CallInv(c, pane') /\ Core(c, pane') /\ c \in Call /\ Handled(c)
  BY <1>2, CallNow DEF Kept
<1>4. c.at \notin VerifyAt \union {"enter"}
  BY <1>1, <1>3, Placed, Apart
<1>5. Core(d, pane')
  BY <1>3, CoreUpdate DEF IInv, TypeOK
<1>6. d.pc = c.pc /\ d.at = c.at /\ d.h = c.h /\ d.tool = c.tool
  BY <1>3 DEF Call
<1> HIDE DEF c, d
<1>7. Handled(d)
  BY <1>3, <1>6 DEF Handled
<1> QED  BY <1>1, <1>2, <1>4, <1>5, <1>6, <1>7, AdvanceStep

\* Writing the observations keeps the invariant.
LEMMA SlotStoreKeeps == ASSUME IInv, NEW w \in Workers, SlotStore(w)  PROVE IInv'
<1> DEFINE c == call[w]
           d == [c EXCEPT !.slots = EmptyObservations, !.before = {}]
<1>1. /\ c.pc = "slotStore" /\ c.pc \notin {"idle"} \union Ends
      /\ observations' = EditSlots(c) /\ UNCHANGED <<registry, pane, life>>
      /\ \E e \in {"detached", "ok"} : Advance(w, d, e)
  BY DEF SlotStore, Ends
<1>2. Forward(pane, pane')
  BY <1>1 DEF Forward
<1>3. CallInv(c, pane') /\ Core(c, pane') /\ c \in Call /\ Handled(c)
  BY <1>2, CallNow
<1>4. c.at \in SlotEditAt \union SlotWriteAt /\ (c.at # "pruneSlots" => c.h \in Handles)
  BY <1>1, <1>3, Placed
<1>5. observations' \in Observations
  <2>1. c.slots \in Observations /\ c.before \in SUBSET Panes
    BY <1>3 DEF Call
  <2>2. EditSlots(c) \in Observations
    BY <1>4, <2>1 DEF EditSlots, Observations, Slot, NoSlot
  <2> QED  BY <1>1, <2>2
<1>6. Kept
  BY <1>1, <1>2, <1>5 DEF Kept, IInv, TypeOK
<1>7. Core(d, pane')
  <2>1. EmptyObservations \in Observations
    BY DEF EmptyObservations, Observations, NoSlot, Slot
  <2>2. Core([c EXCEPT !.slots = EmptyObservations], pane')
    BY <1>3, <2>1, CoreUpdate
  <2> QED  BY <2>2, CoreUpdate
<1>8. d.pc = c.pc /\ d.at = c.at /\ d.h = c.h /\ d.tool = c.tool
  BY <1>3 DEF Call
<1>9. c.at \notin VerifyAt \union {"enter"}
  BY <1>4 DEF SlotEditAt, SlotWriteAt, VerifyAt
<1> HIDE DEF c, d
<1>10. Handled(d)
  BY <1>3, <1>8 DEF Handled
<1> QED  BY <1>1, <1>6, <1>7, <1>8, <1>9, <1>10, AdvanceStep

\* An idle worker satisfies the invariant whatever the panes are.
LEMMA IdleInv ==
  ASSUME NEW pn
  PROVE  CallInv(Idle, pn)
<1>1. Idle.pc = "idle" /\ Idle.at = "none" /\ Idle.own = NoBinding
      /\ Idle.snap = EmptyRegistry /\ Idle.inner = EmptyRegistry
  BY DEF Idle
<1>2. Sound(NoBinding, pn)
  BY DEF Sound, NoBinding
<1>3. Core(Idle, pn)
  BY <1>1, <1>2, IdleInCall, EmptyIsSound DEF Core, Closing
<1> QED  BY <1>1, <1>3 DEF CallInv, Fits, Handled

\* A response keeps the invariant.
LEMMA ReturnKeeps == ASSUME IInv, NEW w \in Workers, Return(w)  PROVE IInv'
<1>1. UNCHANGED <<registry, observations, pane>> /\ Local(w, Idle)
  BY DEF Return
<1>2. life' \in [Handles -> Life]
  BY DEF Return, IInv, TypeOK, Life
<1>3. Kept
  BY <1>1, <1>2 DEF Kept, IInv, TypeOK, Forward
<1> QED  BY <1>1, <1>3, IdleInv, LocalStep

----------------------------------------------------------------------------
(* Calls that begin, and the environment. *)

\* An idle worker takes a new call, with the fields a handler starts from.
LEMMA BeginStep ==
  ASSUME IInv, Kept, NEW w \in Workers, NEW tool \in AllTools, NEW h \in Handles \union {NoHandle},
         NEW n \in {"persist", "first", "revalidate", "scan", "prune"},
         NEW b \in Binding, Sound(b, pane'), NEW hints \in SUBSET Panes, NEW dead \in SUBSET Panes,
         \/ h \in Handles
         \/ tool \in Listing /\ n = "scan"
         \/ tool = "cleanup" /\ n = "prune",
         NEW d, d = [Arrive(Starting(tool, h), n) EXCEPT !.own = b, !.before = hints, !.gone = dead]
  PROVE  CallInv(d, pane')
<1> DEFINE i == Idle
           s == Starting(tool, h)
           a == Arrive(s, n)
<1>1. Core(i, pane') /\ i \in Call /\ i.at = "none" /\ i.own = NoBinding
      /\ i.snap = EmptyRegistry /\ i.inner = EmptyRegistry
  BY IdleInv, IdleInCall DEF CallInv, Idle
<1>2. s = [i EXCEPT !.tool = tool, !.h = h]
  BY DEF Starting
<1> HIDE DEF i
<1>3. s \in Call /\ s.tool = tool /\ s.h = h /\ s.own = NoBinding
      /\ s.snap = EmptyRegistry /\ s.inner = EmptyRegistry
  <2>1. [i EXCEPT !.tool = tool] \in Call
    BY <1>1, UpdateCall
  <2>2. s \in Call
    BY <1>2, <2>1, UpdateCall
  <2> QED  BY <1>1, <1>2, <2>2 DEF Call
<1> HIDE DEF s
<1>4. n \in Positions /\ n \notin Closing \union {"seal", "sealSlot"}
  BY DEF Positions, EditAt, RefreshAt, ReadAt, Closing
<1>5. a \in Call /\ a.at = n /\ a.own = NoBinding /\ a.tool = tool /\ a.h = h
      /\ a.snap = EmptyRegistry /\ a.inner = EmptyRegistry
  BY <1>3, <1>4, ArriveInCall
<1>6. Fits(a) /\ a.pc \in Labels \ ({"idle"} \union Ends)
  BY <1>3, <1>4, EntryFits
<1> HIDE DEF a
<1>7. Core(a, pane')
  <2>1. Sound(NoBinding, pane')
    BY DEF Sound, NoBinding
  <2> QED  BY <1>4, <1>5, <2>1, EmptyIsSound DEF Core
<1>8. d = [a EXCEPT !.own = b, !.before = hints, !.gone = dead]
  BY DEF a, s
<1>9. d.at = n /\ d.tool = tool /\ d.h = h /\ d.pc = a.pc
  BY <1>5, <1>8 DEF Call
<1>10. Core(d, pane')
  <2>1. Core([a EXCEPT !.own = b], pane')
    BY <1>4, <1>5, <1>7, CoreUpdate
  <2>2. Core([a EXCEPT !.own = b, !.before = hints], pane')
    BY <2>1, CoreUpdate
  <2>3. Core([a EXCEPT !.own = b, !.before = hints, !.gone = dead], pane')
    BY <2>2, CoreUpdate
  <2> QED  BY <1>8, <2>3
<1>11. Fits(d) /\ Handled(d)
  BY <1>5, <1>6, <1>9 DEF Fits, Handled
<1> QED  BY <1>4, <1>6, <1>9, <1>10, <1>11 DEF CallInv, Ends

\* A call begins with no binding, no hints and nothing to report.
LEMMA BeginFields ==
  ASSUME NEW tool \in AllTools, NEW h \in Handles \union {NoHandle},
         NEW n \in {"persist", "first", "revalidate", "scan", "prune"}
  PROVE  LET a == Arrive(Starting(tool, h), n)
         IN  a \in Call /\ a.own = NoBinding /\ a.before = {} /\ a.gone = {}
<1> DEFINE i == Idle
           s == Starting(tool, h)
           a == Arrive(s, n)
<1>1. i \in Call /\ i.own = NoBinding /\ i.before = {} /\ i.gone = {}
  BY IdleInCall DEF Idle
<1>2. s = [i EXCEPT !.tool = tool, !.h = h]
  BY DEF Starting
<1> HIDE DEF i
<1>3. s \in Call /\ s.own = NoBinding /\ s.before = {} /\ s.gone = {}
  <2>1. [i EXCEPT !.tool = tool] \in Call
    BY <1>1, UpdateCall
  <2>2. s \in Call
    BY <1>2, <2>1, UpdateCall
  <2> QED  BY <1>1, <1>2, <2>2 DEF Call
<1> HIDE DEF s
<1>4. n \in Positions
  BY DEF Positions, EditAt, RefreshAt, ReadAt
<1>5. a \in Call /\ a.own = NoBinding
  BY <1>3, <1>4, ArriveInCall
<1>6. a.before = {} /\ a.gone = {}
  BY <1>3 DEF Arrive, Call
<1> HIDE DEF a
<1> QED  BY <1>5, <1>6 DEF a, s

\* An absent entry is a sound binding.
LEMMA NoBindingSound == ASSUME NEW pn  PROVE NoBinding \in Binding /\ Sound(NoBinding, pn)
  BY DEF NoBinding, Binding, Status, Sound

\* A launch keeps the invariant: a pane it names is alive.
LEMMA BeginSpawnKeeps == ASSUME IInv, NEW w \in Workers, BeginSpawn(w)  PROVE IInv'
<1> DEFINE A(h) == Arrive(Starting("spawn", h), "persist")
           B(q) == [source |-> "spawned", status |-> "busy", pane |-> q]
           D(h, q, hints) == [A(h) EXCEPT !.own = B(q), !.before = hints]
<1>1. PICK h \in Handles, p \in Panes, hints \in {IF Remote THEN AlivePanes ELSE {}, {}} :
        /\ \/ pane[p] = "alive" /\ Local(w, D(h, p, hints)) /\ UNCHANGED pane
           \/ /\ pane[p] = "unborn" /\ Local(w, D(h, p, hints))
              /\ pane' = [pane EXCEPT ![p] = "alive"]
           \/ /\ Remote /\ pane[p] = "unborn" /\ Local(w, D(h, NoPane, hints))
              /\ pane' = [pane EXCEPT ![p] = "starting"]
        /\ life' = [life EXCEPT ![h] = "pending"]
  BY DEF BeginSpawn
<1>2. UNCHANGED <<registry, observations>>
  BY DEF BeginSpawn
<1> HIDE DEF D
<1>3. pane \in [Panes -> PaneState] /\ pane' \in [Panes -> PaneState] /\ Forward(pane, pane')
  BY <1>1 DEF IInv, TypeOK, PaneState, Forward
<1>4. Kept
  <2>1. SoundRegistry(registry', pane')
    BY <1>2, <1>3, ForwardKeeps DEF IInv
  <2>2. life' \in [Handles -> Life]
    BY <1>1 DEF IInv, TypeOK, Life
  <2> QED  BY <1>2, <1>3, <2>1, <2>2 DEF Kept, IInv, TypeOK
<1>5. PICK q \in Panes \union {NoPane} :
        Local(w, D(h, q, hints)) /\ (q # NoPane => pane'[q] = "alive")
  BY <1>1, <1>3
<1>6. B(q) \in Binding /\ Sound(B(q), pane')
  BY <1>5 DEF Binding, Status, Sound
<1>7. hints \in SUBSET Panes
  BY DEF AlivePanes
<1> DEFINE d == [A(h) EXCEPT !.own = B(q), !.before = hints, !.gone = {}]
<1>8. D(h, q, hints) = d
  <2>1. "spawn" \in AllTools
    BY DEF AllTools
  <2> DEFINE a == A(h)
             b == B(q)
  <2>2. a \in Call /\ a.gone = {}
    BY <2>1, BeginFields
  <2>3. D(h, q, hints) = [a EXCEPT !.own = b, !.before = hints]
    BY DEF D
  <2> HIDE DEF a, b
  <2>4. D(h, q, hints) = [a EXCEPT !.own = b, !.before = hints, !.gone = {}]
    BY <2>2, <2>3 DEF Call
  <2> QED  BY <2>4 DEF a, b
<1>9. CallInv(d, pane')
  <2>1. "spawn" \in AllTools /\ {} \in SUBSET Panes
    BY DEF AllTools
  <2> HIDE DEF B
  <2> QED  BY <1>4, <1>6, <1>7, <2>1, BeginStep
<1> HIDE DEF d
<1> QED  BY <1>4, <1>5, <1>8, <1>9, LocalStep

\* An attach that begins keeps the invariant: the pane it names is alive.
LEMMA BeginAttachKeeps == ASSUME IInv, NEW w \in Workers, BeginAttach(w)  PROVE IInv'
<1> DEFINE A(h) == Arrive(Starting("attach", h), "persist")
           B(q) == [source |-> "attached", status |-> "busy", pane |-> q]
           D(h, q) == [A(h) EXCEPT !.own = B(q)]
<1>1. PICK h \in Handles, p \in AlivePanes :
        Local(w, D(h, p)) /\ life' = [life EXCEPT ![h] = "pending"]
  BY DEF BeginAttach
<1>2. UNCHANGED <<registry, observations, pane>>
  BY DEF BeginAttach
<1> HIDE DEF D
<1>3. Kept
  <2>1. life' \in [Handles -> Life]
    BY <1>1 DEF IInv, TypeOK, Life
  <2> QED  BY <1>2, <2>1 DEF Kept, IInv, TypeOK, Forward
<1>4. B(p) \in Binding /\ Sound(B(p), pane')
  BY <1>2 DEF Binding, Status, Sound, AlivePanes
<1> DEFINE d == [A(h) EXCEPT !.own = B(p), !.before = {}, !.gone = {}]
<1>5. "attach" \in AllTools /\ {} \in SUBSET Panes
  BY DEF AllTools
<1>6. D(h, p) = d
  <2> DEFINE a == A(h)
             b == B(p)
  <2>1. a \in Call /\ a.before = {} /\ a.gone = {}
    BY <1>5, BeginFields
  <2>2. D(h, p) = [a EXCEPT !.own = b]
    BY DEF D
  <2> HIDE DEF a, b
  <2>3. D(h, p) = [a EXCEPT !.own = b, !.before = {}, !.gone = {}]
    BY <2>1, <2>2 DEF Call
  <2> QED  BY <2>3 DEF a, b
<1>7. CallInv(d, pane')
  <2> HIDE DEF B
  <2> QED  BY <1>3, <1>4, <1>5, BeginStep
<1> HIDE DEF d
<1> QED  BY <1>1, <1>3, <1>6, <1>7, LocalStep

\* A call that begins without a binding.
LEMMA BareCall ==
  ASSUME IInv, Kept, NEW w \in Workers, NEW tool \in AllTools, NEW h \in Handles \union {NoHandle},
         NEW n \in {"first", "revalidate", "scan", "prune"}, NEW dead \in SUBSET Panes,
         \/ h \in Handles
         \/ tool \in Listing /\ n = "scan"
         \/ tool = "cleanup" /\ n = "prune"
  PROVE  /\ CallInv([Arrive(Starting(tool, h), n) EXCEPT !.gone = dead], pane')
         /\ CallInv(Arrive(Starting(tool, h), n), pane')
<1> DEFINE a == Arrive(Starting(tool, h), n)
           D(gone) == [a EXCEPT !.own = NoBinding, !.before = {}, !.gone = gone]
<1>1. [a EXCEPT !.gone = dead] = D(dead) /\ a = D({})
  <2>1. a \in Call /\ a.own = NoBinding /\ a.before = {} /\ a.gone = {}
    BY BeginFields
  <2> HIDE DEF a
  <2> QED  BY <2>1 DEF Call
<1>2. NoBinding \in Binding /\ Sound(NoBinding, pane') /\ {} \in SUBSET Panes
  BY NoBindingSound
<1>3. CallInv(D(dead), pane') /\ CallInv(D({}), pane')
  BY <1>2, BeginStep
<1> QED  BY <1>1, <1>3

\* A call on a handle begins within the invariant.
LEMMA BeginOnHandleKeeps == ASSUME IInv, NEW w \in Workers, BeginOnHandle(w)  PROVE IInv'
<1>1. PICK tool \in {"capture", "send", "replace", "wait", "close"}, h \in Handles :
        Local(w, Arrive(Starting(tool, h), FirstPosition(tool)))
  BY DEF BeginOnHandle
<1>2. Kept
  BY KeptSame DEF BeginOnHandle
<1>3. tool \in AllTools /\ FirstPosition(tool) \in {"first", "revalidate"} /\ {} \in SUBSET Panes
  BY DEF AllTools, FirstPosition
<1>4. CallInv(Arrive(Starting(tool, h), FirstPosition(tool)), pane')
  BY <1>2, <1>3, BareCall
<1> QED  BY <1>1, <1>2, <1>4, LocalStep

\* A list begins within the invariant.
LEMMA BeginListKeeps == ASSUME IInv, NEW w \in Workers, BeginList(w)  PROVE IInv'
<1>1. Kept /\ Local(w, ListCall("list"))
  BY KeptSame DEF BeginList
<1>2. "list" \in AllTools /\ "list" \in Listing /\ {p \in Panes : pane[p] = "gone"} \in SUBSET Panes
  BY DEF AllTools, Listing
<1>3. CallInv(ListCall("list"), pane')
  BY <1>1, <1>2, BareCall DEF ListCall
<1> QED  BY <1>1, <1>3, LocalStep

\* A cleanup begins within the invariant.
LEMMA BeginCleanupKeeps == ASSUME IInv, NEW w \in Workers, BeginCleanup(w)  PROVE IInv'
<1>1. Kept /\ Local(w, Arrive(Starting("cleanup", NoHandle), "prune"))
  BY KeptSame DEF BeginCleanup
<1>2. "cleanup" \in AllTools /\ {} \in SUBSET Panes
  BY DEF AllTools
<1>3. CallInv(Arrive(Starting("cleanup", NoHandle), "prune"), pane')
  BY <1>1, <1>2, BareCall
<1> QED  BY <1>1, <1>3, LocalStep

\* A step of the session or of the user.
LEMMA SessionKeeps ==
  ASSUME IInv, PaneAppears \/ UserOpens \/ UserCloses
  PROVE  IInv'
<1>1. UNCHANGED <<registry, observations, call, life>>
  BY DEF PaneAppears, UserOpens, UserCloses
<1>2. PICK p \in Panes :
        \/ pane[p] \in {"starting", "unborn"} /\ pane' = [pane EXCEPT ![p] = "alive"]
        \/ pane[p] = "alive" /\ pane' = [pane EXCEPT ![p] = "gone"]
  BY DEF PaneAppears, UserOpens, UserCloses, AlivePanes
<1>3. pane' \in [Panes -> PaneState] /\ Forward(pane, pane')
  BY <1>2 DEF IInv, TypeOK, PaneState, Forward
<1>4. Kept
  BY <1>1, <1>3, KeptFiles
<1>5. TypeOK'
  BY <1>1, <1>3 DEF IInv, TypeOK
<1>6. \A w \in Workers : CallInv(call'[w], pane')
  BY <1>1, <1>3, ForwardKeeps DEF IInv
<1> QED  BY <1>4, <1>5, <1>6 DEF IInv, Kept

\* A restart keeps the invariant: it drops the copies and leaves the files.
LEMMA RestartKeeps == ASSUME IInv, Restart  PROVE IInv'
<1>1. UNCHANGED <<registry, observations, pane>>
  BY DEF Restart
<1>2. Kept
  BY <1>1 DEF Restart, Kept, IInv, TypeOK, Life, Forward
<1>3. PICK w \in Workers :
        call' = [v \in Workers |-> IF v = w /\ ~Remote THEN ListCall("startup") ELSE Idle]
  BY DEF Restart
<1>4. CallInv(ListCall("startup"), pane')
  <2>1. "startup" \in AllTools /\ "startup" \in Listing
        /\ {p \in Panes : pane[p] = "gone"} \in SUBSET Panes
    BY DEF AllTools, Listing
  <2> QED  BY <1>2, <2>1, BareCall DEF ListCall
<1>5. \A v \in Workers : CallInv(call'[v], pane')
  BY <1>3, <1>4, IdleInv
<1>6. \A v \in Workers : call'[v] \in Call
  BY <1>5 DEF CallInv, Core
<1>7. call' \in [Workers -> Call]
  BY <1>3, <1>6
<1> QED  BY <1>2, <1>5, <1>7 DEF IInv, TypeOK, Kept, SoundRegistry

----------------------------------------------------------------------------
(* The theorems. *)

\* The invariant holds initially.
LEMMA InitIInv == Init => IInv
<1> SUFFICES ASSUME Init  PROVE IInv
  OBVIOUS
<1>1. TypeOK
  <2>1. registry \in Registry
    BY EmptyIsSound DEF Init, SoundRegistry
  <2>2. observations \in Observations
    BY DEF Init, EmptyObservations, Observations, NoSlot, Slot
  <2>3. call \in [Workers -> Call]
    BY IdleInCall DEF Init
  <2> QED  BY <2>1, <2>2, <2>3 DEF Init, TypeOK, PaneState, Life
<1>2. SoundRegistry(registry, pane)
  BY EmptyIsSound DEF Init
<1>3. \A w \in Workers : CallInv(call[w], pane)
  BY IdleInv DEF Init
<1> QED  BY <1>1, <1>2, <1>3 DEF IInv

\* Every step keeps the invariant.
LEMMA NextIInv == IInv /\ [Next]_vars => IInv'
<1> SUFFICES ASSUME IInv, [Next]_vars  PROVE IInv'
  OBVIOUS
<1>1. ASSUME NEW w \in Workers, Begin(w)  PROVE IInv'
  BY <1>1, BeginSpawnKeeps, BeginAttachKeeps, BeginOnHandleKeeps, BeginListKeeps,
     BeginCleanupKeeps DEF Begin
<1>2. ASSUME NEW w \in Workers, Step(w)  PROVE IInv'
  BY <1>2, RefreshKeeps, ResolveKeeps, RefreshStoreKeeps, ReconcileKeeps, ReconcileListKeeps,
     OperateKeeps, ObserveKeeps, MarkStaleLoadKeeps, MarkStaleStoreKeeps, VerifyKeeps,
     ShellExitKeeps, LoadKeeps, StoreKeeps, ReadKeeps, SlotLoadKeeps, SlotReadKeeps,
     SlotStoreKeeps, ReturnKeeps DEF Step
<1>3. CASE Environment
  BY <1>3, SessionKeeps, RestartKeeps DEF Environment
<1>4. CASE UNCHANGED vars
  BY <1>4 DEF vars, IInv, TypeOK, SoundRegistry, CallInv, Core, Sound, Over, Fits, Handled
<1> QED  BY <1>1, <1>2, <1>3, <1>4 DEF Next

\* The strengthened invariant holds of every behaviour.
THEOREM Invariance == Spec => []IInv
  BY InitIInv, NextIInv, PTL DEF Spec

\* Every state is well-typed, for any number of concurrent calls.
THEOREM TypeCorrect == Spec => []TypeOK
<1>1. IInv => TypeOK
  BY DEF IInv
<1> QED  BY <1>1, Invariance, PTL

\* A binding says "closed" only of a pane that is gone, whatever calls run at
\* the same time and whenever the daemon is killed: every copy of the registry
\* a call carries is sound, and a close seals only what it found absent.
THEOREM ClosedMeansGone == Spec => []ClosedPaneIsGone
<1>1. IInv => ClosedPaneIsGone
  BY DEF IInv, SoundRegistry, Sound, ClosedPaneIsGone
<1> QED  BY <1>1, Invariance, PTL

\* A close answers "closed" only of a pane that is gone, whether it closed the
\* pane itself or found the handle closed already.
THEOREM CloseIsTruthful == Spec => []CloseAnswersTruly
<1>1. IInv => CloseAnswersTruly
  BY DEF IInv, CallInv, Over, CloseAnswersTruly
<1> QED  BY <1>1, Invariance, PTL

\* Panes move only forward, and what a copy of the registry says of them stays
\* true: the copy a call holds is sound at every later step of the system.
THEOREM CopiesStaySound ==
  Spec => [](\A w \in Workers : SoundRegistry(call[w].snap, pane) /\ SoundRegistry(call[w].inner, pane))
<1>1. IInv => \A w \in Workers :
                SoundRegistry(call[w].snap, pane) /\ SoundRegistry(call[w].inner, pane)
  BY DEF IInv, CallInv, Core
<1> QED  BY <1>1, Invariance, PTL

====
