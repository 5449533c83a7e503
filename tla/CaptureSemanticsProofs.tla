----------------------- MODULE CaptureSemanticsProofs -----------------------
(***************************************************************************)
(* Proofs about CaptureSemantics, for any interactions, lines, codes and    *)
(* bounds: the types, that reported completions are real, that an unmarked  *)
(* current capture keeps the output, and that pages join, also while the    *)
(* capture grows.                                                           *)
(***************************************************************************)
EXTENDS CaptureSemantics, SequenceTheorems, WellFoundedInduction, TLAPS

----------------------------------------------------------------------------
(* Paging. *)

\* A page and what its cursor leads to make up what was left: no line is
\* skipped or read twice, however large the page (line_window).
THEOREM PagesJoinAlways ==
  ASSUME NEW S, NEW content \in Seq(S), NEW offset \in Nat, NEW limit \in Nat \ {0},
         HasNextCursor(content, offset, limit)
  PROVE  LET next == WindowEnd(content, offset, limit)
         IN  /\ next > offset
             /\ LineWindow(content, offset, limit) \o LineWindow(content, next, 0)
                  = LineWindow(content, offset, 0)
<1> DEFINE next == WindowEnd(content, offset, limit)
<1>1. /\ Len(content) \in Nat
      /\ next = offset + limit
      /\ next < Len(content)
  BY DEF HasNextCursor, WindowEnd, Min2
<1>2. /\ LineWindow(content, offset, limit) = SubSeq(content, offset + 1, next)
      /\ LineWindow(content, next, 0) = SubSeq(content, next + 1, Len(content))
      /\ LineWindow(content, offset, 0) = SubSeq(content, offset + 1, Len(content))
  <2>1. LineWindow(content, offset, limit) = SubSeq(content, offset + 1, next)
    BY <1>1 DEF LineWindow
  <2>2. \A start \in Nat : start < Len(content) =>
          LineWindow(content, start, 0) = SubSeq(content, start + 1, Len(content))
    BY <1>1 DEF LineWindow, WindowEnd
  <2>3. offset < Len(content) /\ next \in Nat
    BY <1>1
  <2> HIDE DEF next
  <2> QED
    BY <1>1, <2>1, <2>2, <2>3
<1>3. SubSeq(content, offset + 1, next) \o SubSeq(content, next + 1, Len(content))
        = SubSeq(content, offset + 1, Len(content))
  <2> HIDE DEF next
  <2>1. /\ offset + 1 \in 1..Len(content) + 1
        /\ next \in (offset + 1) - 1..Len(content)
        /\ Len(content) \in next..Len(content)
    BY <1>1
  <2> QED
    BY <2>1, ConcatAdjacentSubSeq
<1>4. next > offset
  BY <1>1
<1>5. LineWindow(content, offset, limit) \o LineWindow(content, next, 0)
        = LineWindow(content, offset, 0)
  <2> HIDE DEF next
  <2> QED
    BY <1>2, <1>3
<1> QED
  BY <1>4, <1>5

\* The same when lines are added between the two pages: a reader that follows
\* cursors through a growing capture neither skips nor repeats a line.
THEOREM PagesJoinWhileGrowing ==
  ASSUME NEW S, NEW content \in Seq(S), NEW added \in Seq(S),
         NEW offset \in Nat, NEW limit \in Nat \ {0},
         HasNextCursor(content, offset, limit)
  PROVE  LET next == WindowEnd(content, offset, limit)
             grown == content \o added
         IN  LineWindow(content, offset, limit) \o LineWindow(grown, next, 0)
               = LineWindow(grown, offset, 0)
<1> DEFINE next == WindowEnd(content, offset, limit)
           grown == content \o added
<1>1. /\ grown \in Seq(S)
      /\ Len(content) \in Nat /\ Len(added) \in Nat
      /\ Len(grown) = Len(content) + Len(added)
  BY ConcatProperties
<1>2. next = offset + limit /\ next < Len(content)
  BY DEF HasNextCursor, WindowEnd, Min2
<1>3. HasNextCursor(grown, offset, limit) /\ WindowEnd(grown, offset, limit) = next
  <2> HIDE DEF grown
  <2> QED
    BY <1>1, <1>2 DEF HasNextCursor, WindowEnd, Min2
<1>4. LineWindow(grown, offset, limit) \o LineWindow(grown, next, 0)
        = LineWindow(grown, offset, 0)
  <2> HIDE DEF grown, next
  <2> QED
    BY <1>1, <1>3, PagesJoinAlways
<1>5. SubSeq(grown, offset + 1, next) = SubSeq(content, offset + 1, next)
  <2>1. offset + 1 \in Nat /\ next \in Nat /\ 1 <= offset + 1 /\ next <= Len(content)
    BY <1>1, <1>2
  <2> HIDE DEF next
  <2> QED
    BY <1>1, <2>1, SubSeqOfConcat1
<1>6. /\ LineWindow(grown, offset, limit) = SubSeq(grown, offset + 1, next)
      /\ LineWindow(content, offset, limit) = SubSeq(content, offset + 1, next)
  <2> HIDE DEF grown
  <2> QED
    BY <1>1, <1>2, <1>3 DEF LineWindow
<1> QED
  BY <1>4, <1>5, <1>6


----------------------------------------------------------------------------
(* The inductive invariant. *)

\* A call that probes or falls back has an interaction.
CallFits == call.at \in {"probe", "redeliver"} => call.command \in Wrapped

\* An end marker on a screen is the echo of an inline script, or was printed
\* when the command ended with the code it shows.
RealEnd(l, h) ==
  l.kind = "end" =>
    \/ l.arg = NoCode /\ l.id \in h.inlined
    \/ l.id \in Interactions /\ l.arg \in h.ended[l.id]

RealEnds(content, h) == \A k \in 1..Len(content) : RealEnd(content[k], h)

\* What the observation says of its interaction is so.
ReportIsReal(o, h) ==
  /\ o.code # NoCode =>
       o.interaction \in Interactions /\ o.code \in h.ended[o.interaction]
  /\ o.completed =>
       /\ o.interaction \in Interactions
       /\ o.interaction \in h.inlined \/ h.ended[o.interaction] # {}

\* A line that waits for the shell has been recorded as delivered.
InlinedInput(input, h) ==
  \A k \in 1..Len(input) : input[k].form = "inline" => input[k].id \in h.inlined

TypeInv == TypeOK /\ CallFits

CompletionInv ==
  /\ RealEnds(screen, history)
  /\ ReportIsReal(observation, history)
  /\ InlinedInput(shell.input, history)

----------------------------------------------------------------------------
(* Lemmas. *)

\* Every set of naturals that is not empty has a least element.
LEMMA LeastNatural ==
  ASSUME NEW T, T \subseteq Nat, T # {}
  PROVE  \E x \in T : \A y \in T : x <= y
<1>1. PICK R : R = OpToRel(<, Nat)
  OBVIOUS
<1>2. IsWellFoundedOn(R, Nat)
  BY <1>1, NatLessThanWellFounded
<1>3. PICK x \in T : \A y \in T : ~(<<y, x>> \in R)
  BY <1>2, WFMin
<1>4. \A y \in T : ~(y < x)
  <2> SUFFICES ASSUME NEW y \in T, y < x PROVE FALSE
    OBVIOUS
  <2>1. <<y, x>> \in OpToRel(<, Nat)
    BY DEF OpToRel
  <2> QED
    BY <2>1, <1>1, <1>3
<1>5. \A y \in T : x <= y
  <2> SUFFICES ASSUME NEW y \in T PROVE x <= y
    OBVIOUS
  <2>1. y \in Nat /\ x \in Nat
    OBVIOUS
  <2> QED
    BY <2>1, <1>4
<1> QED
  BY <1>5

\* The end marker that parse_interaction_capture finds is one of the interaction.
LEMMA FirstEndIsEnd ==
  ASSUME NEW content \in Seq(ScreenLines), NEW i, MarkedDone(content, i)
  PROVE  /\ FirstEnd(content, i) \in 1..Len(content)
         /\ content[FirstEnd(content, i)].kind = "end"
         /\ content[FirstEnd(content, i)].id = i
         /\ MarkedCode(content, i) = content[FirstEnd(content, i)].arg
<1>1. EndsOf(content, i) # {} /\ EndsOf(content, i) \subseteq Nat
  BY DEF MarkedDone, EndsOf
<1>2. FirstEnd(content, i) \in EndsOf(content, i)
  BY <1>1, LeastNatural DEF FirstEnd
<1> QED
  BY <1>2 DEF EndsOf, MarkedCode

\* An observation that takes a snapshot keeps its type.
LEMMA ObserveType ==
  ASSUME NEW o \in Observations, NEW content \in Seq(ScreenLines)
  PROVE  ObserveSnapshot(o, content) \in Observations
<1>1. CASE MarkedDone(content, o.interaction)
  <2>1. MarkedCode(content, o.interaction) \in Codes \union {NoCode}
    <3>1. /\ content[FirstEnd(content, o.interaction)] \in ScreenLines
          /\ content[FirstEnd(content, o.interaction)].kind = "end"
          /\ MarkedCode(content, o.interaction)
               = content[FirstEnd(content, o.interaction)].arg
      BY <1>1, FirstEndIsEnd
    <3> QED
      BY <3>1 DEF ScreenLines, Unknown
  <2> QED
    BY <1>1, <2>1
       DEF Observations, ObserveSnapshot, UpdateFullSnapshot, CompleteInteraction
<1>2. CASE ~MarkedDone(content, o.interaction)
  BY <1>2 DEF Observations, ObserveSnapshot, UpdateFullSnapshot
<1> QED
  BY <1>1, <1>2

\* What is shown extends the screen.
LEMMA ShowType ==
  ASSUME TypeOK, NEW shown \in Seq(ScreenLines), Show(shown)
  PROVE  /\ screen' \in Seq(ScreenLines)
         /\ Len(screen') = Len(screen) + Len(shown)
         /\ \A k \in 1..Len(screen') :
              screen'[k] = IF k <= Len(screen) THEN screen[k] ELSE shown[k - Len(screen)]
<1>1. screen \in Seq(ScreenLines) /\ screen' = screen \o shown
  BY DEF TypeOK, Show
<1> QED
  BY <1>1, ConcatProperties

\* A shell that begins a line takes it from its input.
LEMMA BeginType ==
  ASSUME TypeOK, shell.input # <<>>, NEW shown \in Seq(ScreenLines),
         NEW defined \in BOOLEAN, Begin(shown, defined)
  PROVE  /\ screen' \in Seq(ScreenLines)
         /\ shell' \in ShellStates
         /\ history' \in Histories
<1> DEFINE command == Head(shell.input)
<1>1. command \in Commands /\ Tail(shell.input) \in Seq(Commands)
  BY HeadTailProperties DEF TypeOK, ShellStates
<1>2. screen' \in Seq(ScreenLines)
  BY ShowType DEF Begin
<1>3. shell' \in ShellStates
  BY <1>1 DEF TypeOK, ShellStates, Begin
<1>4. CASE command.id = NoInteraction
  BY <1>2, <1>3, <1>4 DEF TypeOK, Begin
<1>5. CASE command.id # NoInteraction
  <2>1. command.id \in Interactions
    BY <1>1, <1>5 DEF Commands, Wrapped, NoCommand
  <2>2. history \in Histories /\ history.runs \in [Interactions -> 0..2]
    BY DEF TypeOK, Histories
  <2>3. Min2(history.runs[command.id] + 1, 2) \in 0..2
    BY <2>1, <2>2 DEF Min2
  <2>4. history' = [history EXCEPT
                      !.runs[command.id] = Min2(history.runs[command.id] + 1, 2)]
    BY <1>5 DEF Begin
  <2>5. history' \in Histories
    <3> HIDE DEF command
    <3> QED
      BY <2>1, <2>2, <2>3, <2>4 DEF Histories
  <2> QED
    BY <1>2, <1>3, <2>5
<1> QED
  BY <1>4, <1>5

\* What a delivery adds to the history, and the line it types.
LEMMA DeliveredType ==
  ASSUME TypeOK, NEW command \in Commands
  PROVE  /\ Delivered(command) \in Histories
         /\ Type(command) => shell' \in ShellStates
<1>1. /\ {command.id} \ {NoInteraction} \subseteq Interactions
      /\ Inlined(command) \subseteq Interactions
  BY DEF Commands, Wrapped, NoCommand, Inlined
<1>2. Append(shell.input, command) \in Seq(Commands)
  BY AppendProperties DEF TypeOK, ShellStates
<1>3. Len(screen) \in Nat
  BY LenProperties DEF TypeOK
<1>4. Delivered(command) \in Histories
  BY <1>1, <1>3 DEF TypeOK, Histories, Delivered
<1> QED
  BY <1>2, <1>4 DEF TypeOK, ShellStates, Type

\* Tuples of up to two elements are sequences.
LEMMA ShortSequences ==
  ASSUME NEW S, NEW a \in S, NEW b \in S
  PROVE  {<<>>, <<a>>, <<b>>, <<a, b>>} \subseteq Seq(S)
OBVIOUS

\* The lines an inline script shows when it starts.
LEMMA InlineEchoType ==
  ASSUME NEW i \in Interactions, NEW echo \in Echoes(i)
  PROVE  /\ Append(echo, Start(i)) \in Seq(ScreenLines)
         /\ \A k \in 1..Len(Append(echo, Start(i))) :
              Append(echo, Start(i))[k] \in {Start(i), End(i, NoCode)}
<1>1. Start(i) \in ScreenLines /\ End(i, NoCode) \in ScreenLines
  BY DEF ScreenLines, Start, End
<1>2. /\ echo \in Seq({Start(i), End(i, NoCode)})
      /\ echo \in Seq(ScreenLines)
  <2>1. \A S : Start(i) \in S /\ End(i, NoCode) \in S => Echoes(i) \subseteq Seq(S)
    BY ShortSequences DEF Echoes
  <2> QED
    BY <1>1, <2>1
<1>3. Append(echo, Start(i)) \in Seq({Start(i), End(i, NoCode)})
  BY <1>2, AppendProperties
<1>4. Append(echo, Start(i)) \in Seq(ScreenLines)
  BY <1>1, <1>2, AppendProperties
<1> QED
  BY <1>3, <1>4, ElementOfSeq

----------------------------------------------------------------------------
(* Types. *)

\* The initial states have the types.
LEMMA InitType == Init => TypeInv
<1> SUFFICES ASSUME Init PROVE TypeInv
  OBVIOUS
<1>1. screen \in Seq(ScreenLines)
  <2>1. \A x \in Lines : <<Plain(x)>> \in Seq(ScreenLines)
    <3>1. \A x \in Lines : Plain(x) \in ScreenLines
      BY DEF ScreenLines, Plain
    <3> QED
      BY <3>1
  <2>2. <<>> \in Seq(ScreenLines)
    OBVIOUS
  <2> QED
    BY <2>1, <2>2 DEF Init
<1>2. NoObservation \in Observations
  BY DEF NoObservation, Observations
<1>3. observation \in Observations
  BY <1>1, <1>2
     DEF Init, Observations, ResetCommandBoundary, UpdateFullSnapshot
<1>4. call \in Calls /\ CallFits
  BY DEF Init, NoCall, Calls, AllModes, Commands, CallFits
<1>5. shell \in ShellStates
  BY DEF Init, ShellStates, Commands
<1>6. binding \in [source : {"spawned", "attached"}, shell : AllShells]
  BY CaptureAssumption DEF Init
<1>7. history \in Histories
  <2>1. Len(screen) \in Nat
    BY <1>1, LenProperties
  <2> QED
    BY <2>1 DEF Init, Histories
<1> QED
  BY <1>1, <1>3, <1>4, <1>5, <1>6, <1>7 DEF TypeInv, TypeOK

\* The line the shell reads.
LEMMA NextLine ==
  ASSUME TypeOK, NEW form, Reads(form)
  PROVE  /\ shell.input # <<>>
         /\ Head(shell.input) \in Commands
         /\ Tail(shell.input) \in Seq(Commands)
         /\ form # "plain" => Head(shell.input).id \in Interactions
<1>1. shell.input # <<>> /\ shell.input \in Seq(Commands)
  BY DEF Reads, TypeOK, ShellStates
<1>2. Head(shell.input) \in Commands /\ Tail(shell.input) \in Seq(Commands)
  BY <1>1, HeadTailProperties
<1> QED
  BY <1>1, <1>2 DEF Reads, Commands, Wrapped, NoCommand

\* Every line is a sequence of one.
LEMMA OneLine == \A l \in ScreenLines : <<l>> \in Seq(ScreenLines)
OBVIOUS

\* The steps of the pane keep the types.
LEMMA PaneType == TypeInv /\ Pane => TypeInv'
<1> SUFFICES ASSUME TypeInv, Pane PROVE TypeInv'
  OBVIOUS
<1>1. TypeOK /\ CallFits
  BY DEF TypeInv
<1>2. UNCHANGED <<binding, observation, call>>
  BY DEF Pane, RunInline, RunWrapped, RunBootstrap, RefuseWrapped, RunPlain,
         Finish, Abort, Clear, NewShell, PrintLine
<1> SUFFICES screen' \in Seq(ScreenLines) /\ shell' \in ShellStates /\ history' \in Histories
  BY <1>1, <1>2 DEF TypeInv, TypeOK, CallFits
<1>3. CASE RunInline
  <2> DEFINE i == Head(shell.input).id
  <2>1. shell.input # <<>> /\ i \in Interactions
    BY <1>1, <1>3, NextLine DEF RunInline
  <2>2. PICK echo \in Echoes(i) : Begin(Append(echo, Start(i)), shell.defined)
    BY <1>3 DEF RunInline
  <2>3. Append(echo, Start(i)) \in Seq(ScreenLines) /\ shell.defined \in BOOLEAN
    BY <1>1, <2>1, InlineEchoType DEF TypeOK, ShellStates
  <2> QED
    BY <1>1, <2>1, <2>2, <2>3, BeginType
<1>4. CASE RunWrapped \/ RunBootstrap
  <2> DEFINE i == Head(shell.input).id
  <2>1. shell.input # <<>> /\ i \in Interactions
    <3>1. Reads("clean") \/ Reads("bootstrap")
      BY <1>4 DEF RunWrapped, RunBootstrap
    <3>2. CASE Reads("clean")
      BY <1>1, <3>2, NextLine
    <3>3. CASE Reads("bootstrap")
      BY <1>1, <3>3, NextLine
    <3> QED
      BY <3>1, <3>2, <3>3
  <2>2. Start(i) \in ScreenLines
    BY <2>1 DEF ScreenLines, Start
  <2>3. <<Start(i)>> \in Seq(ScreenLines) /\ Begin(<<Start(i)>>, TRUE)
    BY <1>4, <2>2, OneLine DEF RunWrapped, RunBootstrap
  <2> QED
    BY <1>1, <2>1, <2>3, BeginType
<1>5. CASE RunPlain
  <2>1. /\ shell.input # <<>> /\ <<>> \in Seq(ScreenLines)
        /\ shell.defined \in BOOLEAN /\ Begin(<<>>, shell.defined)
    BY <1>1, <1>5 DEF RunPlain, Reads, TypeOK, ShellStates
  <2> QED
    BY <1>1, <2>1, BeginType
<1>6. CASE RefuseWrapped
  <2>1. <<Unknown>> \in Seq(ScreenLines) /\ Show(<<Unknown>>)
    BY <1>6, OneLine DEF ScreenLines, RefuseWrapped
  <2>2. screen' \in Seq(ScreenLines)
    BY <1>1, <2>1, ShowType
  <2>3. Tail(shell.input) \in Seq(Commands)
    BY <1>1, <1>6, NextLine DEF RefuseWrapped
  <2> QED
    BY <1>1, <1>6, <2>2, <2>3 DEF RefuseWrapped, TypeOK, ShellStates
<1>7. CASE Finish
  <2>1. shell' \in ShellStates
    BY <1>1, <1>7 DEF Finish, TypeOK, ShellStates, Commands
  <2>2. CASE shell.command.form = "plain"
    BY <1>1, <1>7, <2>1, <2>2 DEF Finish, TypeOK
  <2>3. CASE shell.command.form # "plain"
    <3>1. shell.command.id \in Interactions
      BY <1>1, <2>3 DEF TypeOK, ShellStates, Commands, Wrapped, NoCommand
    <3>2. PICK c \in Codes :
            /\ Show(<<End(shell.command.id, c)>>)
            /\ history' = [history EXCEPT
                 !.ended[shell.command.id] = history.ended[shell.command.id] \union {c}]
      BY <1>7, <2>3 DEF Finish
    <3>3. <<End(shell.command.id, c)>> \in Seq(ScreenLines)
      <4>1. End(shell.command.id, c) \in ScreenLines
        BY <3>1 DEF ScreenLines, End
      <4> QED
        BY <4>1, OneLine
    <3>4. screen' \in Seq(ScreenLines)
      BY <1>1, <3>2, <3>3, ShowType
    <3>5. history \in Histories
      BY <1>1 DEF TypeOK
    <3>6. history' \in Histories
      BY <3>1, <3>2, <3>5 DEF Histories
    <3> QED
      BY <2>1, <3>4, <3>6
  <2> QED
    BY <2>2, <2>3
<1>8. CASE Abort \/ NewShell
  BY <1>1, <1>8 DEF Abort, NewShell, TypeOK, ShellStates, Commands
<1>9. CASE \E x \in Lines : PrintLine(x)
  <2>1. PICK x \in Lines : PrintLine(x)
    BY <1>9
  <2>2. <<Plain(x)>> \in Seq(ScreenLines) /\ Show(<<Plain(x)>>)
    BY <2>1, OneLine DEF ScreenLines, Plain, PrintLine
  <2>3. screen' \in Seq(ScreenLines)
    BY <1>1, <2>2, ShowType
  <2> QED
    BY <1>1, <2>1, <2>3 DEF PrintLine, TypeOK
<1>10. CASE Clear
  <2>1. screen' \in Seq(ScreenLines) /\ shell' \in ShellStates
    BY <1>1, <1>10 DEF Clear, TypeOK
  <2>2. history' \in Histories
    <3>1. history \in Histories
      BY <1>1 DEF TypeOK
    <3>2. history.cleared + Len(screen) \in Nat
      BY <1>1, <3>1, LenProperties DEF TypeOK, Histories
    <3>3. history' = [history EXCEPT !.cleared = history.cleared + Len(screen), !.submitted = 0,
                        !.captured = 0, !.sinceCapture = FALSE, !.sinceFull = FALSE,
                        !.sinceBoundary = FALSE]
      BY <1>10 DEF Clear
    <3> QED
      BY <3>1, <3>2, <3>3 DEF Histories
  <2> QED
    BY <2>1, <2>2
<1> QED
  BY <1>3, <1>4, <1>5, <1>6, <1>7, <1>8, <1>9, <1>10 DEF Pane

\* The steps of the daemon keep the types.
LEMMA DaemonType == TypeInv /\ Daemon => TypeInv'
<1> SUFFICES ASSUME TypeInv, Daemon PROVE TypeInv'
  OBVIOUS
<1>1. TypeOK /\ CallFits /\ call.command \in Commands
  BY DEF TypeInv, TypeOK, Calls
<1>2. UNCHANGED <<screen, binding>>
  BY DEF Daemon, Capture, Wait, BeginSend, Deliver, Probe, Redeliver, SendFails, Record
<1> SUFFICES /\ shell' \in ShellStates /\ observation' \in Observations
             /\ call' \in Calls /\ history' \in Histories
             /\ CallFits'
  BY <1>1, <1>2 DEF TypeInv, TypeOK
<1>3. Len(screen) \in Nat
  BY <1>1, LenProperties DEF TypeOK
<1>4. NoCall \in Calls /\ NoCall.at = "idle"
  BY DEF NoCall, Calls, AllModes, Commands
<1>5. CASE Capture \/ Wait
  <2>1. ObserveSnapshot(observation, screen) \in Observations
    BY <1>1, ObserveType DEF TypeOK
  <2>2. history' \in Histories
    BY <1>1, <1>3, <1>5 DEF Capture, Wait, TypeOK, Histories
  <2> QED
    BY <1>1, <1>5, <2>1, <2>2 DEF Capture, Wait, TypeOK, CallFits
<1>6. CASE \E mode \in Modes : BeginSend(mode)
  <2>1. PICK mode \in Modes : BeginSend(mode)
    BY <1>6
  <2>2. mode \in AllModes
    BY CaptureAssumption
  <2>3. observation' \in Observations
    BY <1>1, <2>1
       DEF BeginSend, TypeOK, Observations, ResetCommandBoundary, UpdateFullSnapshot
  <2>4. PICK command \in Commands :
          call' = [at |-> "deliver", mode |-> mode, fallback |-> FALSE,
                   command |-> command]
    <3>1. CASE mode \in TextModes /\ SupportsMarkers
      <4>1. PayloadForm \in {"inline", "bootstrap", "clean"}
        BY <3>1 DEF SupportsMarkers, PayloadForm
      <4> QED
        BY <2>1, <3>1, <4>1 DEF BeginSend, Commands, Wrapped
    <3>2. CASE ~(mode \in TextModes /\ SupportsMarkers)
      BY <2>1, <3>2 DEF BeginSend, Commands
    <3> QED
      BY <3>1, <3>2
  <2>5. \/ history' = history
        \/ history' = [history EXCEPT !.submitted = Len(screen),
                         !.sinceFull = TRUE, !.sinceBoundary = TRUE]
    BY <2>1 DEF BeginSend
  <2>6. history' \in Histories
    BY <1>1, <1>3, <2>5 DEF TypeOK, Histories
  <2>7. call' \in Calls /\ CallFits'
    BY <2>2, <2>4 DEF Calls, CallFits
  <2>8. shell' \in ShellStates
    BY <1>1, <2>1 DEF BeginSend, TypeOK
  <2> QED
    BY <2>3, <2>6, <2>7, <2>8
<1>7. CASE Deliver
  <2>1. call' \in Calls /\ CallFits'
    <3>1. call.command.id # NoInteraction => call.command \in Wrapped
      BY <1>1 DEF Commands, NoCommand
    <3>2. call \in Calls
      BY <1>1 DEF TypeOK
    <3> QED
      BY <1>7, <3>1, <3>2 DEF Deliver, Calls, CallFits
  <2>2. shell' \in ShellStates /\ history' \in Histories
    BY <1>1, <1>7, DeliveredType DEF Deliver, TypeOK
  <2> QED
    BY <1>1, <1>7, <2>1, <2>2 DEF Deliver, TypeOK
<1>8. CASE Probe
  <2>1. call \in Calls /\ call.command \in Wrapped
    BY <1>1, <1>8 DEF Probe, TypeOK, CallFits
  <2>2. call' \in Calls /\ CallFits'
    <3>1. [call.command EXCEPT !.form = "inline"] \in Wrapped
      BY <2>1 DEF Wrapped
    <3>2. \/ call' = [call EXCEPT !.at = "record"]
          \/ call' = [call EXCEPT !.at = "redeliver", !.fallback = TRUE,
                        !.command = [call.command EXCEPT !.form = "inline"]]
      BY <1>8, <2>1 DEF Probe, Calls
    <3> QED
      BY <2>1, <3>1, <3>2 DEF Calls, CallFits, Commands
  <2> QED
    BY <1>1, <1>8, <2>2 DEF Probe, TypeOK
<1>9. CASE Redeliver
  <2>1. call' \in Calls /\ CallFits'
    BY <1>1, <1>9 DEF Redeliver, TypeOK, Calls, CallFits
  <2>2. shell' \in ShellStates /\ history' \in Histories
    BY <1>1, <1>9, DeliveredType DEF Redeliver
  <2> QED
    BY <1>1, <1>9, <2>1, <2>2 DEF Redeliver, TypeOK
<1>10. CASE SendFails
  <2>1. shell' \in ShellStates /\ history' \in Histories
    BY <1>1, <1>10, DeliveredType DEF SendFails, TypeOK
  <2> QED
    BY <1>1, <1>4, <1>10, <2>1 DEF SendFails, TypeOK, CallFits
<1>11. CASE Record
  <2>1. observation' \in Observations
    <3>1. call.command.id \in Interactions \union {NoInteraction}
      BY <1>1 DEF Commands, Wrapped, NoCommand
    <3>2. LearnWrapper(observation) \in Observations
      BY <1>1 DEF LearnWrapper, TypeOK, Observations
    <3>3. EnterInteraction(LearnWrapper(observation)) \in Observations
      BY <3>1, <3>2 DEF EnterInteraction, StartInteraction, Observations
    <3>4. \A o \in Observations : ResetCommandBoundary(o) \in Observations
      BY DEF ResetCommandBoundary, Observations
    <3> QED
      BY <1>11, <3>3, <3>4 DEF Record
  <2>2. history' \in Histories
    BY <1>1, <1>11 DEF Record, TypeOK, Histories
  <2> QED
    BY <1>1, <1>4, <1>11, <2>1, <2>2 DEF Record, TypeOK, CallFits
<1> QED
  BY <1>5, <1>6, <1>7, <1>8, <1>9, <1>10, <1>11 DEF Daemon

\* Every step keeps the types.
LEMMA NextType == TypeInv /\ [Next]_vars => TypeInv'
<1>1. TypeInv /\ UNCHANGED vars => TypeInv'
  BY DEF TypeInv, TypeOK, CallFits, vars
<1> QED
  BY <1>1, PaneType, DaemonType DEF Next

\* TypeOK of CaptureSemantics is an invariant.
THEOREM CaptureTypeCorrect == Spec => []TypeOK
<1>1. Spec => []TypeInv
  BY InitType, NextType, PTL DEF Spec
<1>2. TypeInv => TypeOK
  BY DEF TypeInv
<1> QED
  BY <1>1, <1>2, PTL

----------------------------------------------------------------------------
(* Completion. *)

\* The history of a behaviour only grows in what matters to a completion.
Grows(h, g) ==
  /\ h.inlined \subseteq g.inlined
  /\ \A i \in Interactions : h.ended[i] \subseteq g.ended[i]

\* What was real stays so.
LEMMA GrowKeeps ==
  ASSUME NEW h, NEW g, Grows(h, g), NEW content, NEW o, NEW input
  PROVE  /\ RealEnds(content, h) => RealEnds(content, g)
         /\ ReportIsReal(o, h) => ReportIsReal(o, g)
         /\ InlinedInput(input, h) => InlinedInput(input, g)
<1>1. \A l : RealEnd(l, h) => RealEnd(l, g)
  BY DEF Grows, RealEnd
<1>2. RealEnds(content, h) => RealEnds(content, g)
  BY <1>1 DEF RealEnds
<1>3. ReportIsReal(o, h) => ReportIsReal(o, g)
  BY DEF Grows, ReportIsReal
<1>4. InlinedInput(input, h) => InlinedInput(input, g)
  BY DEF Grows, InlinedInput
<1> QED
  BY <1>2, <1>3, <1>4

\* Showing lines with real end markers keeps all end markers real.
LEMMA ShowEnds ==
  ASSUME TypeOK, NEW h, RealEnds(screen, h), NEW shown \in Seq(ScreenLines), Show(shown),
         \A k \in 1..Len(shown) : RealEnd(shown[k], h)
  PROVE  RealEnds(screen', h)
<1>1. /\ Len(screen') = Len(screen) + Len(shown)
      /\ \A k \in 1..Len(screen') :
           screen'[k] = IF k <= Len(screen) THEN screen[k] ELSE shown[k - Len(screen)]
  BY ShowType
<1>2. Len(screen) \in Nat /\ Len(shown) \in Nat
  BY LenProperties DEF TypeOK
<1> SUFFICES ASSUME NEW k \in 1..Len(screen') PROVE RealEnd(screen'[k], h)
  BY DEF RealEnds
<1>3. CASE k <= Len(screen)
  BY <1>1, <1>2, <1>3 DEF RealEnds
<1>4. CASE ~(k <= Len(screen))
  <2>1. k - Len(screen) \in 1..Len(shown)
    BY <1>1, <1>2, <1>4
  <2> QED
    BY <1>1, <1>4, <2>1
<1> QED
  BY <1>3, <1>4

\* The lines that are left of the input are lines of the input.
LEMMA TailInlined ==
  ASSUME NEW input \in Seq(Commands), input # <<>>, NEW h, InlinedInput(input, h)
  PROVE  /\ InlinedInput(Tail(input), h)
         /\ Head(input).form = "inline" => Head(input).id \in h.inlined
<1>1. Len(input) \in Nat /\ Len(input) # 0
  BY LenProperties
<1>2. /\ Head(input) = input[1]
      /\ Len(Tail(input)) = Len(input) - 1
      /\ \A k \in 1..Len(Tail(input)) : Tail(input)[k] = input[k + 1]
  BY HeadTailProperties
<1>3. \A k \in 1..Len(Tail(input)) : k + 1 \in 1..Len(input)
  BY <1>1, <1>2
<1> QED
  BY <1>1, <1>2, <1>3 DEF InlinedInput

\* A shell that begins a line shows lines with real end markers, and leaves the
\* other lines where they are.
LEMMA BeginCompletion ==
  ASSUME TypeOK, CompletionInv, shell.input # <<>>,
         NEW shown \in Seq(ScreenLines), NEW defined, Begin(shown, defined),
         \A k \in 1..Len(shown) : RealEnd(shown[k], history)
  PROVE  /\ RealEnds(screen', history')
         /\ InlinedInput(shell.input', history')
         /\ Grows(history, history')
<1>1. Grows(history, history')
  BY DEF Begin, Grows, TypeOK, Histories
<1>2. RealEnds(screen', history)
  BY ShowEnds DEF Begin, CompletionInv
<1>3. InlinedInput(shell.input', history)
  <2>1. shell \in ShellStates /\ shell.input \in Seq(Commands)
    BY DEF TypeOK, ShellStates
  <2>2. shell.input' = Tail(shell.input)
    BY <2>1 DEF Begin, ShellStates
  <2> QED
    BY <2>1, <2>2, TailInlined DEF CompletionInv
<1> QED
  BY <1>1, <1>2, <1>3, GrowKeeps

\* A snapshot reports of the interaction only what its end marker says.
LEMMA ObserveReport ==
  ASSUME NEW o \in Observations, NEW content \in Seq(ScreenLines), NEW h,
         RealEnds(content, h), ReportIsReal(o, h)
  PROVE  ReportIsReal(ObserveSnapshot(o, content), h)
<1> DEFINE i == o.interaction
           o2 == ObserveSnapshot(o, content)
<1>1. CASE MarkedDone(content, i)
  <2>1. i \in Interactions
    BY <1>1 DEF MarkedDone, Marked, Observations
  <2>2. /\ o2.interaction = i
        /\ o2.code = MarkedCode(content, i)
    BY <1>1 DEF Observations, ObserveSnapshot, UpdateFullSnapshot, CompleteInteraction
  <2>3. PICK k \in 1..Len(content) :
          content[k].kind = "end" /\ content[k].id = i /\ MarkedCode(content, i) = content[k].arg
    BY <1>1, FirstEndIsEnd
  <2>4. \/ content[k].arg = NoCode /\ i \in h.inlined
        \/ content[k].arg \in h.ended[i]
    BY <2>3 DEF RealEnds, RealEnd
  <2> HIDE DEF o2, i
  <2> QED
    BY <2>1, <2>2, <2>3, <2>4 DEF ReportIsReal, o2
<1>2. CASE ~MarkedDone(content, i)
  BY <1>2 DEF Observations, ObserveSnapshot, UpdateFullSnapshot, ReportIsReal
<1> QED
  BY <1>1, <1>2

\* The initial states: nothing is reported, and no end marker is on the screen.
LEMMA InitCompletion == Init => CompletionInv
<1> SUFFICES ASSUME Init PROVE CompletionInv
  OBVIOUS
<1>1. RealEnds(screen, history)
  BY DEF Init, RealEnds, RealEnd, Plain
<1>2. ReportIsReal(observation, history)
  <2>1. observation.code = NoCode /\ observation.completed = FALSE
    <3>1. /\ NoObservation \in Observations
          /\ NoObservation.code = NoCode /\ NoObservation.completed = FALSE
      BY DEF NoObservation, Observations
    <3>2. screen \in Seq(ScreenLines)
      BY InitType DEF TypeInv, TypeOK
    <3>3. \A o \in Observations :
            LET b == ResetCommandBoundary(UpdateFullSnapshot(o, screen))
            IN  b.code = o.code /\ b.completed = o.completed
      BY <3>2 DEF Observations, ResetCommandBoundary, UpdateFullSnapshot
    <3> QED
      BY <3>1, <3>3 DEF Init
  <2> QED
    BY <2>1 DEF ReportIsReal
<1>3. InlinedInput(shell.input, history)
  BY DEF Init, InlinedInput
<1> QED
  BY <1>1, <1>2, <1>3 DEF CompletionInv

\* The steps of the pane keep it.
LEMMA PaneCompletion == TypeInv /\ CompletionInv /\ Pane => CompletionInv'
<1> SUFFICES ASSUME TypeInv, CompletionInv, Pane PROVE CompletionInv'
  OBVIOUS
<1>1. TypeOK /\ screen \in Seq(ScreenLines) /\ shell \in ShellStates
  BY DEF TypeInv, TypeOK
<1>2. /\ RealEnds(screen, history)
      /\ ReportIsReal(observation, history)
      /\ InlinedInput(shell.input, history)
  BY DEF CompletionInv
<1>3. UNCHANGED observation
  BY DEF Pane, RunInline, RunWrapped, RunBootstrap, RefuseWrapped, RunPlain,
         Finish, Abort, Clear, NewShell, PrintLine
<1> SUFFICES /\ RealEnds(screen', history')
             /\ InlinedInput(shell.input', history')
             /\ Grows(history, history')
  BY <1>2, <1>3, GrowKeeps DEF CompletionInv
<1>4. \A i, h : RealEnd(Start(i), h)
  BY DEF RealEnd, Start
<1>5. CASE RunInline
  <2> DEFINE i == Head(shell.input).id
  <2>1. shell.input # <<>> /\ i \in Interactions
    BY <1>1, <1>5, NextLine DEF RunInline
  <2>2. PICK echo \in Echoes(i) : Begin(Append(echo, Start(i)), shell.defined)
    BY <1>5 DEF RunInline
  <2>3. RealEnd(End(i, NoCode), history)
    <3>1. shell.input \in Seq(Commands) /\ Head(shell.input).form = "inline"
      BY <1>1, <1>5 DEF ShellStates, RunInline, Reads
    <3>2. i \in history.inlined
      BY <1>2, <2>1, <3>1, TailInlined
    <3> QED
      BY <3>2 DEF RealEnd, End
  <2>4. /\ Append(echo, Start(i)) \in Seq(ScreenLines)
        /\ \A k \in 1..Len(Append(echo, Start(i))) :
             RealEnd(Append(echo, Start(i))[k], history)
    BY <1>4, <2>1, <2>3, InlineEchoType
  <2> QED
    BY <1>1, <2>1, <2>2, <2>4, BeginCompletion
<1>6. CASE RunWrapped \/ RunBootstrap
  <2> DEFINE i == Head(shell.input).id
  <2>1. shell.input # <<>> /\ i \in Interactions
    <3>1. Reads("clean") \/ Reads("bootstrap")
      BY <1>6 DEF RunWrapped, RunBootstrap
    <3>2. CASE Reads("clean")
      BY <1>1, <3>2, NextLine
    <3>3. CASE Reads("bootstrap")
      BY <1>1, <3>3, NextLine
    <3> QED
      BY <3>1, <3>2, <3>3
  <2>2. <<Start(i)>> \in Seq(ScreenLines) /\ Begin(<<Start(i)>>, TRUE)
    BY <1>6, <2>1, OneLine DEF ScreenLines, Start, RunWrapped, RunBootstrap
  <2>3. \A k \in 1..Len(<<Start(i)>>) : RealEnd(<<Start(i)>>[k], history)
    BY <1>4
  <2> QED
    BY <1>1, <2>1, <2>2, <2>3, BeginCompletion
<1>7. CASE RunPlain
  <2>1. /\ shell.input # <<>> /\ <<>> \in Seq(ScreenLines)
        /\ Begin(<<>>, shell.defined)
    BY <1>1, <1>7 DEF RunPlain, Reads
  <2>2. \A k \in 1..Len(<<>>) : RealEnd(<<>>[k], history)
    OBVIOUS
  <2> QED
    BY <1>1, <2>1, <2>2, BeginCompletion
<1>8. CASE RefuseWrapped
  <2>1. /\ <<Unknown>> \in Seq(ScreenLines) /\ Show(<<Unknown>>)
        /\ UNCHANGED history
    BY <1>8, OneLine DEF ScreenLines, RefuseWrapped
  <2>2. \A k \in 1..Len(<<Unknown>>) : RealEnd(<<Unknown>>[k], history)
    BY DEF RealEnd, Unknown
  <2>3. RealEnds(screen', history)
    BY <1>1, <1>2, <2>1, <2>2, ShowEnds
  <2>4. InlinedInput(shell.input', history)
    <3>1. shell.input # <<>> /\ shell.input' = Tail(shell.input)
      BY <1>1, <1>8 DEF RefuseWrapped, Reads, ShellStates
    <3> QED
      BY <1>1, <1>2, <3>1, TailInlined DEF ShellStates
  <2> QED
    BY <2>1, <2>3, <2>4 DEF Grows
<1>9. CASE Finish
  <2>1. shell.input' = shell.input
    BY <1>1, <1>9 DEF Finish, ShellStates
  <2>2. CASE shell.command.form = "plain"
    BY <1>2, <1>9, <2>1, <2>2 DEF Finish, Grows
  <2>3. CASE shell.command.form # "plain"
    <3> DEFINE i == shell.command.id
    <3>1. i \in Interactions
      BY <1>1, <2>3 DEF ShellStates, Commands, Wrapped, NoCommand
    <3>2. PICK c \in Codes :
            /\ Show(<<End(i, c)>>)
            /\ history' = [history EXCEPT !.ended[i] = history.ended[i] \union {c}]
      BY <1>9, <2>3 DEF Finish
    <3>3. /\ history'.inlined = history.inlined
          /\ history'.ended = [history.ended EXCEPT ![i] = history.ended[i] \union {c}]
          /\ history.ended \in [Interactions -> SUBSET Codes]
      BY <1>1, <3>2 DEF TypeOK, Histories
    <3>4. Grows(history, history')
      BY <3>1, <3>3 DEF Grows
    <3>5. <<End(i, c)>> \in Seq(ScreenLines)
      <4>1. End(i, c) \in ScreenLines
        BY <3>1 DEF ScreenLines, End
      <4> QED
        BY <4>1, OneLine
    <3>6. \A k \in 1..Len(<<End(i, c)>>) : RealEnd(<<End(i, c)>>[k], history')
      <4>1. RealEnd(End(i, c), history')
        BY <3>1, <3>3 DEF RealEnd, End
      <4> QED
        BY <4>1
    <3>7. RealEnds(screen, history')
      BY <1>2, <3>4, GrowKeeps
    <3>8. RealEnds(screen', history')
      BY <1>1, <3>2, <3>5, <3>6, <3>7, ShowEnds
    <3> QED
      BY <1>2, <2>1, <3>4, <3>8, GrowKeeps
  <2> QED
    BY <2>2, <2>3
<1>10. CASE Abort \/ NewShell
  BY <1>1, <1>2, <1>10 DEF Abort, NewShell, ShellStates, Grows
<1>11. CASE \E x \in Lines : PrintLine(x)
  <2>1. PICK x \in Lines : PrintLine(x)
    BY <1>11
  <2>2. /\ <<Plain(x)>> \in Seq(ScreenLines) /\ Show(<<Plain(x)>>)
        /\ UNCHANGED <<shell, history>>
    BY <2>1, OneLine DEF ScreenLines, Plain, PrintLine
  <2>3. \A k \in 1..Len(<<Plain(x)>>) : RealEnd(<<Plain(x)>>[k], history)
    BY DEF RealEnd, Plain
  <2> QED
    BY <1>1, <1>2, <2>2, <2>3, ShowEnds DEF Grows
<1>12. CASE Clear
  <2>1. /\ history'.inlined = history.inlined /\ history'.ended = history.ended
        /\ screen' = <<>> /\ UNCHANGED shell
    BY <1>1, <1>12 DEF Clear, TypeOK, Histories
  <2>2. Grows(history, history')
    BY <2>1 DEF Grows
  <2> QED
    BY <1>2, <2>1, <2>2, GrowKeeps DEF RealEnds
<1> QED
  BY <1>5, <1>6, <1>7, <1>8, <1>9, <1>10, <1>11, <1>12 DEF Pane

\* A delivered line is recorded as it is typed.
LEMMA DeliverCompletion ==
  ASSUME TypeOK, CompletionInv, NEW command \in Commands
  PROVE  /\ Grows(history, Delivered(command))
         /\ InlinedInput(Append(shell.input, command), Delivered(command))
<1> DEFINE input == Append(shell.input, command)
<1>1. Grows(history, Delivered(command)) /\ Inlined(command) \subseteq Delivered(command).inlined
  BY DEF Grows, Delivered, TypeOK, Histories
<1>2. InlinedInput(shell.input, Delivered(command))
  BY <1>1, GrowKeeps DEF CompletionInv
<1>3. shell.input \in Seq(Commands) /\ Len(shell.input) \in Nat
  BY LenProperties DEF TypeOK, ShellStates
<1>4. /\ Len(input) = Len(shell.input) + 1
      /\ \A k \in 1..Len(shell.input) : input[k] = shell.input[k]
      /\ input[Len(shell.input) + 1] = command
  BY <1>3, AppendProperties
<1>5. command.form = "inline" => command.id \in Delivered(command).inlined
  BY <1>1 DEF Inlined
<1> QED
  BY <1>1, <1>2, <1>3, <1>4, <1>5 DEF InlinedInput

\* The steps of the daemon keep it.
LEMMA DaemonCompletion == TypeInv /\ CompletionInv /\ Daemon => CompletionInv'
<1> SUFFICES ASSUME TypeInv, CompletionInv, Daemon PROVE CompletionInv'
  OBVIOUS
<1>1. /\ TypeOK /\ CallFits
      /\ screen \in Seq(ScreenLines) /\ shell \in ShellStates
      /\ observation \in Observations /\ history \in Histories
      /\ call.command \in Commands
  BY DEF TypeInv, TypeOK, Calls
<1>2. /\ RealEnds(screen, history)
      /\ ReportIsReal(observation, history)
      /\ InlinedInput(shell.input, history)
  BY DEF CompletionInv
<1>3. UNCHANGED screen
  BY DEF Daemon, Capture, Wait, BeginSend, Deliver, Probe, Redeliver, SendFails, Record
<1> SUFFICES /\ ReportIsReal(observation', history)
             /\ InlinedInput(shell.input', history')
             /\ Grows(history, history')
  BY <1>2, <1>3, GrowKeeps DEF CompletionInv
<1>4. CASE Capture \/ Wait
  <2>1. ReportIsReal(observation', history)
    BY <1>1, <1>2, <1>4, ObserveReport DEF Capture, Wait
  <2>2. Grows(history, history') /\ UNCHANGED shell
    BY <1>1, <1>4 DEF Capture, Wait, Grows, Histories
  <2> QED
    BY <1>2, <2>1, <2>2, GrowKeeps
<1>5. CASE \E mode \in Modes : BeginSend(mode)
  <2>1. PICK mode \in Modes : BeginSend(mode)
    BY <1>5
  <2>2. Grows(history, history') /\ UNCHANGED shell
    BY <1>1, <2>1 DEF BeginSend, Grows, Histories
  <2>3. /\ observation'.interaction = observation.interaction
        /\ observation'.code = observation.code
        /\ observation'.completed = observation.completed
    BY <1>1, <2>1
       DEF BeginSend, Observations, ResetCommandBoundary, UpdateFullSnapshot
  <2> QED
    BY <1>2, <2>2, <2>3, GrowKeeps DEF ReportIsReal
<1>6. CASE Deliver \/ Redeliver \/ SendFails
  <2>1. /\ UNCHANGED observation
        /\ history' \in {history, Delivered(call.command)}
        /\ shell' = shell \/ (history' = Delivered(call.command) /\ Type(call.command))
    BY <1>6 DEF Deliver, Redeliver, SendFails
  <2>2. Type(call.command) => shell.input' = Append(shell.input, call.command)
    BY <1>1 DEF Type, ShellStates
  <2>3. /\ Grows(history, Delivered(call.command))
        /\ InlinedInput(Append(shell.input, call.command), Delivered(call.command))
    BY <1>1, DeliverCompletion
  <2>4. Grows(history, history')
    BY <2>1, <2>3 DEF Grows
  <2>5. InlinedInput(shell.input', history')
    BY <1>2, <2>1, <2>2, <2>3, <2>4, GrowKeeps
  <2> QED
    BY <1>2, <2>1, <2>4, <2>5
<1>7. CASE Probe
  BY <1>2, <1>7 DEF Probe, Grows
<1>8. CASE Record
  <2>1. Grows(history, history') /\ UNCHANGED shell
    BY <1>1, <1>8 DEF Record, Grows, Histories
  <2> DEFINE learned == LearnWrapper(observation)
             sent == EnterInteraction(learned)
  <2>2. /\ learned \in Observations
        /\ learned.interaction = observation.interaction
        /\ learned.code = observation.code
        /\ learned.completed = observation.completed
    BY <1>1 DEF LearnWrapper, Observations
  <2>3. \/ sent = learned
        \/ sent.code = NoCode /\ sent.completed = FALSE
    BY <2>2 DEF EnterInteraction, StartInteraction, Observations
  <2>4. ReportIsReal(sent, history)
    <3> HIDE DEF learned, sent
    <3> QED
      BY <1>2, <2>2, <2>3 DEF ReportIsReal
  <2>5. sent \in Observations
    <3>1. call.command.id \in Interactions \union {NoInteraction}
      BY <1>1 DEF Commands, Wrapped, NoCommand
    <3> HIDE DEF learned
    <3> QED
      BY <2>2, <3>1 DEF EnterInteraction, StartInteraction, Observations
  <2>6. /\ observation'.interaction = sent.interaction
        /\ observation'.code = sent.code
        /\ observation'.completed = sent.completed
    <3>1. observation' \in {sent, ResetCommandBoundary(sent)}
      BY <1>8 DEF Record
    <3> HIDE DEF sent
    <3> QED
      BY <2>5, <3>1 DEF ResetCommandBoundary, Observations
  <2> HIDE DEF sent
  <2> QED
    BY <1>2, <2>1, <2>4, <2>6, GrowKeeps DEF ReportIsReal
<1> QED
  BY <1>4, <1>5, <1>6, <1>7, <1>8 DEF Daemon

\* What a wait or a capture reports of an interaction is so: the exit code is one
\* its command ended with, and a completion is real unless the inline script was
\* used (parse_interaction_capture, start_interaction, complete_interaction).
THEOREM CompletionIsAlwaysReal == Spec => []CompletionIsReal
<1>1. Init => TypeInv /\ CompletionInv
  BY InitType, InitCompletion
<1>2. TypeInv /\ CompletionInv /\ [Next]_vars => (TypeInv /\ CompletionInv)'
  <2>1. TypeInv /\ CompletionInv /\ UNCHANGED vars => CompletionInv'
    BY DEF CompletionInv, RealEnds, RealEnd, ReportIsReal, InlinedInput, vars
  <2> QED
    BY <2>1, NextType, PaneCompletion, DaemonCompletion DEF Next
<1>3. TypeInv /\ CompletionInv => CompletionIsReal
  BY CaptureAssumption DEF CompletionInv, ReportIsReal, CompletionIsReal
<1> QED
  BY <1>1, <1>2, <1>3, PTL DEF Spec

----------------------------------------------------------------------------
(* Baselines. *)

\* As long as the pane was not cleared since, a baseline is a prefix of the
\* screen, and the boundary is no longer than the screen was at the latest
\* submission; nor is a snapshot that is about to become the boundary.
BaselineInv ==
  /\ history.submitted <= Len(screen)
  /\ history.sinceFull => IsPrefixOf(observation.full, screen)
  /\ history.sinceBoundary =>
       /\ IsPrefixOf(observation.boundary, screen)
       /\ Len(observation.boundary) <= history.submitted
  /\ (/\ call.at \in {"probe", "redeliver", "record"}
      /\ ResetsBoundary(call.mode)
      /\ history.sinceFull) => Len(observation.full) <= history.submitted

\* A sequence and the empty one are prefixes of it.
LEMMA PrefixOfItself ==
  ASSUME NEW S, NEW s \in Seq(S)
  PROVE  IsPrefixOf(s, s) /\ IsPrefixOf(<<>>, s)
<1>1. Len(s) \in Nat /\ SubSeq(s, 1, Len(s)) = s
  BY SubSeqFull, LenProperties
<1>2. Len(<<>>) = 0 /\ SubSeq(s, 1, 0) = <<>>
  BY SubSeqEmpty
<1> QED
  BY <1>1, <1>2 DEF IsPrefixOf

\* A prefix stays one when lines are added.
LEMMA PrefixStays ==
  ASSUME NEW S, NEW p \in Seq(S), NEW s \in Seq(S), NEW t \in Seq(S), IsPrefixOf(p, s)
  PROVE  IsPrefixOf(p, s \o t)
<1>1. /\ Len(p) \in Nat /\ Len(s) \in Nat /\ Len(t) \in Nat
      /\ Len(p) <= Len(s) /\ SubSeq(s, 1, Len(p)) = p
  BY LenProperties DEF IsPrefixOf
<1>2. Len(s \o t) = Len(s) + Len(t)
  BY ConcatProperties
<1>3. SubSeq(s \o t, 1, Len(p)) = SubSeq(s, 1, Len(p))
  BY <1>1, SubSeqOfConcat1
<1> QED
  BY <1>1, <1>2, <1>3 DEF IsPrefixOf

\* The shorter of two suffixes ends the longer.
LEMMA SuffixEnds ==
  ASSUME NEW S, NEW s \in Seq(S), NEW a \in Nat, NEW b \in Nat, a <= b, b <= Len(s)
  PROVE  LET long == SubSeq(s, a + 1, Len(s))
             short == SubSeq(s, b + 1, Len(s))
         IN  /\ Len(short) <= Len(long)
             /\ SubSeq(long, Len(long) - Len(short) + 1, Len(long)) = short
<1> DEFINE n == Len(s)
           long == SubSeq(s, a + 1, n)
           short == SubSeq(s, b + 1, n)
           last == SubSeq(long, b - a + 1, n - a)
<1>1. n \in Nat /\ \A i \in 1..n : s[i] \in S
  BY LenProperties, ElementOfSeq
<1>2. /\ long \in Seq(S) /\ Len(long) = n - a
      /\ \A i \in 1..n - a : long[i] = s[a + i]
  <2>1. a + 1 \in Int /\ n \in Int /\ \A i \in a + 1..n : s[i] \in S
    BY <1>1
  <2>2. /\ long \in Seq(S)
        /\ Len(long) = IF a + 1 <= n THEN n - (a + 1) + 1 ELSE 0
        /\ \A i \in 1..n - (a + 1) + 1 : long[i] = s[(a + 1) + i - 1]
    BY <2>1, SubSeqProperties
  <2> HIDE DEF long
  <2>3. Len(long) = n - a
    BY <1>1, <2>2
  <2>4. ASSUME NEW i \in 1..n - a PROVE long[i] = s[a + i]
    <3>1. i \in 1..n - (a + 1) + 1 /\ (a + 1) + i - 1 = a + i
      BY <1>1
    <3> QED
      BY <2>2, <3>1
  <2> QED
    BY <2>2, <2>3, <2>4
<1>3. /\ short \in Seq(S) /\ Len(short) = n - b
      /\ \A i \in 1..n - b : short[i] = s[b + i]
  <2>1. b + 1 \in Int /\ n \in Int /\ \A i \in b + 1..n : s[i] \in S
    BY <1>1
  <2>2. /\ short \in Seq(S)
        /\ Len(short) = IF b + 1 <= n THEN n - (b + 1) + 1 ELSE 0
        /\ \A i \in 1..n - (b + 1) + 1 : short[i] = s[(b + 1) + i - 1]
    BY <2>1, SubSeqProperties
  <2> HIDE DEF short
  <2>3. Len(short) = n - b
    BY <1>1, <2>2
  <2>4. ASSUME NEW i \in 1..n - b PROVE short[i] = s[b + i]
    <3>1. i \in 1..n - (b + 1) + 1 /\ (b + 1) + i - 1 = b + i
      BY <1>1
    <3> QED
      BY <2>2, <3>1
  <2> QED
    BY <2>2, <2>3, <2>4
<1> HIDE DEF long, short
<1>4. /\ last \in Seq(S) /\ Len(last) = n - b
      /\ \A i \in 1..n - b : last[i] = s[b + i]
  <2>1. /\ b - a + 1 \in Int /\ n - a \in Int
        /\ \A i \in b - a + 1..n - a : long[i] \in S
    <3>1. \A i \in b - a + 1..n - a : i \in 1..n - a /\ a + i \in 1..n
      BY <1>1
    <3> QED
      BY <1>1, <1>2, <3>1
  <2>2. /\ last \in Seq(S)
        /\ Len(last) = IF b - a + 1 <= n - a THEN (n - a) - (b - a + 1) + 1 ELSE 0
        /\ \A i \in 1..(n - a) - (b - a + 1) + 1 : last[i] = long[(b - a + 1) + i - 1]
    BY <2>1, SubSeqProperties
  <2> HIDE DEF last
  <2>3. Len(last) = n - b
    BY <1>1, <2>2
  <2>4. ASSUME NEW i \in 1..n - b PROVE last[i] = s[b + i]
    <3>1. /\ i \in 1..(n - a) - (b - a + 1) + 1
          /\ (b - a + 1) + i - 1 = b - a + i
          /\ b - a + i \in 1..n - a
          /\ a + (b - a + i) = b + i
      BY <1>1
    <3> QED
      BY <1>2, <2>2, <3>1
  <2> QED
    BY <2>2, <2>3, <2>4
<1>5. last = short
  <2> HIDE DEF last
  <2> QED
    BY <1>3, <1>4, SeqEqual
<1>6. Len(long) - Len(short) + 1 = b - a + 1 /\ Len(short) <= Len(long)
  BY <1>1, <1>2, <1>3
<1> QED
  BY <1>2, <1>5, <1>6 DEF long, short

\* A step of the pane other than a clear adds lines to the screen.
LEMMA PaneGrows ==
  ASSUME TypeInv, Pane, ~Clear
  PROVE  /\ \E shown \in Seq(ScreenLines) : screen' = screen \o shown
         /\ UNCHANGED <<observation, call, history.submitted, history.sinceFull,
                        history.sinceBoundary>>
<1>1. TypeOK /\ screen \in Seq(ScreenLines) /\ shell \in ShellStates /\ history \in Histories
  BY DEF TypeInv, TypeOK
<1>2. UNCHANGED <<observation, call>>
  BY DEF Pane, RunInline, RunWrapped, RunBootstrap, RefuseWrapped, RunPlain,
         Finish, Abort, Clear, NewShell, PrintLine
<1>3. UNCHANGED <<history.submitted, history.sinceFull, history.sinceBoundary>>
  <2>1. ASSUME NEW shown, NEW defined, Begin(shown, defined)
        PROVE  UNCHANGED <<history.submitted, history.sinceFull, history.sinceBoundary>>
    BY <1>1, <2>1 DEF Begin, Histories
  <2>2. CASE RunInline \/ RunWrapped \/ RunBootstrap \/ RunPlain
    BY <2>1, <2>2 DEF RunInline, RunWrapped, RunBootstrap, RunPlain
  <2>3. CASE Finish
    BY <1>1, <2>3 DEF Finish, Histories
  <2>4. CASE RefuseWrapped \/ Abort \/ NewShell \/ \E x \in Lines : PrintLine(x)
    BY <2>4 DEF RefuseWrapped, Abort, NewShell, PrintLine
  <2> QED
    BY <2>2, <2>3, <2>4 DEF Pane
<1>4. screen' = screen \o <<>> => \E shown \in Seq(ScreenLines) : screen' = screen \o shown
  <2>1. <<>> \in Seq(ScreenLines)
    BY EmptySeq
  <2> QED
    BY <2>1
<1>5. UNCHANGED screen => screen' = screen \o <<>>
  BY <1>1, ConcatEmptySeq
<1> SUFFICES \E shown \in Seq(ScreenLines) : screen' = screen \o shown
  BY <1>2, <1>3
<1>6. ASSUME NEW l \in ScreenLines, screen' = screen \o <<l>>
      PROVE  \E shown \in Seq(ScreenLines) : screen' = screen \o shown
  BY <1>6, OneLine
<1>7. CASE RunInline
  <2> DEFINE i == Head(shell.input).id
  <2>1. i \in Interactions
    BY <1>1, <1>7, NextLine DEF RunInline
  <2>2. PICK echo \in Echoes(i) : Begin(Append(echo, Start(i)), shell.defined)
    BY <1>7 DEF RunInline
  <2>3. Append(echo, Start(i)) \in Seq(ScreenLines)
    BY <2>1, InlineEchoType
  <2> QED
    BY <2>2, <2>3 DEF Begin, Show
<1>8. CASE RunWrapped \/ RunBootstrap
  <2> DEFINE i == Head(shell.input).id
  <2>1. i \in Interactions
    <3>1. Reads("clean") \/ Reads("bootstrap")
      BY <1>8 DEF RunWrapped, RunBootstrap
    <3>2. CASE Reads("clean")
      BY <1>1, <3>2, NextLine
    <3>3. CASE Reads("bootstrap")
      BY <1>1, <3>3, NextLine
    <3> QED
      BY <3>1, <3>2, <3>3
  <2>2. Start(i) \in ScreenLines /\ screen' = screen \o <<Start(i)>>
    BY <1>8, <2>1 DEF ScreenLines, Start, RunWrapped, RunBootstrap, Begin, Show
  <2> QED
    BY <1>6, <2>2
<1>9. CASE RunPlain
  BY <1>4, <1>9 DEF RunPlain, Begin, Show
<1>10. CASE RefuseWrapped
  BY <1>6, <1>10 DEF RefuseWrapped, Show, ScreenLines
<1>11. CASE Finish
  <2>1. CASE shell.command.form = "plain"
    BY <1>4, <1>5, <1>11, <2>1 DEF Finish
  <2>2. CASE shell.command.form # "plain"
    <3>1. shell.command.id \in Interactions
      BY <1>1, <2>2 DEF ShellStates, Commands, Wrapped, NoCommand
    <3>2. PICK c \in Codes : screen' = screen \o <<End(shell.command.id, c)>>
      BY <1>11, <2>2 DEF Finish, Show
    <3>3. End(shell.command.id, c) \in ScreenLines
      BY <3>1 DEF ScreenLines, End
    <3> QED
      BY <1>6, <3>2, <3>3
  <2> QED
    BY <2>1, <2>2
<1>12. CASE Abort \/ NewShell
  BY <1>4, <1>5, <1>12 DEF Abort, NewShell
<1>13. CASE \E x \in Lines : PrintLine(x)
  <2>1. PICK x \in Lines : screen' = screen \o <<Plain(x)>>
    BY <1>13 DEF PrintLine, Show
  <2>2. Plain(x) \in ScreenLines
    BY DEF ScreenLines, Plain
  <2> QED
    BY <1>6, <2>1, <2>2
<1> QED
  BY <1>7, <1>8, <1>9, <1>10, <1>11, <1>12, <1>13 DEF Pane

\* The initial states: the screen is the baseline, or there is none.
LEMMA InitBaseline == Init => BaselineInv
<1> SUFFICES ASSUME Init PROVE BaselineInv
  OBVIOUS
<1>1. screen \in Seq(ScreenLines) /\ Len(screen) \in Nat
  BY InitType, LenProperties DEF TypeInv, TypeOK
<1>2. IsPrefixOf(screen, screen) /\ IsPrefixOf(<<>>, screen) /\ Len(<<>>) = 0
  BY <1>1, PrefixOfItself
<1>3. observation.full \in {<<>>, screen} /\ observation.boundary \in {<<>>, screen}
  <2>1. /\ NoObservation \in Observations
        /\ NoObservation.full = <<>> /\ NoObservation.boundary = <<>>
    BY DEF NoObservation, Observations
  <2>2. \A o \in Observations :
          LET b == ResetCommandBoundary(UpdateFullSnapshot(o, screen))
          IN  b.full = screen /\ b.boundary = screen
    BY <1>1 DEF Observations, ResetCommandBoundary, UpdateFullSnapshot
  <2> QED
    BY <2>1, <2>2 DEF Init
<1>4. history.submitted = Len(screen) /\ call.at = "idle"
  BY DEF Init, NoCall
<1> QED
  BY <1>1, <1>2, <1>3, <1>4 DEF BaselineInv

\* The steps of the pane keep it.
LEMMA PaneBaseline == TypeInv /\ BaselineInv /\ Pane => BaselineInv'
<1> SUFFICES ASSUME TypeInv, BaselineInv, Pane PROVE BaselineInv'
  OBVIOUS
<1>1. /\ screen \in Seq(ScreenLines) /\ history \in Histories
      /\ observation.full \in Seq(ScreenLines) /\ observation.boundary \in Seq(ScreenLines)
  BY DEF TypeInv, TypeOK, Observations
<1>2. CASE Clear
  <2>1. /\ history'.submitted = 0 /\ ~history'.sinceFull /\ ~history'.sinceBoundary
        /\ screen' = <<>>
    BY <1>1, <1>2 DEF Clear, Histories
  <2> QED
    BY <2>1 DEF BaselineInv
<1>3. CASE ~Clear
  <2>1. PICK shown \in Seq(ScreenLines) : screen' = screen \o shown
    BY <1>3, PaneGrows
  <2>2. UNCHANGED <<observation, call, history.submitted, history.sinceFull,
                    history.sinceBoundary>>
    BY <1>3, PaneGrows
  <2>3. /\ Len(screen') = Len(screen) + Len(shown)
        /\ Len(screen) \in Nat /\ Len(shown) \in Nat /\ history.submitted \in Nat
    BY <1>1, <2>1, ConcatProperties, LenProperties DEF Histories
  <2>4. \A p \in Seq(ScreenLines) : IsPrefixOf(p, screen) => IsPrefixOf(p, screen')
    BY <1>1, <2>1, PrefixStays
  <2>5. history'.submitted <= Len(screen')
    BY <2>2, <2>3 DEF BaselineInv
  <2> QED
    BY <1>1, <2>2, <2>4, <2>5 DEF BaselineInv, ResetsBoundary, ClearsAttachedInput,
       Pane, RunInline, RunWrapped, RunBootstrap, RefuseWrapped, RunPlain,
       Finish, Abort, Clear, NewShell, PrintLine
<1> QED
  BY <1>2, <1>3

\* What the steps of the daemon make of the baselines of an observation.
LEMMA Baselines ==
  ASSUME NEW o \in Observations, NEW content \in Seq(ScreenLines)
  PROVE  /\ ObserveSnapshot(o, content).full = content
         /\ ObserveSnapshot(o, content).boundary = o.boundary
         /\ ResetCommandBoundary(o).full = o.full
         /\ ResetCommandBoundary(o).boundary = o.full
         /\ UpdateFullSnapshot(o, content).full = content
         /\ UpdateFullSnapshot(o, content) \in Observations
<1>1. /\ UpdateFullSnapshot(o, content) \in Observations
      /\ UpdateFullSnapshot(o, content).full = content
      /\ UpdateFullSnapshot(o, content).boundary = o.boundary
  BY DEF Observations, UpdateFullSnapshot
<1>2. \A c : \A p \in Observations :
        /\ CompleteInteraction(p, c).full = p.full
        /\ CompleteInteraction(p, c).boundary = p.boundary
  BY DEF Observations, CompleteInteraction
<1>3. /\ ObserveSnapshot(o, content).full = content
      /\ ObserveSnapshot(o, content).boundary = o.boundary
  BY <1>1, <1>2 DEF ObserveSnapshot
<1>4. /\ ResetCommandBoundary(o).full = o.full
      /\ ResetCommandBoundary(o).boundary = o.full
  BY DEF Observations, ResetCommandBoundary
<1> QED
  BY <1>1, <1>3, <1>4

\* A delivery moves the submission forward, to the end of the screen if the call
\* resets the boundary.
LEMMA DeliverBaseline ==
  ASSUME TypeInv, BaselineInv, history' = Delivered(call.command)
  PROVE  /\ history'.submitted \in {history.submitted, Len(screen)}
         /\ history.submitted <= history'.submitted
         /\ ResetsBoundary(call.mode) => history'.submitted = Len(screen)
         /\ UNCHANGED <<history.sinceFull, history.sinceBoundary>>
<1>1. history \in Histories /\ Len(screen) \in Nat
  BY LenProperties DEF TypeInv, TypeOK
<1>2. /\ history'.submitted = IF call.mode \in {"type", "raw", "keys"}
                              THEN history.submitted ELSE Len(screen)
      /\ UNCHANGED <<history.sinceFull, history.sinceBoundary>>
  BY <1>1 DEF Delivered, Histories
<1>3. ResetsBoundary(call.mode) => call.mode \notin {"type", "raw", "keys"}
  BY DEF ResetsBoundary
<1> QED
  BY <1>1, <1>2, <1>3 DEF BaselineInv, Histories

\* The steps of the daemon keep it.
LEMMA DaemonBaseline == TypeInv /\ BaselineInv /\ Daemon => BaselineInv'
<1> SUFFICES ASSUME TypeInv, BaselineInv, Daemon PROVE BaselineInv'
  OBVIOUS
<1>1. /\ screen \in Seq(ScreenLines) /\ Len(screen) \in Nat
      /\ history \in Histories /\ history.submitted \in Nat
      /\ observation \in Observations /\ call \in Calls
      /\ observation.full \in Seq(ScreenLines) /\ observation.boundary \in Seq(ScreenLines)
      /\ Len(observation.full) \in Nat /\ Len(observation.boundary) \in Nat
  BY LenProperties DEF TypeInv, TypeOK, Observations, Histories
<1>2. UNCHANGED <<screen, binding>>
  BY DEF Daemon, Capture, Wait, BeginSend, Deliver, Probe, Redeliver, SendFails, Record
<1>3. IsPrefixOf(screen, screen)
  BY <1>1, PrefixOfItself
<1>4. CASE Capture \/ Wait
  <2>1. /\ observation'.full = screen /\ observation'.boundary = observation.boundary
        /\ call' = call /\ call.at = "idle"
    <3>1. /\ observation' = ObserveSnapshot(observation, screen)
          /\ call' = call /\ call.at = "idle"
      BY <1>4 DEF Capture, Wait
    <3>2. /\ ObserveSnapshot(observation, screen).full = screen
          /\ ObserveSnapshot(observation, screen).boundary = observation.boundary
      BY <1>1, Baselines
    <3> QED
      BY <3>1, <3>2
  <2>2. UNCHANGED <<history.submitted, history.sinceBoundary>>
    BY <1>1, <1>4 DEF Capture, Wait, Histories
  <2> QED
    BY <1>2, <1>3, <2>1, <2>2 DEF BaselineInv
<1>5. CASE \E mode \in Modes : BeginSend(mode)
  <2>1. PICK mode \in Modes : BeginSend(mode)
    BY <1>5
  <2>2. call'.at = "deliver"
    BY <2>1 DEF BeginSend
  <2>3. CASE ClearsAttachedInput(mode)
    <3>1. observation'.full = screen /\ observation'.boundary = screen
      <4>1. observation' = ResetCommandBoundary(UpdateFullSnapshot(observation, screen))
        BY <2>1, <2>3 DEF BeginSend
      <4>2. /\ UpdateFullSnapshot(observation, screen) \in Observations
            /\ UpdateFullSnapshot(observation, screen).full = screen
        BY <1>1, Baselines
      <4> DEFINE taken == UpdateFullSnapshot(observation, screen)
      <4> HIDE DEF taken
      <4>3. /\ ResetCommandBoundary(taken).full = taken.full
            /\ ResetCommandBoundary(taken).boundary = taken.full
        BY <1>1, <4>2, Baselines DEF taken
      <4> QED
        BY <4>1, <4>2, <4>3 DEF taken
    <3>2. history'.submitted = Len(screen)
      BY <1>1, <2>1, <2>3 DEF BeginSend, Histories
    <3> QED
      BY <1>1, <1>2, <1>3, <2>2, <3>1, <3>2 DEF BaselineInv
  <2>4. CASE ~ClearsAttachedInput(mode)
    <3>1. UNCHANGED <<observation, history>>
      BY <2>1, <2>4 DEF BeginSend
    <3> QED
      BY <1>2, <2>2, <3>1 DEF BaselineInv
  <2> QED
    BY <2>3, <2>4
<1>6. CASE Deliver \/ Redeliver
  <2>1. /\ history' = Delivered(call.command) /\ call'.mode = call.mode
        /\ UNCHANGED observation
    BY <1>1, <1>6 DEF Deliver, Redeliver, Calls
  <2>2. ResetsBoundary(call'.mode) => history'.submitted = Len(screen)
    BY <1>2, <2>1, DeliverBaseline
  <2>3. history.sinceFull => Len(observation.full) <= Len(screen)
    BY DEF BaselineInv, IsPrefixOf
  <2>4. /\ history'.submitted \in Nat /\ history'.submitted <= Len(screen)
        /\ history.submitted <= history'.submitted
        /\ UNCHANGED <<history.sinceFull, history.sinceBoundary>>
    BY <1>1, <2>1, DeliverBaseline DEF BaselineInv
  <2>5. ResetsBoundary(call.mode)' <=> ResetsBoundary(call'.mode)
    BY <1>2 DEF ResetsBoundary, ClearsAttachedInput
  <2> QED
    BY <1>1, <1>2, <2>1, <2>2, <2>3, <2>4, <2>5 DEF BaselineInv
<1>7. CASE SendFails
  <2>1. UNCHANGED observation /\ call'.at = "idle"
    BY <1>7 DEF SendFails, NoCall
  <2>2. history' = history \/ history' = Delivered(call.command)
    BY <1>7 DEF SendFails
  <2>3. /\ history'.submitted \in Nat /\ history'.submitted <= Len(screen)
        /\ history.submitted <= history'.submitted
        /\ UNCHANGED <<history.sinceFull, history.sinceBoundary>>
    BY <1>1, <2>2, DeliverBaseline DEF BaselineInv
  <2> QED
    BY <1>1, <1>2, <2>1, <2>3 DEF BaselineInv
<1>8. CASE Probe
  <2>1. /\ UNCHANGED <<observation, history>> /\ call.at = "probe"
        /\ call'.mode = call.mode
    BY <1>1, <1>8 DEF Probe, Calls
  <2>2. ResetsBoundary(call.mode)' <=> ResetsBoundary(call.mode)
    BY <1>2, <2>1 DEF ResetsBoundary, ClearsAttachedInput
  <2> QED
    BY <1>2, <2>1, <2>2 DEF BaselineInv
<1>9. CASE Record
  <2> DEFINE sent == EnterInteraction(LearnWrapper(observation))
  <2>1. /\ sent \in Observations
        /\ sent.full = observation.full /\ sent.boundary = observation.boundary
    <3>1. /\ LearnWrapper(observation) \in Observations
          /\ LearnWrapper(observation).full = observation.full
          /\ LearnWrapper(observation).boundary = observation.boundary
      BY <1>1 DEF LearnWrapper, Observations
    <3>2. call.command.id \in Interactions \union {NoInteraction}
      BY <1>1 DEF Calls, Commands, Wrapped, NoCommand
    <3> QED
      BY <3>1, <3>2 DEF EnterInteraction, StartInteraction, Observations
  <2> HIDE DEF sent
  <2>2. call.at = "record" /\ call'.at = "idle"
    BY <1>9 DEF Record, NoCall
  <2>3. CASE ResetsBoundary(call.mode)
    <3>1. observation'.full = observation.full /\ observation'.boundary = observation.full
      <4>1. observation' = ResetCommandBoundary(sent)
        BY <1>9, <2>3 DEF Record, sent
      <4> QED
        BY <1>1, <2>1, <4>1, Baselines
    <3>2. /\ UNCHANGED <<history.submitted, history.sinceFull>>
          /\ history'.sinceBoundary = history.sinceFull
      BY <1>1, <1>9, <2>3 DEF Record, Histories
    <3> QED
      BY <1>2, <2>2, <2>3, <3>1, <3>2 DEF BaselineInv
  <2>4. CASE ~ResetsBoundary(call.mode)
    <3>1. observation' = sent /\ history' = history
      BY <1>9, <2>4 DEF Record, sent
    <3> QED
      BY <1>2, <2>1, <2>2, <3>1 DEF BaselineInv
  <2> QED
    BY <2>3, <2>4
<1> QED
  BY <1>4, <1>5, <1>6, <1>7, <1>8, <1>9 DEF Daemon

\* Unless the pane was cleared since the boundary was taken, a current capture
\* without markers keeps all that appeared after the latest submission
\* (reset_command_boundary, prepare_attached_send_boundary, suffix_after_baseline).
THEOREM CurrentAlwaysKeepsOutput == Spec => []CurrentKeepsOutput
<1>1. Init => TypeInv /\ BaselineInv
  BY InitType, InitBaseline
<1>2. TypeInv /\ BaselineInv /\ [Next]_vars => (TypeInv /\ BaselineInv)'
  <2>1. TypeInv /\ BaselineInv /\ UNCHANGED vars => BaselineInv'
    BY DEF BaselineInv, ResetsBoundary, ClearsAttachedInput, vars
  <2> QED
    BY <2>1, NextType, PaneBaseline, DaemonBaseline DEF Next
<1>3. TypeInv /\ BaselineInv => CurrentKeepsOutput
  <2> SUFFICES ASSUME TypeInv, BaselineInv, history.sinceBoundary,
                      ~Marked(screen, observation.interaction)
               PROVE  LET output == SubSeq(screen, history.submitted + 1, Len(screen))
                      IN  /\ Len(output) <= Len(Current)
                          /\ SubSeq(Current, Len(Current) - Len(output) + 1, Len(Current))
                               = output
    BY DEF CurrentKeepsOutput
  <2>1. /\ screen \in Seq(ScreenLines) /\ Len(screen) \in Nat
        /\ Len(observation.boundary) \in Nat /\ history.submitted \in Nat
    BY LenProperties DEF TypeInv, TypeOK, Observations, Histories
  <2>2. /\ Len(observation.boundary) <= history.submitted
        /\ history.submitted <= Len(screen)
    BY DEF BaselineInv
  <2>3. Current = SubSeq(screen, Len(observation.boundary) + 1, Len(screen))
    BY DEF BaselineInv, Current, SuffixAfterBaseline
  <2> QED
    BY <2>1, <2>2, <2>3, SuffixEnds
<1> QED
  BY <1>1, <1>2, <1>3, PTL DEF Spec
----------------------------------------------------------------------------
(* Pages. *)

\* A part of a sequence of lines is one.
LEMMA PartOfLines ==
  ASSUME NEW s \in Seq(ScreenLines), NEW m \in Nat, NEW n \in Nat, n <= Len(s)
  PROVE  SubSeq(s, m + 1, n) \in Seq(ScreenLines)
<1>1. \A k \in m + 1..n : s[k] \in ScreenLines
  <2>1. \A k \in 1..Len(s) : s[k] \in ScreenLines
    BY ElementOfSeq
  <2>2. Len(s) \in Nat
    BY LenProperties
  <2> QED
    BY <2>1, <2>2
<1> QED
  BY <1>1, SubSeqProperties

\* What parse_interaction_capture takes between its markers is lines of the pane.
LEMMA MarkedBodyType ==
  ASSUME NEW content \in Seq(ScreenLines), NEW i, Marked(content, i)
  PROVE  MarkedBody(content, i) \in Seq(ScreenLines)
<1> DEFINE first == FirstStart(content, i)
           last == IF MarkedDone(content, i) THEN FirstEnd(content, i) - 1 ELSE Len(content)
<1>1. Len(content) \in Nat
  BY LenProperties
<1>2. first \in Nat
  <2>1. StartsOf(content, i) # {} /\ StartsOf(content, i) \subseteq Nat
    BY DEF Marked, StartsOf
  <2>2. FirstStart(content, i) \in StartsOf(content, i)
    BY <2>1, LeastNatural DEF FirstStart
  <2> QED
    BY <2>1, <2>2
<1>3. last \in Nat /\ last <= Len(content)
  <2>1. CASE MarkedDone(content, i)
    <3>1. FirstEnd(content, i) \in 1..Len(content)
      BY <2>1, FirstEndIsEnd
    <3> QED
      BY <1>1, <2>1, <3>1
  <2>2. CASE ~MarkedDone(content, i)
    BY <1>1, <2>2
  <2> QED
    BY <2>1, <2>2
<1>4. MarkedBody(content, i) = SubSeq(content, first + 1, last)
  BY DEF MarkedBody
<1> HIDE DEF first, last
<1> QED
  BY <1>2, <1>3, <1>4, PartOfLines

\* What is captured as current is a sequence of lines.
LEMMA CurrentType == TypeOK => Current \in Seq(ScreenLines)
<1> SUFFICES ASSUME TypeOK  PROVE Current \in Seq(ScreenLines)
  OBVIOUS
<1>1. screen \in Seq(ScreenLines) /\ observation.boundary \in Seq(ScreenLines)
  BY DEF TypeOK, Observations
<1>2. CASE Marked(screen, observation.interaction)
  BY <1>1, <1>2, MarkedBodyType DEF Current
<1>3. CASE ~Marked(screen, observation.interaction)
  <2>1. Len(observation.boundary) \in Nat /\ Len(screen) \in Nat
    BY <1>1, LenProperties
  <2>2. SubSeq(screen, Len(observation.boundary) + 1, Len(screen)) \in Seq(ScreenLines)
    BY <1>1, <2>1, PartOfLines
  <2> QED
    BY <1>1, <1>3, <2>2 DEF Current, SuffixAfterBaseline
<1> QED
  BY <1>2, <1>3

\* Following cursors through a current capture reads every line once, whatever
\* the capture holds (line_window, parse_line_cursor).
THEOREM PagesAlwaysJoin == Spec => []PagesJoin
<1>1. TypeOK => PagesJoin
  <2> DEFINE content == Current
             next(offset, limit) == WindowEnd(content, offset, limit)
             page(offset, limit) == LineWindow(content, offset, limit)
  <2>1. SUFFICES ASSUME TypeOK, NEW offset \in 0..Len(content), NEW limit \in 1..2
        PROVE  LET rest == IF HasNextCursor(content, offset, limit)
                           THEN LineWindow(content, next(offset, limit), 0) ELSE <<>>
               IN  /\ page(offset, limit) \o rest = page(offset, 0)
                   /\ HasNextCursor(content, offset, limit) => next(offset, limit) > offset
    BY DEF PagesJoin
  <2>2. content \in Seq(ScreenLines) /\ Len(content) \in Nat
    BY <2>1, CurrentType, LenProperties
  <2> HIDE DEF content
  <2>3. offset \in Nat /\ offset <= Len(content) /\ limit \in Nat \ {0}
    BY <2>1, <2>2
  <2>4. CASE HasNextCursor(content, offset, limit)
    <3>1. /\ next(offset, limit) > offset
          /\ page(offset, limit) \o LineWindow(content, next(offset, limit), 0) = page(offset, 0)
      BY <2>2, <2>3, <2>4, PagesJoinAlways
    <3> HIDE DEF next, page
    <3> QED
      BY <2>4, <3>1
  <2>5. CASE ~HasNextCursor(content, offset, limit)
    <3>1. next(offset, limit) = Len(content) /\ WindowEnd(content, offset, 0) = Len(content)
      BY <2>2, <2>3, <2>5 DEF HasNextCursor, WindowEnd, Min2
    <3>2. page(offset, limit) = page(offset, 0)
      BY <3>1 DEF LineWindow
    <3>3. page(offset, limit) \in Seq(ScreenLines)
      <4>1. SubSeq(content, offset + 1, Len(content)) \in Seq(ScreenLines)
        BY <2>2, <2>3, PartOfLines
      <4>2. page(offset, limit) \in {<<>>, SubSeq(content, offset + 1, Len(content))}
        BY <3>1 DEF LineWindow
      <4>3. <<>> \in Seq(ScreenLines)
        OBVIOUS
      <4> HIDE DEF page
      <4> DEFINE long == SubSeq(content, offset + 1, Len(content))
      <4> HIDE DEF long
      <4> QED
        BY <4>1, <4>2, <4>3 DEF long
    <3> HIDE DEF next, page
    <3>4. page(offset, limit) \o <<>> = page(offset, limit)
      BY <3>3, ConcatEmptySeq
    <3> QED
      BY <2>5, <3>2, <3>4
  <2> QED
    BY <2>4, <2>5
<1> QED
  BY <1>1, CaptureTypeCorrect, PTL

=============================================================================
