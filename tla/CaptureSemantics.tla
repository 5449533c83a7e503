-------------------------- MODULE CaptureSemantics --------------------------
(***************************************************************************)
(* What a caller reads of a pane: the full, delta and current captures,    *)
(* the markers the daemon wraps a command line in, and what wait and       *)
(* capture report of its completion (services/terminal.rs and              *)
(* domain/observation.rs), for one handle and one call at a time.  The     *)
(* pane lives on between the steps of a send: its shell reads, runs and    *)
(* finishes lines, the user prints, clears the screen, or starts a new     *)
(* shell.                                                                  *)
(*                                                                         *)
(* A screen, with its scrollback, is a sequence of lines.  A marker is a   *)
(* line of its own; an echoed command line counts only for the markers     *)
(* that can be read in it.                                                 *)
(***************************************************************************)
EXTENDS Naturals, Sequences, FiniteSets

CONSTANTS
  Interactions,    \* the zi_<uuid> interaction ids that can be allocated
  NoInteraction,   \* interaction_id = None
  Shells,          \* the kinds of program the pane may have been launched with
  Sources,         \* the ways the handle may have been made
  Modes,           \* the kinds of send the caller makes
  Lines,           \* the lines programs and users print
  Codes,           \* exit codes
  NoCode,          \* interaction_exit_code = None
  MaxShown,        \* bound: lines ever shown
  MaxInput         \* bound: lines typed ahead of the shell

AllShells == {"posix", "fish", "other"}   \* sh, bash or zsh; fish; any other

\* The sends that submit a line of text; "type", a legacy send of text without
\* submit; "raw", text as raw input; "keys", keys without submit; and
\* "keys_submit", a legacy send of keys with submit=true.
LineModes == {"legacy", "submit_line"}
TextModes == LineModes \union {"type"}
AllModes == TextModes \union {"raw", "keys", "keys_submit"}

ASSUME CaptureAssumption ==
  /\ NoInteraction \notin Interactions
  /\ NoCode \notin Codes
  /\ NoCode \notin Lines
  /\ Shells \subseteq AllShells
  /\ Sources \subseteq {"spawned", "attached"}
  /\ Modes \subseteq AllModes
  /\ MaxShown \in Nat
  /\ MaxInput \in Nat

VARIABLES
  screen,       \* the lines a full capture of the pane returns
  shell,        \* the program in the pane
  binding,      \* source of the handle and kind of its launch command
  observation,  \* the stored TerminalObservation of the handle
  call,         \* the send in progress
  history       \* what really happened, for the properties only

vars == <<screen, shell, binding, observation, call, history>>

----------------------------------------------------------------------------
(* Lines of a screen. *)

Plain(x)   == [kind |-> "line", id |-> NoInteraction, arg |-> x]
Start(i)   == [kind |-> "start", id |-> i, arg |-> NoCode]
End(i, c)  == [kind |-> "end", id |-> i, arg |-> c]
Unknown    == [kind |-> "unknown", id |-> NoInteraction, arg |-> NoCode]

ScreenLines ==
  UNION {[kind : {"line"}, id : {NoInteraction}, arg : Lines],
         [kind : {"start"}, id : Interactions, arg : {NoCode}],
         [kind : {"end"}, id : Interactions, arg : Codes \union {NoCode}],
         {Unknown}}

\* The inline script names both markers, and the shell echoes it: the markers
\* can be read in the echo, unless the pane is so narrow that it breaks them.
\* The status in the echo is the format directive, which is no number.
Echoes(i) == {<<>>, <<Start(i)>>, <<End(i, NoCode)>>, <<Start(i), End(i, NoCode)>>}

\* What a send types: a line wrapped in one of three ways, which has an id, or
\* the text as it is.
NoCommand == [form |-> "plain", id |-> NoInteraction]
Wrapped == [form : {"inline", "bootstrap", "clean"}, id : Interactions]
Commands == Wrapped \union {NoCommand}

Min2(a, b) == IF a < b THEN a ELSE b

----------------------------------------------------------------------------
(* Reading a snapshot. *)

IsPrefixOf(s, t) == Len(s) <= Len(t) /\ SubSeq(t, 1, Len(s)) = s

\* A baseline of None is the empty one: both leave the whole content.
SuffixAfterBaseline(content, baseline) ==
  IF IsPrefixOf(baseline, content)
  THEN SubSeq(content, Len(baseline) + 1, Len(content))
  ELSE content

StartsOf(content, i) == {k \in DOMAIN content : content[k] = Start(i)}

FirstStart(content, i) ==
  CHOOSE k \in StartsOf(content, i) : \A j \in StartsOf(content, i) : k <= j

EndsOf(content, i) ==
  {k \in DOMAIN content : /\ k > FirstStart(content, i)
                          /\ content[k].kind = "end"
                          /\ content[k].id = i}

FirstEnd(content, i) ==
  CHOOSE k \in EndsOf(content, i) : \A j \in EndsOf(content, i) : k <= j

\* parse_interaction_capture: whether the start marker is there, and then the
\* body, whether the end marker follows, and the exit code it carries.
Marked(content, i) == i # NoInteraction /\ StartsOf(content, i) # {}
MarkedDone(content, i) == Marked(content, i) /\ EndsOf(content, i) # {}

MarkedCode(content, i) ==
  IF MarkedDone(content, i) THEN content[FirstEnd(content, i)].arg ELSE NoCode

MarkedBody(content, i) ==
  SubSeq(content, FirstStart(content, i) + 1,
         IF MarkedDone(content, i) THEN FirstEnd(content, i) - 1 ELSE Len(content))

\* What a delta and a current capture would return now; a full one returns screen.
Delta == SuffixAfterBaseline(screen, observation.full)

Current ==
  IF Marked(screen, observation.interaction)
  THEN MarkedBody(screen, observation.interaction)
  ELSE SuffixAfterBaseline(screen, observation.boundary)

\* Mutant: the limit counts from the start of the content.
WindowEndFromStart(content, offset, limit) ==
  IF limit = 0 THEN Len(content) ELSE Min2(limit, Len(content))

\* line_window: a page of content and the cursor to go on from.  A limit of 0
\* is no limit, as the handler refuses a limit of zero.
WindowEnd(content, offset, limit) ==
  IF limit = 0 THEN Len(content) ELSE Min2(offset + limit, Len(content))

LineWindow(content, offset, limit) ==
  IF offset >= Len(content)
  THEN <<>>
  ELSE SubSeq(content, offset + 1, WindowEnd(content, offset, limit))

HasNextCursor(content, offset, limit) ==
  WindowEnd(content, offset, limit) < Len(content)

----------------------------------------------------------------------------
(* The observation. *)

Observations == [full : Seq(ScreenLines), boundary : Seq(ScreenLines),
                 interaction : Interactions \union {NoInteraction},
                 completed : BOOLEAN, code : Codes \union {NoCode},
                 wrapper : BOOLEAN]

NoObservation == [full |-> <<>>, boundary |-> <<>>, interaction |-> NoInteraction,
                  completed |-> FALSE, code |-> NoCode, wrapper |-> FALSE]

UpdateFullSnapshot(o, content) == [o EXCEPT !.full = content]

ResetCommandBoundary(o) == [o EXCEPT !.boundary = o.full]

\* Mutant: the completion of the interaction before is kept.
StartInteractionKeeping(o, i) == [o EXCEPT !.interaction = i]

StartInteraction(o, i) ==
  [o EXCEPT !.interaction = i, !.completed = FALSE, !.code = NoCode]

CompleteInteraction(o, c) == [o EXCEPT !.completed = TRUE, !.code = c]

\* Mutant: every snapshot becomes the boundary as well.
ObserveSnapshotAsBoundary(o, content) ==
  ResetCommandBoundary(UpdateFullSnapshot(o, content))

\* capture and wait alike: complete the interaction if its end marker can be
\* read, and make the snapshot the new baseline.
ObserveSnapshot(o, content) ==
  LET observed == UpdateFullSnapshot(o, content)
  IN  IF MarkedDone(content, o.interaction)
      THEN CompleteInteraction(observed, MarkedCode(content, o.interaction))
      ELSE observed

----------------------------------------------------------------------------
(* The pane.  None of this is the daemon's doing. *)

Room(n) == history.cleared + Len(screen) + n <= MaxShown

Show(shown) ==
  /\ Room(Len(shown))
  /\ screen' = screen \o shown

IdleShell == shell.running = "no"

\* The shell starts the first line typed, and shows what it reads and prints.
\* A run count of 2 stands for two or more.
Begin(shown, defined) ==
  LET command == Head(shell.input)
  IN  /\ Show(shown)
      /\ shell' = [shell EXCEPT !.input = Tail(@), !.defined = defined,
                                !.running = "yes", !.command = command]
      /\ history' = IF command.id = NoInteraction THEN history
                    ELSE [history EXCEPT !.runs[command.id] = Min2(@ + 1, 2)]

Reads(form) == IdleShell /\ shell.input # <<>> /\ Head(shell.input).form = form

RunInline ==
  /\ Reads("inline")
  /\ LET i == Head(shell.input).id
     IN  \E echo \in Echoes(i) : Begin(Append(echo, Start(i)), shell.defined)
  /\ UNCHANGED <<binding, observation, call>>

\* The function __zellij_mcp_run_b64: it prints the markers around the command.
RunWrapped ==
  /\ Reads("clean") /\ shell.defined
  /\ Begin(<<Start(Head(shell.input).id)>>, TRUE)
  /\ UNCHANGED <<binding, observation, call>>

\* The bootstrap line defines the function first, unless it is there.
RunBootstrap ==
  /\ Reads("bootstrap")
  /\ Begin(<<Start(Head(shell.input).id)>>, TRUE)
  /\ UNCHANGED <<binding, observation, call>>

\* The function is not defined, or its definition could not be decoded.
RefuseWrapped ==
  /\ Reads("clean") \/ Reads("bootstrap")
  /\ ~shell.defined
  /\ Show(<<Unknown>>)
  /\ shell' = [shell EXCEPT !.input = Tail(@)]
  /\ UNCHANGED <<binding, observation, call, history>>

RunPlain ==
  /\ Reads("plain")
  /\ Begin(<<>>, shell.defined)
  /\ UNCHANGED <<binding, observation, call>>

\* The running command ends, and the script around it prints the end marker.
Finish ==
  /\ ~IdleShell
  /\ shell' = [shell EXCEPT !.running = "no", !.command = NoCommand]
  /\ IF shell.command.form = "plain"
     THEN UNCHANGED <<screen, history>>
     ELSE \E c \in Codes :
            /\ Show(<<End(shell.command.id, c)>>)
            /\ history' = [history EXCEPT !.ended[shell.command.id] = @ \union {c}]
  /\ UNCHANGED <<binding, observation, call>>

\* An interrupt ends the command and the script around it.
Abort ==
  /\ ~IdleShell
  /\ shell' = [shell EXCEPT !.running = "no", !.command = NoCommand]
  /\ UNCHANGED <<screen, binding, observation, call, history>>

\* Output, a prompt, or what the user does in the pane.
PrintLine(x) ==
  /\ Show(<<Plain(x)>>)
  /\ UNCHANGED <<shell, binding, observation, call, history>>

\* The screen and its scrollback are cleared.
Clear ==
  /\ screen # <<>>
  /\ screen' = <<>>
  /\ history' = [history EXCEPT !.cleared = @ + Len(screen), !.submitted = 0, !.captured = 0,
                   !.sinceCapture = FALSE, !.sinceFull = FALSE,
                   !.sinceBoundary = FALSE]
  /\ UNCHANGED <<shell, binding, observation, call>>

\* A new shell replaces the old one: it has none of its functions.
NewShell ==
  /\ IdleShell
  /\ shell.defined
  /\ shell' = [shell EXCEPT !.defined = FALSE]
  /\ UNCHANGED <<screen, binding, observation, call, history>>

Pane ==
  \/ RunInline \/ RunWrapped \/ RunBootstrap \/ RefuseWrapped \/ RunPlain
  \/ Finish \/ Abort \/ Clear \/ NewShell
  \/ \E x \in Lines : PrintLine(x)

----------------------------------------------------------------------------
(* The daemon. *)

NoCall == [at |-> "idle", mode |-> "keys", command |-> NoCommand, fallback |-> FALSE]

\* A capture of any mode: the three differ in what they return.
Capture ==
  /\ call.at = "idle"
  /\ observation' = ObserveSnapshot(observation, screen)
  /\ history' = [history EXCEPT !.captured = Len(screen),
                   !.sinceCapture = TRUE, !.sinceFull = TRUE]
  /\ UNCHANGED <<screen, shell, binding, call>>

\* A wait whose pane looked idle; the command in it may well be running.
Wait ==
  /\ call.at = "idle"
  /\ observation' = ObserveSnapshot(observation, screen)
  /\ history' = [history EXCEPT !.sinceFull = TRUE]
  /\ UNCHANGED <<screen, shell, binding, call>>

SupportsMarkers == binding.shell \in {"posix", "fish"}

\* build_wrapped_submit_payload, or the text as it is.
PayloadForm ==
  CASE binding.shell = "posix" -> "inline"
    [] binding.shell = "fish"  -> IF observation.wrapper THEN "clean" ELSE "bootstrap"
    [] OTHER                   -> "plain"

ClearsAttachedInput(mode) == binding.source = "attached" /\ mode \in LineModes

\* send up to the delivery: on an attached pane a submitted line first takes a
\* snapshot as its boundary; then the interaction gets an id and a payload.
BeginSend(mode) ==
  /\ call.at = "idle"
  /\ Len(shell.input) < MaxInput
  /\ IF ClearsAttachedInput(mode)
     THEN /\ observation' = ResetCommandBoundary(UpdateFullSnapshot(observation, screen))
          /\ history' = [history EXCEPT !.submitted = Len(screen),
                           !.sinceFull = TRUE, !.sinceBoundary = TRUE]
     ELSE UNCHANGED <<observation, history>>
  /\ IF mode \in TextModes /\ SupportsMarkers
     THEN \E i \in Interactions \ history.sent :
            call' = [at |-> "deliver", mode |-> mode, fallback |-> FALSE,
                     command |-> [form |-> PayloadForm, id |-> i]]
     ELSE call' = [at |-> "deliver", mode |-> mode, fallback |-> FALSE,
                   command |-> NoCommand]
  /\ UNCHANGED <<screen, shell, binding>>

Type(command) == shell' = [shell EXCEPT !.input = Append(@, command)]

Inlined(command) == IF command.form = "inline" THEN {command.id} ELSE {}

\* The line reaches the shell: it is read now or when the shell is free, or, if
\* it was only typed, when somebody presses enter.
Delivered(command) ==
  [history EXCEPT
     !.sent = @ \union ({command.id} \ {NoInteraction}),
     !.inlined = @ \union Inlined(command),
     !.submitted = IF call.mode \in {"type", "raw", "keys"} THEN @ ELSE Len(screen)]

Deliver ==
  /\ call.at = "deliver"
  /\ IF call.mode \in TextModes THEN Type(call.command) ELSE UNCHANGED shell
  /\ history' = Delivered(call.command)
  /\ call' = [call EXCEPT !.at =
       IF binding.shell = "fish" /\ call.command.id # NoInteraction
       THEN "probe" ELSE "record"]
  /\ UNCHANGED <<screen, binding, observation>>

\* 75 ms after a delivery to fish: does the capture show the error of a missing
\* wrapper, of whatever age?  A capture that fails counts as no.
Probe ==
  /\ call.at = "probe"
  /\ \/ call' = [call EXCEPT !.at = "record"]
     \/ /\ \E k \in DOMAIN screen : screen[k] = Unknown
        /\ call' = [call EXCEPT !.at = "redeliver", !.fallback = TRUE,
                                !.command.form = "inline"]
  /\ UNCHANGED <<screen, shell, binding, observation, history>>

Redeliver ==
  /\ call.at = "redeliver"
  /\ Len(shell.input) < MaxInput
  /\ Type(call.command)
  /\ history' = Delivered(call.command)
  /\ call' = [call EXCEPT !.at = "record"]
  /\ UNCHANGED <<screen, binding, observation>>

\* The adapter reports an error: the send returns it, and stores nothing.  The
\* line may have got through all the same.
SendFails ==
  /\ call.at \in {"deliver", "redeliver"}
  /\ \/ UNCHANGED <<shell, history>>
     \/ /\ call.mode \in TextModes
        /\ Len(shell.input) < MaxInput
        /\ Type(call.command)
        /\ history' = Delivered(call.command)
  /\ call' = NoCall
  /\ UNCHANGED <<screen, binding, observation>>

\* The end of a send: what it learned of the wrapper, the new interaction, and
\* the boundary, which becomes the last snapshot taken.  Raw text to a fish pane
\* validates the wrapper too, as no fallback was needed.
LearnWrapper(o) ==
  IF binding.shell = "fish" /\ call.mode \in TextModes \union {"raw"}
  THEN [o EXCEPT !.wrapper = ~call.fallback] ELSE o

\* Mutant: the whole command is stored for its id.
EnterInteractionCommand(o) ==
  IF call.command.id # NoInteraction THEN StartInteraction(o, call.command) ELSE o

EnterInteraction(o) ==
  IF call.command.id # NoInteraction THEN StartInteraction(o, call.command.id) ELSE o

ResetsBoundary(mode) ==
  \/ mode = "submit_line"
  \/ mode \in {"legacy", "keys_submit"} /\ ~ClearsAttachedInput(mode)

Record ==
  /\ call.at = "record"
  /\ LET sent == EnterInteraction(LearnWrapper(observation))
     IN  observation' = IF ResetsBoundary(call.mode)
                        THEN ResetCommandBoundary(sent) ELSE sent
  /\ history' = IF ResetsBoundary(call.mode)
                THEN [history EXCEPT !.sinceBoundary = history.sinceFull] ELSE history
  /\ call' = NoCall
  /\ UNCHANGED <<screen, shell, binding>>

Daemon ==
  \/ Capture \/ Wait \/ Deliver \/ Probe \/ Redeliver \/ SendFails \/ Record
  \/ \E mode \in Modes : BeginSend(mode)

----------------------------------------------------------------------------
(* The specification.  A handle begins with the baseline that its spawn or  *)
(* attach took of a pane with something on it, or without one if that       *)
(* capture failed.                                                          *)

Init ==
  /\ screen \in {<<>>} \union {<<Plain(x)>> : x \in Lines}
  /\ shell = [input |-> <<>>, running |-> "no", command |-> NoCommand,
              defined |-> FALSE]
  /\ binding \in [source : Sources, shell : Shells]
  /\ observation \in {NoObservation,
                      ResetCommandBoundary(UpdateFullSnapshot(NoObservation, screen))}
  /\ call = NoCall
  /\ history = [sent |-> {}, inlined |-> {},
                runs |-> [i \in Interactions |-> 0],
                ended |-> [i \in Interactions |-> {}],
                cleared |-> 0, submitted |-> Len(screen), captured |-> 0,
                sinceCapture |-> FALSE, sinceFull |-> TRUE, sinceBoundary |-> TRUE]

Next == Pane \/ Daemon

Spec == Init /\ [][Next]_vars

----------------------------------------------------------------------------
(* Properties. *)

ShellStates == [input : Seq(Commands), running : {"no", "yes"},
                command : Commands, defined : BOOLEAN]

Calls == [at : {"idle", "deliver", "probe", "redeliver", "record"},
          mode : AllModes, command : Commands, fallback : BOOLEAN]

Histories ==
  [sent : SUBSET Interactions, inlined : SUBSET Interactions,
   runs : [Interactions -> 0..2], ended : [Interactions -> SUBSET Codes],
   cleared : Nat, submitted : Nat, captured : Nat,
   sinceCapture : BOOLEAN, sinceFull : BOOLEAN, sinceBoundary : BOOLEAN]

\* Types of the screen, the shell, the observation and the call.
TypeOK ==
  /\ screen \in Seq(ScreenLines)
  /\ shell \in ShellStates
  /\ binding \in [source : {"spawned", "attached"}, shell : AllShells]
  /\ observation \in Observations
  /\ call \in Calls
  /\ history \in Histories

\* An exit code reported of an interaction is the code its command ended with,
\* whatever the screen, older interactions and echoed scripts show; and an
\* interaction that never went through the inline script is reported completed
\* only after its command ended (parse_interaction_capture, complete_interaction,
\* start_interaction).
CompletionIsReal ==
  LET i == observation.interaction
  IN  /\ observation.code # NoCode =>
           i # NoInteraction /\ observation.code \in history.ended[i]
      /\ observation.completed =>
           i # NoInteraction /\ (i \in history.inlined \/ history.ended[i] # {})

\* Unless the pane was cleared since the boundary was taken, a current capture
\* without markers leaves out nothing that appeared after the latest submission,
\* or attempt at one on an attached pane, although the boundary is a snapshot of
\* some earlier time (reset_command_boundary, prepare_attached_send_boundary).
CurrentKeepsOutput ==
  (/\ call.at = "idle"
   /\ history.sinceBoundary
   /\ ~Marked(screen, observation.interaction)) =>
     LET output == SubSeq(screen, history.submitted + 1, Len(screen))
     IN  /\ Len(output) <= Len(Current)
         /\ SubSeq(Current, Len(Current) - Len(output) + 1, Len(Current)) = output

\* Following cursors through a current capture reads every line once:
\* a page and what the cursor leads to make up what was left, and a page with
\* a cursor after it is not empty (line_window, parse_line_cursor).
PagesJoin ==
  LET content == Current
  IN  \A offset \in 0..Len(content), limit \in 1..2 :
      LET next == WindowEnd(content, offset, limit)
          rest == IF HasNextCursor(content, offset, limit)
                  THEN LineWindow(content, next, 0) ELSE <<>>
      IN  /\ LineWindow(content, offset, limit) \o rest = LineWindow(content, offset, 0)
          /\ HasNextCursor(content, offset, limit) => next > offset

\* Delta is what appeared since the previous successful capture of the handle,
\* if there was one and the pane was not cleared since.
DeltaSincePreviousCapture ==
  (call.at = "idle" /\ history.sinceCapture) =>
    Delta = SubSeq(screen, history.captured + 1, Len(screen))

\* An interaction is reported completed only when its command has ended.
CompletionMeansEnded ==
  observation.completed => history.ended[observation.interaction] # {}

\* The fallback is for a line that could not be run: no line runs twice.
NoLineRunsTwice == \A i \in Interactions : history.runs[i] < 2
=============================================================================
