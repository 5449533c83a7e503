------------------------- MODULE MCCaptureSemantics -------------------------
(* CaptureSemantics for TLC: interaction ids are interchangeable.  The view    *)
(* leaves out the history that only DeltaSincePreviousCapture and             *)
(* NoLineRunsTwice read.                                                       *)
EXTENDS CaptureSemantics, TLC

InteractionSymmetry == Permutations(Interactions)

View ==
  <<screen, shell, binding, observation, call,
    [history EXCEPT !.captured = 0, !.sinceCapture = FALSE,
                     !.runs = [i \in Interactions |-> 0]]>>
=============================================================================
