------------------------- MODULE MCTerminalService -------------------------
(***************************************************************************)
(* TerminalService on small instances.  Handles, panes and workers are     *)
(* interchangeable: no definition orders or names them, so the runs        *)
(* without a liveness property may use symmetry.                           *)
(***************************************************************************)
EXTENDS TerminalService, TLC

Symmetry == Permutations(Handles) \union Permutations(Panes)

SymmetryOfAll == Symmetry \union Permutations(Workers)

====
