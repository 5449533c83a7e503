CONSTANTS
  Workers = {w1, w2}
  Handles = {h1, h2}
  Panes = {p1}
  NoPane = NoPane
  NoHandle = NoHandle
  Tools = {"attach"}
  Remote = FALSE
  Crashes = FALSE
SPECIFICATION Spec
SYMMETRY Symmetry
INVARIANTS NoHandleLost
CHECK_DEADLOCK FALSE
