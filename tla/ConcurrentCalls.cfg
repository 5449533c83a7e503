CONSTANTS
  Workers = {w1, w2}
  Handles = {h1}
  Panes = {p1}
  NoPane = NoPane
  NoHandle = NoHandle
  Tools = {"attach", "capture", "send", "wait", "close", "cleanup"}
  Remote = FALSE
  Crashes = FALSE
SPECIFICATION Spec
SYMMETRY SymmetryOfAll
INVARIANTS ClosedPaneIsGone CloseAnswersTruly
CHECK_DEADLOCK FALSE
