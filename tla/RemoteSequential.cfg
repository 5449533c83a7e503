CONSTANTS
  Workers = {w1}
  Handles = {h1, h2}
  Panes = {p1, p2}
  NoPane = NoPane
  NoHandle = NoHandle
  Tools = {"spawn", "attach", "capture", "send", "wait", "close", "list", "cleanup"}
  Remote = TRUE
  Crashes = FALSE
SPECIFICATION Spec
SYMMETRY Symmetry
INVARIANTS ClosedPaneIsGone NoHandleLost AnswerMatchesRegistry NoSlotAfterClose ListTellsDeadPanes
