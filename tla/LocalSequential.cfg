CONSTANTS
  Workers = {w1}
  Handles = {h1, h2}
  Panes = {p1, p2}
  NoPane = NoPane
  NoHandle = NoHandle
  Tools = {"spawn", "attach", "capture", "send", "replace", "wait", "close", "list", "cleanup"}
  Remote = FALSE
  Crashes = TRUE
SPECIFICATION Spec
SYMMETRY Symmetry
INVARIANTS TypeOK ClosedPaneIsGone NoHandleLost AnswerMatchesRegistry ListTellsDeadPanes
PROPERTIES LifecycleKept
