CONSTANTS
  Workers = {w1}
  Handles = {h1, h2}
  Panes = {p1}
  NoPane = NoPane
  NoHandle = NoHandle
  Tools = {"spawn", "replace", "wait", "close", "list"}
  Remote = TRUE
  Crashes = FALSE
SPECIFICATION FairSpec
PROPERTIES EveryCallReturns
