CONSTANTS
  Panes <- MCPanes
  Titles <- MCTitles
  TabNames <- MCTabNames
  CommandOf <- MCCommandOf
  FirstTitle <- MCFirstTitle
  Clients = {1, 2}
  Loader = 1
  NoPane = NoPane
  MaxTabs = 2
  MaxChanges = 2
  Starts <- MCStarts
  Requests <- MCRequests
  vim = vim
  top = top
  editor = editor
  shell = shell
  work = work
  logs = logs
SPECIFICATION Spec
INVARIANTS TypeOK SettledListIsTrue SendReachesTheNamed IdReachesOnlyItsPane
PROPERTIES PollCatchesUp
