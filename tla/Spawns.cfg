CONSTANTS
  Panes <- MCPanes
  Titles = {Untitled, build}
  TabNames = {work, logs}
  CommandOf <- MCCommandOf
  FirstTitle <- MCFirstTitle
  Clients = {1}
  Loader = 1
  NoPane = NoPane
  MaxTabs = 4
  MaxChanges = 1
  Starts <- MCStarts
  Requests = {}
  Spawners = {w1}
  SpawnRequests <- MCSpawnRequests
  Hosts <- MCHosts
  Shells = {fish}
  Untitled = Untitled
  Unnamed = logs
  SecondTabs = {NoTab, logs}
  NoTab = NoTab
  MaxLost = 1
  work = work
  logs = logs
  build = build
  fish = fish
  cargo = cargo
SPECIFICATION SpawnSpec
CHECK_DEADLOCK FALSE
INVARIANTS SpawnTypeOK BindsTheCommand ReuseIsInItsTab
PROPERTIES LoneSpawnIsFound
