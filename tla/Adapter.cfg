CONSTANTS
  Panes <- MCPanes
  Titles = {editor}
  TabNames = {work}
  CommandOf <- MCCommandOf
  FirstTitle <- MCFirstTitle
  Clients = {1}
  Loader = 1
  NoPane = NoPane
  MaxTabs = 1
  MaxChanges = 1
  Starts <- MCStarts
  Requests = {}
  Workers = {w1, w2}
  Selectors <- MCSelectors
  Intents <- MCIntents
  vim = vim
  editor = editor
  work = work
SPECIFICATION AdapterSpec
SYMMETRY Symmetry
INVARIANTS AdapterTypeOK ShowsItsTarget SendsToTheOne ClosesOnlyItsTarget ReportedCloseIsTrue
