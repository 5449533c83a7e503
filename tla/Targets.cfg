CONSTANTS
  Callers = {c1, c2}
  Aliases = {gpu}
  NoAlias = NoAlias
  Overrides <- MCOverrides
  Unset = Unset
  DefaultBin = "bare"
  LocalMachine = here
  BoundTo <- MCBoundTo
  Provisional <- MCProvisional
  Requests <- MCRequests
  HostStates <- MCHostStates
  MaxChanges = 1
  gpu = gpu
  far = far
  h1 = h1
  h2 = h2
  h3 = h3
SPECIFICATION RouterSpec
CHECK_DEADLOCK FALSE
INVARIANTS RouterTypeOK OneBackendPerTarget OneRetryIsEnough RefusalHasACause
PROPERTIES RemoteCallsAnswer
