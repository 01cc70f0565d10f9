SPECIFICATION FairSpec
CONSTANTS
  c1 = c1
  c2 = c2
  c3 = c3
  Callers <- MCCallers
  NoCaller = NoCaller
  max_failures = 2
  max_retries = 2
  MaxFaults = 6
INVARIANTS
  TypeOK
  QueryOnLiveConnection
  CrashExplained
  SwitchJustified
PROPERTY
  CallReturns
CHECK_DEADLOCK FALSE
