\* A session that cannot be had ends the polling.
SPECIFICATION Spec
CONSTANTS
  CR = {x}
  Stack = {x}
  Body = {b1, b2}
  NoBody = nobody
  ChangeSetName = {n1, n2, n3, n4}
  NoName = noname
  NoSum = nosum
  WithReference = {}
  NoService = {}
  NilSpec = {}
  Unresolvable = {}
  NoRole = {}
  BadRole = {}
  MaxParallel = 1
  MaxEdits = 1
  MaxFaults = 1
  Faults = {"session"}
  SleepCoversLag = TRUE
  Checksum <- MCChecksum
  Sum <- MCSum
  StackOf <- OwnStack
  Provider <- MCProvider
  TemplateOf <- MCTemplate
  ParamsOf <- MCParams
  ShownParams <- MCParams
  Resolutions <- MCResolutions
INVARIANTS PolledWhileInProgress
CHECK_DEADLOCK FALSE
