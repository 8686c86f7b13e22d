\* A spec that was never run is taken for one that was.
SPECIFICATION Spec
CONSTANTS
  CR = {x}
  Stack = {x}
  Body = {b1, b2}
  NoBody = nobody
  ChangeSetName = {n1, n2, n3, n4}
  NoName = noname
  NoSum = nosum
  WithReference = {}
  NoService = {}
  NilSpec = {}
  Unresolvable = {}
  NoRole = {}
  BadRole = {}
  MaxParallel = 1
  MaxEdits = 2
  MaxFaults = 0
  Faults = {}
  SleepCoversLag = TRUE
  Checksum <- MCChecksum
  Sum <- MCSum
  StackOf <- OwnStack
  Provider <- MCProvider
  TemplateOf <- MCTemplate
  ParamsOf <- MCParams
  ShownParams <- MCParams
  Resolutions <- MCResolutions
INVARIANTS AlreadyRun
CHECK_DEADLOCK FALSE
