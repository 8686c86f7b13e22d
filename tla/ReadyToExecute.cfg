\* The change set found to be ready is not the one executed.
SPECIFICATION Spec
CONSTANTS
  CR = {x}
  Stack = {x}
  Body = {b1, b2}
  NoBody = nobody
  ChangeSetName = {n1, n2, n3, n4}
  NoName = noname
  NoSum = nosum
  WithReference = {}
  NoService = {}
  NilSpec = {}
  Unresolvable = {}
  NoRole = {}
  BadRole = {}
  MaxParallel = 1
  MaxEdits = 2
  MaxFaults = 0
  Faults = {}
  SleepCoversLag = TRUE
  Checksum <- MCChecksum
  Sum <- MCSum
  StackOf <- OwnStack
  Provider <- MCProvider
  TemplateOf <- MCTemplate
  ParamsOf <- MCParams
  ShownParams <- MCParams
  Resolutions <- MCResolutions
INVARIANTS ReadyToExecute
CHECK_DEADLOCK FALSE
