\* Two resources with one stack and one worker.
SPECIFICATION FairSpec
CONSTANTS
  CR = {x, y}
  Stack = {x}
  Body = {b1}
  NoBody = nobody
  ChangeSetName = {n1, n2, n3, n4}
  NoName = noname
  NoSum = nosum
  WithReference = {}
  NoService = {}
  NilSpec = {}
  Unresolvable = {}
  NoRole = {}
  BadRole = {}
  MaxParallel = 1
  MaxEdits = 2
  MaxFaults = 0
  Faults = {}
  SleepCoversLag = TRUE
  Checksum <- MCChecksum
  Sum <- MCSum
  StackOf <- OneStack
  Provider <- MCProvider
  TemplateOf <- MCTemplate
  ParamsOf <- MCParams
  ShownParams <- MCParams
  Resolutions <- MCResolutions
INVARIANTS NoLostWork
PROPERTIES EventuallySettled
CHECK_DEADLOCK FALSE
