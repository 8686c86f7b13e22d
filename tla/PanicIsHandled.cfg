\* A resource without spec.cloudformation takes the run of another one with it.
SPECIFICATION Spec
CONSTANTS
  CR = {x, y}
  Stack = {x, y}
  Body = {plain, nilspec}
  NoBody = nobody
  ChangeSetName = {n1, n2, n3, n4}
  NoName = noname
  NoSum = nosum
  WithReference = {}
  NoService = {}
  NilSpec = {nilspec}
  Unresolvable = {}
  NoRole = {}
  BadRole = {}
  MaxParallel = 2
  MaxEdits = 2
  MaxFaults = 0
  Faults = {}
  SleepCoversLag = TRUE
  Checksum <- MCChecksum
  Sum <- MCSum
  StackOf <- OwnStack
  Provider <- MCProvider
  TemplateOf <- MCTemplate
  ParamsOf <- MCParams
  ShownParams <- MCParams
  Resolutions <- MCResolutions
PROPERTIES RunsEndAlone
CHECK_DEADLOCK FALSE
