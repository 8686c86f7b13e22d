\* A submission and two more user writes; at most one fault, which may leave a
\* change set behind, its name known or lost.
SPECIFICATION Spec
CONSTANTS
  CR = {x}
  Stack = {x}
  Body = {b1, b2}
  NoBody = nobody
  ChangeSetName = {n1, n2, n3, n4}
  NoName = noname
  NoSum = nosum
  WithReference = {}
  NoService = {}
  NilSpec = {}
  Unresolvable = {}
  NoRole = {}
  BadRole = {}
  MaxParallel = 1
  MaxEdits = 3
  MaxFaults = 1
  Faults = {"createChangeSet", "crash"}
  SleepCoversLag = TRUE
  Checksum <- MCChecksum
  Sum <- MCSum
  StackOf <- OwnStack
  Provider <- MCProvider
  TemplateOf <- MCTemplate
  ParamsOf <- MCParams
  ShownParams <- MCParams
  Resolutions <- MCResolutions

SYMMETRY Interchangeable
INVARIANTS Honesty Closure SuccessMeansDeployed
PROPERTIES SuccessfulStackStays SettledStackStays KeepsPromise
CHECK_DEADLOCK FALSE
