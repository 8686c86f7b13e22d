\* The sleep of Reconcile does not cover the lag of the cache; bodies with
\* references, without a role and without a spec.
SPECIFICATION Spec
CONSTANTS
  CR = {x}
  Stack = {x}
  Body = {plain, ref, norole, nilspec}
  NoBody = nobody
  ChangeSetName = {n1, n2, n3}
  NoName = noname
  NoSum = nosum
  WithReference = {ref}
  NoService = {}
  NilSpec = {nilspec}
  Unresolvable = {}
  NoRole = {norole}
  BadRole = {}
  MaxParallel = 1
  MaxEdits = 2
  MaxFaults = 0
  Faults = {}
  SleepCoversLag = FALSE
  Checksum <- MCChecksum
  Sum <- MCSum
  StackOf <- OwnStack
  Provider <- MCProvider
  TemplateOf <- MCTemplate
  ParamsOf <- MCParams
  ShownParams <- MCParams
  Resolutions <- MCResolutions
SYMMETRY Interchangeable
INVARIANTS NoLostWork Bookkeeping
PROPERTIES EditsSurvive SettledStays
CHECK_DEADLOCK FALSE
