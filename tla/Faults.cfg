\* One fault of a call whose failure is retried, or a restart; a plain body
\* and one with references.
SPECIFICATION FairSpec
CONSTANTS
  CR = {x}
  Stack = {x}
  Body = {plain, ref}
  NoBody = nobody
  ChangeSetName = {n1, n2, n3, n4}
  NoName = noname
  NoSum = nosum
  WithReference = {ref}
  NoService = {}
  NilSpec = {}
  Unresolvable = {}
  NoRole = {}
  BadRole = {}
  MaxParallel = 1
  MaxEdits = 2
  MaxFaults = 1
  Faults = {"references", "describeStacks", "listChangeSets", "getTemplate",
    "createChangeSet", "executeChangeSet", "update", "crash"}
  SleepCoversLag = TRUE
  Checksum <- MCChecksum
  Sum <- MCSum
  StackOf <- OwnStack
  Provider <- MCProvider
  TemplateOf <- MCTemplate
  ParamsOf <- MCParams
  ShownParams <- MCParams
  Resolutions <- MCResolutions
INVARIANTS NoLostWork SuccessMeansDeployed
PROPERTIES EditsSurvive EventuallySettled
CHECK_DEADLOCK FALSE
