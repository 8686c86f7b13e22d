\* One fault of any kind, when the informer resyncs; bodies with references that
\* resolve or do not, without a role or a service role, with a malformed role
\* ARN, and without a spec.
SPECIFICATION ResyncSpec
CONSTANTS
  CR = {x}
  Stack = {x}
  Body = {plain, ref, norole, noservice, badarn, nilspec, unresolved}
  NoBody = nobody
  ChangeSetName = {n1, n2, n3}
  NoName = noname
  NoSum = nosum
  WithReference = {ref}
  NoService = {noservice}
  NilSpec = {nilspec}
  Unresolvable = {unresolved}
  NoRole = {norole}
  BadRole = {badarn}
  MaxParallel = 1
  MaxEdits = 1
  MaxFaults = 1
  Faults = {"references", "describeStacks", "listChangeSets", "getTemplate",
    "createChangeSet", "executeChangeSet", "update", "crash", "session",
    "describeStackEvents", "deleteStack"}
  SleepCoversLag = TRUE
  Checksum <- MCChecksum
  Sum <- MCSum
  StackOf <- OwnStack
  Provider <- MCProvider
  TemplateOf <- MCTemplate
  ParamsOf <- MCParams
  ShownParams <- MCParams
  Resolutions <- MCResolutions
INVARIANTS TypeOK
PROPERTIES EventuallySettled
CHECK_DEADLOCK FALSE
