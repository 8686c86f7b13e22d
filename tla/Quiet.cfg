\* One submission, no faults: nobody interferes.
SPECIFICATION FairSpec
CONSTANTS
  CR = {x}
  Stack = {x}
  ChangeSetName = {n1, n2, n3, n4}
  NoName = noname
  NoSum = nosum
  MaxParallel = 1
  MaxEdits = 1
  MaxFaults = 0
  Faults = {}
  SleepCoversLag = TRUE
  Body <- MCBody
  NoBody <- MCNoBody
  Checksum <- MCChecksum
  Sum <- MCSum
  StackOf <- OwnStack
  Provider <- MCProvider
  TemplateOf <- MCTemplate
  ParamsOf <- MCParams
  ShownParams <- MCShown
  Resolutions <- MCResolutions
  Unresolvable <- MCUnresolvable
INVARIANTS Order NoSpuriousFailure ReadyToExecute SuccessMeansDeployed
PROPERTIES NoRepeatAfterRollback EventuallyDeployed ReferencesAtOnce DocumentedOptionsWork
CHECK_DEADLOCK FALSE
