SPECIFICATION FairSpec
CONSTANTS
  CR = {x, y}
  Workers = {w1, w2}
  NoItem = noitem
  Capacity = 1
  MaxDelay = 1
INVARIANTS TypeOK QueueWellFormed NeverConcurrent NoLostWakeup
PROPERTIES NeverPostponed ImplementsWorkQueue EveryItemTurns TimersFire ShutdownCompletes
CHECK_DEADLOCK FALSE
