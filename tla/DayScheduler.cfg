SPECIFICATION FairSchedulerSpec
CONSTANTS
  None = None
  Game = game
  D1 = D1
  absolute1 = absolute1
  trigger1 = trigger1
  windowed1 = windowed1
  missed1 = missed1
  seedA = seedA
  w1 = w1
  Phases <- OnePhase
  DayNumber <- MCDayNumber
  NextPhase <- MCNextPhase
  Events <- AbsoluteAndTrigger
  Definition <- MCDefinition
  Programs <- MCPrograms
  Slots <- NoSlots
  SlotOrder <- MCSlotOrder
  Seeds <- OneSeed
  SeededRank <- MCSeededRank
  Workers <- OneWorker
  LeaseSeconds = 1
  RetryBase = 1
  RetryMax = 1
  DueTimes <- MCDueTimes
  MaxTime = 3
  MaxWakes = 2
  MaxAttempts = 8
  MaxFaults = 1
INVARIANTS
  NoLostWork
  DueRowIsActionable
PROPERTIES
  WorkGetsDone
  ImplementsLease
CHECK_DEADLOCK FALSE
