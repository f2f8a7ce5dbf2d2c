SPECIFICATION SchedulerSpec
CONSTANTS
  None = None
  Game = game
  D1 = D1
  absolute1 = absolute1
  trigger1 = trigger1
  windowed1 = windowed1
  missed1 = missed1
  seedA = seedA
  w1 = w1
  Phases <- OnePhase
  DayNumber <- MCDayNumber
  NextPhase <- MCNextPhase
  Events <- WindowedOnly
  Definition <- MCDefinition
  Programs <- MCPrograms
  Slots <- NoSlots
  SlotOrder <- MCSlotOrder
  Seeds <- OneSeed
  SeededRank <- MCSeededRank
  Workers <- OneWorker
  LeaseSeconds = 1
  RetryBase = 1
  RetryMax = 1
  DueTimes <- MCDueTimes
  MaxTime = 2
  MaxWakes = 3
  MaxAttempts = 3
  MaxFaults = 1
INVARIANTS
  TriggersWakeScheduler
CHECK_DEADLOCK FALSE
