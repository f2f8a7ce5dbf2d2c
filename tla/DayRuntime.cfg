SPECIFICATION Spec
CONSTANTS
  None = None
  D1 = D1
  N1 = N1
  auto1 = auto1
  host1 = host1
  s1 = s1
  s2 = s2
  seedA = seedA
  seedB = seedB
  Phases <- MCPhases
  DayNumber <- MCDayNumber
  NextPhase <- MCNextPhase
  Events <- MCEvents
  Definition <- MCDefinition
  Programs <- MCPrograms
  Slots <- MCSlots
  SlotOrder <- MCSlotOrder
  Seeds <- MCSeeds
  SeededRank <- MCSeededRank
  MaxTime = 2
  MaxWakes = 5
INVARIANTS
  TypeOK
  WorkRowCurrent
  EvidenceReplays
  NoticeOncePerLifecycle
PROPERTIES
  SeedCommittedFirst
  ImplementsLifecycle
CHECK_DEADLOCK FALSE
