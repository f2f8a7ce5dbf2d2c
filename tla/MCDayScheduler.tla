--------------------------- MODULE MCDayScheduler ---------------------------
(***************************************************************************)
(* One day phase, with the events the runs need.                           *)
(***************************************************************************)
EXTENDS DayScheduler

CONSTANTS D1, absolute1, trigger1, windowed1, missed1, seedA, w1

OnePhase == {D1}
MCDayNumber == [p \in Phases |-> 1]
MCNextPhase == [p \in Phases |-> None]

HostDecided(schedule, scope, narratives) ==
  [schedule |-> schedule, scope |-> scope, auto |-> FALSE, seeded |-> FALSE,
   winners |-> 1, minimum |-> 0, maximum |-> None, narratives |-> narratives]

Running == [kind |-> "any"]
D1Opened == [kind |-> "trigger", signal |-> [kind |-> "opened", phase |-> D1]]
D1Locked == [kind |-> "trigger", signal |-> [kind |-> "locked", phase |-> D1]]
From1To2 == [kind |-> "window", opensAt |-> 1, closesAt |-> 2]

DefinitionOf(e) ==
  CASE e = absolute1 ->
         HostDecided([kind |-> "absolute", openAt |-> 1, lockAt |-> None], Running, {"opened"})
    [] e = trigger1 -> HostDecided(D1Opened, Running, {})
    [] e = windowed1 -> HostDecided(D1Locked, From1To2, {})
    [] e = missed1 ->
         HostDecided([kind |-> "absolute", openAt |-> 0, lockAt |-> None], From1To2, {})

MCDefinition == [e \in Events |-> DefinitionOf(e)]

AbsoluteAndTrigger == {absolute1, trigger1}
WindowedOnly == {windowed1}
MissedOnly == {missed1}

MCPrograms == IF absolute1 \in Events THEN {{absolute1, trigger1}} ELSE {}
NoSlots == {}
MCSlotOrder == [s \in Slots |-> 0]
OneSeed == {seedA}
MCSeededRank == [d \in Seeds |-> [s \in Slots |-> 0]]
OneWorker == {w1}
MCDueTimes == 0..(2 * MaxTime + 2)

=============================================================================
