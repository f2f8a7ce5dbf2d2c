---------------------------- MODULE MCDayRuntime ----------------------------
(***************************************************************************)
(* A small game for TLC: two phases, a programmed automatic event          *)
(* relative to the day and an inline one the host opens and decides.       *)
(***************************************************************************)
EXTENDS DayRuntime

CONSTANTS D1, N1, auto1, host1, s1, s2, seedA, seedB

MCPhases == {D1, N1}
MCDayNumber == [p \in MCPhases |-> IF p = D1 THEN 1 ELSE None]
MCNextPhase == [p \in MCPhases |-> IF p = D1 THEN N1 ELSE None]

MCEvents == {auto1, host1}

MCDefinition ==
  [e \in MCEvents |->
     IF e = auto1
       THEN [schedule |-> [kind |-> "relative", phase |-> D1,
                           openOffset |-> 1, lockOffset |-> 2],
             scope |-> [kind |-> "any"],
             auto |-> TRUE, seeded |-> TRUE, winners |-> 1,
             minimum |-> 1, maximum |-> 2, narratives |-> {"locked", "resolved"}]
       ELSE [schedule |-> [kind |-> "host"], scope |-> [kind |-> "day", number |-> 1],
             auto |-> FALSE, seeded |-> FALSE, winners |-> 1,
             minimum |-> 0, maximum |-> 1, narratives |-> {}]]

MCPrograms == {{auto1}}
MCSlots == {s1, s2}
MCSlotOrder == [s \in MCSlots |-> IF s = s1 THEN 1 ELSE 2]
MCSeeds == {seedA, seedB}
MCSeededRank ==
  [d \in MCSeeds |-> [s \in MCSlots |-> IF (d = seedA) = (s = s1) THEN 1 ELSE 2]]

=============================================================================
