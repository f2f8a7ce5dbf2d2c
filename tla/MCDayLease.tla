----------------------------- MODULE MCDayLease -----------------------------
(***************************************************************************)
(* Two replicas competing for the work of one game or of two.              *)
(***************************************************************************)
EXTENDS DayLease, TLC

CONSTANTS g1, g2, w1, w2

OneGame == {g1}
TwoGames == {g1, g2}
MCGameOrder == [g \in Games |-> IF g = g1 THEN 1 ELSE 2]
MCWorkers == {w1, w2}
MCDueTimes == {1}
WorkerSymmetry == Permutations(MCWorkers)

=============================================================================
