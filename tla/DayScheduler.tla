---------------------------- MODULE DayScheduler ----------------------------
(***************************************************************************)
(* The DayEvent automation of one game, end to end: the commands and the   *)
(* pass of DayRuntime under the workers and the lease of DayLease.         *)
(*                                                                         *)
(* The two meet in one place, the work row: DayRuntime's transactions      *)
(* rewrite it, DayLease's claim reads it together with the wake cursor the *)
(* last successful pass recorded. An event happens only if each of these   *)
(* is right about it, whichever commands, crashes and late statements come *)
(* between.                                                                *)
(***************************************************************************)
EXTENDS DayRuntime

CONSTANTS
  Game, Workers,
  LeaseSeconds, RetryBase, RetryMax,
  DueTimes,      \* every due time the events of the game can have
  MaxAttempts,   \* bound on the claims
  MaxFaults      \* bound on deadlines passed, failures reported, statements lost

\* DayEventSchedulerConfig::validate, in seconds; None is no worker and no row.
ASSUME LaneAssumption ==
  /\ LeaseSeconds \in Nat \ {0} /\ RetryBase \in Nat \ {0} /\ RetryMax \in Nat
  /\ RetryBase <= RetryMax
  /\ None \notin Workers /\ None # Game
  /\ DueTimes \subseteq Int /\ MaxAttempts \in Nat /\ MaxFaults \in Nat
  /\ None \notin [due : Optional(DueTimes), wake : Nat, ready : BOOLEAN]

VARIABLES
  sched, run, requests, seen,   \* as in DayLease
  faults                        \* how many faults happened

\* The row as the claim reads it.
LeaseRow ==
  IF work = None THEN None ELSE
    [due |-> work.due, wake |-> work.wake, ready |-> work.auto \/ work.narrative]

L == INSTANCE DayLease WITH
  Games <- {Game}, GameOrder <- [g \in {Game} |-> 0],
  clock <- now, status <- [g \in {Game} |-> status], rows <- [g \in {Game} |-> LeaseRow]

laneVars == <<sched, run, requests, seen, faults>>
schedulerVars == <<vars, laneVars>>

SchedulerInit == Init /\ L!Init /\ faults = 0

\* Faults stop early enough for the last lease or backoff to run out.
FaultAllowed ==
  faults < MaxFaults /\ now + LeaseSeconds + RetryMax <= MaxTime

Fault == FaultAllowed /\ faults' = faults + 1
NoFault == UNCHANGED faults

-----------------------------------------------------------------------------
Command == (PhaseCommand \/ EventCommand) /\ UNCHANGED laneVars

Clock == Tick /\ UNCHANGED laneVars

ReadClock(w) == UNCHANGED vars /\ L!ReadClock(w) /\ NoFault

Claim(w) == UNCHANGED vars /\ L!Claim(w, Game) /\ NoFault

ClaimNothing(w) == UNCHANGED vars /\ L!ClaimNothing(w) /\ NoFault

\* The pass evaluates the schedules at the time its claim was made with.
MechanicsPass(w) ==
  /\ run[w].stage = "claimed"
  /\ \E seeds \in [Events -> Seeds] : Mechanics(run[w].at, seeds)
  /\ L!ObserveWake(w)
  /\ NoFault

NarrativePass(w) ==
  /\ run[w].stage = "observed"
  /\ PublishNarratives
  /\ L!Publishing(w)
  /\ NoFault

\* A worker reports what it saw. It reports failure without a fault only where
\* the transaction it tried cannot succeed.
Refused(w) ==
  /\ status # "completed"
  /\ run[w].stage = "claimed" /\ ~MechanicsSucceed

ReportSuccess(w) ==
  /\ UNCHANGED vars
  /\ \E at \in {now - 1, now} : L!Report(w, TRUE, at)
  /\ NoFault

ReportFailure(w) ==
  /\ UNCHANGED vars
  /\ \E at \in {now - 1, now} : L!Report(w, FALSE, at)
  /\ IF Refused(w) THEN NoFault ELSE Fault

\* A worker whose completion was lost waits for its deadline, and no fault is
\* needed for it to pass.
Unanswered(w) ==
  run[w].stage = "finishing" /\ ~\E r \in requests : L!Answered(r, w)

GiveUp(w) ==
  /\ UNCHANGED vars
  /\ L!GiveUp(w)
  /\ IF Unanswered(w) THEN NoFault ELSE Fault

Execute(r) == UNCHANGED vars /\ L!Execute(r) /\ NoFault

Lose(r) == UNCHANGED vars /\ L!Lose(r) /\ Fault

-----------------------------------------------------------------------------
WorkerStep(w) ==
  \/ ReadClock(w) \/ Claim(w) \/ ClaimNothing(w)
  \/ MechanicsPass(w) \/ NarrativePass(w)
  \/ ReportSuccess(w) \/ ReportFailure(w)
  \/ GiveUp(w)

DatabaseStep == \E r \in requests : Execute(r) \/ Lose(r)

SchedulerNext ==
  \/ Command
  \/ Clock
  \/ \E w \in Workers : WorkerStep(w)
  \/ DatabaseStep

SchedulerSpec == SchedulerInit /\ [][SchedulerNext]_schedulerVars

\* A replica polls every second and every wait of it has a deadline; the
\* database answers what reaches it; time passes. No command ever has to come.
Fairness ==
  /\ WF_schedulerVars(Clock)
  /\ \A w \in Workers : WF_schedulerVars(WorkerStep(w))
  /\ WF_schedulerVars(DatabaseStep)

FairSchedulerSpec == SchedulerSpec /\ Fairness

-----------------------------------------------------------------------------
(* Properties.                                                             *)

\* What the rules say a pass would do right now.
WorkToDo ==
  /\ status = "active" /\ phase # None
  /\ \/ \E e \in Events : Opens(e, now) \/ Locks(e, now)
     \/ PendingAuto # {}
     \/ \E e \in Events, l \in Lifecycles : narrative[e][l] = "pending"

\* No work is ever lost: whatever a pass would do now, the claim query finds the
\* game pending, through a due time, an unobserved wake or a flag.
NoLostWork == WorkToDo => L!Pending(LeaseRow, sched[Game].lastWake, now)

\* A due time in the index is a boundary a pass acts on: "the next wall-clock
\* boundary that can change this event's state". Otherwise every poll claims
\* the game again, finds nothing to do and clears the lease.
DueRowIsActionable ==
  (status = "active" /\ phase # None /\ work # None /\ work.due # None /\ work.due <= now)
    => \E e \in Events : Opens(e, now) \/ Locks(e, now)

\* A triggered event that may open now is found by the claim query although it
\* has no due time: "phase lifecycle facts wake the scheduler".
TriggersWakeScheduler ==
  \A e \in Events :
    (status = "active" /\ phase # None /\ Definition[e].schedule.kind = "trigger"
       /\ Opens(e, now))
    => L!Pending(LeaseRow, sched[Game].lastWake, now)

\* The workers and the database rows are a run of the lease protocol.
ImplementsLease == L!Spec

\* Whatever is due is eventually done, through crashes, lost completions and
\* expired leases, unless the game ends first.
WorkGetsDone == WorkToDo ~> ~WorkToDo

=============================================================================
