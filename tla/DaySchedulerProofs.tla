-------------------------- MODULE DaySchedulerProofs --------------------------
(***************************************************************************)
(* Proofs about the composition of DayRuntime and DayLease: its runs are   *)
(* runs of each of the two, so that what is proved of the commands and     *)
(* passes of a game, and of the lease for any game, holds of the           *)
(* automation end to end.                                                  *)
(*                                                                         *)
(* The second half proves discovery: the claim query finds a game whenever *)
(* its rules have work for a pass, and what it finds by a due time is work,*)
(* outside the exceptions that the hypotheses of the theorems name.        *)
(*                                                                         *)
(* DueTimes only bounds what TLC enumerates: the lease is implemented      *)
(* where it leaves nothing out.                                            *)
(***************************************************************************)
EXTENDS DayScheduler, DayRuntimeProofs, DayScheduleProofs

\* The lease of this game with what is proved about it.
P == INSTANCE DayLeaseProofs WITH
  Games <- {Game}, GameOrder <- [g \in {Game} |-> 0],
  clock <- now, status <- [g \in {Game} |-> status], rows <- [g \in {Game} |-> LeaseRow]

LEMMA LeaseAssumptions ==
  P!ConfigAssumption /\ P!LeaseAssumption /\ P!RowAssumption
BY LaneAssumption, NoneAssumption, BoundAssumption
DEF LaneAssumption, NoneAssumption, BoundAssumption, P!ConfigAssumption, P!LeaseAssumption,
    P!RowAssumption, P!Rows, P!Optional, Optional

LEMMA LeaseTypeStep ==
  ASSUME P!TypeOK, [P!Next]_(P!leaseVars)
  PROVE  P!TypeOK'
BY LeaseAssumptions, P!StepType

\* The instance that the composition is built on and this one are the same.
LEMMA SameActions == [L!Next]_(L!leaseVars) <=> [P!Next]_(P!leaseVars)
BY DEF L!Next, P!Next, L!leaseVars, P!leaseVars, L!Tick, P!Tick, L!WorkerStep, P!WorkerStep,
  L!ReadClock, P!ReadClock, L!Claim, P!Claim, L!ClaimNothing, P!ClaimNothing,
  L!Observe, P!Observe, L!Publish, P!Publish, L!ObserveWake, P!ObserveWake,
  L!Publishing, P!Publishing, L!PassRows, P!PassRows, L!Report, P!Report, L!GiveUp, P!GiveUp,
  L!Execute, P!Execute, L!Lose, P!Lose, L!Fold, P!Fold, L!Complete, P!Complete,
  L!Set, P!Set, L!Idle, P!Idle, L!Claimable, P!Claimable, L!Candidates, P!Candidates,
  L!Pending, P!Pending, L!Free, P!Free, L!Before, P!Before, L!MayBeLocked, P!MayBeLocked,
  L!Outcomes, P!Outcomes, L!CompletedAt, P!CompletedAt, L!Completed, P!Completed,
  L!Holds, P!Holds, L!Succeeded, P!Succeeded, L!Failed, P!Failed, L!RetryDelay, P!RetryDelay,
  L!Answered, P!Answered, L!Optional, P!Optional

-----------------------------------------------------------------------------
(* Where the two meet: observation times and the work row.                 *)

\* A worker's reading of the clock is of the past.
ReadingsPast == \A w \in Workers : run[w] # P!Idle => run[w].at \in 0..now

\* A live game that has a phase has a work row.
RowKept == NotCompleted /\ phase # None => work # None

Lane == TypeOK /\ P!TypeOK /\ ReadingsPast /\ RowKept /\ Wake <= MaxWakes

\* What a busy worker carries.
LEMMA RunFields ==
  ASSUME P!TypeOK, NEW w \in Workers
  PROVE  /\ run[w] = P!Idle => run[w].stage = "idle"
         /\ run[w] # P!Idle => run[w].stage # "idle"
         /\ run[w].stage \in {"claimed", "observed", "published"} =>
              run[w] # P!Idle /\ run[w].game = Game
BY DEF P!TypeOK, P!Runs, P!Claims, P!Idle

\* A pass of a worker is a pass of the game.
LEMMA RuntimeStep ==
  ASSUME Lane, [SchedulerNext]_schedulerVars
  PROVE  [Next]_vars
<1>1. CASE Command \/ Clock
  BY <1>1 DEF Command, Clock, Next
<1>2. ASSUME NEW w \in Workers, MechanicsPass(w)
      PROVE  Next
  <2>1. run[w].at \in 0..now
    BY <1>2, RunFields DEF MechanicsPass, Lane, ReadingsPast
  <2>2. \E seeds \in [Events -> Seeds] : Mechanics(run[w].at, seeds)
    BY <1>2 DEF MechanicsPass
  <2> QED
    BY <2>1, <2>2 DEF Next, Pass
<1>3. ASSUME NEW w \in Workers, NarrativePass(w)
      PROVE  Next
  BY <1>3 DEF NarrativePass, Next, Pass
<1>4. ASSUME NEW w \in Workers, WorkerStep(w), ~MechanicsPass(w), ~NarrativePass(w)
      PROVE  UNCHANGED vars
  BY <1>4 DEF WorkerStep, ReadClock, Claim, ClaimNothing, ReportSuccess, ReportFailure, GiveUp
<1>5. CASE DatabaseStep
  BY <1>5 DEF DatabaseStep, Execute, Lose
<1>6. CASE UNCHANGED schedulerVars
  BY <1>6 DEF schedulerVars
<1> QED
  BY <1>1, <1>2, <1>3, <1>4, <1>5, <1>6 DEF SchedulerNext

\* Facts of the game, as the lease sees them: the row is written again with the
\* same wake or the next, or deleted, or not touched.
Rewritten ==
  /\ NotCompleted /\ status' \in {status, "active"} /\ now' = now
  /\ work' # None /\ work' \in WorkRows
  /\ work'.wake = Wake \/ (Wake < MaxWakes /\ work'.wake = Wake + 1)

Deleted ==
  /\ NotCompleted /\ status' = "completed" /\ now' = now
  /\ work' = None

Untouched ==
  /\ UNCHANGED <<status, work>>
  /\ phase' = None <=> phase = None

LEMMA Rewrites ==
  ASSUME TypeOK, TypeOK', Refresh \/ RefreshAndWake, NotCompleted,
         status' \in {status, "active"}, now' = now
  PROVE  Rewritten
<1>1. PICK wake \in {Wake, Wake + 1} :
        work' = RowFor(event', narrative', phase', wake) /\ (wake # Wake => Wake < MaxWakes)
  BY DEF Refresh, RefreshAndWake
<1>2. work'.wake = wake
  BY <1>1 DEF RowFor
<1>3. work' \in WorkRows
  <2>1. Wake \in Nat
    BY DEF Wake, TypeOK, Optional, WorkRows
  <2>2. event' \in [Events -> EventRows] /\ phase' \in Optional(PhaseRows)
    BY DEF TypeOK
  <2> QED
    BY <1>1, <2>1, <2>2, RowForType
<1>4. work' # None
  BY <1>3, RowAssumption DEF RowAssumption
<1> QED
  BY <1>1, <1>2, <1>3, <1>4 DEF Rewritten

LEMMA RowFacts ==
  ASSUME TypeOK, [Next]_vars
  PROVE  Rewritten \/ Deleted \/ Untouched
<1>0. TypeOK'
  BY TypeStep
<1>1. ASSUME UNCHANGED <<status, work, phase>>
      PROVE  Untouched
  BY <1>1 DEF Untouched
<1>2. CASE Tick \/ UNCHANGED vars
  BY <1>1, <1>2 DEF Tick, vars
<1>3. CASE PhaseCommand
  <2>1. CASE UnlockThread
    <3>1. phase \in PhaseRows /\ phase # None /\ phase' = [phase EXCEPT !.locked = FALSE]
          /\ UNCHANGED <<status, work>>
      BY <2>1 DEF UnlockThread, TypeOK, Optional
    <3>2. phase' \in PhaseRows
      BY <3>1 DEF PhaseRows
    <3> QED
      BY <3>1, <3>2, RowAssumption DEF RowAssumption, Untouched
  <2>2. CASE CompleteGame
    BY <2>2 DEF CompleteGame, Deleted
  <2>3. CASE ~UnlockThread /\ ~CompleteGame
    <3>1. NotCompleted /\ RefreshAndWake /\ status' \in {status, "active"} /\ now' = now
      BY <1>3, <2>3
      DEF PhaseCommand, StartGame, OpenDayPhase, AdvancePhase, AdvancePhaseByDeadline, Advanceable,
          EnterPhase, LockThread, ResolvePhase, eventVars
    <3> QED
      BY <1>0, <3>1, Rewrites
  <2> QED
    BY <2>1, <2>2, <2>3
<1>4. CASE EventCommand
  <2>1. ASSUME NEW e \in Events, NEW s \in Slots,
               SubmitParticipation(e, s) \/ WithdrawParticipation(e, s)
        PROVE  Untouched
    BY <1>1, <2>1 DEF SubmitParticipation, WithdrawParticipation, gameVars
  <2>2. ASSUME NotCompleted, Refresh \/ RefreshAndWake, UNCHANGED gameVars
        PROVE  Rewritten
    BY <1>0, <2>2, Rewrites DEF gameVars
  <2>3. ASSUME NEW program \in Programs, AttachDayProgram(program)
        PROVE  Rewritten
    BY <2>2, <2>3 DEF AttachDayProgram
  <2>4. ASSUME NEW e \in Events, ScheduleDayEvent(e)
        PROVE  Rewritten
    BY <2>2, <2>4 DEF ScheduleDayEvent
  <2>5. ASSUME NEW e \in Events, NEW row, NEW lifecycle, NotCompleted, SetEvent(e, row, lifecycle)
        PROVE  Rewritten
    BY <2>2, <2>5 DEF SetEvent
  <2>6. ASSUME NEW e \in Events, OpenDayEvent(e) \/ CancelDayEvent(e)
        PROVE  Rewritten
    BY <2>5, <2>6 DEF OpenDayEvent, CancelDayEvent
  <2>7. ASSUME NEW e \in Events, NEW seed \in Seeds, LockDayEvent(e, seed)
        PROVE  Rewritten
    BY <2>5, <2>7 DEF LockDayEvent
  <2>8. ASSUME NEW e \in Events, NEW winners \in SUBSET Slots, ResolveDayEvent(e, winners)
        PROVE  Rewritten
    BY <2>5, <2>8 DEF ResolveDayEvent
  <2> QED
    BY <1>4, <2>1, <2>3, <2>4, <2>6, <2>7, <2>8 DEF EventCommand
<1>5. CASE Pass
  <2>1. NotCompleted /\ UNCHANGED gameVars /\ (Refresh \/ UNCHANGED work)
    BY <1>5 DEF Pass, Mechanics, MechanicsSucceed, PublishNarratives
  <2> QED
    BY <1>0, <1>1, <2>1, Rewrites DEF gameVars
<1> QED
  BY <1>2, <1>3, <1>4, <1>5 DEF Next

\* A pass writes the row with its wake, or leaves it.
LEMMA PassFacts ==
  ASSUME TypeOK, TypeOK', Pass, work # None
  PROVE  work' # None /\ work' \in WorkRows /\ work'.wake = work.wake
<1>1. NotCompleted /\ UNCHANGED gameVars /\ (Refresh \/ UNCHANGED work)
  BY DEF Pass, Mechanics, MechanicsSucceed, PublishNarratives
<1>2. CASE Refresh
  <2>1. work'.wake = Wake
    BY <1>2 DEF Refresh, RowFor
  <2>2. Rewritten
    BY <1>1, <1>2, Rewrites DEF gameVars
  <2> QED
    BY <2>1, <2>2 DEF Rewritten, Wake
<1>3. CASE UNCHANGED work
  BY <1>3 DEF TypeOK, Optional
<1> QED
  BY <1>1, <1>2, <1>3

-----------------------------------------------------------------------------
(* The lease is implemented.                                               *)

LEMMA LeaseRowFields ==
  ASSUME DueTimes = Int, work \in WorkRows, work # None
  PROVE  /\ LeaseRow \in [due : L!Optional(DueTimes), wake : {work.wake}, ready : BOOLEAN]
         /\ LeaseRow \in L!Rows /\ LeaseRow # None /\ LeaseRow.wake = work.wake
<1>1. LeaseRow \in [due : Optional(DueTimes), wake : {work.wake}, ready : BOOLEAN]
      /\ LeaseRow.wake = work.wake /\ work.wake \in Nat
  BY DEF LeaseRow, WorkRows
<1>2. LeaseRow \in [due : Optional(DueTimes), wake : Nat, ready : BOOLEAN]
  BY <1>1
<1> QED
  BY <1>1, <1>2, LaneAssumption DEF LaneAssumption, L!Rows, L!Optional, Optional

LEMMA UntouchedIsStutter ==
  ASSUME UNCHANGED <<now, status, work, sched, run, requests, seen>>
  PROVE  UNCHANGED L!leaseVars
BY DEF L!leaseVars, LeaseRow

LEMMA GameStep ==
  ASSUME DueTimes = Int, Lane, Rewritten \/ Deleted, UNCHANGED laneVars
  PROVE  L!Next
<1>1. CASE Deleted
  <2>1. L!Complete(Game)
    BY <1>1 DEF Deleted, L!Complete, LeaseRow, laneVars, NotCompleted
  <2> QED
    BY <2>1 DEF L!Next
<1>2. CASE Rewritten
  <2>1. LeaseRow' \in [due : L!Optional(DueTimes), wake : {work'.wake}, ready : BOOLEAN]
        /\ LeaseRow'.wake = work'.wake
    <3>1. LeaseRow' \in [due : Optional(DueTimes), wake : {work'.wake}, ready : BOOLEAN]
          /\ LeaseRow'.wake = work'.wake
      BY <1>2 DEF Rewritten, LeaseRow, WorkRows
    <3> QED
      BY <3>1 DEF L!Optional, Optional
  <2>2. Wake = IF LeaseRow = None THEN 0 ELSE LeaseRow.wake
    <3>1. CASE work = None
      BY <3>1 DEF LeaseRow, Wake
    <3>2. CASE work # None
      BY <3>2, LeaseRowFields DEF Wake, Lane, TypeOK, Optional
    <3> QED
      BY <3>1, <3>2
  <2>3. work'.wake \in {Wake, Wake + 1} /\ work'.wake <= MaxWakes
    <3>1. Wake \in Nat /\ Wake <= MaxWakes
      BY DEF Lane, TypeOK, Wake, Optional, WorkRows
    <3> QED
      BY <1>2, <3>1, BoundAssumption DEF Rewritten, BoundAssumption
  <2>4. LeaseRow' \in [due : L!Optional(DueTimes), wake : {Wake, Wake + 1}, ready : BOOLEAN]
    BY <2>1, <2>3
  <2>5. L!Fold(Game)
    BY <1>2, <2>1, <2>2, <2>3, <2>4 DEF Rewritten, L!Fold, laneVars, NotCompleted
  <2> QED
    BY <2>5 DEF L!Next
<1> QED
  BY <1>1, <1>2

\* The transactions of a worker's pass write the row and keep its wake.
LEMMA PassRowsHold ==
  ASSUME DueTimes = Int, Lane, Pass, work # None
  PROVE  L!PassRows(Game)
<1>1. TypeOK'
  BY TypeStep DEF Lane, Next
<1>2. work' # None /\ work' \in WorkRows /\ work'.wake = work.wake
  BY <1>1, PassFacts DEF Lane
<1>3. LeaseRow # None /\ LeaseRow.wake = work.wake
  BY LeaseRowFields DEF Lane, TypeOK, Optional
<1>4. LeaseRow' \in [due : Optional(DueTimes), wake : {work'.wake}, ready : BOOLEAN]
  BY <1>2 DEF LeaseRow, WorkRows
<1>5. LeaseRow' \in [due : L!Optional(DueTimes), wake : {LeaseRow.wake}, ready : BOOLEAN]
  BY <1>2, <1>3, <1>4 DEF L!Optional, Optional
<1> QED
  BY <1>3, <1>5 DEF L!PassRows

LEMMA WorkerIsLeaseWorker ==
  ASSUME DueTimes = Int, Lane, NEW w \in Workers, WorkerStep(w)
  PROVE  L!WorkerStep(w)
<1>1. CASE ReadClock(w) \/ Claim(w) \/ ClaimNothing(w) \/ GiveUp(w)
  BY <1>1 DEF ReadClock, Claim, ClaimNothing, GiveUp, L!WorkerStep
<1>2. CASE MechanicsPass(w)
  <2>1. run[w].game = Game /\ run[w].at \in 0..now
    BY <1>2, RunFields DEF MechanicsPass, Lane, ReadingsPast
  <2>2. Pass
    BY <1>2, <2>1 DEF MechanicsPass, Pass
  <2>3. L!ObserveWake(w) /\ LeaseRow # None
    BY <1>2, <2>1 DEF MechanicsPass, L!ObserveWake
  <2>4. L!PassRows(Game)
    BY <2>2, <2>3, PassRowsHold DEF LeaseRow
  <2> QED
    BY <2>1, <2>3, <2>4 DEF L!WorkerStep, L!Observe
<1>3. CASE NarrativePass(w)
  <2>1. run[w].game = Game
    BY <1>3, RunFields DEF NarrativePass, Lane
  <2>2. Pass /\ work # None
    BY <1>3 DEF NarrativePass, Pass, PublishNarratives, Lane, RowKept
  <2>3. L!PassRows(Game)
    BY <2>2, PassRowsHold
  <2> QED
    BY <1>3, <2>1, <2>3 DEF NarrativePass, L!WorkerStep, L!Publish
<1>4. ASSUME NEW ok \in BOOLEAN, NEW at \in {now - 1, now}, L!Report(w, ok, at)
      PROVE  L!WorkerStep(w)
  <2>1. run[w].stage \in {"claimed", "observed", "published"} /\ at >= run[w].at
    BY <1>4 DEF L!Report, L!CompletedAt
  <2>2. run[w].at \in 0..now /\ now \in 0..MaxTime /\ MaxTime \in Nat
    BY <2>1, RunFields, BoundAssumption DEF Lane, ReadingsPast, TypeOK, BoundAssumption
  <2>3. at \in 0..MaxTime
    BY <2>1, <2>2
  <2> QED
    BY <1>4, <2>3 DEF L!WorkerStep
<1>5. CASE ReportSuccess(w) \/ ReportFailure(w)
  BY <1>4, <1>5 DEF ReportSuccess, ReportFailure
<1> QED
  BY <1>1, <1>2, <1>3, <1>5 DEF WorkerStep

LEMMA LeaseImplemented ==
  ASSUME DueTimes = Int, Lane, [SchedulerNext]_schedulerVars
  PROVE  [L!Next]_(L!leaseVars)
<1>1. CASE Command
  <2>1. Rewritten \/ Deleted \/ Untouched
    BY <1>1, RowFacts DEF Command, Next, Lane
  <2>2. CASE Rewritten \/ Deleted
    BY <1>1, <2>2, GameStep DEF Command
  <2>3. CASE Untouched
    <3>1. now' = now
      BY <1>1
      DEF Command, PhaseCommand, StartGame, OpenDayPhase, AdvancePhase, AdvancePhaseByDeadline,
          EnterPhase, LockThread, UnlockThread, ResolvePhase, CompleteGame, EventCommand,
          AttachDayProgram, ScheduleDayEvent, OpenDayEvent, CancelDayEvent, LockDayEvent,
          ResolveDayEvent, SubmitParticipation, WithdrawParticipation, SetEvent, gameVars
    <3> QED
      BY <1>1, <2>3, <3>1, UntouchedIsStutter DEF Command, Untouched, laneVars
  <2> QED
    BY <2>1, <2>2, <2>3
<1>2. CASE Clock
  <2>1. L!Tick
    BY <1>2 DEF Clock, Tick, L!Tick, LeaseRow, laneVars
  <2> QED
    BY <2>1 DEF L!Next
<1>3. ASSUME NEW w \in Workers, WorkerStep(w)
      PROVE  L!Next
  BY <1>3, WorkerIsLeaseWorker DEF L!Next
<1>4. CASE DatabaseStep
  BY <1>4 DEF DatabaseStep, Execute, Lose, L!Next
<1>5. CASE UNCHANGED schedulerVars
  BY <1>5, UntouchedIsStutter DEF schedulerVars, vars, laneVars
<1> QED
  BY <1>1, <1>2, <1>3, <1>4, <1>5 DEF SchedulerNext

-----------------------------------------------------------------------------
(* The invariant, and what follows for the automation.                     *)

\* A worker reads the present, keeps what it read, or drops it.
LEMMA ReadingsStep ==
  ASSUME Lane, P!TypeOK', [L!Next]_(L!leaseVars)
  PROVE  ReadingsPast'
<1>1. now \in Int /\ now' \in {now, now + 1}
  <2>1. now \in Int
    BY DEF Lane, TypeOK
  <2>2. L!Tick => now' = now + 1
    BY DEF L!Tick
  <2>3. \A w \in Workers : L!WorkerStep(w) => now' = now
    BY DEF L!WorkerStep, L!ReadClock, L!Claim, L!ClaimNothing, L!Observe, L!ObserveWake,
           L!Publish, L!Publishing, L!Report, L!GiveUp
  <2>4. \A r \in requests : L!Execute(r) \/ L!Lose(r) => now' = now
    BY DEF L!Execute, L!Lose
  <2>5. \A g \in {Game} : L!Fold(g) \/ L!Complete(g) => now' = now
    BY DEF L!Fold, L!Complete
  <2>6. UNCHANGED L!leaseVars => now' = now
    BY DEF L!leaseVars
  <2> QED
    BY <2>1, <2>2, <2>3, <2>4, <2>5, <2>6 DEF L!Next
<1> SUFFICES ASSUME NEW v \in Workers
             PROVE  \/ run'[v] = run[v] \/ run'[v] = P!Idle
                    \/ run'[v].at = now \/ (run[v] # P!Idle /\ run'[v].at = run[v].at)
  BY <1>1 DEF Lane, ReadingsPast, TypeOK
<1>2. run \in [Workers -> P!Runs] /\ P!Idle = L!Idle
  BY DEF Lane, P!TypeOK, P!Idle, L!Idle
<1>3. CASE UNCHANGED run
  BY <1>3
<1>4. ASSUME NEW w \in Workers, L!ReadClock(w) \/ L!ClaimNothing(w) \/ L!GiveUp(w)
      PROVE  run'[v] = run[v] \/ run'[v] = P!Idle \/ run'[v].at = now
  BY <1>2, <1>4 DEF L!ReadClock, L!ClaimNothing, L!GiveUp, L!Set
<1>5. ASSUME NEW w \in Workers, NEW g \in {Game}, L!Claim(w, g)
      PROVE  run'[v] = run[v] \/ (run[v] # P!Idle /\ run'[v].at = run[v].at)
  <2>1. run[w] # P!Idle
    BY <1>5, RunFields DEF L!Claim, Lane
  <2> QED
    BY <1>2, <1>5, <2>1 DEF L!Claim, L!Set
<1>6. ASSUME NEW w \in Workers, NEW st,
             run[w].stage \in {"claimed", "observed", "published"},
             L!Set(w, [run[w] EXCEPT !.stage = st])
      PROVE  run'[v] = run[v] \/ (run[v] # P!Idle /\ run'[v].at = run[v].at)
  <2>1. run[w] \in P!Claims /\ run[w] # P!Idle
    BY <1>2, <1>6, RunFields DEF P!Runs, P!Idle, Lane
  <2> QED
    BY <1>2, <1>6, <2>1 DEF P!Claims, L!Set
<1>7. ASSUME NEW w \in Workers, L!Observe(w) \/ L!Publish(w)
      PROVE  run'[v] = run[v] \/ (run[v] # P!Idle /\ run'[v].at = run[v].at)
  BY <1>6, <1>7 DEF L!Observe, L!ObserveWake, L!Publish, L!Publishing
<1>8. ASSUME NEW w \in Workers, NEW ok, NEW at, L!Report(w, ok, at)
      PROVE  run'[v] = run[v] \/ (run[v] # P!Idle /\ run'[v].at = run[v].at)
  BY <1>6, <1>8 DEF L!Report
<1>9. ASSUME NEW r \in requests, L!Execute(r)
      PROVE  run'[v] = run[v] \/ run'[v] = P!Idle
  BY <1>2, <1>9 DEF L!Execute
<1> QED
  BY <1>3, <1>4, <1>5, <1>7, <1>8, <1>9
  DEF L!Next, L!leaseVars, L!WorkerStep, L!Tick, L!Lose, L!Fold, L!Complete

LEMMA LaneStep ==
  ASSUME DueTimes = Int, Lane, [SchedulerNext]_schedulerVars
  PROVE  Lane'
<1>1. [Next]_vars /\ [L!Next]_(L!leaseVars)
  BY RuntimeStep, LeaseImplemented
<1>2. TypeOK'
  BY <1>1, TypeStep DEF Lane
<1>3. P!TypeOK'
  BY <1>1, SameActions, LeaseTypeStep DEF Lane
<1>4. ReadingsPast'
  BY <1>1, <1>3, ReadingsStep
<1>5. Wake \in Nat /\ Wake <= MaxWakes /\ MaxWakes \in Nat
  BY BoundAssumption DEF Lane, TypeOK, Wake, Optional, WorkRows, BoundAssumption
<1>6. Rewritten \/ Deleted \/ Untouched
  BY <1>1, RowFacts DEF Lane
<1>7. RowKept'
  BY <1>6 DEF Lane, RowKept, Rewritten, Deleted, Untouched, NotCompleted
<1>8. (Wake <= MaxWakes)'
  <2>1. CASE Rewritten
    BY <1>5, <2>1 DEF Rewritten, Wake
  <2>2. CASE Deleted
    BY <1>5, <2>2 DEF Deleted, Wake
  <2>3. CASE Untouched
    BY <1>5, <2>3 DEF Untouched, Wake
  <2> QED
    BY <1>6, <2>1, <2>2, <2>3
<1> QED
  BY <1>2, <1>3, <1>4, <1>7, <1>8 DEF Lane

LEMMA LaneInit == SchedulerInit => Lane /\ Init /\ L!Init
<1> SUFFICES ASSUME SchedulerInit
             PROVE  Lane /\ Init /\ L!Init
  OBVIOUS
<1>1. Init /\ L!Init /\ work = None
  BY DEF SchedulerInit, Init
<1>2. TypeOK
  BY <1>1, RuntimeInitType
<1>3. P!TypeOK
  <2>1. P!Init
    BY <1>1 DEF L!Init, P!Init, L!Idle, P!Idle
  <2> QED
    BY <2>1, LeaseAssumptions, P!InitType
<1>4. ReadingsPast
  BY <1>1 DEF L!Init, L!Idle, P!Idle, ReadingsPast
<1>5. RowKept
  BY <1>1 DEF Init, RowKept
<1>6. Wake <= MaxWakes
  BY <1>1, BoundAssumption DEF Wake, BoundAssumption
<1> QED
  BY <1>1, <1>2, <1>3, <1>4, <1>5, <1>6 DEF Lane

LEMMA LaneInvariant ==
  ASSUME DueTimes = Int
  PROVE  SchedulerSpec => []Lane
BY LaneInit, LaneStep, PTL DEF SchedulerSpec

\* The automation is a run of the lease protocol, for any events and programs: its
\* workers and the work row that commands and passes write do only what DayLease
\* allows.
THEOREM AutomationImplementsLease ==
  ASSUME DueTimes = Int
  PROVE  SchedulerSpec => ImplementsLease
BY LaneInit, LaneInvariant, LeaseImplemented, PTL DEF SchedulerSpec, ImplementsLease, L!Spec

\* The automation is a run of the commands and passes of its game: what those keep,
\* they keep under workers, leases, crashes and late statements.
THEOREM AutomationImplementsRuntime ==
  ASSUME DueTimes = Int
  PROVE  SchedulerSpec => Spec
BY LaneInit, LaneInvariant, RuntimeStep, PTL DEF SchedulerSpec, Spec

\* Hence a game that is automated keeps its work row current, its results
\* replayable and its notices single.
THEOREM AutomationKeepsRuntime ==
  ASSUME DueTimes = Int
  PROVE  SchedulerSpec => [](WorkRowCurrent /\ EvidenceReplays /\ NoticeOncePerLifecycle)
BY AutomationImplementsRuntime, WorkRowIsCurrent, EvidenceAlwaysReplays, NoticesAreOnce, PTL

\* Hence the lease of the latest attempt is never released by another, two passes
\* of the game overlap only after an expiry, no wake is acknowledged unread, and
\* the game is never withheld longer than one lease or the longest backoff.
THEOREM AutomationKeepsLease ==
  ASSUME DueTimes = Int
  PROVE  SchedulerSpec =>
           [](/\ P!LatestAttemptHoldsLease /\ P!OverlapNeedsExpiry
              /\ P!WakeSeen /\ P!WaitsBounded)
<1>1. SchedulerSpec => P!Spec
  <2>1. L!Init => P!Init
    BY DEF L!Init, P!Init, L!Idle, P!Idle
  <2> QED
    BY <2>1, LaneInit, LaneInvariant, LeaseImplemented, SameActions, PTL
    DEF SchedulerSpec, P!Spec
<1>2. P!Spec => []P!LatestAttemptHoldsLease
  BY LeaseAssumptions, P!LeaseHeld
<1>3. P!Spec => []P!OverlapNeedsExpiry
  BY LeaseAssumptions, P!OverlapExcluded
<1>4. P!Spec => []P!WakeSeen
  BY LeaseAssumptions, P!WakeAcknowledged
<1>5. P!Spec => []P!WaitsBounded
  BY LeaseAssumptions, P!WaitsAreBounded
<1> QED
  BY <1>1, <1>2, <1>3, <1>4, <1>5, PTL

-----------------------------------------------------------------------------
(* Discovery. What a pass would do depends on the rows, the phase and the  *)
(* timeline; each of the three changes in few ways.                        *)

\* A phase command opens a phase, or adds signals to the current one and wakes;
\* nothing else touches what the schedules read of the phases.
LEMMA PhaseMoves ==
  ASSUME TypeOK, [Next]_vars
  PROVE  \/ \E p \in Phases, openedAt \in Int : EnterPhase(p, openedAt)
         \/ /\ PhaseId(phase') = PhaseId(phase) /\ OpenedAt(phase') = OpenedAt(phase)
            /\ (phase' = None) <=> (phase = None)
            /\ timeline'.anchor = timeline.anchor
            /\ timeline'.signals = timeline.signals \/ RefreshAndWake
<1>1. ASSUME UNCHANGED <<phase, timeline>>
      PROVE  /\ PhaseId(phase') = PhaseId(phase) /\ OpenedAt(phase') = OpenedAt(phase)
             /\ (phase' = None) <=> (phase = None)
             /\ timeline'.anchor = timeline.anchor /\ timeline'.signals = timeline.signals
  BY <1>1
<1>2. now \in Int /\ MaxTime \in Nat
  BY BoundAssumption DEF TypeOK, BoundAssumption
<1>3. ASSUME phase # None
      PROVE  /\ phase \in PhaseRows /\ timeline \in Timelines
             /\ \A b \in BOOLEAN : /\ [phase EXCEPT !.locked = b] # None
                                   /\ PhaseId([phase EXCEPT !.locked = b]) = PhaseId(phase)
                                   /\ OpenedAt([phase EXCEPT !.locked = b]) = OpenedAt(phase)
  <2>1. phase \in PhaseRows /\ timeline \in Timelines
    BY <1>3 DEF TypeOK, Optional
  <2>2. ASSUME NEW b \in BOOLEAN, NEW row, row = [phase EXCEPT !.locked = b]
        PROVE  row \in PhaseRows /\ row.id = phase.id /\ row.openedAt = phase.openedAt
    BY <2>1, <2>2 DEF PhaseRows
  <2> QED
    BY <1>3, <2>1, <2>2, RowAssumption DEF RowAssumption, PhaseId, OpenedAt
<1>4. CASE Tick \/ EventCommand \/ Pass \/ UNCHANGED vars
  <2>1. UNCHANGED <<phase, timeline>>
    BY <1>4
    DEF Tick, vars, Pass, Mechanics, PublishNarratives, EventCommand, AttachDayProgram,
        ScheduleDayEvent, OpenDayEvent, CancelDayEvent, LockDayEvent, ResolveDayEvent,
        SubmitParticipation, WithdrawParticipation, SetEvent, gameVars
  <2> QED
    BY <1>1, <2>1
<1>5. CASE PhaseCommand
  <2>1. ASSUME NEW p \in Phases, StartGame(p) \/ OpenDayPhase(p)
        PROVE  \E openedAt \in Int : EnterPhase(p, openedAt)
    BY <1>2, <2>1 DEF StartGame, OpenDayPhase
  <2>2. Advanceable => NextPhase[phase.id] \in Phases
    <3>1. Advanceable => phase.id \in Phases
      BY <1>3 DEF Advanceable, PhaseRows
    <3> QED
      BY <3>1, PhaseAssumption DEF PhaseAssumption, Advanceable
  <2>3. ASSUME NEW at \in Int, Advanceable, EnterPhase(NextPhase[phase.id], at)
        PROVE  \E p \in Phases, openedAt \in Int : EnterPhase(p, openedAt)
    BY <2>2, <2>3
  <2>4. CASE AdvancePhase
    BY <1>2, <2>3, <2>4 DEF AdvancePhase
  <2>5. ASSUME NEW at \in 0..MaxTime, AdvancePhaseByDeadline(at)
        PROVE  \E p \in Phases, openedAt \in Int : EnterPhase(p, openedAt)
    BY <2>3, <2>5 DEF AdvancePhaseByDeadline
  <2>6. CASE LockThread \/ ResolvePhase
    <3>1. phase # None /\ phase' = [phase EXCEPT !.locked = TRUE] /\ RefreshAndWake
      BY <2>6 DEF LockThread, ResolvePhase
    <3>2. timeline'.anchor = timeline.anchor
      BY <1>3, <2>6, <3>1 DEF LockThread, ResolvePhase, Timelines
    <3> QED
      BY <1>3, <3>1, <3>2
  <2>7. CASE UnlockThread
    BY <1>3, <2>7 DEF UnlockThread
  <2>8. CASE CompleteGame
    BY <1>1, <2>8 DEF CompleteGame
  <2> QED
    BY <1>5, <2>1, <2>4, <2>5, <2>6, <2>7, <2>8 DEF PhaseCommand
<1> QED
  BY <1>4, <1>5 DEF Next

\* What opening a phase leaves of it.
LEMMA PhaseEntered ==
  ASSUME TypeOK, NEW p \in Phases, NEW openedAt \in Int, EnterPhase(p, openedAt)
  PROVE  /\ phase'.id = p /\ phase'.openedAt = openedAt
         /\ timeline'.anchor = [timeline.anchor EXCEPT ![p] = openedAt]
         /\ UNCHANGED event /\ RefreshAndWake
<1>1. timeline \in Timelines
  BY DEF TypeOK
<1>2. timeline'.anchor = [timeline.anchor EXCEPT ![p] = openedAt]
  BY <1>1 DEF EnterPhase, Timelines
<1> QED
  BY <1>2 DEF EnterPhase, eventVars

\* How a pass opened an event: at an observation time of the past, when the rules
\* allowed it, and with the boundary it crossed on record.
PassOpened(e) ==
  /\ UNCHANGED gameVars /\ phase # None
  /\ event[e].state = "scheduled" /\ event'[e].state = "open"
  /\ \E at \in 0..now :
       /\ Opens(e, at)
       /\ event'[e].openDueAt =
            Recorded(event[e].openDueAt, OpeningDue(Definition[e].schedule, Context(at)))

\* What a step makes of one event's schedule.
Rescheduled(e) ==
  \/ event'[e] = event[e]
  \/ event[e].state = "absent" /\ event'[e] = Scheduled(e) /\ RefreshAndWake
  \/ event'[e].state \in {"locked", "resolved", "cancelled"}
  \/ event'[e].state = "open" /\ Definition[e].schedule.kind = "host"
  \/ PassOpened(e)

LEMMA MechanicsReschedules ==
  ASSUME TypeOK, NEW at \in 0..now, NEW seeds, Mechanics(at, seeds), NEW e \in Events
  PROVE  /\ Rescheduled(e)
         /\ event'[e].state = "scheduled" => event'[e] = event[e] /\ ~Opens(e, at)
<1>1. /\ event'[e] = Observed(e, at, seeds[e]) /\ UNCHANGED gameVars /\ phase # None
  BY DEF Mechanics, MechanicsSucceed
<1>2. event[e] \in EventRows
  BY DEF TypeOK
<1>3. CASE e \in PendingAuto
  <2>1. event'[e].state = "resolved"
    BY <1>1, <1>3, ResolvedFields DEF Observed
  <2> QED
    BY <2>1 DEF Rescheduled
<1>4. CASE e \notin PendingAuto /\ Locks(e, at)
  <2>1. PICK seed : event'[e] = Observed(e, at, seed)
    BY <1>1
  <2>2. Observed(e, at, seed).state = "locked"
    BY <1>4, ObservedFields
  <2> QED
    BY <2>1, <2>2 DEF Rescheduled
<1>5. CASE e \notin PendingAuto /\ ~Locks(e, at) /\ ~Opens(e, at)
  BY <1>1, <1>5 DEF Observed, Rescheduled
<1>6. CASE e \notin PendingAuto /\ ~Locks(e, at) /\ Opens(e, at)
  <2> DEFINE due == Recorded(event[e].openDueAt, OpeningDue(Definition[e].schedule, Context(at)))
  <2>1. event'[e] = [event[e] EXCEPT !.state = "open", !.openDueAt = due]
    BY <1>1, <1>6 DEF Observed
  <2> HIDE DEF due
  <2>2. event'[e].state = "open" /\ event'[e].openDueAt = due
    BY <1>2, <2>1 DEF EventRows
  <2>3. event[e].state = "scheduled"
    BY <1>6 DEF Opens, MayOpen
  <2> QED
    BY <1>1, <1>6, <2>2, <2>3 DEF Rescheduled, PassOpened, due
<1> QED
  BY <1>3, <1>4, <1>5, <1>6

LEMMA EventReschedules ==
  ASSUME TypeOK, [Next]_vars, NEW e \in Events
  PROVE  Rescheduled(e)
<1>1. ASSUME UNCHANGED event PROVE Rescheduled(e)
  BY <1>1 DEF Rescheduled
<1>2. CASE Tick \/ PhaseCommand \/ PublishNarratives \/ UNCHANGED vars
  <2>1. UNCHANGED event
    BY <1>2
    DEF Tick, PublishNarratives, vars, PhaseCommand, StartGame, OpenDayPhase, AdvancePhase,
        AdvancePhaseByDeadline, EnterPhase, LockThread, UnlockThread, ResolvePhase, CompleteGame,
        eventVars
  <2> QED
    BY <1>1, <2>1
<1>3. CASE EventCommand
  <2>1. ASSUME NEW program \in Programs, AttachDayProgram(program)
        PROVE  Rescheduled(e)
    BY <2>1 DEF AttachDayProgram, Rescheduled
  <2>2. ASSUME NEW f \in Events, ScheduleDayEvent(f)
        PROVE  Rescheduled(e)
    BY <2>2 DEF ScheduleDayEvent, Rescheduled, TypeOK
  <2>3. ASSUME NEW f \in Events, NEW row, NEW lifecycle, SetEvent(f, row, lifecycle),
               \/ row.state \in {"locked", "resolved", "cancelled"}
               \/ row.state = "open" /\ Definition[f].schedule.kind = "host"
        PROVE  Rescheduled(e)
    BY <2>3, SetEventMoves DEF Rescheduled
  <2>8. ASSUME NEW f \in Events
        PROVE  /\ \A st : [event[f] EXCEPT !.state = st].state = st
               /\ \A seed : [event[f] EXCEPT !.state = "locked", !.seed = seed].state = "locked"
    <3>1. event[f] \in EventRows
      BY DEF TypeOK
    <3> QED
      BY <3>1, RowFields
  <2>4. ASSUME NEW f \in Events, OpenDayEvent(f) \/ CancelDayEvent(f)
        PROVE  Rescheduled(e)
    <3>1. CASE OpenDayEvent(f)
      BY <2>3, <2>8, <3>1 DEF OpenDayEvent
    <3>2. CASE CancelDayEvent(f)
      BY <2>3, <2>8, <3>2 DEF CancelDayEvent
    <3> QED
      BY <2>4, <3>1, <3>2
  <2>5. ASSUME NEW f \in Events, NEW seed \in Seeds, LockDayEvent(f, seed)
        PROVE  Rescheduled(e)
    BY <2>3, <2>5, <2>8 DEF LockDayEvent
  <2>6. ASSUME NEW f \in Events, NEW chosen \in SUBSET Slots, ResolveDayEvent(f, chosen)
        PROVE  Rescheduled(e)
    BY <2>3, <2>6, ResolvedFields DEF ResolveDayEvent
  <2>7. ASSUME NEW f \in Events, NEW s \in Slots,
               SubmitParticipation(f, s) \/ WithdrawParticipation(f, s)
        PROVE  Rescheduled(e)
    BY <1>1, <2>7 DEF SubmitParticipation, WithdrawParticipation
  <2> QED
    BY <1>3, <2>1, <2>2, <2>4, <2>5, <2>6, <2>7 DEF EventCommand
<1>4. ASSUME NEW at \in 0..now, NEW seeds \in [Events -> Seeds], Mechanics(at, seeds)
      PROVE  Rescheduled(e)
  BY <1>4, MechanicsReschedules
<1> QED
  BY <1>2, <1>3, <1>4 DEF Next, Pass

-----------------------------------------------------------------------------
(* Triggers. A waiting trigger has no due time; the wake cursor stands in  *)
(* for it, provided that its event has no window to wait for as well.      *)

NoWindowedTriggers ==
  \A e \in Events :
    Definition[e].schedule.kind = "trigger" => Definition[e].scope.kind # "window"

\* The signal has come in the current phase and the scope allows the opening.
TriggerReady(e) ==
  /\ Definition[e].schedule.kind = "trigger" /\ event[e].state = "scheduled"
  /\ phase # None /\ Definition[e].schedule.signal.phase = PhaseId(phase)
  /\ Definition[e].schedule.signal \in timeline.signals
  /\ ScopeCanOpen(Definition[e].scope, PhaseId(phase))

\* No pass has read the cursor since a trigger became ready.
Woken ==
  NotCompleted =>
    /\ seen[Game] <= Wake
    /\ (\E e \in Events : TriggerReady(e)) => seen[Game] < Wake

\* A trigger opens at any observation time once it is ready, and not before.
LEMMA TriggerOpens ==
  ASSUME TypeOK, NoWindowedTriggers, phase # None, NEW e \in Events,
         Definition[e].schedule.kind = "trigger", NEW at \in Int
  PROVE  Opens(e, at) <=> TriggerReady(e)
<1> DEFINE s == Definition[e].schedule
           scope == Definition[e].scope
           ctx == Context(at)
<1>1. ctx \in Contexts /\ ctx.now = at /\ ctx.phase = PhaseId(phase) /\ ctx.signals = timeline.signals
  BY ContextTyped DEF Context, PhaseId
<1>2. OpeningDue(s, ctx) # {} <=> s.signal.phase = ctx.phase /\ s.signal \in ctx.signals
  BY <1>1 DEF OpeningDue, OpeningBoundary
<1>3. scope \in Scopes /\ scope.kind # "window" /\ ctx.phase # None
  BY <1>1, DefinitionType, ContextType DEF NoWindowedTriggers
<1>4. ScopeAllowsOpen(scope, ctx) <=> ScopeCanOpen(scope, ctx.phase)
  BY <1>3 DEF ScopeAllowsOpen, ScopeCanOpen, Scopes
<1> QED
  BY <1>1, <1>2, <1>4 DEF Opens, MayOpen, TriggerReady

\* A trigger becomes ready only in a transaction that wakes the scheduler.
LEMMA ReadyWakes ==
  ASSUME TypeOK, [Next]_vars, NEW e \in Events, TriggerReady(e)'
  PROVE  TriggerReady(e) \/ RefreshAndWake
<1>1. event'[e] = event[e] \/ RefreshAndWake
  <2>1. Rescheduled(e)
    BY EventReschedules
  <2>2. event'[e].state = "scheduled" /\ Definition[e].schedule.kind = "trigger"
    BY DEF TriggerReady
  <2> QED
    BY <2>1, <2>2 DEF Rescheduled, PassOpened
<1>2. CASE \E p \in Phases, openedAt \in Int : EnterPhase(p, openedAt)
  BY <1>2 DEF EnterPhase
<1>3. CASE /\ PhaseId(phase') = PhaseId(phase)
           /\ (phase' = None) <=> (phase = None)
           /\ timeline'.signals = timeline.signals \/ RefreshAndWake
  <2>1. PhaseId(phase)' = PhaseId(phase) /\ (phase # None)' <=> phase # None
    BY <1>3 DEF PhaseId
  <2> QED
    BY <1>1, <1>3, <2>1 DEF TriggerReady
<1> QED
  BY <1>2, <1>3, PhaseMoves

LEMMA WakeType ==
  ASSUME Lane
  PROVE  Wake \in Nat /\ seen \in [{Game} -> Nat] /\ (work # None => work.wake = Wake)
BY DEF Lane, TypeOK, Wake, Optional, WorkRows, P!TypeOK

\* After a pass has read the cursor no trigger is ready.
LEMMA MechanicsAnswers ==
  ASSUME DueTimes = Int, NoWindowedTriggers, Lane, Lane', Woken,
         NEW w \in Workers, MechanicsPass(w)
  PROVE  Woken'
<1>1. run[w].game = Game /\ run[w].at \in 0..now
  BY RunFields DEF MechanicsPass, Lane, ReadingsPast
<1>2. PICK seeds \in [Events -> Seeds] : Mechanics(run[w].at, seeds)
  BY DEF MechanicsPass
<1>3. /\ NotCompleted /\ UNCHANGED gameVars /\ phase # None /\ Pass
  BY <1>1, <1>2 DEF Mechanics, MechanicsSucceed, Pass
<1>4. run[w].at \in Int
  BY <1>1 DEF Lane, TypeOK
<1>5. ASSUME NEW e \in Events PROVE ~TriggerReady(e)'
  <2> SUFFICES ASSUME TriggerReady(e)' PROVE FALSE
    OBVIOUS
  <2>1. Definition[e].schedule.kind = "trigger" /\ event'[e].state = "scheduled"
    BY DEF TriggerReady
  <2>2. event'[e] = event[e] /\ ~Opens(e, run[w].at)
    BY <1>1, <1>2, <2>1, MechanicsReschedules DEF Lane
  <2>3. TriggerReady(e)
    BY <1>3, <2>2 DEF TriggerReady, gameVars
  <2> QED
    BY <1>3, <1>4, <2>1, <2>2, <2>3, TriggerOpens DEF Lane
<1>6. work # None
  BY <1>3 DEF Lane, RowKept
<1>7. work' # None /\ work'.wake = work.wake
  BY <1>3, <1>6, PassFacts DEF Lane
<1>8. LeaseRow.wake = work.wake
  BY <1>6 DEF LeaseRow
<1>9. seen'[Game] = IF seen[Game] < work.wake THEN work.wake ELSE seen[Game]
  BY <1>1, <1>8, WakeType DEF MechanicsPass, L!ObserveWake
<1>10. seen'[Game] <= Wake' /\ Wake' = Wake
  BY <1>3, <1>6, <1>7, <1>9, WakeType DEF Woken, Wake
<1> QED
  BY <1>5, <1>10 DEF Woken

\* Every other step reads no cursor.
LEMMA CursorKept ==
  ASSUME Lane, [SchedulerNext]_schedulerVars, ~\E w \in Workers : MechanicsPass(w)
  PROVE  seen' = seen
BY DEF SchedulerNext, schedulerVars, laneVars, Command, Clock, WorkerStep, ReadClock, Claim,
  ClaimNothing, NarrativePass, ReportSuccess, ReportFailure, GiveUp, DatabaseStep, Execute, Lose,
  L!ReadClock, L!Claim, L!ClaimNothing, L!Publishing, L!Report, L!GiveUp, L!Execute, L!Lose

LEMMA WokenStep ==
  ASSUME DueTimes = Int, NoWindowedTriggers, Lane, Lane', Woken, [SchedulerNext]_schedulerVars
  PROVE  Woken'
<1>1. CASE \E w \in Workers : MechanicsPass(w)
  BY <1>1, MechanicsAnswers
<1>2. CASE ~\E w \in Workers : MechanicsPass(w)
  <2> SUFFICES ASSUME NotCompleted'
               PROVE  /\ seen'[Game] <= Wake'
                      /\ (\E e \in Events : TriggerReady(e)') => seen'[Game] < Wake'
    BY DEF Woken
  <2>1. seen' = seen /\ TypeOK /\ [Next]_vars
    BY <1>2, CursorKept, RuntimeStep DEF Lane
  <2>2. Rewritten \/ Untouched
    BY <2>1, RowFacts DEF Deleted, NotCompleted
  <2>3. NotCompleted /\ (Wake' = Wake \/ Wake' = Wake + 1)
    <3>1. CASE Rewritten
      BY <3>1 DEF Rewritten, Wake
    <3>2. CASE Untouched
      BY <3>2 DEF Untouched, Wake, NotCompleted
    <3> QED
      BY <2>2, <3>1, <3>2
  <2>4. RefreshAndWake => Wake' = Wake + 1
    <3> SUFFICES ASSUME RefreshAndWake PROVE Wake' = Wake + 1
      OBVIOUS
    <3>1. work'.wake = Wake + 1
      BY DEF RefreshAndWake, RowFor
    <3>2. work' # None
      <4>1. work' = RowFor(event', narrative', phase', Wake + 1) /\ Wake + 1 \in Nat
        BY WakeType DEF RefreshAndWake
      <4>2. event' \in [Events -> EventRows] /\ phase' \in Optional(PhaseRows)
        BY DEF Lane, TypeOK
      <4> QED
        BY <4>1, <4>2, RowForType, RowAssumption DEF RowAssumption
    <3> QED
      BY <3>1, <3>2 DEF Wake
  <2>5. Wake \in Nat /\ seen[Game] \in Nat
    BY WakeType
  <2>6. ASSUME NEW e \in Events, TriggerReady(e)' PROVE seen[Game] < Wake'
    <3>1. TriggerReady(e) \/ RefreshAndWake
      BY <2>1, <2>6, ReadyWakes
    <3> QED
      BY <2>3, <2>4, <2>5, <3>1 DEF Woken
  <2> QED
    BY <2>1, <2>3, <2>5, <2>6 DEF Woken
<1> QED
  BY <1>1, <1>2

LEMMA WokenInvariant ==
  ASSUME DueTimes = Int, NoWindowedTriggers
  PROVE  SchedulerSpec => []Woken
<1>1. SchedulerInit => Woken
  BY DEF SchedulerInit, L!Init, Init, Woken, Wake, TriggerReady
<1> QED
  BY <1>1, LaneInvariant, WokenStep, PTL DEF SchedulerSpec

\* A triggered event that may open is found by the claim query through the wake
\* cursor, unless its scope is a window, which may still be closed to it when the
\* only pass that the signal wakes looks.
THEOREM TriggersDoWake ==
  ASSUME DueTimes = Int, NoWindowedTriggers
  PROVE  SchedulerSpec => []TriggersWakeScheduler
<1>1. Lane /\ Woken /\ P!WakeSeen => TriggersWakeScheduler
  <2> SUFFICES ASSUME Lane, Woken, P!WakeSeen, NEW e \in Events, status = "active", phase # None,
                      Definition[e].schedule.kind = "trigger", Opens(e, now)
               PROVE  L!Pending(LeaseRow, sched[Game].lastWake, now)
    BY DEF TriggersWakeScheduler
  <2>1. now \in Int /\ NotCompleted
    BY DEF Lane, TypeOK, NotCompleted
  <2>2. TriggerReady(e)
    BY <2>1, TriggerOpens DEF Lane
  <2>3. seen[Game] < Wake /\ sched[Game].lastWake <= seen[Game]
    BY <2>1, <2>2 DEF Woken, P!WakeSeen, NotCompleted
  <2>4. work # None
    BY <2>1 DEF Lane, RowKept
  <2>5. LeaseRow # None /\ LeaseRow.wake = Wake
    BY <2>4, LeaseRowFields, WakeType DEF Lane, TypeOK, Optional
  <2>6. sched[Game].lastWake \in Nat /\ seen[Game] \in Nat /\ Wake \in Nat
    BY WakeType DEF Lane, P!TypeOK, P!SchedRows
  <2> QED
    BY <2>3, <2>5, <2>6 DEF L!Pending
<1> QED
  BY <1>1, LaneInvariant, WokenInvariant, AutomationKeepsLease, PTL

-----------------------------------------------------------------------------
(* Recorded openings. The index finds the lock of a relative event that    *)
(* outlives its phase through the recorded opening, evaluate finds it      *)
(* through the anchor, so the two agree as far as the anchors do.          *)

\* The phase_state row and the timeline tell the same opening time.
PhaseAnchored == phase # None => timeline.anchor[PhaseId(phase)] = OpenedAt(phase)

\* No phase is opened again with an earlier observed time.
AnchorsGrow ==
  \A p \in Phases : timeline.anchor[p] # None =>
    timeline'.anchor[p] # None /\ timeline'.anchor[p] >= timeline.anchor[p]

\* No phase is opened again as of another time.
AnchorsStay ==
  \A p \in Phases : timeline.anchor[p] # None => timeline'.anchor[p] = timeline.anchor[p]

\* An event that has not opened has no opening on record; a relative one that is
\* open has, and it was opened under an anchor no later than the present one.
OpeningsRecorded ==
  \A e \in Events :
    LET s == Definition[e].schedule IN
    /\ event[e].state \in {"absent", "scheduled"} => event[e].openDueAt = None
    /\ (event[e].state = "open" /\ s.kind = "relative") =>
         /\ event[e].openDueAt # None /\ timeline.anchor[s.phase] # None
         /\ event[e].openDueAt - s.openOffset <= timeline.anchor[s.phase]

\* It was opened under the present anchor itself.
OpeningsSame ==
  \A e \in Events :
    LET s == Definition[e].schedule IN
    (event[e].state = "open" /\ s.kind = "relative") =>
      event[e].openDueAt - s.openOffset = timeline.anchor[s.phase]

LEMMA PhaseAnchoredStep ==
  ASSUME TypeOK, PhaseAnchored, [Next]_vars
  PROVE  PhaseAnchored'
<1>1. ASSUME NEW p \in Phases, NEW openedAt \in Int, EnterPhase(p, openedAt)
      PROVE  PhaseAnchored'
  <2>1. phase' # None => PhaseId(phase') = p /\ OpenedAt(phase') = openedAt
    BY <1>1, PhaseEntered DEF PhaseId, OpenedAt
  <2>2. timeline'.anchor[p] = openedAt
    <3>1. timeline.anchor \in [Phases -> Optional(Int)]
      BY DEF TypeOK, Timelines, Anchors
    <3> QED
      BY <1>1, <3>1, PhaseEntered
  <2> QED
    BY <2>1, <2>2 DEF PhaseAnchored
<1>2. CASE /\ PhaseId(phase') = PhaseId(phase) /\ OpenedAt(phase') = OpenedAt(phase)
           /\ (phase' = None) <=> (phase = None)
           /\ timeline'.anchor = timeline.anchor
  BY <1>2 DEF PhaseAnchored
<1> QED
  BY <1>1, <1>2, PhaseMoves

\* A pass records the opening of a relative event under the anchor of its phase.
LEMMA PassRecords ==
  ASSUME TypeOK, NEW e \in Events, Definition[e].schedule.kind = "relative",
         PassOpened(e), event[e].openDueAt = None
  PROVE  LET s == Definition[e].schedule IN
         /\ timeline.anchor[s.phase] \in Int
         /\ event'[e].openDueAt = timeline.anchor[s.phase] + s.openOffset
<1> DEFINE s == Definition[e].schedule
           anchor == timeline.anchor[s.phase]
<1>1. PICK at \in 0..now :
        /\ Opens(e, at)
        /\ event'[e].openDueAt = Recorded(event[e].openDueAt, OpeningDue(s, Context(at)))
  BY DEF PassOpened
<1>2. s \in Schedules /\ s.phase \in Phases /\ s.openOffset \in Int
  BY DefinitionType, ScheduleType
<1>3. anchor \in Optional(Int)
  BY <1>2 DEF TypeOK, Timelines, Anchors
<1>4. OpeningDue(s, Context(at)) \subseteq {a + s.openOffset : a \in Some(anchor)}
  BY DEF OpeningDue, OpeningBoundary, Context
<1>5. OpeningDue(s, Context(at)) # {}
  BY <1>1 DEF Opens, MayOpen
<1>6. anchor \in Int
  BY <1>3, <1>4, <1>5 DEF Some, Optional
<1>7. OpeningDue(s, Context(at)) = {anchor + s.openOffset}
  BY <1>4, <1>5, <1>6 DEF Some
<1>8. anchor + s.openOffset \in Int
  BY <1>2, <1>6
<1> HIDE DEF s, anchor
<1>9. EarliestOf({anchor + s.openOffset}) = anchor + s.openOffset
  <2> DEFINE due == anchor + s.openOffset
  <2>1. IsFiniteSet({due}) /\ {due} \subseteq Int
    BY <1>8, FS_Singleton
  <2> HIDE DEF due
  <2>2. Min({due}) \in {due}
    BY <2>1, LeastOfFinite
  <2> QED
    BY <2>2 DEF EarliestOf, due
<1> QED
  BY <1>1, <1>6, <1>7, <1>9 DEF Recorded, s, anchor

LEMMA OpeningStep ==
  ASSUME TypeOK, OpeningsRecorded, [Next]_vars, NEW e \in Events
  PROVE  LET s == Definition[e].schedule IN
         /\ event'[e].state \in {"absent", "scheduled"} => event'[e].openDueAt = None
         /\ (event'[e].state = "open" /\ s.kind = "relative") =>
              \/ event'[e] = event[e]
              \/ /\ timeline' = timeline /\ timeline.anchor[s.phase] \in Int
                 /\ event'[e].openDueAt = timeline.anchor[s.phase] + s.openOffset
<1>1. Rescheduled(e)
  BY EventReschedules
<1>2. CASE event'[e] = event[e]
  BY <1>2 DEF OpeningsRecorded
<1>3. CASE event[e].state = "absent" /\ event'[e] = Scheduled(e)
  <2>1. event[e] \in EventRows
    BY DEF TypeOK
  <2>2. event'[e].state = "scheduled" /\ event'[e].openDueAt = event[e].openDueAt
    BY <1>3, <2>1 DEF Scheduled, EventRows
  <2> QED
    BY <1>3, <2>2 DEF OpeningsRecorded
<1>4. CASE event'[e].state \in {"locked", "resolved", "cancelled"}
  BY <1>4
<1>5. CASE event'[e].state = "open" /\ Definition[e].schedule.kind = "host"
  BY <1>5
<1>6. CASE PassOpened(e)
  <2>1. event'[e].state = "open" /\ event[e].openDueAt = None /\ timeline' = timeline
    BY <1>6 DEF PassOpened, OpeningsRecorded, gameVars
  <2> QED
    BY <1>6, <2>1, PassRecords
<1> QED
  BY <1>1, <1>2, <1>3, <1>4, <1>5, <1>6 DEF Rescheduled

\* The anchor and the recorded opening of a relative event are comparable.
LEMMA OpeningTypes ==
  ASSUME TypeOK, NEW e \in Events, Definition[e].schedule.kind = "relative"
  PROVE  LET s == Definition[e].schedule IN
         /\ s.phase \in Phases /\ s.openOffset \in Int
         /\ timeline.anchor[s.phase] \in Optional(Int)
         /\ event[e].openDueAt \in Optional(Int)
BY DefinitionType, ScheduleType DEF TypeOK, Timelines, Anchors, EventRows

LEMMA OpeningsRecordedStep ==
  ASSUME TypeOK, TypeOK', OpeningsRecorded, [Next]_vars, AnchorsGrow \/ UNCHANGED timeline
  PROVE  OpeningsRecorded'
<1> SUFFICES ASSUME NEW e \in Events
             PROVE  LET s == Definition[e].schedule IN
                    /\ event'[e].state \in {"absent", "scheduled"} => event'[e].openDueAt = None
                    /\ (event'[e].state = "open" /\ s.kind = "relative") =>
                         /\ event'[e].openDueAt # None /\ timeline'.anchor[s.phase] # None
                         /\ event'[e].openDueAt - s.openOffset <= timeline'.anchor[s.phase]
  BY DEF OpeningsRecorded
<1> DEFINE s == Definition[e].schedule
<1>1. ASSUME event'[e].state = "open", s.kind = "relative"
      PROVE  /\ event'[e].openDueAt # None /\ timeline'.anchor[s.phase] # None
             /\ event'[e].openDueAt - s.openOffset <= timeline'.anchor[s.phase]
  <2>1. /\ s.phase \in Phases /\ s.openOffset \in Int
        /\ timeline.anchor[s.phase] \in Optional(Int) /\ timeline'.anchor[s.phase] \in Optional(Int)
        /\ event[e].openDueAt \in Optional(Int)
    <3>1. s.phase \in Phases /\ s.openOffset \in Int
      BY <1>1, OpeningTypes
    <3> QED
      BY <3>1 DEF TypeOK, Timelines, Anchors, EventRows
  <2>2. CASE event'[e] = event[e]
    <3>1. /\ event[e].openDueAt # None /\ timeline.anchor[s.phase] # None
          /\ event[e].openDueAt - s.openOffset <= timeline.anchor[s.phase]
      BY <1>1, <2>2 DEF OpeningsRecorded
    <3>2. timeline'.anchor[s.phase] # None /\ timeline'.anchor[s.phase] >= timeline.anchor[s.phase]
      <4>1. CASE AnchorsGrow
        BY <2>1, <3>1, <4>1 DEF AnchorsGrow
      <4>2. CASE UNCHANGED timeline
        BY <2>1, <3>1, <4>2 DEF Optional
      <4> QED
        BY <4>1, <4>2
    <3> QED
      BY <2>1, <2>2, <3>1, <3>2 DEF Optional
  <2>3. CASE /\ timeline' = timeline /\ timeline.anchor[s.phase] \in Int
             /\ event'[e].openDueAt = timeline.anchor[s.phase] + s.openOffset
    BY <2>1, <2>3, NoneAssumption
  <2> QED
    BY <1>1, <2>2, <2>3, OpeningStep
<1> QED
  BY <1>1, OpeningStep

LEMMA OpeningsSameStep ==
  ASSUME TypeOK, OpeningsRecorded, OpeningsSame, [Next]_vars, AnchorsStay \/ UNCHANGED timeline
  PROVE  OpeningsSame'
<1> SUFFICES ASSUME NEW e \in Events, event'[e].state = "open",
                    Definition[e].schedule.kind = "relative"
             PROVE  LET s == Definition[e].schedule IN
                    event'[e].openDueAt - s.openOffset = timeline'.anchor[s.phase]
  BY DEF OpeningsSame
<1> DEFINE s == Definition[e].schedule
<1>1. s.phase \in Phases /\ s.openOffset \in Int
  BY OpeningTypes
<1>2. CASE event'[e] = event[e]
  <2>1. timeline.anchor[s.phase] # None
        /\ event[e].openDueAt - s.openOffset = timeline.anchor[s.phase]
    BY <1>2 DEF OpeningsRecorded, OpeningsSame
  <2>2. timeline'.anchor[s.phase] = timeline.anchor[s.phase]
    BY <1>1, <2>1 DEF AnchorsStay
  <2> QED
    BY <1>2, <2>1, <2>2
<1>3. CASE /\ timeline' = timeline /\ timeline.anchor[s.phase] \in Int
           /\ event'[e].openDueAt = timeline.anchor[s.phase] + s.openOffset
  BY <1>1, <1>3
<1> QED
  BY <1>2, <1>3, OpeningStep

-----------------------------------------------------------------------------
(* Discovery, end to end.                                                  *)

\* The due times of one event that have passed, as the index has them.
DueNow(e) == {t \in Boundaries(e, event[e], phase) : t <= now}

\* What DayScheduleProofs says of one context, said of the present state.
LEMMA PresentContext ==
  ASSUME TypeOK, PhaseAnchored, phase # None, NEW e \in Events
  PROVE  /\ Context(now) \in Contexts /\ Context(now).now = now
         /\ DueNow(e) = PastDue(Definition[e].schedule, Definition[e].scope, event[e].state,
                               Context(now), event[e].openDueAt)
<1>1. now \in Int
  BY DEF TypeOK
<1>2. Context(now) \in Contexts /\ Context(now).now = now
  BY <1>1, ContextTyped
<1>3. /\ Context(now).phase = PhaseId(phase)
      /\ Context(now).anchor[PhaseId(phase)] = OpenedAt(phase)
  BY DEF PhaseAnchored, Context, PhaseId
<1> QED
  BY <1>2, <1>3 DEF DueNow, PastDue, Boundaries

\* A due time that has passed makes the game pending.
LEMMA DueIsPending ==
  ASSUME DueTimes = Int, Lane, WorkRowCurrent, NotCompleted, phase # None,
         NEW e \in Events, DueNow(e) # {}
  PROVE  L!Pending(LeaseRow, sched[Game].lastWake, now)
<1> DEFINE all == UNION {Boundaries(f, event[f], phase) : f \in Events}
<1>1. work # None /\ work = RowFor(event, narrative, phase, work.wake)
  BY DEF Lane, RowKept, WorkRowCurrent
<1>2. PICK t \in all : t <= now
  BY DEF DueNow
<1>3. IsFiniteSet(all) /\ all \subseteq Int
  BY AllBoundariesType DEF Lane, TypeOK
<1>4. work.due = EarliestOf(all)
  BY <1>1 DEF RowFor
<1> HIDE DEF all
<1>5. Min(all) \in Int /\ Min(all) <= t /\ EarliestOf(all) = Min(all)
  BY <1>2, <1>3, LeastOfFinite DEF EarliestOf
<1>6. now \in Int /\ t \in Int
  BY <1>2, <1>3 DEF Lane, TypeOK
<1>7. work.due # None /\ work.due <= now
  BY <1>2, <1>4, <1>5, <1>6, NoneAssumption
<1>8. LeaseRow # None /\ LeaseRow.due = work.due
  <2>1. LeaseRow # None
    BY <1>1, LeaseRowFields DEF Lane, TypeOK, Optional
  <2> QED
    BY <1>1, <2>1 DEF LeaseRow
<1> QED
  BY <1>7, <1>8 DEF L!Pending

\* So does a flag of the row.
LEMMA FlagIsPending ==
  ASSUME DueTimes = Int, Lane, WorkRowCurrent, NotCompleted, phase # None,
         \/ PendingAuto # {}
         \/ \E e \in Events, l \in Lifecycles : narrative[e][l] = "pending"
  PROVE  L!Pending(LeaseRow, sched[Game].lastWake, now)
<1>1. work # None /\ work = RowFor(event, narrative, phase, work.wake)
  BY DEF Lane, RowKept, WorkRowCurrent
<1>2. work.auto \/ work.narrative
  <2>1. CASE PendingAuto # {}
    <3>1. \E e \in Events : IsPendingAuto(e, event[e])
      BY <2>1 DEF PendingAuto
    <3>2. RowFor(event, narrative, phase, work.wake).auto
      BY <3>1 DEF RowFor
    <3> QED
      BY <1>1, <3>2
  <2>2. CASE \E e \in Events, l \in Lifecycles : narrative[e][l] = "pending"
    <3>1. RowFor(event, narrative, phase, work.wake).narrative
      BY <2>2 DEF RowFor
    <3> QED
      BY <1>1, <3>1
  <2> QED
    BY <2>1, <2>2
<1>3. LeaseRow # None
  BY <1>1, LeaseRowFields DEF Lane, TypeOK, Optional
<1>4. LeaseRow.ready
  BY <1>1, <1>2 DEF LeaseRow
<1> QED
  BY <1>3, <1>4 DEF L!Pending

\* Whatever a pass would do now has a due time, but the opening of a trigger.
LEMMA IntentIsDue ==
  ASSUME TypeOK, PhaseAnchored, OpeningsRecorded, phase # None, NEW e \in Events,
         Opens(e, now) \/ Locks(e, now),
         event[e].state = "scheduled" => Definition[e].schedule.kind # "trigger"
  PROVE  DueNow(e) # {}
<1> DEFINE s == Definition[e].schedule
           scope == Definition[e].scope
           state == event[e].state
           ctx == Context(now)
<1>1. s \in Schedules /\ scope \in Scopes /\ event[e].openDueAt \in Optional(Int)
  BY DefinitionType DEF TypeOK, EventRows
<1>2. HasIntent(s, scope, state, ctx)
  BY DEF Opens, Locks, HasIntent
<1>3. state \in States
  BY <1>2 DEF HasIntent, MayOpen, MayLock, States
<1>4. ctx \in Contexts /\ ctx.anchor = timeline.anchor
  BY PresentContext DEF Context
<1>5. s.kind = "relative" => OpenedUnderAnchor(s, state, ctx, event[e].openDueAt)
  BY <1>4 DEF OpenedUnderAnchor, OpeningsRecorded, Some
<1> HIDE DEF s, scope, state, ctx
<1>6. PastDue(s, scope, state, ctx, event[e].openDueAt) # {}
  <2>1. state = "scheduled" => s.kind # "trigger"
    BY DEF s, state
  <2> QED
    BY <1>1, <1>2, <1>3, <1>4, <1>5, <2>1, DiscoveryComplete
<1> QED
  BY <1>6, PresentContext DEF s, scope, state, ctx

LEMMA AllWorkIsPending ==
  ASSUME DueTimes = Int, Lane, WorkRowCurrent, TriggersWakeScheduler, PhaseAnchored,
         OpeningsRecorded
  PROVE  NoLostWork
<1> SUFFICES ASSUME WorkToDo
             PROVE  L!Pending(LeaseRow, sched[Game].lastWake, now)
  BY DEF NoLostWork
<1>1. NotCompleted /\ phase # None /\ status = "active" /\ TypeOK
  BY DEF WorkToDo, NotCompleted, Lane
<1>2. ASSUME NEW e \in Events, Opens(e, now) \/ Locks(e, now)
      PROVE  L!Pending(LeaseRow, sched[Game].lastWake, now)
  <2>1. CASE event[e].state = "scheduled" /\ Definition[e].schedule.kind = "trigger"
    <3>1. Opens(e, now)
      BY <1>2, <2>1 DEF Opens, Locks, MayLock
    <3> QED
      BY <1>1, <2>1, <3>1 DEF TriggersWakeScheduler
  <2>2. CASE ~(event[e].state = "scheduled" /\ Definition[e].schedule.kind = "trigger")
    BY <1>1, <1>2, <2>2, IntentIsDue, DueIsPending
  <2> QED
    BY <2>1, <2>2
<1> QED
  BY <1>1, <1>2, FlagIsPending DEF WorkToDo

\* A due time that has passed is one a pass acts on, unless it is the opening of
\* an event whose window has closed.
LEMMA DueIsIntent ==
  ASSUME TypeOK, PhaseAnchored, OpeningsRecorded, OpeningsSame, phase # None, NEW e \in Events,
         DueNow(e) # {},
         (event[e].state = "scheduled" /\ Definition[e].scope.kind = "window")
           => now < Definition[e].scope.closesAt
  PROVE  Opens(e, now) \/ Locks(e, now)
<1> DEFINE s == Definition[e].schedule
           scope == Definition[e].scope
           state == event[e].state
           ctx == Context(now)
<1>1. s \in Schedules /\ scope \in Scopes /\ event[e].openDueAt \in Optional(Int)
  BY DefinitionType DEF TypeOK, EventRows
<1>2. PastDue(s, scope, state, ctx, event[e].openDueAt) # {}
  BY PresentContext
<1>3. state \in States
  BY <1>2 DEF PastDue, NextObservation, States
<1>4. ctx \in Contexts /\ ctx.now = now /\ ctx.anchor = timeline.anchor
  BY PresentContext DEF Context
<1>5. s.kind = "relative" => OpenedUnderSameAnchor(s, state, ctx, event[e].openDueAt)
  BY <1>4 DEF OpenedUnderSameAnchor, OpeningsRecorded, OpeningsSame
<1>6. (state = "scheduled" /\ scope.kind = "window") => ctx.now < scope.closesAt
  BY <1>4
<1> HIDE DEF s, scope, state, ctx
<1>7. HasIntent(s, scope, state, ctx)
  BY <1>1, <1>2, <1>3, <1>4, <1>5, <1>6, DiscoverySound
<1> QED
  BY <1>7 DEF HasIntent, Opens, Locks, s, scope, state, ctx

LEMMA OpeningsInvariant ==
  ASSUME DueTimes = Int
  PROVE  SchedulerSpec /\ [][AnchorsGrow]_schedulerVars => [](PhaseAnchored /\ OpeningsRecorded)
<1>1. SchedulerInit => PhaseAnchored /\ OpeningsRecorded
  BY DEF SchedulerInit, Init, PhaseAnchored, OpeningsRecorded
<1>2. Lane /\ Lane' /\ PhaseAnchored /\ OpeningsRecorded
        /\ [SchedulerNext]_schedulerVars /\ [AnchorsGrow]_schedulerVars
        => (PhaseAnchored /\ OpeningsRecorded)'
  <2> SUFFICES ASSUME Lane, Lane', PhaseAnchored, OpeningsRecorded,
                      [SchedulerNext]_schedulerVars, [AnchorsGrow]_schedulerVars
               PROVE  PhaseAnchored' /\ OpeningsRecorded'
    OBVIOUS
  <2>1. TypeOK /\ TypeOK' /\ [Next]_vars
    BY RuntimeStep DEF Lane
  <2>2. AnchorsGrow \/ UNCHANGED timeline
    BY DEF schedulerVars, vars
  <2> QED
    BY <2>1, <2>2, PhaseAnchoredStep, OpeningsRecordedStep
<1> QED
  BY <1>1, <1>2, LaneInvariant, PTL DEF SchedulerSpec

\* No work is ever lost: at every moment the claim query finds a game in which a
\* pass would open, lock, resolve or publish something. The exceptions are the
\* trigger that also waits for a window and the phase that is opened again as of
\* an earlier time, which moves a lock before the due time on record.
THEOREM WorkIsDiscovered ==
  ASSUME DueTimes = Int, NoWindowedTriggers
  PROVE  SchedulerSpec /\ [][AnchorsGrow]_schedulerVars => []NoLostWork
BY AllWorkIsPending, LaneInvariant, AutomationKeepsRuntime, TriggersDoWake, OpeningsInvariant, PTL

\* When nothing changes before, a claim query sent then takes the game.
WillBeClaimable ==
  WorkToDo =>
    \A at \in Int :
      (at >= now + LeaseSeconds /\ at >= now + RetryMax) => Game \in L!Candidates(at)

\* The safety half of "whatever is due is eventually done": a game with work is a
\* candidate of the claim query from one lease time and one longest backoff on,
\* whatever leases, crashes and failures it has behind it, if nothing happens to
\* it before.
THEOREM WorkIsClaimable ==
  ASSUME DueTimes = Int, NoWindowedTriggers
  PROVE  SchedulerSpec /\ [][AnchorsGrow]_schedulerVars => []WillBeClaimable
<1>1. ASSUME Lane, NoLostWork, P!WaitsBounded PROVE WillBeClaimable
  <2> SUFFICES ASSUME WorkToDo, NEW at \in Int, at >= now + LeaseSeconds, at >= now + RetryMax
               PROVE  Game \in L!Candidates(at)
    BY DEF WillBeClaimable
  <2>1. /\ now \in Int /\ LeaseSeconds \in Nat /\ RetryMax \in Nat
        /\ now + LeaseSeconds \in Int /\ now + RetryMax \in Int /\ now <= at
    BY <1>1, LaneAssumption DEF Lane, TypeOK, LaneAssumption
  <2>2. L!Pending(LeaseRow, sched[Game].lastWake, now) /\ status = "active"
    BY <1>1 DEF NoLostWork, WorkToDo
  <2>3. work # None
    BY <1>1, <2>2 DEF Lane, RowKept, WorkToDo, NotCompleted
  <2>4. LeaseRow.due # None => LeaseRow.due \in Int
    BY <1>1, <2>3, LeaseRowFields DEF Lane, TypeOK, Optional, L!Optional
  <2>5. L!Pending(LeaseRow, sched[Game].lastWake, at)
    BY <2>1, <2>2, <2>4 DEF L!Pending
  <2>6. /\ sched[Game].until # None =>
             sched[Game].until \in Int /\ sched[Game].until <= now + LeaseSeconds
        /\ sched[Game].retry # None =>
             sched[Game].retry \in Int /\ sched[Game].retry <= now + RetryMax
    BY <1>1 DEF P!WaitsBounded, P!TypeOK, P!SchedRows, P!Optional, Lane
  <2>7. L!Free(sched[Game], at)
    BY <2>1, <2>6 DEF L!Free
  <2> QED
    BY <2>2, <2>5, <2>7 DEF L!Candidates
<1> QED
  BY <1>1, WorkIsDiscovered, LaneInvariant, AutomationKeepsLease, PTL

\* The window of an event that is to open by itself is still to close.
WindowsReached ==
  \A e \in Events :
    (event[e].state = "scheduled" /\ Definition[e].scope.kind = "window"
       /\ Definition[e].schedule.kind \in {"absolute", "relative"})
      => now < Definition[e].scope.closesAt

LEMMA DueRowHasIntent ==
  ASSUME Lane, WorkRowCurrent, PhaseAnchored, OpeningsRecorded, OpeningsSame, WindowsReached
  PROVE  DueRowIsActionable
<1> SUFFICES ASSUME status = "active", phase # None, work # None,
                    work.due # None, work.due <= now
             PROVE  \E e \in Events : Opens(e, now) \/ Locks(e, now)
  BY DEF DueRowIsActionable
<1> DEFINE all == UNION {Boundaries(f, event[f], phase) : f \in Events}
<1>1. work = RowFor(event, narrative, phase, work.wake) /\ TypeOK
  BY DEF WorkRowCurrent, Lane
<1>2. IsFiniteSet(all) /\ all \subseteq Int
  BY <1>1, AllBoundariesType DEF TypeOK
<1>3. work.due = EarliestOf(all)
  BY <1>1 DEF RowFor
<1> HIDE DEF all
<1>4. work.due \in all
  BY <1>2, <1>3, EarliestType DEF Some
<1>5. PICK e \in Events : work.due \in Boundaries(e, event[e], phase)
  BY <1>4 DEF all
<1>6. DueNow(e) # {}
  BY <1>5 DEF DueNow
<1>7. CASE event[e].state = "scheduled" /\ Definition[e].schedule.kind \in {"host", "trigger"}
  <2>1. Boundaries(e, event[e], phase) = {}
    BY <1>7 DEF Boundaries, NextObservation, NextOpening
  <2> QED
    BY <1>5, <2>1
<1>8. CASE ~(event[e].state = "scheduled" /\ Definition[e].schedule.kind \in {"host", "trigger"})
  <2>1. Definition[e].schedule.kind \in {"absolute", "relative", "host", "trigger"}
    BY DefinitionType, ScheduleType
  <2> QED
    BY <1>1, <1>6, <1>8, <2>1, DueIsIntent DEF WindowsReached
<1> QED
  BY <1>7, <1>8

\* A due time that has passed is always work: the claim that it brings about
\* finds an event to open or to lock. The exceptions are the window that closed
\* before its event was opened and the phase that is opened a second time, after
\* which the record of the first opening says when to lock.
THEOREM DueRowsAreActionable ==
  ASSUME DueTimes = Int
  PROVE  SchedulerSpec /\ [][AnchorsStay]_schedulerVars /\ []WindowsReached
           => []DueRowIsActionable
<1>1. AnchorsStay /\ Lane => AnchorsGrow
  <2> SUFFICES ASSUME AnchorsStay, Lane, NEW p \in Phases, timeline.anchor[p] # None
               PROVE  timeline'.anchor[p] # None /\ timeline'.anchor[p] >= timeline.anchor[p]
    BY DEF AnchorsGrow
  <2>1. timeline.anchor[p] \in Int
    BY DEF Lane, TypeOK, Timelines, Anchors, Optional
  <2> QED
    BY <2>1 DEF AnchorsStay
<1>2. SchedulerInit => OpeningsSame
  BY DEF SchedulerInit, Init, OpeningsSame
<1>3. Lane /\ OpeningsRecorded /\ OpeningsSame
        /\ [SchedulerNext]_schedulerVars /\ [AnchorsStay]_schedulerVars => OpeningsSame'
  <2> SUFFICES ASSUME Lane, OpeningsRecorded, OpeningsSame,
                      [SchedulerNext]_schedulerVars, [AnchorsStay]_schedulerVars
               PROVE  OpeningsSame'
    OBVIOUS
  <2>1. TypeOK /\ [Next]_vars
    BY RuntimeStep DEF Lane
  <2>2. AnchorsStay \/ UNCHANGED timeline
    BY DEF schedulerVars, vars
  <2> QED
    BY <2>1, <2>2, OpeningsSameStep
<1>4. SchedulerSpec /\ [][AnchorsStay]_schedulerVars => [](PhaseAnchored /\ OpeningsRecorded)
  BY <1>1, LaneInvariant, OpeningsInvariant, PTL
<1>5. SchedulerSpec /\ [][AnchorsStay]_schedulerVars => []OpeningsSame
  BY <1>2, <1>3, <1>4, LaneInvariant, PTL DEF SchedulerSpec
<1> QED
  BY <1>4, <1>5, DueRowHasIntent, LaneInvariant, AutomationKeepsRuntime, PTL

=============================================================================
