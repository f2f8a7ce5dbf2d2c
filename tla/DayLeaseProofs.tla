--------------------------- MODULE DayLeaseProofs ---------------------------
(***************************************************************************)
(* The lease protocol is correct for any set of replicas and games, any    *)
(* configuration and any bound: the invariants that the runs of DayLease   *)
(* check on two workers are proved here from an inductive invariant.       *)
(***************************************************************************)
EXTENDS DayLease, TLAPS

USE ConfigAssumption, LeaseAssumption

LEMMA RetryDelayType ==
  ASSUME NEW failures \in Nat
  PROVE  RetryDelay(failures) \in Nat
  BY DEF RetryDelay

\* A completion leaves a well-formed row of the scheduler state.
LEMMA CompletedType ==
  ASSUME NEW r \in Requests, NEW s \in SchedRows,
         s.owner = None <=> s.until = None
  PROVE  /\ Completed(r, s) \in SchedRows
         /\ Completed(r, s).owner = None <=> Completed(r, s).until = None
<1>1. Succeeded(r, s) \in SchedRows /\ Succeeded(r, s).owner = None /\ Succeeded(r, s).until = None
  BY DEF Succeeded, Requests, SchedRows, Optional
<1>2. RetryDelay(r.failures + 1) \in Nat
  BY RetryDelayType DEF Requests
<1>3. Failed(r, s) \in SchedRows /\ Failed(r, s).owner = None /\ Failed(r, s).until = None
  <2>1. r.at + RetryDelay(r.failures + 1) \in Int /\ r.failures + 1 \in Nat
    BY <1>2 DEF Requests
  <2> QED
    BY <2>1 DEF Failed, SchedRows, Optional
<1> QED
  BY <1>1, <1>3 DEF Completed

LEMMA InitType == Init => TypeOK
  BY DEF Init, TypeOK, SchedRows, Runs, Optional

LEMMA StepType == TypeOK /\ [Next]_leaseVars => TypeOK'
<1> SUFFICES ASSUME TypeOK, [Next]_leaseVars PROVE TypeOK'
  OBVIOUS
<1> USE DEF TypeOK
<1>1. CASE Tick
  BY <1>1 DEF Tick
<1>2. ASSUME NEW w \in Workers, ReadClock(w) PROVE TypeOK'
  BY <1>2 DEF ReadClock, Set, Runs
<1>3. ASSUME NEW w \in Workers, NEW g \in Games, Claim(w, g) PROVE TypeOK'
  <2>1. run[w].at \in Int /\ rows[g] \in Rows
    BY <1>3 DEF Claim, Claimable, Candidates, Pending, Runs, Claims, Idle, Optional
  <2>2. sched' \in [Games -> SchedRows]
    BY <1>3, <2>1 DEF Claim, SchedRows, Optional
  <2>3. \A h \in Games : sched'[h].owner = None <=> sched'[h].until = None
    BY <1>3, <2>1 DEF Claim, SchedRows, Optional
  <2>4. run' \in [Workers -> Runs]
    BY <1>3, <2>1 DEF Claim, Set, Runs, Claims, Rows, SchedRows
  <2> QED
    BY <1>3, <2>2, <2>3, <2>4 DEF Claim
<1>4. ASSUME NEW w \in Workers, ClaimNothing(w) PROVE TypeOK'
  BY <1>4 DEF ClaimNothing, Set, Runs
<1>5. ASSUME NEW w \in Workers, Observe(w) PROVE TypeOK'
  BY <1>5 DEF Observe, ObserveWake, PassRows, Set, Runs, Claims, Idle, Rows, Optional
<1>6. ASSUME NEW w \in Workers, Publish(w) PROVE TypeOK'
  <2>1. run' \in [Workers -> Runs] /\ run[w].game \in Games
    BY <1>6 DEF Publish, Publishing, Set, Runs, Claims, Idle
  <2>2. rows' \in [Games -> Optional(Rows)]
    BY <1>6, <2>1 DEF Publish, PassRows, Rows, Optional
  <2> QED
    BY <1>6, <2>1, <2>2 DEF Publish, Publishing
<1>7. ASSUME NEW w \in Workers, NEW ok \in BOOLEAN, NEW at \in 0..MaxTime, Report(w, ok, at)
      PROVE TypeOK'
  BY <1>7 DEF Report, CompletedAt, Set, Runs, Claims, Idle, Requests
<1>8. ASSUME NEW w \in Workers, GiveUp(w) PROVE TypeOK'
  BY <1>8 DEF GiveUp, Set, Runs
<1>9. ASSUME NEW r \in requests, Execute(r) PROVE TypeOK'
  BY <1>9, CompletedType DEF Execute, Runs, Requests
<1>10. ASSUME NEW r \in requests, Lose(r) PROVE TypeOK'
  BY <1>10 DEF Lose
<1>11. ASSUME NEW g \in Games, Fold(g) PROVE TypeOK'
  BY <1>11 DEF Fold, Rows, Optional
<1>12. ASSUME NEW g \in Games, Complete(g) PROVE TypeOK'
  BY <1>12 DEF Complete, Optional
<1>13. CASE UNCHANGED leaseVars
  BY <1>13 DEF leaseVars
<1> QED
  BY <1>1, <1>2, <1>3, <1>4, <1>5, <1>6, <1>7, <1>8, <1>9, <1>10, <1>11, <1>12, <1>13
  DEF Next, WorkerStep

\* Every state of the protocol is well formed, the lease columns are set and
\* cleared together.
THEOREM TypeCorrect == Spec => []TypeOK
  BY InitType, StepType, PTL DEF Spec

-----------------------------------------------------------------------------
(* Attempts: who may still speak for which claim of a game.                *)

Numbered ==
  /\ \A w \in Workers : Running(w) => run[w].attempt <= sched[run[w].game].attempts
  /\ \A r \in requests : r.attempt <= sched[r.game].attempts

\* An attempt is in one pass or in completions, never in two passes or in both.
Exclusive ==
  /\ \A v, w \in Workers :
       Running(v) /\ Running(w) /\ v # w /\ run[v].game = run[w].game
         => run[v].attempt # run[w].attempt
  /\ \A w \in Workers, r \in requests :
       Running(w) /\ run[w].game = r.game => run[w].attempt # r.attempt

AttemptInv == TypeOK /\ Numbered /\ Exclusive

\* What Running says of the typed record.
LEMMA RunningType ==
  ASSUME TypeOK, NEW w \in Workers, Running(w)
  PROVE  /\ run[w].game \in Games /\ run[w].attempt \in Nat /\ run[w].wake \in Nat
         /\ run[w].failures \in Nat /\ run[w].at \in Int
  BY DEF TypeOK, Running, Runs, Claims, Idle

\* What a worker carries from its claim to its report is never rewritten.
LEMMA PassKeepsClaim ==
  ASSUME TypeOK, NEW w \in Workers, Observe(w) \/ Publish(w)
  PROVE  \A v \in Workers :
           /\ Running(v)' <=> Running(v)
           /\ v # w => run'[v] = run[v]
           /\ Running(v) =>
                /\ run'[v].game = run[v].game /\ run'[v].attempt = run[v].attempt
                /\ run'[v].at = run[v].at /\ run'[v].wake = run[v].wake
                /\ run'[v].failures = run[v].failures
<1>1. PICK stage \in {"observed", "published"} :
        run' = [run EXCEPT ![w] = [run[w] EXCEPT !.stage = stage]] /\ Running(w)
  BY DEF Observe, ObserveWake, Publish, Publishing, Set, Running
<1>2. run[w] \in Claims /\ run'[w] = [run[w] EXCEPT !.stage = stage]
  BY <1>1 DEF TypeOK, Runs, Running, Claims, Idle
<1> DEFINE c == run[w]
<1>3. c \in Claims /\ run'[w] = [c EXCEPT !.stage = stage]
  BY <1>2
<1> HIDE DEF c
<1>4. /\ run'[w].game = c.game /\ run'[w].attempt = c.attempt /\ run'[w].at = c.at
      /\ run'[w].wake = c.wake /\ run'[w].failures = c.failures /\ run'[w].stage = stage
  BY <1>3 DEF Claims
<1>5. \A v \in Workers : v # w => run'[v] = run[v]
  BY <1>1 DEF TypeOK
<1> QED
  BY <1>1, <1>4, <1>5 DEF c, Running

LEMMA AttemptStep == AttemptInv /\ [Next]_leaseVars => AttemptInv'
<1> SUFFICES ASSUME AttemptInv, [Next]_leaseVars PROVE (Numbered /\ Exclusive)'
  BY StepType DEF AttemptInv
<1> USE DEF AttemptInv
<1>1. CASE Tick
  BY <1>1 DEF Tick, Numbered, Exclusive, Running
<1>2. ASSUME NEW w \in Workers, ReadClock(w) PROVE (Numbered /\ Exclusive)'
  BY <1>2 DEF ReadClock, Set, Idle, Numbered, Exclusive, Running, TypeOK
<1>3. ASSUME NEW w \in Workers, NEW g \in Games, Claim(w, g) PROVE (Numbered /\ Exclusive)'
  <2>1. /\ run' = [run EXCEPT ![w] = run'[w]]
        /\ run'[w].game = g /\ run'[w].attempt = sched[g].attempts + 1
    BY <1>3 DEF Claim, Set, TypeOK
  <2>2. /\ sched'[g].attempts = sched[g].attempts + 1 /\ sched[g].attempts \in Nat
        /\ \A h \in Games : h # g => sched'[h] = sched[h]
    BY <1>3 DEF Claim, TypeOK, SchedRows
  <2>3. \A v \in Workers : v # w => run'[v] = run[v]
    BY <2>1 DEF TypeOK
  <2>4. requests' = requests /\ \A r \in requests : r.attempt \in Nat /\ r.game \in Games
    BY <1>3 DEF Claim, TypeOK, Requests
  <2>5. Numbered'
    BY <2>1, <2>2, <2>3, <2>4, RunningType DEF Numbered, Running
  <2>6. Exclusive'
    BY <2>1, <2>2, <2>3, <2>4, RunningType DEF Numbered, Exclusive, Running
  <2> QED
    BY <2>5, <2>6
<1>4. ASSUME NEW w \in Workers, ClaimNothing(w) \/ GiveUp(w) PROVE (Numbered /\ Exclusive)'
  BY <1>4 DEF ClaimNothing, GiveUp, Set, Idle, Numbered, Exclusive, Running, TypeOK
<1>5. ASSUME NEW w \in Workers, Observe(w) \/ Publish(w) PROVE (Numbered /\ Exclusive)'
  <2>1. UNCHANGED <<sched, requests>>
    BY <1>5 DEF Observe, ObserveWake, Publish, Publishing
  <2> QED
    BY <1>5, <2>1, PassKeepsClaim DEF Numbered, Exclusive
<1>6. ASSUME NEW w \in Workers, NEW ok \in BOOLEAN, NEW at \in 0..MaxTime, Report(w, ok, at)
      PROVE (Numbered /\ Exclusive)'
  BY <1>6 DEF Report, Set, Numbered, Exclusive, Running, TypeOK
<1>7. ASSUME NEW r \in requests, Execute(r) PROVE (Numbered /\ Exclusive)'
  <2>1. \A g \in Games : sched'[g].attempts = sched[g].attempts
    BY <1>7 DEF Execute, Completed, Succeeded, Failed, TypeOK, SchedRows
  <2>2. \A v \in Workers : Running(v)' => run'[v] = run[v] /\ Running(v)
    BY <1>7 DEF Execute, Running, Idle, TypeOK
  <2>3. requests' \subseteq requests /\ \A q \in requests : q.game \in Games
    BY <1>7 DEF Execute, TypeOK, Requests
  <2>4. Numbered'
    BY <2>1, <2>2, <2>3, RunningType DEF Numbered
  <2>5. Exclusive'
    BY <2>2, <2>3 DEF Exclusive
  <2> QED
    BY <2>4, <2>5
<1>8. ASSUME NEW r \in requests, Lose(r) PROVE (Numbered /\ Exclusive)'
  BY <1>8 DEF Lose, Numbered, Exclusive, Running
<1>9. ASSUME NEW g \in Games, Fold(g) \/ Complete(g) PROVE (Numbered /\ Exclusive)'
  BY <1>9 DEF Fold, Complete, Numbered, Exclusive, Running
<1>10. CASE UNCHANGED leaseVars
  BY <1>10 DEF leaseVars, Numbered, Exclusive, Running
<1> QED
  BY <1>1, <1>2, <1>3, <1>4, <1>5, <1>6, <1>7, <1>8, <1>9, <1>10 DEF Next, WorkerStep

-----------------------------------------------------------------------------
(* The lease: it stays with the latest attempt while that attempt runs.    *)

\* A worker claims with a clock reading of the past.
ReadingsPast == \A w \in Workers : run[w].stage = "claiming" => run[w].at <= clock

\* A pass whose game was claimed again runs past the end of its lease.
Superseded ==
  \A w \in Workers :
    Running(w) /\ run[w].attempt < sched[run[w].game].attempts
      => run[w].at + LeaseSeconds <= clock

LeaseParts == ReadingsPast /\ LatestAttemptHoldsLease /\ Superseded

LeaseInv == AttemptInv /\ LeaseParts

\* A completion does not touch the row of a game whose latest attempt runs.
LEMMA ExecuteSparesRunning ==
  ASSUME AttemptInv, NEW r \in requests, Execute(r), NEW w \in Workers, Running(w),
         run[w].attempt = sched[run[w].game].attempts
  PROVE  sched'[run[w].game] = sched[run[w].game]
<1>1. run[w].game \in Games /\ r.game \in Games
  BY RunningType DEF AttemptInv, TypeOK, Requests
<1>2. CASE r.game = run[w].game
  BY <1>1, <1>2 DEF AttemptInv, Exclusive, Execute, Completed, Holds, TypeOK
<1>3. CASE r.game # run[w].game
  BY <1>1, <1>3 DEF AttemptInv, Execute, TypeOK
<1> QED
  BY <1>2, <1>3

LEMMA ExecuteKeeps ==
  ASSUME TypeOK, NEW r \in requests, Execute(r)
  PROVE  /\ \A g \in Games : sched'[g].attempts = sched[g].attempts
         /\ \A v \in Workers : Running(v)' => run'[v] = run[v] /\ Running(v)
         /\ \A v \in Workers : run'[v].stage = "claiming" => run'[v] = run[v]
         /\ requests' \subseteq requests
<1>1. \A g \in Games : sched'[g].attempts = sched[g].attempts
  BY DEF Execute, Completed, Succeeded, Failed, TypeOK, SchedRows
<1>2. \A v \in Workers : Running(v)' => run'[v] = run[v] /\ Running(v)
  BY DEF Execute, Running, Idle, TypeOK
<1> QED
  BY <1>1, <1>2 DEF Execute, Idle, TypeOK

\* What a claim leaves behind.
LEMMA ClaimEffect ==
  ASSUME TypeOK, NEW w \in Workers, NEW g \in Games, Claim(w, g)
  PROVE  /\ run[w].stage = "claiming" /\ run[w].at \in Int
         /\ Running(w)' /\ run'[w].stage = "claimed"
         /\ run'[w].game = g /\ run'[w].attempt = sched[g].attempts + 1
         /\ run'[w].at = run[w].at /\ run'[w].wake = rows[g].wake
         /\ run'[w].failures = sched[g].failures
         /\ \A v \in Workers : v # w => run'[v] = run[v]
         /\ sched'[g].attempts = sched[g].attempts + 1 /\ sched[g].attempts \in Nat
         /\ sched'[g].owner = w /\ sched'[g].until = run[w].at + LeaseSeconds
         /\ sched'[g].failures = sched[g].failures
         /\ sched'[g].lastWake = sched[g].lastWake
         /\ \A h \in Games : h # g => sched'[h] = sched[h]
         /\ UNCHANGED <<clock, status, rows, requests, seen>>
         /\ rows[g] # None /\ Free(sched[g], run[w].at)
<1>1. run[w].stage = "claiming" /\ run[w].at \in Int
  BY DEF Claim, TypeOK, Runs, Claims, Idle
<1>2. rows[g] # None /\ Free(sched[g], run[w].at)
  BY DEF Claim, Claimable, Candidates, Pending
<1>3. /\ run'[w] = [stage |-> "claimed", game |-> g, wake |-> rows[g].wake,
                    failures |-> sched[g].failures, attempt |-> sched[g].attempts + 1,
                    at |-> run[w].at]
      /\ \A v \in Workers : v # w => run'[v] = run[v]
  BY DEF Claim, Set, TypeOK
<1>4. /\ sched'[g].attempts = sched[g].attempts + 1 /\ sched[g].attempts \in Nat
      /\ sched'[g].owner = w /\ sched'[g].until = run[w].at + LeaseSeconds
      /\ sched'[g].failures = sched[g].failures
      /\ sched'[g].lastWake = sched[g].lastWake
      /\ \A h \in Games : h # g => sched'[h] = sched[h]
  BY DEF Claim, TypeOK, SchedRows
<1>5. UNCHANGED <<clock, status, rows, requests, seen>>
  BY DEF Claim
<1>6. /\ Running(w)' /\ run'[w].stage = "claimed"
      /\ run'[w].game = g /\ run'[w].attempt = sched[g].attempts + 1
      /\ run'[w].at = run[w].at /\ run'[w].wake = rows[g].wake
      /\ run'[w].failures = sched[g].failures
  BY <1>3 DEF Running
<1> QED
  BY <1>1, <1>2, <1>3, <1>4, <1>5, <1>6

\* Only Tick moves the clock, and only forward.
LEMMA ClockMonotone ==
  ASSUME TypeOK, [Next]_leaseVars
  PROVE  clock \in Int /\ clock' \in Int /\ clock <= clock'
<1>1. clock \in Int
  BY DEF TypeOK
<1>2. CASE Tick
  BY <1>1, <1>2 DEF Tick
<1>3. ASSUME NEW w \in Workers, WorkerStep(w) PROVE clock' = clock
  <2>1. CASE Observe(w) \/ Publish(w)
    BY <2>1 DEF Observe, ObserveWake, Publish, Publishing
  <2>2. CASE ReadClock(w) \/ ClaimNothing(w) \/ GiveUp(w)
    BY <2>2 DEF ReadClock, ClaimNothing, GiveUp
  <2>3. CASE \E g \in Games : Claim(w, g)
    BY <2>3 DEF Claim
  <2>4. CASE \E ok \in BOOLEAN, at \in 0..MaxTime : Report(w, ok, at)
    BY <2>4 DEF Report
  <2> QED
    BY <1>3, <2>1, <2>2, <2>3, <2>4 DEF WorkerStep
<1>4. CASE \E r \in requests : Execute(r) \/ Lose(r)
  BY <1>1, <1>4 DEF Execute, Lose
<1>5. CASE \E g \in Games : Fold(g) \/ Complete(g)
  BY <1>1, <1>5 DEF Fold, Complete
<1>6. CASE UNCHANGED leaseVars
  BY <1>1, <1>6 DEF leaseVars
<1> QED
  BY <1>1, <1>2, <1>3, <1>4, <1>5, <1>6 DEF Next

LEMMA LeaseStep == LeaseInv /\ [Next]_leaseVars => LeaseInv'
<1> SUFFICES ASSUME LeaseInv, [Next]_leaseVars PROVE LeaseParts'
  BY AttemptStep DEF LeaseInv
<1>0. AttemptInv /\ TypeOK /\ LeaseParts /\ TypeOK' /\ Numbered
  BY StepType DEF LeaseInv, AttemptInv
<1>c. clock \in Int /\ clock' \in Int /\ clock <= clock'
  BY <1>0, ClockMonotone
<1>1. CASE Tick
  BY <1>0, <1>1, <1>c, RunningType
  DEF Tick, LeaseParts, ReadingsPast, LatestAttemptHoldsLease, Superseded, Running, TypeOK, Runs,
      Claims, Idle
<1>2. ASSUME NEW w \in Workers, ReadClock(w) PROVE LeaseParts'
  BY <1>0, <1>2, <1>c
  DEF ReadClock, Set, Idle, LeaseParts, ReadingsPast, LatestAttemptHoldsLease, Superseded,
      Running, TypeOK
<1>3. ASSUME NEW w \in Workers, NEW g \in Games, Claim(w, g) PROVE LeaseParts'
  <2>1. ReadingsPast'
    BY <1>0, <1>3, ClaimEffect DEF LeaseParts, ReadingsPast
  <2>2. LatestAttemptHoldsLease'
    BY <1>0, <1>3, ClaimEffect, RunningType
    DEF LeaseParts, LatestAttemptHoldsLease, Numbered, Running
  <2>3. ASSUME NEW v \in Workers, Running(v)', run'[v].attempt < sched'[run'[v].game].attempts
        PROVE  run'[v].at + LeaseSeconds <= clock'
    <3>1. v # w /\ run'[v] = run[v] /\ Running(v) /\ clock' = clock
      BY <1>0, <1>3, <2>3, ClaimEffect DEF Running
    <3>2. CASE run[v].game = g
      <4>1. CASE run[v].attempt < sched[g].attempts
        BY <1>0, <3>1, <3>2, <4>1 DEF LeaseParts, Superseded
      <4>2. CASE run[v].attempt = sched[g].attempts
        <5>1. sched[g].until = run[v].at + LeaseSeconds /\ run[v].at \in Int
          BY <1>0, <3>1, <3>2, <4>2, RunningType DEF LeaseParts, LatestAttemptHoldsLease
        <5>2. sched[g].until <= run[w].at /\ run[w].at <= clock /\ run[w].at \in Int
          BY <1>0, <1>3, <5>1, ClaimEffect DEF Free, LeaseParts, ReadingsPast
        <5> QED
          BY <3>1, <5>1, <5>2, <1>c
      <4>3. run[v].attempt <= sched[g].attempts
        BY <1>0, <3>1, <3>2 DEF Numbered
      <4> QED
        BY <1>0, <1>3, <3>1, <4>1, <4>2, <4>3, RunningType, ClaimEffect
    <3>3. CASE run[v].game # g
      BY <1>0, <1>3, <2>3, <3>1, <3>3, ClaimEffect, RunningType DEF LeaseParts, Superseded
    <3> QED
      BY <3>2, <3>3
  <2> QED
    BY <2>1, <2>2, <2>3 DEF LeaseParts, Superseded
<1>4. ASSUME NEW w \in Workers, ClaimNothing(w) \/ GiveUp(w) PROVE LeaseParts'
  BY <1>0, <1>4
  DEF ClaimNothing, GiveUp, Set, Idle, LeaseParts, ReadingsPast, LatestAttemptHoldsLease,
      Superseded, Running, TypeOK
<1>5. ASSUME NEW w \in Workers, Observe(w) \/ Publish(w) PROVE LeaseParts'
  <2>1. UNCHANGED <<clock, sched>>
        /\ \A v \in Workers : run'[v].stage = "claiming" => run'[v] = run[v]
    BY <1>0, <1>5, PassKeepsClaim DEF Observe, ObserveWake, Publish, Publishing, Running
  <2> QED
    BY <1>0, <1>5, <2>1, PassKeepsClaim
    DEF LeaseParts, ReadingsPast, LatestAttemptHoldsLease, Superseded
<1>6. ASSUME NEW w \in Workers, NEW ok \in BOOLEAN, NEW at \in 0..MaxTime, Report(w, ok, at)
      PROVE LeaseParts'
  <2>1. UNCHANGED <<clock, sched>>
        /\ \A v \in Workers : run'[v].stage # "finishing" => run'[v] = run[v]
    BY <1>0, <1>6 DEF Report, Set, TypeOK
  <2> QED
    BY <1>0, <2>1 DEF LeaseParts, ReadingsPast, LatestAttemptHoldsLease, Superseded, Running
<1>7. ASSUME NEW r \in requests, Execute(r) PROVE LeaseParts'
  <2>1. clock' = clock
    BY <1>7 DEF Execute
  <2>2. LatestAttemptHoldsLease'
    BY <1>0, <1>7, ExecuteKeeps, ExecuteSparesRunning, RunningType
    DEF LeaseParts, LatestAttemptHoldsLease
  <2>3. Superseded' /\ ReadingsPast'
    BY <1>0, <1>7, <2>1, ExecuteKeeps, RunningType DEF LeaseParts, Superseded, ReadingsPast
  <2> QED
    BY <2>2, <2>3 DEF LeaseParts
<1>8. CASE \/ \E r \in requests : Lose(r)
           \/ \E g \in Games : Fold(g) \/ Complete(g)
           \/ UNCHANGED leaseVars
  BY <1>0, <1>8
  DEF Lose, Fold, Complete, leaseVars, LeaseParts, ReadingsPast, LatestAttemptHoldsLease,
      Superseded, Running
<1> QED
  BY <1>1, <1>2, <1>3, <1>4, <1>5, <1>6, <1>7, <1>8 DEF Next, WorkerStep

LEMMA LeaseInit == Init => LeaseInv
  BY InitType
  DEF Init, LeaseInv, AttemptInv, Numbered, Exclusive, LeaseParts, ReadingsPast,
      LatestAttemptHoldsLease, Superseded, Running, Idle

LEMMA LeaseInvariant == Spec => []LeaseInv
  BY LeaseInit, LeaseStep, PTL DEF Spec

\* The lease of the latest attempt stays on the row for as long as that attempt
\* runs, whatever completions of earlier attempts still arrive.
THEOREM LeaseHeld == Spec => []LatestAttemptHoldsLease
<1>1. LeaseInv => LatestAttemptHoldsLease
  BY DEF LeaseInv, LeaseParts
<1> QED
  BY <1>1, LeaseInvariant, PTL

\* Two passes of one game overlap only once the earlier lease has expired.
THEOREM OverlapExcluded == Spec => []OverlapNeedsExpiry
<1>1. LeaseInv => OverlapNeedsExpiry
  <2> SUFFICES ASSUME LeaseInv, NEW v \in Workers, NEW w \in Workers,
                      Running(v), Running(w), run[v].game = run[w].game,
                      run[v].attempt < run[w].attempt
               PROVE  run[v].at + LeaseSeconds <= clock
    BY DEF OverlapNeedsExpiry
  <2>1. run[w].attempt <= sched[run[v].game].attempts
    BY DEF LeaseInv, AttemptInv, Numbered
  <2>2. /\ run[v].attempt \in Nat /\ run[w].attempt \in Nat
        /\ sched[run[v].game].attempts \in Nat
    BY RunningType DEF LeaseInv, AttemptInv, TypeOK, SchedRows
  <2>3. run[v].attempt < sched[run[v].game].attempts
    BY <2>1, <2>2
  <2> QED
    BY <2>3 DEF LeaseInv, LeaseParts, Superseded
<1> QED
  BY <1>1, LeaseInvariant, PTL

-----------------------------------------------------------------------------
(* The failure count: a completion applies to the count its claim read.    *)

\* The latest attempt, running or reported, carries the row's failure count.
FailuresCaptured ==
  /\ \A w \in Workers :
       Running(w) /\ run[w].attempt = sched[run[w].game].attempts
         => run[w].failures = sched[run[w].game].failures
  /\ \A r \in requests :
       r.attempt = sched[r.game].attempts /\ r.owner = sched[r.game].owner
         => r.failures = sched[r.game].failures

FailureInv == AttemptInv /\ FailuresCaptured

\* What a report sends: one completion of an attempt that was running.
LEMMA ReportEffect ==
  ASSUME TypeOK, NEW w \in Workers, NEW ok \in BOOLEAN, NEW at \in Int, Report(w, ok, at)
  PROVE  /\ Running(w) /\ ok \in Outcomes(w)
         /\ requests' = requests \cup
              {[ok |-> ok, owner |-> w, game |-> run[w].game, wake |-> run[w].wake,
                failures |-> run[w].failures, attempt |-> run[w].attempt, at |-> at]}
         /\ ~Running(w)'
         /\ \A v \in Workers : v # w => run'[v] = run[v]
         /\ UNCHANGED <<clock, status, rows, sched, seen>>
<1>1. run' = [run EXCEPT ![w] = [run[w] EXCEPT !.stage = "finishing"]] /\ Running(w)
  BY DEF Report, Set, Running
<1>2. run[w] \in Claims /\ run'[w] = [run[w] EXCEPT !.stage = "finishing"]
  BY <1>1 DEF TypeOK, Runs, Running, Claims, Idle
<1> DEFINE c == run[w]
<1>3. c \in Claims /\ run'[w] = [c EXCEPT !.stage = "finishing"]
  BY <1>2
<1> HIDE DEF c
<1>4. run'[w].stage = "finishing"
  BY <1>3 DEF Claims
<1>5. \A v \in Workers : v # w => run'[v] = run[v]
  BY <1>1 DEF TypeOK
<1>6. ~Running(w)'
  BY <1>4 DEF Running
<1> QED
  BY <1>1, <1>5, <1>6 DEF Report

LEMMA FailureStep == FailureInv /\ [Next]_leaseVars => FailureInv'
<1> SUFFICES ASSUME FailureInv, [Next]_leaseVars PROVE FailuresCaptured'
  BY AttemptStep DEF FailureInv
<1>0. AttemptInv /\ TypeOK /\ Numbered /\ Exclusive /\ FailuresCaptured
  BY DEF FailureInv, AttemptInv
<1>a. \A r \in requests : r.game \in Games /\ r.owner \in Workers /\ r.attempt \in Nat
  BY <1>0 DEF TypeOK, Requests
<1>1. ASSUME NEW w \in Workers, ReadClock(w) \/ ClaimNothing(w) \/ GiveUp(w)
      PROVE FailuresCaptured'
  BY <1>0, <1>1
  DEF ReadClock, ClaimNothing, GiveUp, Set, Idle, FailuresCaptured, Running, TypeOK
<1>2. ASSUME NEW w \in Workers, NEW g \in Games, Claim(w, g) PROVE FailuresCaptured'
  <2>1. \A v \in Workers :
          Running(v)' /\ run'[v].attempt = sched'[run'[v].game].attempts
            => run'[v].failures = sched'[run'[v].game].failures
    BY <1>0, <1>2, ClaimEffect, RunningType DEF FailuresCaptured, Numbered, Running
  <2>2. \A r \in requests' :
          r.attempt = sched'[r.game].attempts /\ r.owner = sched'[r.game].owner
            => r.failures = sched'[r.game].failures
    BY <1>0, <1>2, <1>a, ClaimEffect DEF FailuresCaptured, Numbered
  <2> QED
    BY <2>1, <2>2 DEF FailuresCaptured
<1>3. ASSUME NEW w \in Workers, Observe(w) \/ Publish(w) PROVE FailuresCaptured'
  <2>1. UNCHANGED <<sched, requests>>
    BY <1>3 DEF Observe, ObserveWake, Publish, Publishing
  <2> QED
    BY <1>0, <1>3, <2>1, PassKeepsClaim DEF FailuresCaptured
<1>4. ASSUME NEW w \in Workers, NEW ok \in BOOLEAN, NEW at \in 0..MaxTime, Report(w, ok, at)
      PROVE FailuresCaptured'
  <2>1. at \in Int
    BY <1>4
  <2> QED
    BY <1>0, <1>4, <2>1, ReportEffect DEF FailuresCaptured, Running
<1>5. ASSUME NEW r \in requests, Execute(r) PROVE FailuresCaptured'
  <2>1. \A v \in Workers :
          Running(v)' /\ run'[v].attempt = sched'[run'[v].game].attempts
            => run'[v].failures = sched'[run'[v].game].failures
    BY <1>0, <1>5, ExecuteKeeps, ExecuteSparesRunning, RunningType DEF FailuresCaptured
  <2>2. ASSUME NEW q \in requests', q.attempt = sched'[q.game].attempts,
               q.owner = sched'[q.game].owner
        PROVE  q.failures = sched'[q.game].failures
    <3>1. q \in requests /\ q.game \in Games /\ q.owner # None
      BY <1>0, <1>5, <1>a, ExecuteKeeps
    <3>2. sched'[q.game] = sched[q.game] \/ sched'[q.game].owner = None
      BY <1>0, <1>5, <1>a, <3>1 DEF Execute, Completed, Succeeded, Failed, TypeOK, SchedRows
    <3> QED
      BY <1>0, <2>2, <3>1, <3>2 DEF FailuresCaptured
  <2> QED
    BY <2>1, <2>2 DEF FailuresCaptured
<1>6. CASE \/ Tick
           \/ \E r \in requests : Lose(r)
           \/ \E g \in Games : Fold(g) \/ Complete(g)
           \/ UNCHANGED leaseVars
  BY <1>0, <1>6 DEF Tick, Lose, Fold, Complete, leaseVars, FailuresCaptured, Running
<1> QED
  BY <1>1, <1>2, <1>3, <1>4, <1>5, <1>6 DEF Next, WorkerStep

\* A completion that still holds its lease replaces the failure count that its
\* own claim captured, never one that another attempt has changed since.
THEOREM FailureCountKept == Spec => []FailureCountFresh
<1>1. Init => FailureInv
  BY InitType DEF Init, FailureInv, AttemptInv, Numbered, Exclusive, FailuresCaptured,
     Running, Idle
<1>2. FailureInv => FailureCountFresh
  BY DEF FailureInv, FailuresCaptured, FailureCountFresh, Holds
<1> QED
  BY <1>1, <1>2, FailureStep, PTL DEF Spec

-----------------------------------------------------------------------------
(* The wake cursor: a success acknowledges no more than a pass has read.   *)

Over(g) == status[g] = "completed"

WakesCaptured ==
  /\ \A g \in Games : Over(g) \/ sched[g].lastWake <= seen[g]
  /\ \A w \in Workers :
       Running(w) => \/ Over(run[w].game)
                     \/ rows[run[w].game] # None /\ run[w].wake <= rows[run[w].game].wake
  /\ \A w \in Workers :
       run[w].stage \in {"observed", "published"}
         => Over(run[w].game) \/ run[w].wake <= seen[run[w].game]
  /\ \A r \in requests : r.ok => Over(r.game) \/ r.wake <= seen[r.game]

WakeInv == TypeOK /\ WakesCaptured

\* No step rewinds a game: it stays completed, its cursor only advances while
\* its row is there, and what a pass has read is never forgotten.
LEMMA Forward ==
  ASSUME TypeOK, [Next]_leaseVars, NEW g \in Games
  PROVE  /\ Over(g) => Over(g)'
         /\ seen[g] \in Nat /\ seen'[g] \in Nat /\ seen[g] <= seen'[g]
         /\ Over(g)' \/ rows[g] = None
              \/ (rows'[g] # None /\ rows[g].wake <= rows'[g].wake
                   /\ rows[g].wake \in Nat /\ rows'[g].wake \in Nat)
<1>0. seen[g] \in Nat /\ (rows[g] # None => rows[g].wake \in Nat)
  BY DEF TypeOK, Rows, Optional
<1>1. CASE \/ Tick
           \/ \E w \in Workers : ReadClock(w) \/ ClaimNothing(w) \/ GiveUp(w)
           \/ \E w \in Workers, h \in Games : Claim(w, h)
           \/ \E w \in Workers, ok \in BOOLEAN, at \in 0..MaxTime : Report(w, ok, at)
           \/ \E r \in requests : Execute(r) \/ Lose(r)
           \/ UNCHANGED leaseVars
  <2>1. UNCHANGED <<status, rows, seen>>
    BY <1>1 DEF Tick, ReadClock, ClaimNothing, GiveUp, Claim, Report, Execute, Lose, leaseVars
  <2> QED
    BY <1>0, <2>1 DEF Over
<1>2. ASSUME NEW w \in Workers, Observe(w) \/ Publish(w)
      PROVE  /\ status' = status
             /\ seen'[g] \in Nat /\ seen[g] <= seen'[g]
             /\ rows[g] = None \/ (rows'[g] # None /\ rows'[g].wake = rows[g].wake)
  <2>1. run[w].game \in Games
    BY <1>2, RunningType DEF Observe, ObserveWake, Publish, Publishing, Running
  <2>2. status' = status /\ PassRows(run[w].game)
    BY <1>2 DEF Observe, ObserveWake, Publish, Publishing
  <2>3. seen'[g] \in Nat /\ seen[g] <= seen'[g]
    <3>1. CASE Observe(w)
      <4>1. rows[run[w].game].wake \in Nat
        BY <3>1, <2>1 DEF Observe, ObserveWake, TypeOK, Rows, Optional
      <4> QED
        BY <3>1, <2>1, <4>1, <1>0 DEF Observe, ObserveWake, TypeOK
    <3>2. CASE Publish(w)
      BY <3>2, <1>0 DEF Publish, Publishing
    <3> QED
      BY <1>2, <3>1, <3>2
  <2>4. rows[g] = None \/ (rows'[g] # None /\ rows'[g].wake = rows[g].wake)
    <3>1. rows[run[w].game].wake \in Nat
      BY <2>1, <2>2 DEF PassRows, TypeOK, Rows, Optional
    <3>2. PICK row \in Rows : /\ row.wake = rows[run[w].game].wake
                             /\ rows' = [rows EXCEPT ![run[w].game] = row]
      BY <2>2, <3>1 DEF PassRows, Rows
    <3> QED
      BY <2>1, <3>2, RowAssumption DEF TypeOK
  <2> QED
    BY <2>2, <2>3, <2>4
<1>3. ASSUME NEW h \in Games, Fold(h) \/ Complete(h)
      PROVE  /\ Over(g) => Over(g)'
             /\ seen' = seen
             /\ Over(g)' \/ rows[g] = None
                  \/ (rows'[g] # None /\ rows[g].wake <= rows'[g].wake /\ rows'[g].wake \in Nat)
  <2>1. CASE Complete(h)
    BY <1>0, <2>1 DEF Complete, Over, TypeOK
  <2>2. CASE Fold(h)
    <3>1. (Over(g) => Over(g)') /\ seen' = seen
      BY <2>2 DEF Fold, Over, TypeOK
    <3>2. ASSUME rows[h] # None PROVE rows[h].wake \in Nat
      BY <3>2 DEF TypeOK, Rows, Optional
    <3>3. PICK row \in Rows : /\ rows[h] # None => rows[h].wake <= row.wake
                             /\ rows' = [rows EXCEPT ![h] = row]
      <4> DEFINE wake == IF rows[h] = None THEN 0 ELSE rows[h].wake
      <4>1. wake \in Nat
        BY <3>2
      <4>2. PICK row \in [due : Optional(DueTimes), wake : {wake, wake + 1}, ready : BOOLEAN] :
              rows' = [rows EXCEPT ![h] = row]
        BY <2>2 DEF Fold
      <4>3. row \in Rows /\ wake <= row.wake
        <5> HIDE DEF wake
        <5> QED
          BY <4>1, <4>2 DEF Rows
      <4> QED
        BY <4>2, <4>3
    <3>4. rows[g] # None => rows'[g] # None /\ rows[g].wake <= rows'[g].wake /\ rows'[g].wake \in Nat
      <4>1. row # None /\ row.wake \in Nat
        BY RowAssumption DEF Rows
      <4> QED
        BY <1>0, <3>3, <4>1 DEF TypeOK
    <3> QED
      BY <3>1, <3>4
  <2> QED
    BY <1>3, <2>1, <2>2
<1> QED
  BY <1>0, <1>1, <1>2, <1>3 DEF Next, WorkerStep, Over

LEMMA WakeStep == WakeInv /\ [Next]_leaseVars => WakeInv'
<1> SUFFICES ASSUME WakeInv, [Next]_leaseVars PROVE WakesCaptured'
  BY StepType DEF WakeInv
<1>0. TypeOK /\ WakesCaptured
  BY DEF WakeInv
<1>a. \A g \in Games : sched[g].lastWake \in Nat /\ seen[g] \in Nat
  BY <1>0 DEF TypeOK, SchedRows
<1>b. \A r \in requests : r.game \in Games /\ r.wake \in Nat /\ r.ok \in BOOLEAN
  BY <1>0 DEF TypeOK, Requests
<1>c. \A w \in Workers : run[w].stage \in {"observed", "published"} => Running(w)
  BY DEF Running
<1>1. ASSUME sched' = sched, requests' = requests,
             \A v \in Workers : run'[v] = run[v] \/ run'[v].stage \in {"idle", "claiming"}
      PROVE  WakesCaptured'
  BY <1>0, <1>1, <1>a, <1>b, <1>c, Forward, RunningType DEF WakesCaptured, Running
<1>2. ASSUME NEW w \in Workers, ReadClock(w) \/ ClaimNothing(w) \/ GiveUp(w)
      PROVE WakesCaptured'
  BY <1>0, <1>1, <1>2 DEF ReadClock, ClaimNothing, GiveUp, Set, Idle, TypeOK
<1>3. CASE \/ Tick
           \/ \E g \in Games : Fold(g) \/ Complete(g)
           \/ UNCHANGED leaseVars
  BY <1>1, <1>3 DEF Tick, Fold, Complete, leaseVars
<1>4. ASSUME NEW w \in Workers, NEW g \in Games, Claim(w, g) PROVE WakesCaptured'
  <2>1. rows[g] # None /\ rows[g].wake \in Nat
    BY <1>0, <1>4, ClaimEffect DEF TypeOK, Rows, Optional
  <2>2. \A h \in Games : sched'[h].lastWake = sched[h].lastWake
    BY <1>0, <1>4, ClaimEffect
  <2>3. UNCHANGED <<status, rows, requests, seen>> /\ \A v \in Workers : v # w => run'[v] = run[v]
    BY <1>0, <1>4, ClaimEffect
  <2>4. run'[w].stage = "claimed" /\ run'[w].game = g /\ run'[w].wake = rows[g].wake
    BY <1>0, <1>4, ClaimEffect
  <2> QED
    BY <1>0, <2>1, <2>2, <2>3, <2>4, RunningType DEF WakesCaptured, Running, Over
<1>5. ASSUME NEW w \in Workers, Observe(w) \/ Publish(w) PROVE WakesCaptured'
  <2>1. UNCHANGED <<sched, requests, status>>
    BY <1>5 DEF Observe, ObserveWake, Publish, Publishing
  <2>2. Running(w)
    BY <1>5 DEF Observe, ObserveWake, Publish, Publishing, Running
  <2>3. Over(run[w].game) \/ run[w].wake <= seen'[run[w].game]
    <3>1. CASE Publish(w)
      BY <1>0, <3>1 DEF Publish, Publishing, WakesCaptured
    <3>2. CASE Observe(w)
      <4>1. run[w].game \in Games /\ rows[run[w].game].wake \in Nat /\ run[w].wake \in Nat
            /\ seen[run[w].game] \in Nat
        BY <1>0, <2>2, <3>2, RunningType DEF Observe, ObserveWake, TypeOK, Rows, Optional
      <4>2. run[w].wake <= rows[run[w].game].wake
        BY <1>0, <2>2, <3>2 DEF Observe, ObserveWake, WakesCaptured, Over
      <4>3. rows[run[w].game].wake <= seen'[run[w].game] /\ seen'[run[w].game] \in Nat
        BY <1>0, <3>2, <4>1 DEF Observe, ObserveWake, TypeOK
      <4> QED
        BY <4>1, <4>2, <4>3
    <3> QED
      BY <1>5, <3>1, <3>2
  <2>4. /\ \A v \in Workers : v # w => run'[v] = run[v]
        /\ run'[w].game = run[w].game /\ run'[w].wake = run[w].wake
        /\ \A v \in Workers : Running(v)' <=> Running(v)
    BY <1>0, <1>5, <2>2, PassKeepsClaim
  <2>5. \A g \in Games : Over(g)' \/ sched'[g].lastWake <= seen'[g]
    BY <1>0, <1>a, <2>1, Forward DEF WakesCaptured
  <2>6. \A v \in Workers :
          Running(v)' => \/ Over(run[v].game)'
                         \/ /\ rows'[run'[v].game] # None
                            /\ run'[v].wake <= rows'[run'[v].game].wake
    <3> SUFFICES ASSUME NEW v \in Workers, Running(v), ~Over(run[v].game)
                 PROVE  rows'[run'[v].game] # None /\ run'[v].wake <= rows'[run'[v].game].wake
      BY <2>1, <2>4 DEF Over
    <3>1. /\ run[v].game \in Games /\ run[v].wake \in Nat
          /\ rows[run[v].game] # None /\ run[v].wake <= rows[run[v].game].wake
      BY <1>0, RunningType DEF WakesCaptured
    <3>2. run'[v].game = run[v].game /\ run'[v].wake = run[v].wake
      BY <2>4
    <3> QED
      BY <1>0, <2>1, <3>1, <3>2, Forward DEF Over
  <2>7. \A v \in Workers :
          run'[v].stage \in {"observed", "published"}
            => Over(run[v].game)' \/ run'[v].wake <= seen'[run'[v].game]
    <3>1. ASSUME NEW v \in Workers, v # w, run[v].stage \in {"observed", "published"}
          PROVE  Over(run[v].game) \/ run[v].wake <= seen'[run[v].game]
      BY <1>0, <1>c, <3>1, Forward, RunningType DEF WakesCaptured
    <3> QED
      BY <2>1, <2>3, <2>4, <3>1 DEF Over
  <2>8. \A r \in requests' : r.ok => Over(r.game)' \/ r.wake <= seen'[r.game]
    BY <1>0, <1>b, <2>1, Forward DEF WakesCaptured
  <2>9. \A v \in Workers : Running(v) => run'[v].game = run[v].game
    BY <2>4
  <2>10. \A v \in Workers : run'[v].stage \in {"observed", "published"} => Running(v)
    BY <2>4 DEF Running
  <2> QED
    BY <2>4, <2>5, <2>6, <2>7, <2>8, <2>9, <2>10 DEF WakesCaptured, Over
<1>6. ASSUME NEW w \in Workers, NEW ok \in BOOLEAN, NEW at \in 0..MaxTime, Report(w, ok, at)
      PROVE WakesCaptured'
  <2>1. at \in Int
    BY <1>6
  <2>2. ok => run[w].stage = "published" \/ Over(run[w].game)
    BY <1>0, <1>6, <2>1, ReportEffect DEF Outcomes, Over
  <2> QED
    BY <1>0, <1>6, <1>c, <2>1, <2>2, ReportEffect DEF WakesCaptured, Running, Over
<1>7. ASSUME NEW r \in requests, Execute(r) PROVE WakesCaptured'
  <2>1. UNCHANGED <<status, rows, seen>> /\ requests' \subseteq requests
    BY <1>7 DEF Execute
  <2>2. \A v \in Workers : run'[v] = run[v] \/ run'[v].stage = "idle"
    BY <1>0, <1>7 DEF Execute, Idle, TypeOK
  <2>3. \A g \in Games : \/ sched'[g].lastWake = sched[g].lastWake
                         \/ g = r.game /\ r.ok /\ sched'[g].lastWake = r.wake
    BY <1>0, <1>7, <1>b DEF Execute, Completed, Succeeded, Failed, TypeOK, SchedRows
  <2> QED
    BY <1>0, <1>b, <2>1, <2>2, <2>3 DEF WakesCaptured, Running, Over
<1>8. CASE \E r \in requests : Lose(r)
  BY <1>0, <1>8 DEF Lose, WakesCaptured, Running, Over
<1> QED
  BY <1>2, <1>3, <1>4, <1>5, <1>6, <1>7, <1>8 DEF Next, WorkerStep

\* The scheduler acknowledges a wake only after a committed mechanics pass has
\* read it: no command that lands during a pass is lost.
THEOREM WakeAcknowledged == Spec => []WakeSeen
<1>1. Init => WakeInv
  BY InitType DEF Init, WakeInv, WakesCaptured, Running, Idle, Over
<1>2. WakeInv => WakeSeen
  BY DEF WakeInv, WakesCaptured, WakeSeen, Over
<1> QED
  BY <1>1, <1>2, WakeStep, PTL DEF Spec

-----------------------------------------------------------------------------
(* How long a game can be withheld from the workers.                       *)

\* Every reading of the clock that is still carried about is of the past.
CarriedPast ==
  /\ \A w \in Workers : run[w] # Idle => run[w].at <= clock
  /\ \A r \in requests : r.at <= clock

\* A lease ends within one lease time and a backoff within the longest backoff of
\* the present.
WaitsBounded ==
  \A g \in Games :
    /\ sched[g].until # None => sched[g].until <= clock + LeaseSeconds
    /\ sched[g].retry # None => sched[g].retry <= clock + RetryMax

WaitInv == TypeOK /\ CarriedPast /\ WaitsBounded

LEMMA RetryDelayCapped ==
  ASSUME NEW failures \in Nat
  PROVE  RetryDelay(failures) \in 1..RetryMax
BY DEF RetryDelay

LEMMA CompletedWaits ==
  ASSUME TypeOK, CarriedPast, WaitsBounded, NEW r \in requests
  PROVE  LET s == Completed(r, sched[r.game]) IN
         /\ s.until # None => s.until <= clock + LeaseSeconds
         /\ s.retry # None => s.retry <= clock + RetryMax
<1>1. r \in Requests /\ r.game \in Games /\ sched[r.game] \in SchedRows /\ clock \in Int
  BY DEF TypeOK, Requests
<1>2. r.at \in Int /\ r.at <= clock /\ r.failures + 1 \in Nat
  BY <1>1 DEF CarriedPast, Requests
<1>3. RetryDelay(r.failures + 1) \in 1..RetryMax
  BY <1>2, RetryDelayCapped
<1>4. r.at + RetryDelay(r.failures + 1) <= clock + RetryMax
  BY <1>1, <1>2, <1>3
<1>5. LET s == Failed(r, sched[r.game]) IN
        s.until = None /\ s.retry = r.at + RetryDelay(r.failures + 1)
  BY <1>1 DEF Failed, SchedRows
<1>6. LET s == Succeeded(r, sched[r.game]) IN s.until = None /\ s.retry = None
  BY <1>1 DEF Succeeded, SchedRows
<1>7. CASE ~Holds(r, sched[r.game])
  BY <1>1, <1>7 DEF Completed, WaitsBounded
<1>8. CASE Holds(r, sched[r.game]) /\ r.ok
  BY <1>6, <1>8 DEF Completed
<1>9. CASE Holds(r, sched[r.game]) /\ ~r.ok
  BY <1>4, <1>5, <1>9 DEF Completed
<1> QED
  BY <1>7, <1>8, <1>9

LEMMA WaitStep == WaitInv /\ [Next]_leaseVars => WaitInv'
<1> SUFFICES ASSUME WaitInv, [Next]_leaseVars PROVE CarriedPast' /\ WaitsBounded'
  BY StepType DEF WaitInv
<1>0. TypeOK /\ CarriedPast /\ WaitsBounded
  BY DEF WaitInv
<1>c. clock \in Int /\ clock' \in Int /\ clock <= clock'
  BY <1>0, ClockMonotone
<1>a. /\ \A w \in Workers : run[w] # Idle => run[w].at \in Int
      /\ \A r \in requests : r.at \in Int
      /\ \A g \in Games : sched[g].until \in Optional(Int) /\ sched[g].retry \in Optional(Int)
  BY <1>0 DEF TypeOK, Runs, Claims, Requests, SchedRows
<1>1. ASSUME UNCHANGED sched PROVE WaitsBounded'
  BY <1>0, <1>1, <1>a, <1>c DEF WaitsBounded, Optional
<1>2. ASSUME \A w \in Workers :
               \/ run'[w] = run[w] \/ run'[w] = Idle \/ run'[w].at = clock
               \/ (run[w] # Idle /\ run'[w].at = run[w].at),
             \A r \in requests' : r \in requests \/ r.at \in {clock - 1, clock}
      PROVE  CarriedPast'
  BY <1>0, <1>2, <1>a, <1>c DEF CarriedPast
<1>3. CASE Tick
  BY <1>1, <1>2, <1>3 DEF Tick
<1>4. ASSUME NEW w \in Workers, ReadClock(w) \/ ClaimNothing(w) \/ GiveUp(w)
      PROVE  CarriedPast' /\ WaitsBounded'
  <2>1. UNCHANGED <<sched, requests>>
    BY <1>4 DEF ReadClock, ClaimNothing, GiveUp
  <2>2. \A v \in Workers : run'[v] = run[v] \/ run'[v] = Idle \/ run'[v].at = clock
    BY <1>0, <1>4 DEF ReadClock, ClaimNothing, GiveUp, Set, TypeOK
  <2> QED
    BY <1>1, <1>2, <2>1, <2>2
<1>5. ASSUME NEW w \in Workers, NEW g \in Games, Claim(w, g)
      PROVE  CarriedPast' /\ WaitsBounded'
  <2>1. run[w] # Idle /\ run[w].at \in Int /\ run[w].at <= clock
    BY <1>0, <1>5, ClaimEffect DEF CarriedPast, Idle
  <2>2. CarriedPast'
    BY <1>0, <1>2, <1>5, <2>1, ClaimEffect
  <2>3. sched'[g].retry = sched[g].retry
    BY <1>0, <1>5 DEF Claim, TypeOK, SchedRows
  <2>4. WaitsBounded'
    BY <1>0, <1>5, <1>a, <1>c, <2>1, <2>3, ClaimEffect DEF WaitsBounded, Optional
  <2> QED
    BY <2>2, <2>4
<1>6. ASSUME NEW w \in Workers, NEW st, run[w] # Idle,
             run'[w] = [run[w] EXCEPT !.stage = st],
             \A v \in Workers : v # w => run'[v] = run[v]
      PROVE  \A v \in Workers : run'[v] = run[v] \/ (run[v] # Idle /\ run'[v].at = run[v].at)
  BY <1>0, <1>6 DEF TypeOK, Runs, Claims
<1>7. ASSUME NEW w \in Workers, Observe(w) \/ Publish(w)
      PROVE  CarriedPast' /\ WaitsBounded'
  <2>1. run[w] # Idle /\ UNCHANGED <<sched, requests>>
    BY <1>7 DEF Observe, ObserveWake, Publish, Publishing, Idle
  <2>2. \E st : Set(w, [run[w] EXCEPT !.stage = st])
    BY <1>7 DEF Observe, ObserveWake, Publish, Publishing
  <2>3. \A v \in Workers : run'[v] = run[v] \/ (run[v] # Idle /\ run'[v].at = run[v].at)
    BY <1>0, <1>6, <2>1, <2>2 DEF Set, TypeOK
  <2> QED
    BY <1>1, <1>2, <2>1, <2>3
<1>8. ASSUME NEW w \in Workers, NEW ok \in BOOLEAN, NEW at \in 0..MaxTime, Report(w, ok, at)
      PROVE  CarriedPast' /\ WaitsBounded'
  <2>1. run[w] # Idle /\ UNCHANGED sched /\ at \in {clock - 1, clock}
    BY <1>8 DEF Report, CompletedAt, Idle
  <2>2. \A v \in Workers : run'[v] = run[v] \/ (run[v] # Idle /\ run'[v].at = run[v].at)
    BY <1>0, <1>6, <1>8, <2>1 DEF Report, Set, TypeOK
  <2>3. \A r \in requests' : r \in requests \/ r.at = at
    BY <1>8 DEF Report
  <2> QED
    BY <1>1, <1>2, <2>1, <2>2, <2>3
<1>9. ASSUME NEW r \in requests, Execute(r)
      PROVE  CarriedPast' /\ WaitsBounded'
  <2>1. clock' = clock /\ requests' \subseteq requests
    BY <1>9 DEF Execute
  <2>2. \A v \in Workers : run'[v] = run[v] \/ run'[v] = Idle
    BY <1>9 DEF Execute
  <2>3. /\ sched'[r.game] = Completed(r, sched[r.game])
        /\ \A g \in Games : g # r.game => sched'[g] = sched[g]
    BY <1>0, <1>9 DEF Execute, TypeOK, Requests
  <2>4. WaitsBounded'
    BY <1>0, <2>1, <2>3, CompletedWaits DEF WaitsBounded
  <2> QED
    BY <1>2, <2>1, <2>2, <2>4
<1>10. CASE \/ \E r \in requests : Lose(r)
            \/ \E g \in Games : Fold(g) \/ Complete(g)
            \/ UNCHANGED leaseVars
  <2>1. UNCHANGED <<sched, run>> /\ requests' \subseteq requests
    BY <1>10 DEF Lose, Fold, Complete, leaseVars
  <2> QED
    BY <1>1, <1>2, <2>1
<1> QED
  BY <1>3, <1>4, <1>5, <1>7, <1>8, <1>9, <1>10 DEF Next, WorkerStep

\* No game is withheld for long: whatever crashes, losses and failures went
\* before, every lease has run out one lease time from now and every backoff one
\* longest backoff from now, unless a worker claims the game again or fails again.
THEOREM WaitsAreBounded == Spec => []WaitsBounded
<1>1. Init => WaitInv
  BY InitType DEF Init, WaitInv, CarriedPast, WaitsBounded, Idle
<1>2. WaitInv => WaitsBounded
  BY DEF WaitInv
<1> QED
  BY <1>1, <1>2, WaitStep, PTL DEF Spec

=============================================================================
