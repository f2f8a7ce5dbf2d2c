------------------------------ MODULE DayLease ------------------------------
(***************************************************************************)
(* The operational DayEvent scheduler: which worker advances which game.   *)
(*                                                                         *)
(* A worker reads its clock, claims one game with a short database lease,  *)
(* runs the sealed automation in two transactions and reports the outcome  *)
(* with an UPDATE fenced by owner, attempt and lease expiry. Workers share *)
(* nothing but the database. A worker that stops waiting (its deadline     *)
(* passes, its process dies) leaves its claim and possibly its UPDATE      *)
(* behind: the statement is in flight in `requests` and may still execute. *)
(*                                                                         *)
(* What a pass does to a game is left open here: it, and every command on  *)
(* the game, rewrites the work row; only commands advance its wake cursor. *)
(* A pass whose transaction commits after its worker stopped waiting is one *)
(* of those rewrites. DayScheduler composes this module with DayRuntime.   *)
(***************************************************************************)
EXTENDS Integers, FiniteSets

CONSTANTS
  None,          \* SQL NULL
  Games,
  GameOrder,     \* the order of game ids, the last key of the claim's ORDER BY
  Workers,       \* replicas, one sequential execution slot each
  LeaseSeconds, RetryBase, RetryMax,   \* DayEventSchedulerConfig
  DueTimes,      \* the due times work rows can hold
  MaxTime,       \* bound on the clock
  MaxWakes,      \* bound on the wake cursor of a game
  MaxAttempts    \* bound on the claims of a game

\* DayEventSchedulerConfig::validate, in seconds.
ASSUME ConfigAssumption ==
  /\ LeaseSeconds \in Nat \ {0} /\ RetryBase \in Nat \ {0} /\ RetryMax \in Nat
  /\ RetryBase <= RetryMax

ASSUME LeaseAssumption ==
  /\ None \notin Int /\ None \notin Workers /\ None \notin Games
  /\ GameOrder \in [Games -> Int]
  /\ DueTimes \subseteq Int
  /\ MaxTime \in Nat /\ MaxWakes \in Nat /\ MaxAttempts \in Nat

VARIABLES
  clock,     \* unix seconds
  status,    \* game_index.status by game
  rows,      \* day_event_schedule_work by game, None when there is no row
  sched,     \* day_event_scheduler_state by game
  run,       \* what each worker is doing
  requests,  \* completion UPDATEs sent and not yet executed
  seen       \* history: the highest wake a committed mechanics pass has read

leaseVars == <<clock, status, rows, sched, run, requests, seen>>

Optional(S) == S \cup {None}

\* ready: auto_resolve_pending or narrative_pending.
Rows == [due : Optional(DueTimes), wake : Nat, ready : BOOLEAN]

ASSUME RowAssumption == None \notin Rows

SchedRows ==
  [lastWake : Nat, owner : Optional(Workers), until : Optional(Int),
   retry : Optional(Int), failures : Nat, attempts : Nat]

\* ClaimedGame, with the observation time the pass carries.
Claims ==
  [stage : {"claimed", "observed", "published", "finishing"}, game : Games, wake : Nat,
   failures : Nat, attempt : Nat, at : Int]

Idle == [stage |-> "idle"]
Runs == {Idle} \cup [stage : {"claiming"}, at : Int] \cup Claims

Requests ==
  [ok : BOOLEAN, owner : Workers, game : Games, wake : Nat,
   failures : Nat, attempt : Nat, at : Int]

\* Types, and the CHECK of day_event_scheduler_state on its lease columns.
TypeOK ==
  /\ clock \in 0..MaxTime
  /\ status \in [Games -> {"setup", "active", "completed"}]
  /\ rows \in [Games -> Optional(Rows)]
  /\ sched \in [Games -> SchedRows]
  /\ \A g \in Games : sched[g].owner = None <=> sched[g].until = None
  /\ run \in [Workers -> Runs]
  /\ requests \subseteq Requests
  /\ seen \in [Games -> Nat]

Init ==
  /\ clock = 0
  /\ status = [g \in Games |-> "setup"]
  /\ rows = [g \in Games |-> None]
  /\ sched = [g \in Games |->
                [lastWake |-> 0, owner |-> None, until |-> None,
                 retry |-> None, failures |-> 0, attempts |-> 0]]
  /\ run = [w \in Workers |-> Idle]
  /\ requests = {}
  /\ seen = [g \in Games |-> 0]

-----------------------------------------------------------------------------
(* Discovery.                                                              *)

\* Mutant of Pending: the flags of unfinished automatic work are not read.
PendingByClockOrWake(row, lastWake, at) ==
  /\ row # None
  /\ \/ row.due # None /\ row.due <= at
     \/ row.wake > lastWake

\* What the claim, the status and the health queries call pending.
Pending(row, lastWake, at) ==
  /\ row # None
  /\ \/ row.due # None /\ row.due <= at
     \/ row.wake > lastWake
     \/ row.ready

\* Mutant of Free: a held lease does not keep a game from being claimed.
FreeOfBackoff(s, at) == s.retry # None => s.retry <= at

Free(s, at) ==
  /\ s.until # None => s.until <= at
  /\ s.retry # None => s.retry <= at

Candidates(at) ==
  {g \in Games : /\ status[g] = "active"
                 /\ Pending(rows[g], sched[g].lastWake, at)
                 /\ Free(sched[g], at)}

\* ORDER BY next_due_at ASC NULLS LAST, wake_seq ASC, game_id ASC.
Before(g, h) ==
  \/ rows[g].due # None /\ (rows[h].due = None \/ rows[g].due < rows[h].due)
  \/ /\ rows[g].due = rows[h].due
     /\ \/ rows[g].wake < rows[h].wake
        \/ rows[g].wake = rows[h].wake /\ GameOrder[g] < GameOrder[h]

\* FOR UPDATE SKIP LOCKED passes over a row only while another statement holds
\* its lock: another worker's claim, or a completion in flight.
MayBeLocked(g, w) ==
  \/ \E v \in Workers \ {w} : run[v].stage = "claiming"
  \/ \E r \in requests : r.game = g

Claimable(g, w) ==
  /\ g \in Candidates(run[w].at)
  /\ \A h \in Candidates(run[w].at) : Before(h, g) => MayBeLocked(h, w)

-----------------------------------------------------------------------------
(* The worker.                                                             *)

Set(w, r) == run' = [run EXCEPT ![w] = r]

\* The observation time is captured before the claim is sent.
ReadClock(w) ==
  /\ run[w] = Idle
  /\ Set(w, [stage |-> "claiming", at |-> clock])
  /\ UNCHANGED <<clock, status, rows, sched, requests, seen>>

Claim(w, g) ==
  /\ run[w].stage = "claiming"
  /\ sched[g].attempts < MaxAttempts
  /\ Claimable(g, w)
  /\ sched' = [sched EXCEPT
       ![g].owner = w, ![g].until = run[w].at + LeaseSeconds,
       ![g].attempts = @ + 1]
  /\ Set(w, [stage |-> "claimed", game |-> g, wake |-> rows[g].wake,
             failures |-> sched[g].failures, attempt |-> sched[g].attempts + 1,
             at |-> run[w].at])
  /\ UNCHANGED <<clock, status, rows, requests, seen>>

ClaimNothing(w) ==
  /\ run[w].stage = "claiming"
  /\ \A g \in Candidates(run[w].at) : MayBeLocked(g, w)
  /\ Set(w, Idle)
  /\ UNCHANGED <<clock, status, rows, sched, requests, seen>>

\* The mechanics transaction of a live game commits: it read the row's wake.
ObserveWake(w) ==
  LET g == run[w].game IN
  /\ run[w].stage = "claimed"
  /\ status[g] # "completed" /\ rows[g] # None
  /\ Set(w, [run[w] EXCEPT !.stage = "observed"])
  /\ seen' = [seen EXCEPT ![g] = IF @ < rows[g].wake THEN rows[g].wake ELSE @]
  /\ UNCHANGED <<clock, status, sched, requests>>

\* The narrative transaction follows it, on its own.
Publishing(w) ==
  /\ run[w].stage = "observed"
  /\ status[run[w].game] # "completed"
  /\ Set(w, [run[w] EXCEPT !.stage = "published"])
  /\ UNCHANGED <<clock, status, sched, requests, seen>>

\* A pass appends no fact that advances the cursor.
PassRows(g) ==
  /\ rows[g] # None
  /\ \E row \in [due : Optional(DueTimes), wake : {rows[g].wake}, ready : BOOLEAN] :
       rows' = [rows EXCEPT ![g] = row]

Observe(w) == ObserveWake(w) /\ PassRows(run[w].game)

Publish(w) == Publishing(w) /\ PassRows(run[w].game)

\* Success follows both transactions, or finding the game completed. Anything
\* else, the deadline included, is a failure: either may have committed.
Outcomes(w) ==
  {ok \in BOOLEAN :
     ok => run[w].stage = "published" \/ status[run[w].game] = "completed"}

\* The completion time adds two truncated durations: it may trail the clock.
CompletedAt(w) == {t \in {clock - 1, clock} : t >= run[w].at}

\* The completion time is computed, then the UPDATE is sent.
Report(w, ok, completedAt) ==
  /\ run[w].stage \in {"claimed", "observed", "published"}
  /\ ok \in Outcomes(w)
  /\ completedAt \in CompletedAt(w)
  /\ requests' = requests \cup
       {[ok |-> ok, owner |-> w, game |-> run[w].game, wake |-> run[w].wake,
         failures |-> run[w].failures, attempt |-> run[w].attempt,
         at |-> completedAt]}
  /\ Set(w, [run[w] EXCEPT !.stage = "finishing"])
  /\ UNCHANGED <<clock, status, rows, sched, seen>>

\* The worker stops waiting: a deadline, a lost connection or the process dies.
GiveUp(w) ==
  /\ run[w] # Idle
  /\ Set(w, Idle)
  /\ UNCHANGED <<clock, status, rows, sched, requests, seen>>

-----------------------------------------------------------------------------
(* The database executes a completion.                                     *)

\* retry_delay_seconds: doubling from the base, capped.
RetryDelay(failures) ==
  LET doubled == RetryBase * 2 ^ (IF failures - 1 < 30 THEN failures - 1 ELSE 30)
  IN IF doubled \in 1..RetryMax THEN doubled ELSE RetryMax

\* Mutant of Holds: the completion is fenced by its owner but not its attempt.
HoldsByOwner(r, s) == s.owner = r.owner /\ s.until # None /\ s.until > r.at

Holds(r, s) ==
  /\ s.owner = r.owner
  /\ s.attempts = r.attempt
  /\ s.until # None /\ s.until > r.at

\* Mutant of Succeeded: the row's wake is observed, not the claim's.
SucceededWithCurrentWake(r, s) ==
  [s EXCEPT !.lastWake = IF rows[r.game] = None THEN @ ELSE rows[r.game].wake,
            !.owner = None, !.until = None, !.retry = None, !.failures = 0]

\* Mutant of Succeeded: the expiry of a finished lease stays behind.
SucceededKeepingExpiry(r, s) ==
  [s EXCEPT !.lastWake = IF @ < r.wake THEN r.wake ELSE @,
            !.owner = None, !.retry = None, !.failures = 0]

Succeeded(r, s) ==
  [s EXCEPT !.lastWake = IF @ < r.wake THEN r.wake ELSE @,
            !.owner = None, !.until = None, !.retry = None, !.failures = 0]

Failed(r, s) ==
  [s EXCEPT !.owner = None, !.until = None,
            !.retry = r.at + RetryDelay(r.failures + 1),
            !.failures = r.failures + 1]

Completed(r, s) ==
  IF ~Holds(r, s) THEN s ELSE IF r.ok THEN Succeeded(r, s) ELSE Failed(r, s)

\* The worker that still waits for this answer is free again, whatever it says.
Answered(r, v) ==
  run[v].stage = "finishing" /\ v = r.owner
    /\ run[v].game = r.game /\ run[v].attempt = r.attempt

Execute(r) ==
  /\ sched' = [sched EXCEPT ![r.game] = Completed(r, @)]
  /\ run' = [v \in Workers |-> IF Answered(r, v) THEN Idle ELSE run[v]]
  /\ requests' = requests \ {r}
  /\ UNCHANGED <<clock, status, rows, seen>>

\* The connection is discarded before the server reads the statement.
Lose(r) ==
  /\ requests' = requests \ {r}
  /\ UNCHANGED <<clock, status, rows, sched, run, seen>>

-----------------------------------------------------------------------------
(* The rest of the system.                                                 *)

Tick ==
  /\ clock < MaxTime
  /\ clock' = clock + 1
  /\ UNCHANGED <<status, rows, sched, run, requests, seen>>

\* A command on the game refreshes its row, may advance the cursor and, when it
\* is StartGame, activates the game.
Fold(g) ==
  LET wake == IF rows[g] = None THEN 0 ELSE rows[g].wake IN
  /\ status[g] # "completed"
  /\ \E row \in [due : Optional(DueTimes), wake : {wake, wake + 1}, ready : BOOLEAN] :
       row.wake <= MaxWakes /\ rows' = [rows EXCEPT ![g] = row]
  /\ \E st \in {status[g], "active"} : status' = [status EXCEPT ![g] = st]
  /\ UNCHANGED <<clock, sched, run, requests, seen>>

Complete(g) ==
  /\ status[g] # "completed"
  /\ status' = [status EXCEPT ![g] = "completed"]
  /\ rows' = [rows EXCEPT ![g] = None]
  /\ UNCHANGED <<clock, sched, run, requests, seen>>

WorkerStep(w) ==
  \/ ReadClock(w)
  \/ \E g \in Games : Claim(w, g)
  \/ ClaimNothing(w)
  \/ Observe(w)
  \/ Publish(w)
  \/ \E ok \in BOOLEAN, at \in 0..MaxTime : Report(w, ok, at)
  \/ GiveUp(w)

Next ==
  \/ Tick
  \/ \E w \in Workers : WorkerStep(w)
  \/ \E r \in requests : Execute(r) \/ Lose(r)
  \/ \E g \in Games : Fold(g) \/ Complete(g)

Spec == Init /\ [][Next]_leaseVars

-----------------------------------------------------------------------------
(* Properties.                                                             *)

\* The worker is in a pass.
Running(w) == run[w].stage \in {"claimed", "observed", "published"}

\* A wake counts as observed only when a mechanics pass that committed after it
\* read it: finish_success records the wake captured by the claim, so a command
\* that lands during the pass stays discoverable.
WakeSeen ==
  \A g \in Games : status[g] # "completed" => sched[g].lastWake <= seen[g]

\* While the latest attempt on a game runs, its lease is still on the row: no
\* late UPDATE of an earlier attempt, by the same worker included, releases it.
LatestAttemptHoldsLease ==
  \A w \in Workers :
    LET s == sched[run[w].game] IN
    Running(w) /\ run[w].attempt = s.attempts =>
      s.owner = w /\ s.until = run[w].at + LeaseSeconds

\* Two workers are in a pass of one game at once only after the lease of the
\* earlier attempt expired.
OverlapNeedsExpiry ==
  \A v, w \in Workers :
    (Running(v) /\ Running(w) /\ run[v].game = run[w].game
       /\ run[v].attempt < run[w].attempt)
      => run[v].at + LeaseSeconds <= clock

\* The failure count a claim captured is still the row's when its completion is
\* applied, so a retry never resets or skips the backoff of another attempt.
FailureCountFresh ==
  \A r \in requests :
    Holds(r, sched[r.game]) => r.failures = sched[r.game].failures

=============================================================================
