---------------------------- MODULE DaySchedule ----------------------------
(***************************************************************************)
(* The pure DayEvent schedule rules of crates/game_platform.               *)
(*                                                                         *)
(* `Evaluate` is what a scheduler pass does with one projected event at    *)
(* one observation time. `NextObservation` is what the work index stores   *)
(* about the same event so that a worker can discover that a pass is due.  *)
(* Both read the same definition, and the source asks them to stay one     *)
(* rules definition: DayScheduleProofs proves where they agree and the     *)
(* DayScheduler runs show where they do not.                               *)
(*                                                                         *)
(* A Rust Option is a set of at most one element inside this module, and   *)
(* the constant None where it is stored in a column.                       *)
(***************************************************************************)
EXTENDS Integers, FiniteSets

CONSTANTS
  None,        \* Option::None, SQL NULL
  Phases,      \* the phase ids a pack declares
  DayNumber,   \* the day number of a Day phase, None for every other kind
  NextPhase    \* the phase the cadence declares after each one, None at the end

ASSUME NoneAssumption == None \notin Int /\ None \notin Phases

ASSUME PhaseAssumption ==
  /\ DayNumber \in [Phases -> Nat \cup {None}]
  /\ NextPhase \in [Phases -> Phases \cup {None}]

Optional(S) == S \cup {None}

\* The elements of an Option.
Some(opt) == {opt} \ {None}

SignalKinds == {"opened", "locked", "resolved"}
Signals == [kind : SignalKinds, phase : Phases]

Schedules ==
  [kind : {"absolute"}, openAt : Int, lockAt : Optional(Int)]
    \cup [kind : {"relative"}, phase : Phases,
          openOffset : Int, lockOffset : Optional(Int)]
    \cup [kind : {"host"}]
    \cup [kind : {"trigger"}, signal : Signals]

Scopes ==
  [kind : {"day"}, number : Nat]
    \cup [kind : {"any"}]
    \cup [kind : {"window"}, opensAt : Int, closesAt : Int]

States == {"scheduled", "open", "locked", "resolved", "cancelled"}

Anchors == [Phases -> Optional(Int)]

\* ScheduleContext: the observation time, the current phase and the timeline
\* (the latest opening time of every phase, the phase signals ever seen).
Contexts ==
  [now : Int, phase : Phases, anchor : Anchors, signals : SUBSET Signals]

-----------------------------------------------------------------------------
(* PhaseScope::validate and DayEventSchedule::validate.                     *)

ValidSchedule(s) ==
  /\ s.kind = "absolute" /\ s.lockAt # None => s.openAt < s.lockAt
  /\ s.kind = "relative" /\ s.lockOffset # None => s.openOffset < s.lockOffset

ValidScope(scope) == scope.kind = "window" => scope.opensAt < scope.closesAt

-----------------------------------------------------------------------------
(* evaluate: what one observation does.                                     *)

\* opening_due, before its comparison with the observation time.
OpeningBoundary(s, ctx) ==
  CASE s.kind = "absolute" -> {s.openAt}
    [] s.kind = "relative" ->
         {a + s.openOffset : a \in
            IF ctx.phase = s.phase THEN Some(ctx.anchor[s.phase]) ELSE {}}
    [] s.kind = "trigger" ->
         IF s.signal.phase = ctx.phase /\ s.signal \in ctx.signals
           THEN {ctx.now} ELSE {}
    [] OTHER -> {}

\* Mutant of OpeningDue: the boundary is not compared with the clock.
OpeningDueUnchecked(s, ctx) == OpeningBoundary(s, ctx)

OpeningDue(s, ctx) == {t \in OpeningBoundary(s, ctx) : t <= ctx.now}

\* phase_scope_allows_open.
ScopeAllowsOpen(scope, ctx) ==
  CASE scope.kind = "day" -> DayNumber[ctx.phase] = scope.number
    [] scope.kind = "window" ->
         scope.opensAt <= ctx.now /\ ctx.now < scope.closesAt
    [] OTHER -> TRUE

\* lock_due and explicit_scope_lock, before their comparison with the clock.
LockBoundary(s, ctx) ==
  CASE s.kind = "absolute" -> Some(s.lockAt)
    [] s.kind = "relative" ->
         {a + o : a \in Some(ctx.anchor[s.phase]), o \in Some(s.lockOffset)}
    [] OTHER -> {}

ScopeBoundary(scope) == IF scope.kind = "window" THEN {scope.closesAt} ELSE {}

LockDue(s, scope, ctx) ==
  {t \in LockBoundary(s, ctx) \cup ScopeBoundary(scope) : t <= ctx.now}

MayOpen(s, scope, state, ctx) ==
  /\ state = "scheduled"
  /\ OpeningDue(s, ctx) # {}
  /\ ScopeAllowsOpen(scope, ctx)

\* An observation that crosses both boundaries opens and locks at once.
MayLock(s, scope, state, ctx) ==
  /\ state = "open" \/ MayOpen(s, scope, state, ctx)
  /\ LockDue(s, scope, ctx) # {}

\* evaluate returns a non-empty list of intents.
HasIntent(s, scope, state, ctx) ==
  MayOpen(s, scope, state, ctx) \/ MayLock(s, scope, state, ctx)

-----------------------------------------------------------------------------
(* next_observation_at: what the work index stores.                         *)

ScopeCanOpen(scope, phase) ==
  scope.kind = "day" => phase # None /\ DayNumber[phase] = scope.number

\* The next opening of a scheduled event. `phase` and `openedAt` are the
\* columns of phase_state, each of which may be NULL.
NextOpening(s, scope, phase, openedAt) ==
  LET opening ==
        CASE s.kind = "absolute" -> {s.openAt}
          [] s.kind = "relative" /\ s.phase = phase ->
               {a + s.openOffset : a \in Some(openedAt)}
          [] OTHER -> {}
  IN IF scope.kind = "window"
       THEN {t \in {IF o < scope.opensAt THEN scope.opensAt ELSE o : o \in opening} :
               t < scope.closesAt}
       ELSE opening

\* The anchor of a relative lock outlives its phase through open_due_at.
NextLock(s, phase, openedAt, openDueAt) ==
  LET anchors == IF s.phase = phase
                   THEN Some(openedAt)
                   ELSE {d - s.openOffset : d \in Some(openDueAt)}
  IN CASE s.kind = "absolute" -> Some(s.lockAt)
       [] s.kind = "relative" ->
            {a + o : a \in anchors, o \in Some(s.lockOffset)}
       [] OTHER -> {}

\* Mutant of NextObservation: the opening boundary stays after the opening.
NextObservationAnyState(s, scope, state, phase, openedAt, openDueAt) ==
  IF state \in {"scheduled", "open"} /\ ScopeCanOpen(scope, phase)
    THEN NextOpening(s, scope, phase, openedAt)
    ELSE {}

\* The boundaries next_observation_at takes the minimum of.
NextObservation(s, scope, state, phase, openedAt, openDueAt) ==
  CASE state = "scheduled" /\ ScopeCanOpen(scope, phase) ->
         NextOpening(s, scope, phase, openedAt)
    [] state = "open" ->
         NextLock(s, phase, openedAt, openDueAt) \cup ScopeBoundary(scope)
    [] OTHER -> {}

=============================================================================
