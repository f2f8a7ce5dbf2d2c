-------------------------- MODULE DayScheduleProofs --------------------------
(***************************************************************************)
(* How far the work index and the evaluation of a schedule are one rules   *)
(* definition: what evaluate would do now, next_observation_at has stored  *)
(* a due time for, and a due time it has stored is one evaluate acts on,   *)
(* for every schedule, scope, phase timeline and observation time outside  *)
(* the exceptions named in the hypotheses.                                 *)
(***************************************************************************)
EXTENDS DaySchedule, TLAPS

USE NoneAssumption, PhaseAssumption

\* The index reads the phase_state row and the event's row: the due times of one
\* event that have passed when ctx is evaluated.
PastDue(s, scope, state, ctx, openDueAt) ==
  {t \in NextObservation(s, scope, state, ctx.phase, ctx.anchor[ctx.phase], openDueAt) :
     t <= ctx.now}

\* A relative event that outlives its phase was opened, and its opening recorded,
\* under an anchor no later than the one the timeline has now.
OpenedUnderAnchor(s, state, ctx, openDueAt) ==
  \A anchor \in Some(ctx.anchor[s.phase]) :
    (state = "open" /\ s.phase # ctx.phase)
      => openDueAt # None /\ openDueAt - s.openOffset <= anchor

\* The same with the very anchor: its phase was not opened a second time.
OpenedUnderSameAnchor(s, state, ctx, openDueAt) ==
  (state = "open" /\ s.phase # ctx.phase /\ openDueAt # None)
    => ctx.anchor[s.phase] # None /\ openDueAt - s.openOffset = ctx.anchor[s.phase]

LEMMA ContextType ==
  ASSUME NEW ctx \in Contexts
  PROVE  /\ ctx.now \in Int /\ ctx.phase \in Phases /\ ctx.phase # None
         /\ \A p \in Phases : ctx.anchor[p] \in Int \cup {None}
  BY DEF Contexts, Anchors, Optional

\* A scheduled event that may open now has a due time that has passed: the
\* window of its scope moves the opening forward, never past its end.
LEMMA OpeningDiscovered ==
  ASSUME NEW s \in Schedules, NEW scope \in Scopes, NEW ctx \in Contexts, NEW openDueAt,
         s.kind # "trigger", MayOpen(s, scope, "scheduled", ctx)
  PROVE  PastDue(s, scope, "scheduled", ctx, openDueAt) # {}
<1> DEFINE opening == NextOpening(s, [kind |-> "any"], ctx.phase, ctx.anchor[ctx.phase])
<1>1. PICK o \in OpeningBoundary(s, ctx) : o <= ctx.now
  BY DEF MayOpen, OpeningDue
<1>2. o \in opening /\ o \in Int
  <2>1. CASE s.kind = "absolute"
    BY <1>1, <2>1 DEF NextOpening, OpeningBoundary, Schedules
  <2>2. CASE s.kind = "relative"
    BY <1>1, <2>2, ContextType DEF NextOpening, OpeningBoundary, Schedules, Some
  <2>3. CASE s.kind = "host"
    BY <1>1, <2>3 DEF OpeningBoundary
  <2> QED
    BY <2>1, <2>2, <2>3 DEF Schedules
<1>3. ScopeCanOpen(scope, ctx.phase)
  BY ContextType DEF MayOpen, ScopeAllowsOpen, ScopeCanOpen
<1>4. CASE scope.kind # "window"
  <2>1. NextOpening(s, scope, ctx.phase, ctx.anchor[ctx.phase]) = opening
    BY <1>4 DEF NextOpening
  <2> QED
    BY <1>1, <1>2, <1>3, <2>1 DEF PastDue, NextObservation
<1>5. CASE scope.kind = "window"
  <2>1. /\ scope.opensAt \in Int /\ scope.closesAt \in Int
        /\ scope.opensAt <= ctx.now /\ ctx.now < scope.closesAt /\ ctx.now \in Int
    BY <1>5, ContextType DEF MayOpen, ScopeAllowsOpen, Scopes
  <2>2. NextOpening(s, scope, ctx.phase, ctx.anchor[ctx.phase])
          = {t \in {IF x < scope.opensAt THEN scope.opensAt ELSE x : x \in opening} :
               t < scope.closesAt}
    BY <1>5 DEF NextOpening
  <2>3. PICK t : t = IF o < scope.opensAt THEN scope.opensAt ELSE o
    OBVIOUS
  <2>4. t \in {IF x < scope.opensAt THEN scope.opensAt ELSE x : x \in opening}
    BY <1>2, <2>3
  <2>5. t < scope.closesAt /\ t <= ctx.now
    BY <1>1, <1>2, <2>1, <2>3
  <2> QED
    BY <1>3, <2>2, <2>4, <2>5 DEF PastDue, NextObservation
<1> QED
  BY <1>4, <1>5

\* An open event that must lock now has a due time that has passed.
LEMMA LockDiscovered ==
  ASSUME NEW s \in Schedules, NEW scope \in Scopes, NEW ctx \in Contexts,
         NEW openDueAt \in Optional(Int),
         s.kind = "relative" => OpenedUnderAnchor(s, "open", ctx, openDueAt),
         MayLock(s, scope, "open", ctx)
  PROVE  PastDue(s, scope, "open", ctx, openDueAt) # {}
<1>1. PICK t \in LockBoundary(s, ctx) \cup ScopeBoundary(scope) : t <= ctx.now
  BY DEF MayLock, LockDue
<1>2. \A due : (due \in NextLock(s, ctx.phase, ctx.anchor[ctx.phase], openDueAt)
                  \cup ScopeBoundary(scope) /\ due <= ctx.now)
               => PastDue(s, scope, "open", ctx, openDueAt) # {}
  BY DEF PastDue, NextObservation
<1>3. CASE t \in ScopeBoundary(scope) \/ s.kind # "relative"
  BY <1>1, <1>2, <1>3 DEF NextLock, LockBoundary
<1>4. CASE s.kind = "relative" /\ t \in LockBoundary(s, ctx)
  <2>1. /\ s.phase \in Phases /\ s.openOffset \in Int /\ s.lockOffset \in Int
        /\ ctx.anchor[s.phase] \in Int /\ t = ctx.anchor[s.phase] + s.lockOffset
    BY <1>4, ContextType DEF LockBoundary, Some, Schedules, Optional
  <2>2. CASE s.phase = ctx.phase
    BY <1>1, <1>2, <1>4, <2>1, <2>2 DEF NextLock, Some
  <2>3. CASE s.phase # ctx.phase
    <3>1. openDueAt \in Int /\ openDueAt - s.openOffset <= ctx.anchor[s.phase]
      BY <1>4, <2>1, <2>3 DEF OpenedUnderAnchor, Some, Optional
    <3>2. openDueAt - s.openOffset + s.lockOffset <= ctx.now
      BY <1>1, <2>1, <3>1, ContextType
    <3>3. openDueAt - s.openOffset + s.lockOffset
            \in NextLock(s, ctx.phase, ctx.anchor[ctx.phase], openDueAt)
      BY <1>4, <2>1, <2>3, <3>1 DEF NextLock, Some
    <3> QED
      BY <1>2, <3>2, <3>3
  <2> QED
    BY <2>2, <2>3
<1> QED
  BY <1>1, <1>3, <1>4

\* Discovery is complete: whenever evaluate has an intent for an event that is
\* not waiting for a trigger, the work index holds a due time for it that has
\* passed, so the claim query finds the game. A waiting trigger has no due time:
\* its phase signal advances the wake cursor instead.
THEOREM DiscoveryComplete ==
  ASSUME NEW s \in Schedules, NEW scope \in Scopes, NEW state \in States,
         NEW ctx \in Contexts, NEW openDueAt \in Optional(Int),
         state = "scheduled" => s.kind # "trigger",
         s.kind = "relative" => OpenedUnderAnchor(s, state, ctx, openDueAt),
         HasIntent(s, scope, state, ctx)
  PROVE  PastDue(s, scope, state, ctx, openDueAt) # {}
<1>1. CASE state = "scheduled"
  BY <1>1, OpeningDiscovered DEF HasIntent, MayLock
<1>2. CASE state = "open"
  BY <1>2, LockDiscovered DEF HasIntent, MayOpen
<1>3. state \in {"scheduled", "open"}
  BY DEF HasIntent, MayOpen, MayLock
<1> QED
  BY <1>1, <1>2, <1>3

\* Discovery is sound, except for a window that closed before its event opened
\* and for a phase opened a second time: every due time that has passed is one
\* on which evaluate acts, so a claimed game leaves its due time behind.
THEOREM DiscoverySound ==
  ASSUME NEW s \in Schedules, NEW scope \in Scopes, NEW state \in States,
         NEW ctx \in Contexts, NEW openDueAt \in Optional(Int),
         (state = "scheduled" /\ scope.kind = "window") => ctx.now < scope.closesAt,
         s.kind = "relative" => OpenedUnderSameAnchor(s, state, ctx, openDueAt),
         PastDue(s, scope, state, ctx, openDueAt) # {}
  PROVE  HasIntent(s, scope, state, ctx)
<1>1. PICK t \in NextObservation(s, scope, state, ctx.phase, ctx.anchor[ctx.phase], openDueAt) :
        t <= ctx.now
  BY DEF PastDue
<1>2. CASE state = "scheduled"
  <2> DEFINE opening == NextOpening(s, [kind |-> "any"], ctx.phase, ctx.anchor[ctx.phase])
  <2>1. opening = OpeningBoundary(s, ctx) \/ s.kind \in {"trigger", "relative"}
    BY DEF NextOpening, OpeningBoundary, Schedules
  <2>2. s.kind = "relative" => opening = OpeningBoundary(s, ctx)
    BY ContextType DEF NextOpening, OpeningBoundary, Schedules
  <2>3. s.kind = "trigger" => opening = {}
    BY DEF NextOpening
  <2>4. opening \subseteq OpeningBoundary(s, ctx)
    BY <2>1, <2>2, <2>3
  <2>5. opening \subseteq Int
    BY ContextType DEF NextOpening, Schedules, Some
  <2>6. ScopeCanOpen(scope, ctx.phase)
        /\ t \in NextOpening(s, scope, ctx.phase, ctx.anchor[ctx.phase])
    BY <1>1, <1>2 DEF NextObservation
  <2>7. CASE scope.kind # "window"
    <3>1. t \in opening
      BY <2>6, <2>7 DEF NextOpening
    <3>2. ScopeAllowsOpen(scope, ctx)
      BY <2>6, <2>7 DEF ScopeCanOpen, ScopeAllowsOpen
    <3> QED
      BY <1>1, <1>2, <2>4, <3>1, <3>2 DEF HasIntent, MayOpen, OpeningDue
  <2>8. CASE scope.kind = "window"
    <3>1. t \in {IF x < scope.opensAt THEN scope.opensAt ELSE x : x \in opening}
      BY <2>6, <2>8 DEF NextOpening
    <3>2. PICK o \in opening : t = IF o < scope.opensAt THEN scope.opensAt ELSE o
      BY <3>1
    <3>3. scope.opensAt \in Int /\ o \in Int /\ ctx.now \in Int
      BY <2>5, <2>8, <3>2, ContextType DEF Scopes
    <3>4. o <= ctx.now /\ scope.opensAt <= ctx.now
      BY <1>1, <3>2, <3>3
    <3>5. ScopeAllowsOpen(scope, ctx)
      BY <1>2, <2>8, <3>4 DEF ScopeAllowsOpen
    <3> QED
      BY <1>2, <2>4, <3>2, <3>4, <3>5 DEF HasIntent, MayOpen, OpeningDue
  <2> QED
    BY <2>7, <2>8
<1>3. CASE state = "open"
  <2>1. t \in NextLock(s, ctx.phase, ctx.anchor[ctx.phase], openDueAt) \cup ScopeBoundary(scope)
    BY <1>1, <1>3 DEF NextObservation
  <2>2. NextLock(s, ctx.phase, ctx.anchor[ctx.phase], openDueAt) \subseteq LockBoundary(s, ctx)
    <3>1. CASE s.kind # "relative"
      BY <3>1 DEF NextLock, LockBoundary
    <3>2. CASE s.kind = "relative" /\ s.phase = ctx.phase
      BY <3>2 DEF NextLock, LockBoundary
    <3>3. CASE s.kind = "relative" /\ s.phase # ctx.phase
      BY <1>3, <3>3 DEF NextLock, LockBoundary, OpenedUnderSameAnchor, Some
    <3> QED
      BY <3>1, <3>2, <3>3
  <2> QED
    BY <1>1, <1>3, <2>1, <2>2 DEF HasIntent, MayLock, LockDue
<1>4. state \in {"scheduled", "open"}
  BY <1>1 DEF NextObservation
<1> QED
  BY <1>2, <1>3, <1>4

\* The first exception is real for every missed window: an absolute event whose
\* window closed before any pass observed it keeps its due time for ever and no
\* evaluation ever acts on it.
THEOREM MissedWindowStaysDue ==
  ASSUME NEW s \in Schedules, NEW scope \in Scopes, NEW ctx \in Contexts,
         NEW openDueAt \in Optional(Int),
         s.kind = "absolute", scope.kind = "window", ValidScope(scope),
         s.openAt < scope.closesAt, scope.closesAt <= ctx.now
  PROVE  /\ PastDue(s, scope, "scheduled", ctx, openDueAt) # {}
         /\ ~HasIntent(s, scope, "scheduled", ctx)
<1>1. /\ s.openAt \in Int /\ scope.opensAt \in Int /\ scope.closesAt \in Int
      /\ scope.opensAt < scope.closesAt /\ ctx.now \in Int
  BY ContextType DEF Schedules, Scopes, ValidScope
<1>2. PICK t : t = IF s.openAt < scope.opensAt THEN scope.opensAt ELSE s.openAt
  OBVIOUS
<1>3. t < scope.closesAt /\ t <= ctx.now
  BY <1>1, <1>2
<1>4. t \in NextOpening(s, scope, ctx.phase, ctx.anchor[ctx.phase])
  BY <1>2, <1>3 DEF NextOpening
<1>5. PastDue(s, scope, "scheduled", ctx, openDueAt) # {}
  BY <1>3, <1>4 DEF PastDue, NextObservation, ScopeCanOpen
<1>6. ~ScopeAllowsOpen(scope, ctx)
  BY <1>1 DEF ScopeAllowsOpen
<1> QED
  BY <1>5, <1>6 DEF HasIntent, MayLock, MayOpen

=============================================================================
