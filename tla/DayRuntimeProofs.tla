--------------------------- MODULE DayRuntimeProofs ---------------------------
(***************************************************************************)
(* Proofs about DayRuntime, for any events, programs, slots, seeds and     *)
(* bounds: its types, the work row, the evidence of automatic resolutions, *)
(* the notices, the seeds, and that it implements DayEventLifecycle.       *)
(***************************************************************************)
EXTENDS DayRuntime, FiniteSetTheorems, TLAPS

-----------------------------------------------------------------------------
(* Ranks: the lowest k of a finite set, in an order without ties, are k.   *)

Below(rank, S, s) == {t \in S : rank[t] < rank[s]}
Ranked(rank, S) ==
  /\ \A s \in S : rank[s] \in Int
  /\ \A s, t \in S : rank[s] = rank[t] => s = t

LEMMA BelowIsBijection ==
  ASSUME NEW S, IsFiniteSet(S), NEW rank, Ranked(rank, S)
  PROVE  [s \in S |-> Cardinality(Below(rank, S, s))]
           \in Bijection(S, 0..(Cardinality(S) - 1))
<1> DEFINE n == Cardinality(S)
           f == [s \in S |-> Cardinality(Below(rank, S, s))]
<1>1. n \in Nat
  BY FS_CardinalityType
<1>2. ASSUME NEW s \in S
      PROVE  f[s] \in 0..(n - 1)
  <2>1. Below(rank, S, s) \in SUBSET S /\ s \notin Below(rank, S, s)
    BY DEF Below, Ranked
  <2>2. /\ IsFiniteSet(Below(rank, S, s)) /\ Cardinality(Below(rank, S, s)) <= n
        /\ Cardinality(Below(rank, S, s)) # n
    BY <2>1, FS_Subset
  <2>3. Cardinality(Below(rank, S, s)) \in Nat
    BY <2>2, FS_CardinalityType
  <2> QED
    BY <1>1, <2>2, <2>3
<1>3. ASSUME NEW s \in S, NEW t \in S, rank[s] < rank[t]
      PROVE  f[s] < f[t]
  <2>1. Below(rank, S, s) \in SUBSET Below(rank, S, t)
    BY <1>3 DEF Below, Ranked
  <2>2. s \in Below(rank, S, t) /\ s \notin Below(rank, S, s)
    BY <1>3 DEF Below, Ranked
  <2>3. Below(rank, S, t) \in SUBSET S
    BY DEF Below
  <2>4. IsFiniteSet(Below(rank, S, t)) /\ IsFiniteSet(Below(rank, S, s))
    BY <2>1, <2>3, FS_Subset
  <2>5. /\ Cardinality(Below(rank, S, s)) <= Cardinality(Below(rank, S, t))
        /\ Cardinality(Below(rank, S, s)) # Cardinality(Below(rank, S, t))
    BY <2>1, <2>2, <2>4, FS_Subset
  <2>6. /\ Cardinality(Below(rank, S, s)) \in Nat
        /\ Cardinality(Below(rank, S, t)) \in Nat
    BY <2>4, FS_CardinalityType
  <2> QED
    BY <2>5, <2>6
<1>4. f \in [S -> 0..(n - 1)]
  BY <1>2
<1> HIDE DEF f, n
<1>5. \A s, t \in S : f[s] = f[t] => s = t
  <2>1. SUFFICES ASSUME NEW s \in S, NEW t \in S, f[s] = f[t]
                 PROVE  s = t
    OBVIOUS
  <2>2. f[s] \in Int /\ f[t] \in Int
    BY <1>1, <1>4
  <2>3. ~(rank[s] < rank[t]) /\ ~(rank[t] < rank[s])
    BY <1>3, <2>1, <2>2
  <2>4. rank[s] = rank[t]
    BY <2>3 DEF Ranked
  <2> QED
    BY <2>4 DEF Ranked
<1>6. f \in Injection(S, 0..(n - 1))
  BY <1>4, <1>5 DEF Injection, IsInjective
<1>7. IsFiniteSet(0..(n - 1)) /\ Cardinality(0..(n - 1)) = n
  BY <1>1, FS_Interval
<1>8. f \in Surjection(S, 0..(n - 1))
  BY <1>6, <1>7, FS_Injection DEF n
<1> QED
  BY <1>6, <1>8 DEF Bijection, f, n

LEMMA LowestAreAsMany ==
  ASSUME NEW S, IsFiniteSet(S), NEW rank, Ranked(rank, S),
         NEW k \in Nat, k <= Cardinality(S)
  PROVE  /\ IsFiniteSet({s \in S : Cardinality(Below(rank, S, s)) < k})
         /\ Cardinality({s \in S : Cardinality(Below(rank, S, s)) < k}) = k
<1> DEFINE n == Cardinality(S)
           f == [s \in S |-> Cardinality(Below(rank, S, s))]
           T == {s \in S : f[s] < k}
           g == [s \in T |-> f[s]]
<1>1. n \in Nat /\ IsFiniteSet(T)
  BY FS_CardinalityType, FS_Subset
<1>2. f \in Bijection(S, 0..(n - 1))
  BY BelowIsBijection
<1>3. T = {s \in S : Cardinality(Below(rank, S, s)) < k}
  OBVIOUS
<1> HIDE DEF f
<1>4. /\ f \in [S -> 0..(n - 1)]
      /\ \A s, t \in S : f[s] = f[t] => s = t
      /\ \A m \in 0..(n - 1) : \E s \in S : f[s] = m
  BY <1>2 DEF Bijection, Injection, Surjection, IsInjective
<1> HIDE DEF n
<1>5. g \in [T -> 0..(k - 1)]
  BY <1>1, <1>4
<1>6. \A m \in 0..(k - 1) : \E s \in T : g[s] = m
  <2>1. SUFFICES ASSUME NEW m \in 0..(k - 1)
                 PROVE  \E s \in T : g[s] = m
    OBVIOUS
  <2>2. m \in 0..(n - 1) /\ m < k
    BY <1>1 DEF n
  <2>3. PICK s \in S : f[s] = m
    BY <1>4, <2>2
  <2> QED
    BY <2>2, <2>3
<1>7. \A s, t \in T : g[s] = g[t] => s = t
  BY <1>4
<1> HIDE DEF g, T
<1>8. g \in Bijection(T, 0..(k - 1))
  BY <1>5, <1>6, <1>7 DEF Bijection, Injection, Surjection, IsInjective
<1>9. Cardinality(0..(k - 1)) = k
  BY FS_Interval
<1>10. Cardinality(T) = k
  BY <1>1, <1>8, <1>9, FS_Bijection DEF ExistsBijection
<1> QED
  BY <1>1, <1>3, <1>10

LEMMA LeastOfFinite ==
  ASSUME NEW S, IsFiniteSet(S), S # {}, S \subseteq Int
  PROVE  Min(S) \in S /\ \A y \in S : Min(S) <= y
<1> DEFINE rank == [s \in S |-> s]
           f == [s \in S |-> Cardinality(Below(rank, S, s))]
           n == Cardinality(S)
<1>1. Ranked(rank, S)
  BY DEF Ranked
<1>2. n \in Nat /\ n # 0
  BY FS_CardinalityType, FS_EmptySet
<1>3. f \in Surjection(S, 0..(n - 1))
  BY <1>1, BelowIsBijection DEF Bijection
<1>4. 0 \in 0..(n - 1)
  BY <1>2
<1> HIDE DEF n
<1>5. PICK s \in S : f[s] = 0
  BY <1>3, <1>4 DEF Surjection
<1>6. Below(rank, S, s) \in SUBSET S
  BY DEF Below
<1>7. Below(rank, S, s) = {}
  <2>1. IsFiniteSet(Below(rank, S, s))
    BY <1>6, FS_Subset
  <2> QED
    BY <1>5, <2>1, FS_EmptySet
<1>8. \A y \in S : s <= y
  <2>1. SUFFICES ASSUME NEW y \in S
                 PROVE  s <= y
    OBVIOUS
  <2>2. ~(rank[y] < rank[s])
    BY <1>7 DEF Below
  <2>3. rank[y] = y /\ rank[s] = s /\ y \in Int /\ s \in Int
    OBVIOUS
  <2> QED
    BY <2>2, <2>3
<1> QED
  BY <1>8 DEF Min

-----------------------------------------------------------------------------
(* Types.                                                                  *)

LEMMA DefinitionType ==
  ASSUME NEW e \in Events
  PROVE  /\ Definition[e] \in Definitions
         /\ Definition[e].schedule \in Schedules /\ Definition[e].scope \in Scopes
         /\ Definition[e].auto \in BOOLEAN /\ Definition[e].seeded \in BOOLEAN
         /\ Definition[e].winners \in Nat \ {0} /\ Definition[e].minimum \in Nat
BY EventAssumption DEF EventAssumption, Definitions

\* A set of due times with at most one element.
AtMostOne(S) == \E v \in Int : S \subseteq {v}

LEMMA AtMostOneIsFinite ==
  ASSUME NEW S, AtMostOne(S)
  PROVE  IsFiniteSet(S) /\ S \subseteq Int
<1>1. PICK v \in Int : S \subseteq {v}
  BY DEF AtMostOne
<1>2. IsFiniteSet({v})
  BY FS_Singleton
<1> QED
  BY <1>1, <1>2, FS_Subset

LEMMA SomeAtMostOne ==
  ASSUME NEW opt \in Optional(Int)
  PROVE  AtMostOne(Some(opt))
<1>1. 0 \in Int
  OBVIOUS
<1> QED
  BY <1>1 DEF AtMostOne, Some, Optional

LEMMA SumsAtMostOne ==
  ASSUME NEW A, AtMostOne(A), NEW B, AtMostOne(B)
  PROVE  AtMostOne({a + o : a \in A, o \in B})
<1>1. PICK v \in Int : A \subseteq {v}
  BY DEF AtMostOne
<1>2. PICK u \in Int : B \subseteq {u}
  BY DEF AtMostOne
<1> DEFINE sums == {a + o : a \in A, o \in B}
<1>3. sums \subseteq {v + u} /\ v + u \in Int
  BY <1>1, <1>2
<1> HIDE DEF sums
<1>4. AtMostOne(sums)
  BY <1>3 DEF AtMostOne
<1> QED
  BY <1>4 DEF sums

LEMMA ScheduleType ==
  ASSUME NEW s \in Schedules
  PROVE  /\ s.kind \in {"absolute", "relative", "host", "trigger"}
         /\ s.kind = "absolute" => s.openAt \in Int /\ s.lockAt \in Optional(Int)
         /\ s.kind = "relative" =>
              s.phase \in Phases /\ s.openOffset \in Int /\ s.lockOffset \in Optional(Int)
BY DEF Schedules

LEMMA SmallSets ==
  /\ AtMostOne({})
  /\ \A v \in Int : AtMostOne({v})
  /\ \A S, T : T \subseteq S /\ AtMostOne(S) => AtMostOne(T)
<1>1. 0 \in Int
  OBVIOUS
<1> QED
  BY <1>1 DEF AtMostOne

LEMMA NextOpeningType ==
  ASSUME NEW s \in Schedules, NEW scope \in Scopes, NEW phaseId, NEW openedAt \in Optional(Int)
  PROVE  AtMostOne(NextOpening(s, scope, phaseId, openedAt))
<1> DEFINE opening == CASE s.kind = "absolute" -> {s.openAt}
                        [] s.kind = "relative" /\ s.phase = phaseId ->
                             {a + s.openOffset : a \in Some(openedAt)}
                        [] OTHER -> {}
           moved == {IF o < scope.opensAt THEN scope.opensAt ELSE o : o \in opening}
<1>1. AtMostOne(opening)
  <2>1. CASE s.kind = "absolute"
    BY <2>1, ScheduleType, SmallSets
  <2>2. CASE s.kind = "relative" /\ s.phase = phaseId
    <3>1. PICK v \in Int : Some(openedAt) \subseteq {v}
      BY SomeAtMostOne DEF AtMostOne
    <3>2. s.openOffset \in Int
      BY <2>2, ScheduleType
    <3>3. opening \subseteq {v + s.openOffset} /\ v + s.openOffset \in Int
      BY <2>2, <3>1, <3>2
    <3> QED
      BY <3>3 DEF AtMostOne
  <2>3. CASE s.kind # "absolute" /\ ~(s.kind = "relative" /\ s.phase = phaseId)
    <3>1. opening = {}
      BY <2>3
    <3> QED
      BY <3>1, SmallSets
  <2> QED
    BY <2>1, <2>2, <2>3
<1> HIDE DEF opening
<1>2. CASE scope.kind = "window"
  <2>1. scope.opensAt \in Int
    BY <1>2 DEF Scopes
  <2>2. PICK v \in Int : opening \subseteq {v}
    BY <1>1 DEF AtMostOne
  <2>3. AtMostOne(moved)
    <3>1. moved \subseteq {IF v < scope.opensAt THEN scope.opensAt ELSE v}
      BY <2>2
    <3>2. (IF v < scope.opensAt THEN scope.opensAt ELSE v) \in Int
      BY <2>1, <2>2
    <3> QED
      BY <3>1, <3>2 DEF AtMostOne
  <2>4. NextOpening(s, scope, phaseId, openedAt) = {t \in moved : t < scope.closesAt}
    BY <1>2 DEF NextOpening, opening
  <2> QED
    BY <2>3, <2>4, SmallSets
<1>3. CASE scope.kind # "window"
  <2>1. NextOpening(s, scope, phaseId, openedAt) = opening
    BY <1>3 DEF NextOpening, opening
  <2> QED
    BY <1>1, <2>1
<1> QED
  BY <1>2, <1>3

LEMMA NextLockType ==
  ASSUME NEW s \in Schedules, NEW phaseId, NEW openedAt \in Optional(Int),
         NEW openDueAt \in Optional(Int)
  PROVE  AtMostOne(NextLock(s, phaseId, openedAt, openDueAt))
<1>1. CASE s.kind = "absolute"
  BY <1>1, ScheduleType, SomeAtMostOne DEF NextLock
<1>2. CASE s.kind = "relative"
  <2> DEFINE anchors == IF s.phase = phaseId THEN Some(openedAt)
                        ELSE {d - s.openOffset : d \in Some(openDueAt)}
  <2>1. AtMostOne(anchors)
    <3>1. PICK v \in Int : Some(openDueAt) \subseteq {v}
      BY SomeAtMostOne DEF AtMostOne
    <3>2. {d - s.openOffset : d \in Some(openDueAt)} \subseteq {v - s.openOffset}
      BY <3>1
    <3>3. v - s.openOffset \in Int
      BY <1>2, ScheduleType
    <3>4. AtMostOne({d - s.openOffset : d \in Some(openDueAt)})
      BY <3>2, <3>3 DEF AtMostOne
    <3> QED
      BY <3>4, SomeAtMostOne
  <2>2. AtMostOne(Some(s.lockOffset))
    BY <1>2, ScheduleType, SomeAtMostOne
  <2>3. NextLock(s, phaseId, openedAt, openDueAt)
          = {a + o : a \in anchors, o \in Some(s.lockOffset)}
    BY <1>2 DEF NextLock
  <2> HIDE DEF anchors
  <2> QED
    BY <2>1, <2>2, <2>3, SumsAtMostOne
<1>3. CASE s.kind \notin {"absolute", "relative"}
  BY <1>3, SmallSets DEF NextLock
<1> QED
  BY <1>1, <1>2, <1>3

LEMMA BoundariesType ==
  ASSUME NEW e \in Events, NEW row \in EventRows, NEW phaseRow \in Optional(PhaseRows)
  PROVE  IsFiniteSet(Boundaries(e, row, phaseRow)) /\ Boundaries(e, row, phaseRow) \subseteq Int
<1> DEFINE s == Definition[e].schedule
           scope == Definition[e].scope
           phaseId == PhaseId(phaseRow)
           openedAt == OpenedAt(phaseRow)
<1>1. s \in Schedules /\ scope \in Scopes /\ row.openDueAt \in Optional(Int)
  BY DefinitionType DEF EventRows
<1>2. openedAt \in Optional(Int)
  BY DEF OpenedAt, PhaseRows, Optional
<1> HIDE DEF s, scope, phaseId, openedAt
<1>3. AtMostOne(NextOpening(s, scope, phaseId, openedAt))
  BY <1>1, <1>2, NextOpeningType
<1>4. AtMostOne(NextLock(s, phaseId, openedAt, row.openDueAt))
  BY <1>1, <1>2, NextLockType
<1>5. AtMostOne(ScopeBoundary(scope))
  BY <1>1, SmallSets DEF ScopeBoundary, Scopes
<1>6. \/ Boundaries(e, row, phaseRow) = NextOpening(s, scope, phaseId, openedAt)
      \/ Boundaries(e, row, phaseRow)
           = NextLock(s, phaseId, openedAt, row.openDueAt) \cup ScopeBoundary(scope)
      \/ Boundaries(e, row, phaseRow) = {}
  BY DEF Boundaries, NextObservation, s, scope, phaseId, openedAt
<1> QED
  BY <1>3, <1>4, <1>5, <1>6, AtMostOneIsFinite, FS_Union, FS_EmptySet

LEMMA EarliestType ==
  ASSUME NEW S, IsFiniteSet(S), S \subseteq Int
  PROVE  /\ EarliestOf(S) \in Optional(Int)
         /\ \A d \in Some(EarliestOf(S)) : d \in S
BY LeastOfFinite DEF EarliestOf, Optional, Some

LEMMA AllBoundariesType ==
  ASSUME NEW rows \in [Events -> EventRows], NEW phaseRow \in Optional(PhaseRows)
  PROVE  /\ IsFiniteSet(UNION {Boundaries(e, rows[e], phaseRow) : e \in Events})
         /\ UNION {Boundaries(e, rows[e], phaseRow) : e \in Events} \subseteq Int
<1> DEFINE f == [e \in Events |-> Boundaries(e, rows[e], phaseRow)]
           all == {Boundaries(e, rows[e], phaseRow) : e \in Events}
<1>1. \A e \in Events : IsFiniteSet(f[e]) /\ f[e] \subseteq Int
  BY BoundariesType
<1>2. f \in Surjection(Events, all)
  BY DEF Surjection
<1>3. IsFiniteSet(all)
  BY <1>2, FS_Surjection, EventAssumption DEF EventAssumption
<1>4. \A T \in all : IsFiniteSet(T) /\ T \subseteq Int
  BY <1>1
<1> HIDE DEF all
<1>5. IsFiniteSet(UNION all) /\ UNION all \subseteq Int
  BY <1>3, <1>4, FS_UNION
<1> QED
  BY <1>5 DEF all

LEMMA RowForType ==
  ASSUME NEW rows \in [Events -> EventRows], NEW narratives,
         NEW phaseRow \in Optional(PhaseRows), NEW wake \in Nat
  PROVE  RowFor(rows, narratives, phaseRow, wake) \in WorkRows
<1>1. EarliestOf(UNION {Boundaries(e, rows[e], phaseRow) : e \in Events}) \in Optional(Int)
  BY AllBoundariesType, EarliestType
<1> QED
  BY <1>1 DEF RowFor, WorkRows

LEMMA RefreshType ==
  ASSUME TypeOK, event' \in [Events -> EventRows], phase' \in Optional(PhaseRows),
         Refresh \/ RefreshAndWake
  PROVE  work' \in Optional(WorkRows)
<1>1. Wake \in Nat /\ Wake + 1 \in Nat
  <2>1. work = None \/ work.wake \in Nat
    BY DEF TypeOK, Optional, WorkRows
  <2> QED
    BY <2>1 DEF Wake
<1>2. PICK wake \in Nat : work' = RowFor(event', narrative', phase', wake)
  BY <1>1 DEF Refresh, RefreshAndWake
<1> QED
  BY <1>2, RowForType DEF Optional

\* The due times a row has recorded had passed by then.
DuePassed(row, at) == \A due \in Some(row.openDueAt) \cup Some(row.lockDueAt) : due <= at

NarrativeStates == {"none", "armed", "pending", "published"}

\* A fact about one event leaves the other events as they are.
LEMMA SetEventType ==
  ASSUME TypeOK, NEW e \in Events, NEW row \in EventRows, NEW lifecycle \in Lifecycles,
         DuePassed(row, now), SetEvent(e, row, lifecycle)
  PROVE  TypeOK'
<1>1. event' \in [Events -> EventRows]
  BY DEF SetEvent, TypeOK
<1>2. narrative' \in [Events -> [Lifecycles -> NarrativeStates]]
  <2>1. Activated(e, {lifecycle}) \in [Lifecycles -> NarrativeStates]
    BY DEF Activated, TypeOK, NarrativeStates
  <2> QED
    BY <2>1 DEF SetEvent, TypeOK, NarrativeStates
<1>3. UNCHANGED <<now, status, phase, timeline, participation, posts>>
  BY DEF SetEvent, gameVars
<1>4. \A f \in Events : DuePassed(event'[f], now')
  BY <1>3 DEF SetEvent, TypeOK, DuePassed
<1>5. work' \in Optional(WorkRows)
  BY <1>1, <1>3, RefreshType DEF SetEvent, TypeOK
<1> QED
  BY <1>1, <1>2, <1>3, <1>4, <1>5 DEF TypeOK, DuePassed, NarrativeStates

LEMMA EnterPhaseType ==
  ASSUME TypeOK, NEW p \in Phases, NEW openedAt \in Int, EnterPhase(p, openedAt),
         status' \in {"setup", "active", "completed"}
  PROVE  TypeOK'
<1>1. phase' \in Optional(PhaseRows)
  BY DEF EnterPhase, PhaseRows, Optional
<1>2. timeline' \in Timelines
  <2>1. [kind |-> "opened", phase |-> p] \in Signals
    BY DEF Signals, SignalKinds
  <2>2. /\ timeline'.anchor = [timeline.anchor EXCEPT ![p] = openedAt]
        /\ timeline'.signals = timeline.signals \cup {[kind |-> "opened", phase |-> p]}
        /\ timeline' = [anchor |-> timeline'.anchor, signals |-> timeline'.signals,
                        applied |-> timeline.applied, official |-> timeline.official]
    BY DEF EnterPhase, TypeOK, Timelines
  <2>3. timeline'.anchor \in Anchors
    BY <2>2 DEF TypeOK, Timelines, Anchors, Optional
  <2>4. timeline'.signals \in SUBSET Signals
    BY <2>1, <2>2 DEF TypeOK, Timelines
  <2>5. timeline.applied \in SUBSET Phases /\ timeline.official \in Optional(Phases)
    BY DEF TypeOK, Timelines
  <2> QED
    BY <2>2, <2>3, <2>4, <2>5 DEF Timelines
<1>3. UNCHANGED <<now, event, participation, narrative, posts>>
  BY DEF EnterPhase, eventVars
<1>4. work' \in Optional(WorkRows)
  BY <1>1, <1>3, RefreshType DEF EnterPhase, TypeOK
<1> QED
  BY <1>1, <1>2, <1>3, <1>4 DEF TypeOK

LEMMA ContextTyped ==
  ASSUME TypeOK, phase # None, NEW at \in Int
  PROVE  Context(at) \in Contexts /\ Context(at).now = at
BY DEF Context, Contexts, TypeOK, PhaseRows, Timelines, Optional

LEMMA DueTimesType ==
  ASSUME NEW s \in Schedules, NEW scope \in Scopes, NEW ctx \in Contexts
  PROVE  /\ IsFiniteSet(OpeningDue(s, ctx)) /\ OpeningDue(s, ctx) \subseteq Int
         /\ IsFiniteSet(LockDue(s, scope, ctx)) /\ LockDue(s, scope, ctx) \subseteq Int
<1>1. ctx.now \in Int /\ \A p \in Phases : ctx.anchor[p] \in Optional(Int)
  BY DEF Contexts, Anchors
<1>2. AtMostOne(OpeningBoundary(s, ctx))
  <2>1. CASE s.kind = "absolute"
    BY <2>1, ScheduleType, SmallSets DEF OpeningBoundary
  <2>2. CASE s.kind = "relative"
    <3>1. PICK v \in Int : Some(ctx.anchor[s.phase]) \subseteq {v}
      BY <1>1, <2>2, ScheduleType, SomeAtMostOne DEF AtMostOne
    <3>2. v + s.openOffset \in Int
      BY <2>2, <3>1, ScheduleType
    <3>3. OpeningBoundary(s, ctx) \subseteq {v + s.openOffset}
      BY <2>2, <3>1 DEF OpeningBoundary
    <3> QED
      BY <3>2, <3>3 DEF AtMostOne
  <2>3. CASE s.kind \in {"trigger", "host"}
    BY <1>1, <2>3, SmallSets DEF OpeningBoundary
  <2> QED
    BY <2>1, <2>2, <2>3, ScheduleType
<1>3. AtMostOne(LockBoundary(s, ctx))
  <2>1. CASE s.kind = "absolute"
    BY <2>1, ScheduleType, SomeAtMostOne DEF LockBoundary
  <2>2. CASE s.kind = "relative"
    <3>1. AtMostOne(Some(ctx.anchor[s.phase])) /\ AtMostOne(Some(s.lockOffset))
      BY <1>1, <2>2, ScheduleType, SomeAtMostOne
    <3>2. LockBoundary(s, ctx)
            = {a + o : a \in Some(ctx.anchor[s.phase]), o \in Some(s.lockOffset)}
      BY <2>2 DEF LockBoundary
    <3> QED
      BY <3>1, <3>2, SumsAtMostOne
  <2>3. CASE s.kind \in {"trigger", "host"}
    BY <2>3, SmallSets DEF LockBoundary
  <2> QED
    BY <2>1, <2>2, <2>3, ScheduleType
<1>4. AtMostOne(ScopeBoundary(scope))
  BY SmallSets DEF ScopeBoundary, Scopes
<1>5. AtMostOne(OpeningDue(s, ctx))
  BY <1>2, SmallSets DEF OpeningDue
<1>6. IsFiniteSet(LockBoundary(s, ctx) \cup ScopeBoundary(scope))
      /\ LockBoundary(s, ctx) \cup ScopeBoundary(scope) \subseteq Int
  BY <1>3, <1>4, AtMostOneIsFinite, FS_Union
<1>7. LockDue(s, scope, ctx) \in SUBSET (LockBoundary(s, ctx) \cup ScopeBoundary(scope))
  BY DEF LockDue
<1> QED
  BY <1>5, <1>6, <1>7, AtMostOneIsFinite, FS_Subset

LEMMA ObservedType ==
  ASSUME TypeOK, phase # None, NEW at \in Int, at <= now, NEW e \in Events,
         NEW seed \in Seeds
  PROVE  Observed(e, at, seed) \in EventRows /\ DuePassed(Observed(e, at, seed), now)
<1> DEFINE d == Definition[e]
           row == event[e]
           ctx == Context(at)
           openDue == Recorded(row.openDueAt, OpeningDue(d.schedule, ctx))
           lockDue == Recorded(row.lockDueAt, LockDue(d.schedule, d.scope, ctx))
           opened == IF ~Opens(e, at) THEN row
                     ELSE [row EXCEPT !.state = "open", !.openDueAt = openDue]
           locked == [opened EXCEPT !.state = "locked", !.seed = SeedFor(e, seed),
                                    !.lockDueAt = lockDue]
           chosen == SelectWinners(d, participation[e], row.seed)
           resolved == Resolved(e, chosen, [seed |-> row.seed, slots |-> participation[e]])
<1>1. row \in EventRows /\ DuePassed(row, now) /\ participation[e] \subseteq Slots
      /\ now \in Int
  BY DEF TypeOK, DuePassed
<1>2. ctx \in Contexts /\ ctx.now = at
  BY ContextTyped
<1>3. d.schedule \in Schedules /\ d.scope \in Scopes
  BY DefinitionType
<1> HIDE DEF ctx
<1>4. /\ \A due \in OpeningDue(d.schedule, ctx) : due <= at
      /\ \A due \in LockDue(d.schedule, d.scope, ctx) : due <= at
  BY <1>2 DEF OpeningDue, LockDue
<1>5. /\ IsFiniteSet(OpeningDue(d.schedule, ctx)) /\ OpeningDue(d.schedule, ctx) \subseteq Int
      /\ IsFiniteSet(LockDue(d.schedule, d.scope, ctx))
      /\ LockDue(d.schedule, d.scope, ctx) \subseteq Int
  BY <1>2, <1>3, DueTimesType
<1>6. ASSUME NEW old \in Optional(Int), NEW S, IsFiniteSet(S), S \subseteq Int,
             \A due \in S : due <= at, \A due \in Some(old) : due <= now
      PROVE  /\ Recorded(old, S) \in Optional(Int)
             /\ \A due \in Some(Recorded(old, S)) : due <= now
  <2>1. EarliestOf(S) \in Optional(Int) /\ \A x \in Some(EarliestOf(S)) : x \in S
    BY <1>6, EarliestType
  <2>2. \A x \in S : x <= now
    BY <1>1, <1>6
  <2> QED
    BY <1>6, <2>1, <2>2 DEF Recorded
<1>7. openDue \in Optional(Int) /\ \A due \in Some(openDue) : due <= now
  BY <1>1, <1>4, <1>5, <1>6 DEF EventRows, DuePassed
<1>8. lockDue \in Optional(Int) /\ \A due \in Some(lockDue) : due <= now
  BY <1>1, <1>4, <1>5, <1>6 DEF EventRows, DuePassed
<1> HIDE DEF openDue, lockDue
<1>9. opened \in EventRows /\ DuePassed(opened, now)
  BY <1>1, <1>7 DEF EventRows, States, DuePassed
<1>10. SeedFor(e, seed) \in Optional(Seeds)
  BY DEF SeedFor, Optional
<1> HIDE DEF opened
<1>11. locked \in EventRows /\ DuePassed(locked, now)
  BY <1>8, <1>9, <1>10 DEF EventRows, States, DuePassed
<1>12. chosen \subseteq Slots
  BY <1>1 DEF SelectWinners
<1> HIDE DEF chosen
<1>13. resolved \in EventRows /\ DuePassed(resolved, now)
  <2>1. [seed |-> row.seed, slots |-> participation[e]] \in Optional(Evidence)
    BY <1>1 DEF EventRows, Evidence, Optional
  <2> QED
    BY <1>1, <1>12, <2>1 DEF Resolved, EventRows, States, DuePassed
<1>14. Observed(e, at, seed) \in {resolved, opened, locked}
  BY DEF Observed, opened, locked, chosen, resolved, openDue, lockDue, ctx
<1> QED
  BY <1>9, <1>11, <1>13, <1>14

LEMMA PhaseCommandType ==
  ASSUME TypeOK, PhaseCommand
  PROVE  TypeOK'
<1>0. now \in Int /\ MaxTime \in Nat
  BY BoundAssumption DEF TypeOK, BoundAssumption
<1>1. ASSUME NEW p \in Phases, StartGame(p) \/ OpenDayPhase(p)
      PROVE  TypeOK'
  BY <1>0, <1>1, EnterPhaseType DEF StartGame, OpenDayPhase, TypeOK
<1>2. Advanceable => NextPhase[phase.id] \in Phases
  <2>1. ASSUME phase # None
        PROVE  phase.id \in Phases
    BY <2>1 DEF TypeOK, Optional, PhaseRows
  <2> QED
    BY <2>1, PhaseAssumption DEF Advanceable, PhaseAssumption
<1>3. CASE AdvancePhase
  BY <1>0, <1>2, <1>3, EnterPhaseType DEF AdvancePhase, TypeOK
<1>4. ASSUME NEW at \in 0..MaxTime, AdvancePhaseByDeadline(at)
      PROVE  TypeOK'
  BY <1>0, <1>2, <1>4, EnterPhaseType DEF AdvancePhaseByDeadline, TypeOK
<1>5. ASSUME phase # None, NEW locked \in BOOLEAN, phase' = [phase EXCEPT !.locked = locked]
      PROVE  phase' \in Optional(PhaseRows)
  BY <1>5 DEF TypeOK, Optional, PhaseRows
<1>6. CASE LockThread
  <2>1. phase # None /\ phase' \in Optional(PhaseRows)
    BY <1>5, <1>6 DEF LockThread
  <2>2. timeline' \in Timelines
    <3>1. [kind |-> "locked", phase |-> phase.id] \in Signals
      BY <2>1 DEF TypeOK, Optional, PhaseRows, Signals, SignalKinds
    <3> QED
      BY <1>6, <3>1 DEF LockThread, TypeOK, Timelines
  <2>3. UNCHANGED <<now, status, event, participation, narrative, posts>>
    BY <1>6 DEF LockThread, eventVars
  <2>4. work' \in Optional(WorkRows)
    BY <1>6, <2>1, <2>3, RefreshType DEF LockThread, TypeOK
  <2> QED
    BY <2>1, <2>2, <2>3, <2>4 DEF TypeOK
<1>7. CASE UnlockThread
  <2>1. phase' \in Optional(PhaseRows)
    BY <1>5, <1>7 DEF UnlockThread
  <2> QED
    BY <1>7, <2>1 DEF UnlockThread, TypeOK, eventVars
<1>8. CASE ResolvePhase
  <2>1. phase # None /\ phase' \in Optional(PhaseRows) /\ phase.id \in Phases
    BY <1>5, <1>8 DEF ResolvePhase, TypeOK, Optional, PhaseRows
  <2>2. timeline' \in Timelines
    <3>1. {[kind |-> k, phase |-> phase.id] : k \in {"locked", "resolved"}} \subseteq Signals
      BY <2>1 DEF Signals, SignalKinds
    <3>2. timeline' = [timeline EXCEPT
            !.signals = @ \cup {[kind |-> k, phase |-> phase.id] : k \in {"locked", "resolved"}},
            !.applied = @ \cup {phase.id}, !.official = phase.id]
      BY <1>8 DEF ResolvePhase
    <3>3. timeline.applied \cup {phase.id} \in SUBSET Phases
      BY <2>1 DEF TypeOK, Timelines
    <3> QED
      BY <2>1, <3>1, <3>2, <3>3 DEF TypeOK, Timelines, Optional
  <2>3. UNCHANGED <<now, status, event, participation, narrative, posts>>
    BY <1>8 DEF ResolvePhase, eventVars
  <2>4. work' \in Optional(WorkRows)
    BY <1>8, <2>1, <2>3, RefreshType DEF ResolvePhase, TypeOK
  <2> QED
    BY <2>1, <2>2, <2>3, <2>4 DEF TypeOK
<1>9. CASE CompleteGame
  BY <1>9 DEF CompleteGame, TypeOK, eventVars, Optional
<1> QED
  BY <1>1, <1>3, <1>4, <1>6, <1>7, <1>8, <1>9 DEF PhaseCommand

\* Rows that only change their state.
LEMMA RowType ==
  ASSUME TypeOK, NEW e \in Events
  PROVE  /\ event[e] \in EventRows /\ DuePassed(event[e], now)
         /\ \A st \in States :
              /\ [event[e] EXCEPT !.state = st] \in EventRows
              /\ DuePassed([event[e] EXCEPT !.state = st], now)
BY DEF TypeOK, EventRows, DuePassed

LEMMA EventCommandType ==
  ASSUME TypeOK, EventCommand
  PROVE  TypeOK'
<1>1. ASSUME NEW program \in Programs, AttachDayProgram(program)
      PROVE  TypeOK'
  <2>1. event' \in [Events -> EventRows] /\ \A e \in Events : DuePassed(event'[e], now)
    BY <1>1, RowType DEF AttachDayProgram, Scheduled, States
  <2>2. narrative' \in [Events -> [Lifecycles -> NarrativeStates]]
    BY <1>1 DEF AttachDayProgram, TypeOK, NarrativeStates
  <2>3. UNCHANGED <<now, status, phase, timeline, participation, posts>>
    BY <1>1 DEF AttachDayProgram, gameVars
  <2>4. work' \in Optional(WorkRows)
    BY <1>1, <2>1, <2>3, RefreshType DEF AttachDayProgram, TypeOK
  <2> QED
    BY <2>1, <2>2, <2>3, <2>4 DEF TypeOK, DuePassed, NarrativeStates
<1>2. ASSUME NEW e \in Events, ScheduleDayEvent(e)
      PROVE  TypeOK'
  <2>1. event' \in [Events -> EventRows] /\ \A f \in Events : DuePassed(event'[f], now)
    <3>1. event' = [event EXCEPT ![e] = Scheduled(e)]
      BY <1>2 DEF ScheduleDayEvent
    <3>2. Scheduled(e) \in EventRows /\ DuePassed(Scheduled(e), now)
      BY RowType DEF Scheduled, States
    <3> QED
      BY <3>1, <3>2, RowType DEF TypeOK
  <2>2. UNCHANGED <<now, status, phase, timeline, participation, posts, narrative>>
    BY <1>2 DEF ScheduleDayEvent, gameVars
  <2>3. work' \in Optional(WorkRows)
    BY <1>2, <2>1, <2>2, RefreshType DEF ScheduleDayEvent, TypeOK
  <2> QED
    BY <2>1, <2>2, <2>3 DEF TypeOK, DuePassed
<1>3. ASSUME NEW e \in Events, OpenDayEvent(e)
      PROVE  TypeOK'
  BY <1>3, RowType, SetEventType DEF OpenDayEvent, States, Lifecycles
<1>4. ASSUME NEW e \in Events, NEW seed \in Seeds, LockDayEvent(e, seed)
      PROVE  TypeOK'
  <2> DEFINE row == [event[e] EXCEPT !.state = "locked", !.seed = SeedFor(e, seed)]
  <2>1. row \in EventRows /\ DuePassed(row, now)
    <3>1. event[e] \in EventRows /\ DuePassed(event[e], now)
      BY RowType
    <3>2. SeedFor(e, seed) \in Optional(Seeds)
      BY DEF SeedFor, Optional
    <3> QED
      BY <3>1, <3>2 DEF EventRows, States, DuePassed
  <2>2. SetEvent(e, row, "locked")
    BY <1>4 DEF LockDayEvent
  <2> HIDE DEF row
  <2> QED
    BY <2>1, <2>2, SetEventType DEF Lifecycles
<1>5. ASSUME NEW e \in Events, CancelDayEvent(e)
      PROVE  TypeOK'
  BY <1>5, RowType, SetEventType DEF CancelDayEvent, States, Lifecycles
<1>6. ASSUME NEW e \in Events, NEW s \in Slots,
             SubmitParticipation(e, s) \/ WithdrawParticipation(e, s)
      PROVE  TypeOK'
  <2>1. participation' \in [Events -> SUBSET Slots]
    BY <1>6 DEF SubmitParticipation, WithdrawParticipation, TypeOK
  <2>2. UNCHANGED <<now, status, phase, timeline, event, narrative, posts, work>>
    BY <1>6 DEF SubmitParticipation, WithdrawParticipation, gameVars
  <2> QED
    BY <2>1, <2>2 DEF TypeOK
<1>7. ASSUME NEW e \in Events, NEW winners \in SUBSET Slots, ResolveDayEvent(e, winners)
      PROVE  TypeOK'
  <2> DEFINE row == Resolved(e, winners, [seed |-> None, slots |-> participation[e]])
  <2>1. [seed |-> None, slots |-> participation[e]] \in Optional(Evidence)
    BY DEF TypeOK, Evidence, Optional
  <2>2. row \in EventRows /\ DuePassed(row, now)
    BY <2>1, RowType DEF Resolved, EventRows, States, DuePassed
  <2>3. SetEvent(e, row, "resolved")
    BY <1>7 DEF ResolveDayEvent
  <2> HIDE DEF row
  <2> QED
    BY <2>2, <2>3, SetEventType DEF Lifecycles
<1> QED
  BY <1>1, <1>2, <1>3, <1>4, <1>5, <1>6, <1>7 DEF EventCommand

LEMMA PassType ==
  ASSUME TypeOK, Pass
  PROVE  TypeOK'
<1>0. now \in Int
  BY DEF TypeOK
<1>1. ASSUME NEW at \in 0..now, NEW seeds \in [Events -> Seeds], Mechanics(at, seeds)
      PROVE  TypeOK'
  <2>1. event' \in [Events -> EventRows] /\ \A e \in Events : DuePassed(event'[e], now)
    <3>1. phase # None /\ event' = [e \in Events |-> Observed(e, at, seeds[e])]
      BY <1>1 DEF Mechanics, MechanicsSucceed
    <3>2. \A e \in Events : Observed(e, at, seeds[e]) \in EventRows
                            /\ DuePassed(Observed(e, at, seeds[e]), now)
      BY <1>0, <3>1, ObservedType
    <3> QED
      BY <3>1, <3>2
  <2>2. narrative' \in [Events -> [Lifecycles -> NarrativeStates]]
    BY <1>1 DEF Mechanics, Activated, TypeOK, NarrativeStates
  <2>3. UNCHANGED <<now, status, phase, timeline, participation, posts>>
    BY <1>1 DEF Mechanics, gameVars
  <2>4. work' \in Optional(WorkRows)
    BY <1>1, <2>1, <2>3, RefreshType DEF Mechanics, TypeOK
  <2> QED
    BY <2>1, <2>2, <2>3, <2>4 DEF TypeOK, DuePassed, NarrativeStates
<1>2. CASE PublishNarratives
  <2>1. UNCHANGED <<now, status, phase, timeline, event, participation>>
    BY <1>2 DEF PublishNarratives, gameVars
  <2>2. narrative' \in [Events -> [Lifecycles -> NarrativeStates]]
        /\ posts' \in [Events -> [Lifecycles -> Nat]]
    BY <1>2 DEF PublishNarratives, TypeOK, NarrativeStates
  <2>3. work' \in Optional(WorkRows)
    BY <1>2, <2>1, RefreshType DEF PublishNarratives, TypeOK
  <2> QED
    BY <2>1, <2>2, <2>3 DEF TypeOK, NarrativeStates
<1> QED
  BY <1>1, <1>2 DEF Pass

LEMMA TypeStep ==
  ASSUME TypeOK, [Next]_vars
  PROVE  TypeOK'
<1>1. CASE Tick
  <2>1. now' \in 0..MaxTime /\ now <= now' /\ now \in Int
    BY <1>1, BoundAssumption DEF Tick, TypeOK, BoundAssumption
  <2>2. UNCHANGED <<status, phase, timeline, event, participation, narrative, posts, work>>
    BY <1>1 DEF Tick
  <2>3. \A e \in Events : event[e].openDueAt \in Optional(Int) /\ event[e].lockDueAt \in Optional(Int)
    BY DEF TypeOK, EventRows
  <2>4. \A e \in Events :
          \A due \in Some(event[e].openDueAt) \cup Some(event[e].lockDueAt) : due <= now'
    <3>1. SUFFICES ASSUME NEW e \in Events,
                          NEW due \in Some(event[e].openDueAt) \cup Some(event[e].lockDueAt)
                   PROVE  due <= now'
      OBVIOUS
    <3>2. due \in Int
      BY <2>3 DEF Some, Optional
    <3>3. due <= now
      BY DEF TypeOK
    <3> QED
      BY <2>1, <3>2, <3>3
  <2> QED
    BY <2>1, <2>2, <2>4 DEF TypeOK
<1>2. CASE UNCHANGED vars
  BY <1>2 DEF vars, TypeOK
<1> QED
  BY <1>1, <1>2, PhaseCommandType, EventCommandType, PassType DEF Next

LEMMA RuntimeInitType == Init => TypeOK
BY BoundAssumption
DEF Init, TypeOK, BoundAssumption, Optional, Timelines, Anchors, EventRows, Some, States

\* The rows the write path keeps are always of their types, and a due time that
\* is recorded had passed when it was.
THEOREM DayRuntimeTypes == Spec => []TypeOK
BY RuntimeInitType, TypeStep, PTL DEF Spec

-----------------------------------------------------------------------------
(* The work row.                                                           *)

\* A row that is written again is current.
LEMMA RefreshedIsCurrent ==
  ASSUME Refresh \/ RefreshAndWake
  PROVE  WorkRowCurrent'
<1>1. PICK wake : work' = RowFor(event', narrative', phase', wake)
  BY DEF Refresh, RefreshAndWake
<1>2. work'.wake = wake
  BY <1>1 DEF RowFor
<1> QED
  BY <1>1, <1>2 DEF WorkRowCurrent

\* Nothing the row depends on has changed.
LEMMA UntouchedIsCurrent ==
  ASSUME WorkRowCurrent, UNCHANGED <<event, narrative, work>>,
         PhaseId(phase') = PhaseId(phase), OpenedAt(phase') = OpenedAt(phase)
  PROVE  WorkRowCurrent'
<1>1. \A e \in Events : Boundaries(e, event'[e], phase') = Boundaries(e, event[e], phase)
  BY DEF Boundaries
<1>2. {Boundaries(e, event'[e], phase') : e \in Events}
        = {Boundaries(e, event[e], phase) : e \in Events}
  BY <1>1
<1>3. \A wake : RowFor(event', narrative', phase', wake) = RowFor(event, narrative, phase, wake)
  BY <1>2 DEF RowFor
<1> QED
  BY <1>3 DEF WorkRowCurrent

\* A pass that reaches nothing leaves the events as they are.
LEMMA NothingReached ==
  ASSUME TypeOK, NEW at, NEW seeds, Mechanics(at, seeds),
         \A e \in Events : Reached(e, at) = {}
  PROVE  UNCHANGED <<event, narrative>>
<1>1. \A e \in Events : ~Opens(e, at) /\ ~Locks(e, at) /\ e \notin PendingAuto
  <2>1. SUFFICES ASSUME NEW e \in Events
                 PROVE  ~Opens(e, at) /\ ~Locks(e, at) /\ e \notin PendingAuto
    OBVIOUS
  <2>2. Reached(e, at) = {}
    OBVIOUS
  <2> QED
    BY <2>2 DEF Reached
<1>2. \A e \in Events : Observed(e, at, seeds[e]) = event[e]
  BY <1>1 DEF Observed
<1>3. \A e \in Events : Activated(e, Reached(e, at)) = narrative[e]
  BY DEF Activated, TypeOK
<1> QED
  BY <1>2, <1>3 DEF Mechanics, TypeOK

LEMMA WorkRowStep ==
  ASSUME TypeOK, WorkRowCurrent, [Next]_vars
  PROVE  WorkRowCurrent'
<1>1. ASSUME UNCHANGED <<event, narrative, work, phase>>
      PROVE  WorkRowCurrent'
  BY <1>1, UntouchedIsCurrent
<1>2. CASE Tick \/ UNCHANGED vars
  BY <1>1, <1>2 DEF Tick, vars
<1>3. CASE PhaseCommand
  <2>1. CASE UnlockThread
    <3>1. PhaseId(phase') = PhaseId(phase) /\ OpenedAt(phase') = OpenedAt(phase)
      <4>1. phase # None /\ phase \in PhaseRows /\ phase' = [phase EXCEPT !.locked = FALSE]
        BY <2>1 DEF UnlockThread, TypeOK, Optional
      <4>2. phase' \in PhaseRows /\ phase'.id = phase.id /\ phase'.openedAt = phase.openedAt
        BY <4>1 DEF PhaseRows
      <4> QED
        BY <4>1, <4>2, RowAssumption DEF RowAssumption, PhaseId, OpenedAt
    <3> QED
      BY <2>1, <3>1, UntouchedIsCurrent DEF UnlockThread, eventVars
  <2>2. CASE CompleteGame
    BY <2>2 DEF CompleteGame, WorkRowCurrent
  <2>3. CASE ~UnlockThread /\ ~CompleteGame
    BY <1>3, <2>3, RefreshedIsCurrent
    DEF PhaseCommand, StartGame, OpenDayPhase, AdvancePhase, AdvancePhaseByDeadline, EnterPhase,
        LockThread, ResolvePhase
  <2> QED
    BY <2>1, <2>2, <2>3
<1>4. CASE EventCommand
  <2>1. ASSUME NEW e \in Events, NEW s \in Slots,
               SubmitParticipation(e, s) \/ WithdrawParticipation(e, s)
        PROVE  WorkRowCurrent'
    BY <1>1, <2>1 DEF SubmitParticipation, WithdrawParticipation, gameVars
  <2>2. ASSUME NEW program \in Programs, AttachDayProgram(program)
        PROVE  WorkRowCurrent'
    BY <2>2, RefreshedIsCurrent DEF AttachDayProgram
  <2>3. ASSUME NEW e \in Events, ScheduleDayEvent(e)
        PROVE  WorkRowCurrent'
    BY <2>3, RefreshedIsCurrent DEF ScheduleDayEvent
  <2>4. ASSUME NEW e \in Events, NEW row, NEW lifecycle, SetEvent(e, row, lifecycle)
        PROVE  WorkRowCurrent'
    BY <2>4, RefreshedIsCurrent DEF SetEvent
  <2>5. ASSUME NEW e \in Events, OpenDayEvent(e) \/ CancelDayEvent(e)
        PROVE  WorkRowCurrent'
    BY <2>4, <2>5 DEF OpenDayEvent, CancelDayEvent
  <2>6. ASSUME NEW e \in Events, NEW seed \in Seeds, LockDayEvent(e, seed)
        PROVE  WorkRowCurrent'
    BY <2>4, <2>6 DEF LockDayEvent
  <2>7. ASSUME NEW e \in Events, NEW winners \in SUBSET Slots, ResolveDayEvent(e, winners)
        PROVE  WorkRowCurrent'
    BY <2>4, <2>7 DEF ResolveDayEvent
  <2> QED
    BY <1>4, <2>1, <2>2, <2>3, <2>5, <2>6, <2>7 DEF EventCommand
<1>5. ASSUME NEW at \in 0..now, NEW seeds \in [Events -> Seeds], Mechanics(at, seeds)
      PROVE  WorkRowCurrent'
  <2>1. CASE \E e \in Events : Reached(e, at) # {}
    BY <1>5, <2>1, RefreshedIsCurrent DEF Mechanics
  <2>2. CASE \A e \in Events : Reached(e, at) = {}
    <3>1. UNCHANGED <<event, narrative, work, phase>>
      BY <1>5, <2>2, NothingReached DEF Mechanics, gameVars
    <3> QED
      BY <1>1, <3>1
  <2> QED
    BY <2>1, <2>2
<1>6. CASE PublishNarratives
  <2>1. CASE \E e \in Events, l \in Lifecycles : narrative[e][l] = "pending"
    BY <1>6, <2>1, RefreshedIsCurrent DEF PublishNarratives
  <2>2. CASE ~\E e \in Events, l \in Lifecycles : narrative[e][l] = "pending"
    <3>1. narrative' = [e \in Events |-> [l \in Lifecycles |-> narrative[e][l]]]
      BY <1>6, <2>2 DEF PublishNarratives
    <3>2. narrative' = narrative
      BY <3>1 DEF TypeOK
    <3>3. UNCHANGED <<event, work, phase>>
      BY <1>6, <2>2 DEF PublishNarratives, gameVars
    <3> QED
      BY <1>1, <3>2, <3>3
  <2> QED
    BY <2>1, <2>2
<1> QED
  BY <1>2, <1>3, <1>4, <1>5, <1>6 DEF Next, Pass

\* The work index is maintained incrementally and always equals what a full scan
\* of the projected events would build: no command leaves it out of date.
THEOREM WorkRowIsCurrent == Spec => []WorkRowCurrent
<1>1. Init => WorkRowCurrent
  BY DEF Init, WorkRowCurrent
<1> QED
  BY <1>1, WorkRowStep, DayRuntimeTypes, PTL DEF Spec

-----------------------------------------------------------------------------
(* The states the events move through.                                     *)

LEMMA SetEventMoves ==
  ASSUME TypeOK, NEW e \in Events, NEW row, NEW lifecycle, SetEvent(e, row, lifecycle)
  PROVE  /\ event'[e] = row
         /\ \A f \in Events : f # e => event'[f] = event[f]
         /\ narrative'[e] = Activated(e, {lifecycle})
         /\ \A f \in Events : f # e => narrative'[f] = narrative[f]
         /\ UNCHANGED <<participation, posts, phase>>
BY DEF SetEvent, TypeOK, gameVars

LEMMA RowFields ==
  ASSUME NEW row \in EventRows
  PROVE  /\ row.state \in States \cup {"absent"}
         /\ \A st : /\ [row EXCEPT !.state = st].state = st
                    /\ [row EXCEPT !.state = st].winners = row.winners
                    /\ [row EXCEPT !.state = st].seed = row.seed
                    /\ [row EXCEPT !.state = st].evidence = row.evidence
         /\ \A seed : /\ [row EXCEPT !.state = "locked", !.seed = seed].state = "locked"
                      /\ [row EXCEPT !.state = "locked", !.seed = seed].winners = row.winners
                      /\ [row EXCEPT !.state = "locked", !.seed = seed].seed = seed
BY DEF EventRows

LEMMA ResolvedFields ==
  ASSUME TypeOK, NEW e \in Events, NEW chosen, NEW evidence
  PROVE  /\ Resolved(e, chosen, evidence).state = "resolved"
         /\ Resolved(e, chosen, evidence).winners = chosen
         /\ Resolved(e, chosen, evidence).evidence = evidence
         /\ Resolved(e, chosen, evidence).seed = event[e].seed
BY DEF Resolved, TypeOK, EventRows

\* What a pass makes of an event: its automatic resolution, or an opening, a
\* lock, both, or nothing.
LEMMA ObservedFields ==
  ASSUME TypeOK, NEW e \in Events, NEW at, NEW seed
  PROVE  \/ /\ e \in PendingAuto
            /\ Observed(e, at, seed)
                 = Resolved(e, SelectWinners(Definition[e], participation[e], event[e].seed),
                            [seed |-> event[e].seed, slots |-> participation[e]])
         \/ /\ e \notin PendingAuto /\ ~Locks(e, at) /\ ~Opens(e, at)
            /\ Observed(e, at, seed) = event[e]
         \/ /\ e \notin PendingAuto /\ ~Locks(e, at) /\ Opens(e, at)
            /\ event[e].state = "scheduled" /\ Observed(e, at, seed).state = "open"
            /\ Observed(e, at, seed).winners = event[e].winners
            /\ Observed(e, at, seed).seed = event[e].seed
         \/ /\ e \notin PendingAuto /\ Locks(e, at)
            /\ event[e].state \in {"scheduled", "open"}
            /\ Observed(e, at, seed).state = "locked"
            /\ Observed(e, at, seed).winners = event[e].winners
            /\ Observed(e, at, seed).seed = SeedFor(e, seed)
<1> DEFINE d == Definition[e]
           row == event[e]
           due == Recorded(row.openDueAt, OpeningDue(d.schedule, Context(at)))
           lockDue == Recorded(row.lockDueAt, LockDue(d.schedule, d.scope, Context(at)))
           opened == IF ~Opens(e, at) THEN row
                     ELSE [row EXCEPT !.state = "open", !.openDueAt = due]
           locked == [opened EXCEPT !.state = "locked", !.seed = SeedFor(e, seed),
                                    !.lockDueAt = lockDue]
<1>1. row \in EventRows
  BY DEF TypeOK
<1>2. Opens(e, at) => row.state = "scheduled"
  BY DEF Opens, MayOpen
<1>3. Locks(e, at) => row.state = "open" \/ Opens(e, at)
  BY DEF Locks, MayLock, Opens
<1>4. e \in PendingAuto =>
        Observed(e, at, seed) = Resolved(e, SelectWinners(d, participation[e], row.seed),
                                         [seed |-> row.seed, slots |-> participation[e]])
  BY DEF Observed
<1>5. e \notin PendingAuto /\ ~Locks(e, at) => Observed(e, at, seed) = opened
  BY DEF Observed
<1>6. e \notin PendingAuto /\ Locks(e, at) => Observed(e, at, seed) = locked
  BY DEF Observed
<1> HIDE DEF due, lockDue
<1>7. /\ ~Opens(e, at) => opened = row
      /\ Opens(e, at) => opened.state = "open"
      /\ opened.winners = row.winners /\ opened.seed = row.seed
      /\ locked.state = "locked" /\ locked.winners = row.winners
      /\ locked.seed = SeedFor(e, seed)
  BY <1>1 DEF EventRows
<1> HIDE DEF opened, locked, row
<1> QED
  BY <1>2, <1>3, <1>4, <1>5, <1>6, <1>7 DEF row

-----------------------------------------------------------------------------
(* Seeds and evidence.                                                     *)

\* The lock of a seeded automatic event has committed its seed.
SeedCommittedAt(e) ==
  event[e].state \in {"locked", "resolved"} /\ Definition[e].auto /\ Definition[e].seeded
    => event[e].seed \in Seeds

EvidenceAt(e) ==
  LET d == Definition[e]  row == event[e]  evidence == row.evidence IN
  row.state = "resolved" /\ d.auto =>
    /\ evidence.slots = participation[e]
    /\ evidence.seed = row.seed
    /\ row.winners = SelectWinners(d, evidence.slots, evidence.seed)
    /\ Cardinality(row.winners) = d.winners

Replayable == \A e \in Events : SeedCommittedAt(e) /\ EvidenceAt(e)

\* The lowest of the order are as many as the definition asks for.
LEMMA EnoughWinners ==
  ASSUME NEW e \in Events, NEW slots \in SUBSET Slots, NEW seed,
         Definition[e].seeded => seed \in Seeds,
         Cardinality(slots) >= Definition[e].winners
  PROVE  /\ SelectWinners(Definition[e], slots, seed) \subseteq slots
         /\ IsFiniteSet(SelectWinners(Definition[e], slots, seed))
         /\ Cardinality(SelectWinners(Definition[e], slots, seed)) = Definition[e].winners
         /\ SelectWinners(Definition[e], slots, seed) # {}
<1> DEFINE d == Definition[e]
           rank == IF d.seeded THEN SeededRank[seed] ELSE SlotOrder
           chosen == {s \in slots : Cardinality(Below(rank, slots, s)) < d.winners}
<1>1. IsFiniteSet(slots) /\ Cardinality(slots) \in Nat /\ d.winners \in Nat \ {0}
  BY SlotAssumption, FS_Subset, FS_CardinalityType, DefinitionType DEF SlotAssumption
<1>2. Ranked(rank, slots)
  <2>1. rank \in {SlotOrder} \cup {SeededRank[x] : x \in Seeds}
    OBVIOUS
  <2>2. rank \in [Slots -> Int]
    BY SlotAssumption DEF SlotAssumption
  <2>3. \A s, t \in Slots : rank[s] = rank[t] => s = t
    BY <2>1, SlotAssumption DEF SlotAssumption
  <2> HIDE DEF rank
  <2> QED
    BY <2>2, <2>3 DEF Ranked
<1>3. SelectWinners(d, slots, seed) = chosen
  BY DEF SelectWinners, Below
<1> HIDE DEF rank
<1>4. IsFiniteSet(chosen) /\ Cardinality(chosen) = d.winners
  BY <1>1, <1>2, LowestAreAsMany
<1>5. chosen # {}
  BY <1>1, <1>4, FS_EmptySet
<1>6. chosen \subseteq slots
  OBVIOUS
<1> QED
  BY <1>3, <1>4, <1>5, <1>6

LEMMA EvidenceStays ==
  ASSUME Replayable, NEW e \in Events, event'[e] = event[e], participation'[e] = participation[e]
  PROVE  (SeedCommittedAt(e) /\ EvidenceAt(e))'
BY DEF Replayable, SeedCommittedAt, EvidenceAt

\* An event that is not resolved has no evidence to replay.
LEMMA NotResolved ==
  ASSUME Replayable, NEW e \in Events, event'[e].state # "resolved",
         event'[e].state = "locked" =>
           (Definition[e].auto /\ Definition[e].seeded => event'[e].seed \in Seeds)
  PROVE  (SeedCommittedAt(e) /\ EvidenceAt(e))'
BY DEF SeedCommittedAt, EvidenceAt

LEMMA SeedForCommits ==
  ASSUME NEW e \in Events, NEW seed \in Seeds
  PROVE  Definition[e].auto /\ Definition[e].seeded => SeedFor(e, seed) \in Seeds
BY DEF SeedFor

LEMMA MechanicsReplayable ==
  ASSUME TypeOK, Replayable, NEW at \in 0..now, NEW seeds \in [Events -> Seeds],
         Mechanics(at, seeds), NEW e \in Events
  PROVE  (SeedCommittedAt(e) /\ EvidenceAt(e))'
<1> DEFINE d == Definition[e]
           chosen == SelectWinners(d, participation[e], event[e].seed)
           evidence == [seed |-> event[e].seed, slots |-> participation[e]]
<1>1. /\ event'[e] = Observed(e, at, seeds[e]) /\ participation' = participation
      /\ \A f \in PendingAuto : Cardinality(participation[f]) >= Definition[f].winners
      /\ seeds[e] \in Seeds
  BY DEF Mechanics, MechanicsSucceed
<1>2. CASE e \in PendingAuto
  <2>1. event'[e] = Resolved(e, chosen, evidence)
    BY <1>1, <1>2, ObservedFields
  <2>2. event[e].state = "locked" /\ d.auto
    BY <1>2 DEF PendingAuto, IsPendingAuto
  <2>3. d.seeded => event[e].seed \in Seeds
    BY <2>2 DEF Replayable, SeedCommittedAt
  <2>4. Cardinality(chosen) = d.winners
    BY <1>1, <1>2, <2>3, EnoughWinners DEF TypeOK
  <2>5. /\ event'[e].state = "resolved" /\ event'[e].winners = chosen
        /\ event'[e].evidence = evidence /\ event'[e].seed = event[e].seed
    BY <2>1, ResolvedFields
  <2>6. evidence.seed = event[e].seed /\ evidence.slots = participation[e]
    OBVIOUS
  <2> HIDE DEF evidence
  <2>7. SeedCommittedAt(e)'
    BY <2>3, <2>5 DEF SeedCommittedAt
  <2>8. EvidenceAt(e)'
    BY <1>1, <2>4, <2>5, <2>6 DEF EvidenceAt
  <2> QED
    BY <2>7, <2>8
<1>3. CASE e \notin PendingAuto
  <2>1. \/ event'[e] = event[e]
        \/ event'[e].state = "open"
        \/ event'[e].state = "locked" /\ event'[e].seed = SeedFor(e, seeds[e])
    <3>1. ASSUME NEW seed
          PROVE  \/ Observed(e, at, seed) = event[e]
                 \/ Observed(e, at, seed).state = "open"
                 \/ /\ Observed(e, at, seed).state = "locked"
                    /\ Observed(e, at, seed).seed = SeedFor(e, seed)
      <4>1. CASE Locks(e, at)
        BY <1>3, <4>1, ObservedFields
      <4>2. CASE ~Locks(e, at) /\ Opens(e, at)
        BY <1>3, <4>2, ObservedFields
      <4>3. CASE ~Locks(e, at) /\ ~Opens(e, at)
        BY <1>3, <4>3, ObservedFields
      <4> QED
        BY <4>1, <4>2, <4>3
    <3> QED
      BY <1>1, <3>1
  <2> QED
    BY <1>1, <2>1, EvidenceStays, NotResolved, SeedForCommits
<1> QED
  BY <1>2, <1>3

LEMMA ReplayableStep ==
  ASSUME TypeOK, Replayable, [Next]_vars
  PROVE  Replayable'
<1>1. ASSUME UNCHANGED <<event, participation>>
      PROVE  Replayable'
  BY <1>1, EvidenceStays DEF Replayable
<1>2. CASE Tick \/ PhaseCommand \/ PublishNarratives \/ UNCHANGED vars
  BY <1>1, <1>2
  DEF Tick, PublishNarratives, vars, PhaseCommand, StartGame, OpenDayPhase, AdvancePhase,
      AdvancePhaseByDeadline, EnterPhase, LockThread, UnlockThread, ResolvePhase, CompleteGame,
      eventVars
<1>3. ASSUME NEW program \in Programs, AttachDayProgram(program)
      PROVE  Replayable'
  <2>1. ASSUME NEW e \in Events
        PROVE  (SeedCommittedAt(e) /\ EvidenceAt(e))'
    <3>1. CASE e \in program
      <4>1. event'[e].state = "scheduled"
        <5>1. event'[e] = Scheduled(e)
          BY <1>3, <3>1 DEF AttachDayProgram
        <5>2. event[e] \in EventRows
          BY DEF TypeOK
        <5> QED
          BY <5>1, <5>2, RowFields DEF Scheduled
      <4> QED
        BY <4>1, NotResolved
    <3>2. CASE e \notin program
      BY <1>3, <3>2, EvidenceStays DEF AttachDayProgram
    <3> QED
      BY <3>1, <3>2
  <2> QED
    BY <2>1 DEF Replayable
<1>4. ASSUME NEW e \in Events, participation' = participation,
             \A f \in Events : f # e => event'[f] = event[f],
             (SeedCommittedAt(e) /\ EvidenceAt(e))'
      PROVE  Replayable'
  BY <1>4, EvidenceStays DEF Replayable
<1>5. ASSUME NEW e \in Events, ScheduleDayEvent(e)
      PROVE  Replayable'
  <2>1. event'[e].state = "scheduled" /\ participation' = participation
        /\ \A f \in Events : f # e => event'[f] = event[f]
    BY <1>5, RowFields DEF ScheduleDayEvent, Scheduled, TypeOK
  <2> QED
    BY <1>4, <2>1, NotResolved
<1>6. ASSUME NEW e \in Events, OpenDayEvent(e) \/ CancelDayEvent(e)
      PROVE  Replayable'
  <2>1. event'[e].state \in {"open", "cancelled"} /\ participation' = participation
        /\ \A f \in Events : f # e => event'[f] = event[f]
    <3>1. PICK st \in {"open", "cancelled"}, lifecycle \in Lifecycles :
            SetEvent(e, [event[e] EXCEPT !.state = st], lifecycle)
      BY <1>6 DEF OpenDayEvent, CancelDayEvent, Lifecycles
    <3>2. event'[e] = [event[e] EXCEPT !.state = st] /\ participation' = participation
          /\ \A f \in Events : f # e => event'[f] = event[f]
      BY <3>1, SetEventMoves
    <3>3. event'[e].state = st
      BY <3>2, RowFields DEF TypeOK
    <3> QED
      BY <3>1, <3>2, <3>3
  <2> QED
    BY <1>4, <2>1, NotResolved
<1>7. ASSUME NEW e \in Events, NEW seed \in Seeds, LockDayEvent(e, seed)
      PROVE  Replayable'
  <2>1. event'[e] = [event[e] EXCEPT !.state = "locked", !.seed = SeedFor(e, seed)]
        /\ participation' = participation /\ \A f \in Events : f # e => event'[f] = event[f]
    BY <1>7, SetEventMoves DEF LockDayEvent
  <2>2. event'[e].state = "locked" /\ event'[e].seed = SeedFor(e, seed)
    BY <2>1, RowFields DEF TypeOK
  <2> QED
    <3>1. Definition[e].auto /\ Definition[e].seeded => event'[e].seed \in Seeds
      BY <2>2, SeedForCommits
    <3>2. (SeedCommittedAt(e) /\ EvidenceAt(e))'
      BY <2>2, <3>1, NotResolved
    <3> QED
      BY <1>4, <2>1, <3>2
<1>8. ASSUME NEW e \in Events, NEW winners \in SUBSET Slots, ResolveDayEvent(e, winners)
      PROVE  Replayable'
  <2>1. event'[e] = Resolved(e, winners, [seed |-> None, slots |-> participation[e]])
        /\ participation' = participation /\ \A f \in Events : f # e => event'[f] = event[f]
    BY <1>8, SetEventMoves DEF ResolveDayEvent
  <2>2. ~Definition[e].auto
    BY <1>8 DEF ResolveDayEvent
  <2>3. (SeedCommittedAt(e) /\ EvidenceAt(e))'
    BY <2>2 DEF SeedCommittedAt, EvidenceAt
  <2> QED
    BY <1>4, <2>1, <2>3
<1>9. ASSUME NEW e \in Events, NEW s \in Slots,
             SubmitParticipation(e, s) \/ WithdrawParticipation(e, s)
      PROVE  Replayable'
  <2>1. event[e].state = "open" /\ event' = event
        /\ \A f \in Events : f # e => participation'[f] = participation[f]
    BY <1>9 DEF SubmitParticipation, WithdrawParticipation, TypeOK
  <2>2. (SeedCommittedAt(e) /\ EvidenceAt(e))'
    BY <2>1, NotResolved
  <2> QED
    BY <2>1, <2>2, EvidenceStays DEF Replayable
<1>10. ASSUME NEW at \in 0..now, NEW seeds \in [Events -> Seeds], Mechanics(at, seeds)
       PROVE  Replayable'
  BY <1>10, MechanicsReplayable DEF Replayable
<1> QED
  BY <1>2, <1>3, <1>5, <1>6, <1>7, <1>8, <1>9, <1>10 DEF Next, Pass, EventCommand

LEMMA AlwaysReplayable == Spec => [](TypeOK /\ Replayable)
<1>1. Init => Replayable
  BY DEF Init, Replayable, SeedCommittedAt, EvidenceAt
<1> QED
  BY <1>1, ReplayableStep, DayRuntimeTypes, PTL DEF Spec

\* An automatic resolution can be replayed from its evidence: the frozen entrants
\* and the seed its lock committed select those winners, and as many as asked for.
THEOREM EvidenceAlwaysReplays == Spec => []EvidenceReplays
<1>1. Replayable => EvidenceReplays
  BY DEF Replayable, EvidenceAt, EvidenceReplays
<1> QED
  BY <1>1, AlwaysReplayable, PTL

-----------------------------------------------------------------------------
(* What a step makes of one event.                                         *)

\* It follows the lifecycle, names winners only with the resolution, and a
\* resolution keeps the seed it finds.
Moved(e) ==
  /\ Lifecycle!CanMove(event[e].state, event'[e].state)
  /\ IF event[e].state = "locked" /\ event'[e].state = "resolved"
       THEN event'[e].winners # {} /\ event'[e].winners \subseteq participation[e]
       ELSE event'[e].winners = event[e].winners
  /\ event'[e].state = "resolved" /\ event[e].state # "resolved" =>
       event'[e].seed = event[e].seed

LEMMA StaysPut ==
  ASSUME NEW e \in Events, event'[e] = event[e]
  PROVE  Moved(e)
BY DEF Moved, Lifecycle!CanMove

LEMMA MovesOn ==
  ASSUME NEW e \in Events, event'[e].winners = event[e].winners,
         Lifecycle!CanMove(event[e].state, event'[e].state), event'[e].state # "resolved"
  PROVE  Moved(e)
BY DEF Moved

LEMMA IsResolved ==
  ASSUME NEW e \in Events, NEW chosen \in SUBSET participation[e], NEW evidence,
         TypeOK, chosen # {}, event[e].state = "locked",
         event'[e] = Resolved(e, chosen, evidence)
  PROVE  Moved(e)
<1>1. /\ event'[e].state = "resolved" /\ event'[e].winners = chosen
      /\ event'[e].seed = event[e].seed
  BY ResolvedFields
<1> QED
  BY <1>1 DEF Moved, Lifecycle!CanMove, Lifecycle!CanTransition

LEMMA MechanicsMoves ==
  ASSUME TypeOK, Replayable, NEW at \in 0..now, NEW seeds \in [Events -> Seeds],
         Mechanics(at, seeds), NEW e \in Events
  PROVE  Moved(e)
<1> DEFINE chosen == SelectWinners(Definition[e], participation[e], event[e].seed)
<1>1. event'[e] = Observed(e, at, seeds[e])
  BY DEF Mechanics
<1>2. CASE e \in PendingAuto
  <2>1. event[e].state = "locked" /\ Definition[e].auto
        /\ Cardinality(participation[e]) >= Definition[e].winners
    BY <1>2 DEF PendingAuto, IsPendingAuto, Mechanics, MechanicsSucceed
  <2>2. Definition[e].seeded => event[e].seed \in Seeds
    BY <2>1 DEF Replayable, SeedCommittedAt
  <2>3. chosen \subseteq participation[e] /\ chosen # {}
    BY <2>1, <2>2, EnoughWinners DEF TypeOK
  <2>4. event'[e] = Resolved(e, chosen, [seed |-> event[e].seed, slots |-> participation[e]])
    BY <1>1, <1>2, ObservedFields
  <2> HIDE DEF chosen
  <2> QED
    BY <2>1, <2>3, <2>4, IsResolved
<1>3. CASE e \notin PendingAuto
  <2>1. CASE Locks(e, at)
    <3>1. event[e].state \in {"scheduled", "open"}
      BY <1>3, <2>1, ObservedFields
    <3>2. ASSUME NEW seed
          PROVE  /\ Observed(e, at, seed).state = "locked"
                 /\ Observed(e, at, seed).winners = event[e].winners
      BY <1>3, <2>1, ObservedFields
    <3>3. event'[e].state = "locked" /\ event'[e].winners = event[e].winners
      BY <1>1, <3>2
    <3> QED
      BY <3>1, <3>3, MovesOn DEF Lifecycle!CanMove, Lifecycle!CanTransition
  <2>2. CASE ~Locks(e, at) /\ Opens(e, at)
    <3>1. /\ event[e].state = "scheduled" /\ event'[e].state = "open"
          /\ event'[e].winners = event[e].winners
      BY <1>1, <1>3, <2>2, ObservedFields
    <3> QED
      BY <3>1, MovesOn DEF Lifecycle!CanMove, Lifecycle!CanTransition
  <2>3. CASE ~Locks(e, at) /\ ~Opens(e, at)
    BY <1>1, <1>3, <2>3, ObservedFields, StaysPut
  <2> QED
    BY <2>1, <2>2, <2>3
<1> QED
  BY <1>2, <1>3

LEMMA MovedStep ==
  ASSUME TypeOK, Replayable, [Next]_vars, NEW e \in Events
  PROVE  Moved(e)
<1>1. CASE event' = event
  BY <1>1, StaysPut
<1>2. CASE Tick \/ PhaseCommand \/ PublishNarratives \/ UNCHANGED vars
  BY <1>1, <1>2
  DEF Tick, PublishNarratives, vars, PhaseCommand, StartGame, OpenDayPhase, AdvancePhase,
      AdvancePhaseByDeadline, EnterPhase, LockThread, UnlockThread, ResolvePhase, CompleteGame,
      eventVars
<1>3. ASSUME event[e].state = "absent", event'[e] = Scheduled(e)
      PROVE  Moved(e)
  <2>1. event'[e].state = "scheduled" /\ event'[e].winners = event[e].winners
    BY <1>3, RowFields DEF Scheduled, TypeOK
  <2> QED
    BY <1>3, <2>1, MovesOn DEF Lifecycle!CanMove, Lifecycle!CanTransition
<1>4. ASSUME NEW program \in Programs, AttachDayProgram(program)
      PROVE  Moved(e)
  <2>1. CASE e \in program
    BY <1>3, <1>4, <2>1 DEF AttachDayProgram
  <2>2. CASE e \notin program
    BY <1>4, <2>2, StaysPut DEF AttachDayProgram
  <2> QED
    BY <2>1, <2>2
<1>5. ASSUME NEW f \in Events, ScheduleDayEvent(f)
      PROVE  Moved(e)
  <2>1. CASE e = f
    BY <1>3, <1>5, <2>1 DEF ScheduleDayEvent, TypeOK
  <2>2. CASE e # f
    BY <1>5, <2>2, StaysPut DEF ScheduleDayEvent, TypeOK
  <2> QED
    BY <2>1, <2>2
<1>6. ASSUME NEW f \in Events, NEW st, NEW lifecycle, st # "resolved",
             Lifecycle!CanTransition(event[f].state, st),
             SetEvent(f, [event[f] EXCEPT !.state = st], lifecycle)
      PROVE  Moved(e)
  <2>1. CASE e = f
    <3>1. event'[e].state = st /\ event'[e].winners = event[e].winners
      <4>1. event'[e] = [event[e] EXCEPT !.state = st]
        BY <1>6, <2>1, SetEventMoves
      <4> QED
        BY <4>1, RowFields DEF TypeOK
    <3> QED
      BY <1>6, <2>1, <3>1, MovesOn DEF Lifecycle!CanMove
  <2>2. CASE e # f
    BY <1>6, <2>2, SetEventMoves, StaysPut
  <2> QED
    BY <2>1, <2>2
<1>7. ASSUME NEW f \in Events, OpenDayEvent(f) \/ CancelDayEvent(f)
      PROVE  Moved(e)
  BY <1>6, <1>7 DEF OpenDayEvent, CancelDayEvent, Lifecycle!CanTransition
<1>8. ASSUME NEW f \in Events, NEW seed \in Seeds, LockDayEvent(f, seed)
      PROVE  Moved(e)
  <2>1. event[f].state = "open"
        /\ SetEvent(f, [event[f] EXCEPT !.state = "locked", !.seed = SeedFor(f, seed)], "locked")
    BY <1>8 DEF LockDayEvent
  <2>2. CASE e = f
    <3>1. event'[e] = [event[e] EXCEPT !.state = "locked", !.seed = SeedFor(f, seed)]
      BY <2>1, <2>2, SetEventMoves
    <3>2. event'[e].state = "locked" /\ event'[e].winners = event[e].winners
      BY <3>1, RowFields DEF TypeOK
    <3> QED
      BY <2>1, <2>2, <3>2, MovesOn DEF Lifecycle!CanMove, Lifecycle!CanTransition
  <2>3. CASE e # f
    BY <2>1, <2>3, SetEventMoves, StaysPut
  <2> QED
    BY <2>2, <2>3
<1>9. ASSUME NEW f \in Events, NEW winners \in SUBSET Slots, ResolveDayEvent(f, winners)
      PROVE  Moved(e)
  <2> DEFINE evidence == [seed |-> None, slots |-> participation[f]]
  <2>1. /\ event[f].state = "locked" /\ winners # {} /\ winners \subseteq participation[f]
        /\ SetEvent(f, Resolved(f, winners, evidence), "resolved")
    BY <1>9 DEF ResolveDayEvent
  <2> HIDE DEF evidence
  <2>2. CASE e = f
    <3>1. event'[e] = Resolved(e, winners, evidence)
      BY <2>1, <2>2, SetEventMoves
    <3>2. event[e].state = "locked" /\ winners # {} /\ winners \in SUBSET participation[e]
      BY <2>1, <2>2
    <3> QED
      BY <3>1, <3>2, IsResolved
  <2>3. CASE e # f
    BY <2>1, <2>3, SetEventMoves, StaysPut
  <2> QED
    BY <2>2, <2>3
<1>10. ASSUME NEW f \in Events, NEW s \in Slots,
              SubmitParticipation(f, s) \/ WithdrawParticipation(f, s)
       PROVE  Moved(e)
  BY <1>1, <1>10 DEF SubmitParticipation, WithdrawParticipation
<1>11. ASSUME NEW at \in 0..now, NEW seeds \in [Events -> Seeds], Mechanics(at, seeds)
       PROVE  Moved(e)
  BY <1>11, MechanicsMoves
<1> QED
  BY <1>2, <1>4, <1>5, <1>7, <1>8, <1>9, <1>10, <1>11 DEF Next, Pass, EventCommand

\* A resolution, by a host or by a pass, leaves the seed its lock committed: a
\* pass that fails or is repeated in between draws the same winners.
THEOREM SeedIsCommittedFirst == Spec => SeedCommittedFirst
<1>1. ASSUME TypeOK, Replayable, [Next]_vars, NEW e \in Events,
             event'[e].state = "resolved", event[e].state # "resolved"
      PROVE  /\ event[e].state = "locked"
             /\ event'[e].seed = event[e].seed
             /\ Definition[e].auto /\ Definition[e].seeded => event[e].seed # None
  <2>1. Moved(e)
    BY <1>1, MovedStep
  <2>2. event[e].state = "locked" /\ event'[e].seed = event[e].seed
    BY <1>1, <2>1 DEF Moved, Lifecycle!CanMove, Lifecycle!CanTransition
  <2>3. Definition[e].auto /\ Definition[e].seeded => event[e].seed # None
    BY <1>1, <2>2, SlotAssumption DEF SlotAssumption, Replayable, SeedCommittedAt
  <2> QED
    BY <2>2, <2>3
<1>2. TypeOK /\ Replayable /\ [Next]_vars =>
        [\A e \in Events :
           event'[e].state = "resolved" /\ event[e].state # "resolved" =>
             /\ event[e].state = "locked"
             /\ event'[e].seed = event[e].seed
             /\ Definition[e].auto /\ Definition[e].seeded => event[e].seed # None]_vars
  BY <1>1
<1> QED
  BY <1>2, AlwaysReplayable, PTL DEF Spec, SeedCommittedFirst

-----------------------------------------------------------------------------
(* Notices.                                                                *)

NoticeAt(e) ==
  \A l \in Lifecycles :
    /\ posts[e][l] = IF narrative[e][l] = "published" THEN 1 ELSE 0
    /\ narrative[e][l] \in {"pending", "published"} => HasReached(e, l)

\* What an event has been through it has been through for good.
LEMMA ReachedStays ==
  ASSUME NEW e \in Events, NEW l \in Lifecycles, Moved(e), HasReached(e, l)
  PROVE  HasReached(e, l)'
BY DEF Moved, HasReached, Lifecycles, Lifecycle!CanMove, Lifecycle!CanTransition

\* A fact may only turn a notice of what its event now has been through into work.
LEMMA NoticesActivated ==
  ASSUME TypeOK, NEW e \in Events, NEW lifecycles, NoticeAt(e), Moved(e),
         narrative'[e] = Activated(e, lifecycles), posts'[e] = posts[e],
         \A l \in Lifecycles : l \in lifecycles => HasReached(e, l)'
  PROVE  NoticeAt(e)'
<1> SUFFICES ASSUME NEW l \in Lifecycles
             PROVE  /\ posts'[e][l] = IF narrative'[e][l] = "published" THEN 1 ELSE 0
                    /\ narrative'[e][l] \in {"pending", "published"} => HasReached(e, l)'
  BY DEF NoticeAt
<1>1. /\ posts[e][l] = IF narrative[e][l] = "published" THEN 1 ELSE 0
      /\ narrative[e][l] \in {"pending", "published"} => HasReached(e, l)
  BY DEF NoticeAt
<1>2. posts'[e][l] = posts[e][l]
  OBVIOUS
<1>3. CASE narrative'[e][l] = narrative[e][l]
  <2>1. HasReached(e, l) => HasReached(e, l)'
    BY ReachedStays
  <2> QED
    BY <1>1, <1>2, <1>3, <2>1
<1>4. CASE narrative'[e][l] # narrative[e][l]
  <2>1. l \in lifecycles /\ narrative[e][l] = "armed" /\ narrative'[e][l] = "pending"
    BY <1>4 DEF Activated
  <2> QED
    BY <1>1, <1>2, <2>1
<1> QED
  BY <1>3, <1>4

LEMMA NoticesStay ==
  ASSUME NEW e \in Events, NoticeAt(e), Moved(e), narrative'[e] = narrative[e],
         posts'[e] = posts[e]
  PROVE  NoticeAt(e)'
<1>1. \A l \in Lifecycles : HasReached(e, l) => HasReached(e, l)'
  BY ReachedStays
<1> QED
  BY <1>1 DEF NoticeAt

\* An event that does not exist yet has posted nothing.
LEMMA NoticesArmed ==
  ASSUME NEW e \in Events, NoticeAt(e), event[e].state = "absent", posts'[e] = posts[e],
         \A l \in Lifecycles : narrative'[e][l] \in {"armed", "none"}
  PROVE  NoticeAt(e)'
<1>1. \A l \in Lifecycles : ~HasReached(e, l)
  BY DEF HasReached, Lifecycles
<1>2. \A l \in Lifecycles : posts[e][l] = 0
  BY <1>1 DEF NoticeAt
<1> QED
  BY <1>2 DEF NoticeAt

LEMMA NoticeStep ==
  ASSUME TypeOK, Replayable, [Next]_vars, NEW e \in Events, NoticeAt(e)
  PROVE  NoticeAt(e)'
<1>1. Moved(e)
  BY MovedStep
<1>2. CASE UNCHANGED <<narrative, posts>>
  BY <1>1, <1>2, NoticesStay
<1>3. CASE Tick \/ PhaseCommand \/ UNCHANGED vars
  BY <1>2, <1>3
  DEF Tick, vars, PhaseCommand, StartGame, OpenDayPhase, AdvancePhase, AdvancePhaseByDeadline,
      EnterPhase, LockThread, UnlockThread, ResolvePhase, CompleteGame, eventVars
<1>4. ASSUME NEW program \in Programs, AttachDayProgram(program)
      PROVE  NoticeAt(e)'
  <2>1. posts'[e] = posts[e]
    BY <1>4 DEF AttachDayProgram
  <2>2. CASE e \in program
    <3>1. event[e].state = "absent" /\ \A l \in Lifecycles : narrative'[e][l] \in {"armed", "none"}
      BY <1>4, <2>2 DEF AttachDayProgram
    <3> QED
      BY <2>1, <3>1, NoticesArmed
  <2>3. CASE e \notin program
    BY <1>1, <1>4, <2>1, <2>3, NoticesStay DEF AttachDayProgram
  <2> QED
    BY <2>2, <2>3
<1>5. ASSUME NEW f \in Events, ScheduleDayEvent(f)
      PROVE  NoticeAt(e)'
  BY <1>2, <1>5 DEF ScheduleDayEvent
<1>6. ASSUME NEW f \in Events, NEW row, NEW lifecycle, SetEvent(f, row, lifecycle),
             lifecycle \in Lifecycles => HasReached(f, lifecycle)'
      PROVE  NoticeAt(e)'
  <2>1. posts'[e] = posts[e]
    BY <1>6, SetEventMoves
  <2>2. CASE e = f
    <3>1. narrative'[e] = Activated(e, {lifecycle})
      BY <1>6, <2>2, SetEventMoves
    <3>2. \A l \in Lifecycles : l \in {lifecycle} => HasReached(e, l)'
      BY <1>6, <2>2
    <3> QED
      BY <1>1, <2>1, <3>1, <3>2, NoticesActivated
  <2>3. CASE e # f
    BY <1>1, <1>6, <2>1, <2>3, SetEventMoves, NoticesStay
  <2> QED
    BY <2>2, <2>3
<1>7. ASSUME NEW f \in Events, OpenDayEvent(f) \/ CancelDayEvent(f)
      PROVE  NoticeAt(e)'
  <2>1. CASE OpenDayEvent(f)
    <3>1. SetEvent(f, [event[f] EXCEPT !.state = "open"], "opened")
      BY <2>1 DEF OpenDayEvent
    <3>2. event'[f].state = "open"
      <4>1. event'[f] = [event[f] EXCEPT !.state = "open"]
        BY <3>1, SetEventMoves
      <4> QED
        BY <4>1, RowFields DEF TypeOK
    <3>3. HasReached(f, "opened")'
      BY <3>2 DEF HasReached
    <3> QED
      BY <1>6, <3>1, <3>3
  <2>2. CASE CancelDayEvent(f)
    <3>1. SetEvent(f, [event[f] EXCEPT !.state = "cancelled"], "cancelled")
      BY <2>2 DEF CancelDayEvent
    <3>2. event'[f].state = "cancelled"
      <4>1. event'[f] = [event[f] EXCEPT !.state = "cancelled"]
        BY <3>1, SetEventMoves
      <4> QED
        BY <4>1, RowFields DEF TypeOK
    <3>3. HasReached(f, "cancelled")'
      BY <3>2 DEF HasReached
    <3> QED
      BY <1>6, <3>1, <3>3
  <2> QED
    BY <1>7, <2>1, <2>2
<1>8. ASSUME NEW f \in Events, NEW seed \in Seeds, LockDayEvent(f, seed)
      PROVE  NoticeAt(e)'
  <2>1. SetEvent(f, [event[f] EXCEPT !.state = "locked", !.seed = SeedFor(f, seed)], "locked")
    BY <1>8 DEF LockDayEvent
  <2>2. event'[f].state = "locked"
    <3>1. event'[f] = [event[f] EXCEPT !.state = "locked", !.seed = SeedFor(f, seed)]
      BY <2>1, SetEventMoves
    <3> QED
      BY <3>1, RowFields DEF TypeOK
  <2>3. HasReached(f, "locked")'
    BY <2>2 DEF HasReached
  <2> QED
    BY <1>6, <2>1, <2>3
<1>9. ASSUME NEW f \in Events, NEW winners \in SUBSET Slots, ResolveDayEvent(f, winners)
      PROVE  NoticeAt(e)'
  <2> DEFINE evidence == [seed |-> None, slots |-> participation[f]]
  <2>1. SetEvent(f, Resolved(f, winners, evidence), "resolved")
    BY <1>9 DEF ResolveDayEvent
  <2> HIDE DEF evidence
  <2>2. event'[f] = Resolved(f, winners, evidence)
    BY <2>1, SetEventMoves
  <2>3. event'[f].state = "resolved"
    BY <2>2, ResolvedFields
  <2>4. HasReached(f, "resolved")'
    BY <2>3 DEF HasReached
  <2> QED
    BY <1>6, <2>1, <2>4
<1>10. ASSUME NEW f \in Events, NEW s \in Slots,
              SubmitParticipation(f, s) \/ WithdrawParticipation(f, s)
       PROVE  NoticeAt(e)'
  BY <1>2, <1>10 DEF SubmitParticipation, WithdrawParticipation
<1>11. ASSUME NEW at \in 0..now, NEW seeds \in [Events -> Seeds], Mechanics(at, seeds)
       PROVE  NoticeAt(e)'
  <2>1. /\ narrative'[e] = Activated(e, Reached(e, at)) /\ posts'[e] = posts[e]
        /\ event'[e] = Observed(e, at, seeds[e])
    BY <1>11 DEF Mechanics
  <2>2. Opens(e, at) => e \notin PendingAuto
    BY DEF Opens, MayOpen, PendingAuto, IsPendingAuto
  <2>3. Locks(e, at) => e \notin PendingAuto
    BY <2>2 DEF Locks, MayLock, Opens, PendingAuto, IsPendingAuto
  <2>4. ASSUME NEW seed
        PROVE  /\ e \in PendingAuto => Observed(e, at, seed).state = "resolved"
               /\ Locks(e, at) => Observed(e, at, seed).state = "locked"
               /\ Opens(e, at) /\ ~Locks(e, at) => Observed(e, at, seed).state = "open"
    <3>1. e \in PendingAuto => Observed(e, at, seed).state = "resolved"
      <4> DEFINE chosen == SelectWinners(Definition[e], participation[e], event[e].seed)
                 evidence == [seed |-> event[e].seed, slots |-> participation[e]]
      <4>1. e \in PendingAuto => Observed(e, at, seed) = Resolved(e, chosen, evidence)
        BY ObservedFields
      <4> HIDE DEF chosen, evidence
      <4> QED
        BY <4>1, ResolvedFields
    <3>2. Locks(e, at) => Observed(e, at, seed).state = "locked"
      BY <2>3, ObservedFields
    <3>3. Opens(e, at) /\ ~Locks(e, at) => Observed(e, at, seed).state = "open"
      BY <2>2, ObservedFields
    <3> QED
      BY <3>1, <3>2, <3>3
  <2>5. \A l \in Lifecycles : l \in Reached(e, at) => HasReached(e, l)'
    <3>1. Opens(e, at) => HasReached(e, "opened")'
      BY <2>1, <2>4 DEF HasReached
    <3>2. Locks(e, at) => HasReached(e, "locked")'
      BY <2>1, <2>4 DEF HasReached
    <3>3. e \in PendingAuto => HasReached(e, "resolved")'
      BY <2>1, <2>4 DEF HasReached
    <3> QED
      BY <3>1, <3>2, <3>3 DEF Reached
  <2> QED
    BY <1>1, <2>1, <2>5, NoticesActivated
<1>12. CASE PublishNarratives
  <2>1. event' = event
        /\ \A l \in Lifecycles :
             /\ narrative'[e][l] = IF narrative[e][l] = "pending" THEN "published"
                                   ELSE narrative[e][l]
             /\ posts'[e][l] = IF narrative[e][l] = "pending" THEN posts[e][l] + 1
                               ELSE posts[e][l]
    BY <1>12 DEF PublishNarratives
  <2>2. \A l \in Lifecycles : HasReached(e, l) => HasReached(e, l)'
    BY <1>1, ReachedStays
  <2> QED
    BY <2>1, <2>2 DEF NoticeAt
<1> QED
  BY <1>3, <1>4, <1>5, <1>7, <1>8, <1>9, <1>10, <1>11, <1>12 DEF Next, Pass, EventCommand

\* However often a publication is retried, each lifecycle of an event is posted at
\* most once, and only after the event has been through it.
THEOREM NoticesAreOnce == Spec => []NoticeOncePerLifecycle
<1> DEFINE Notices == \A e \in Events : NoticeAt(e)
<1>1. Init => Notices
  BY DEF Init, NoticeAt
<1>2. TypeOK /\ Replayable /\ Notices /\ [Next]_vars => Notices'
  BY NoticeStep
<1>3. Notices => NoticeOncePerLifecycle
  BY DEF NoticeAt, NoticeOncePerLifecycle
<1> HIDE DEF Notices
<1> QED
  BY <1>1, <1>2, <1>3, AlwaysReplayable, PTL DEF Spec

-----------------------------------------------------------------------------
(* The lifecycle a DayEvent promises.                                      *)

LEMMA LifecycleStep ==
  ASSUME TypeOK, Replayable, [Next]_vars
  PROVE  [Lifecycle!Next]_(Lifecycle!lifecycleVars)
<1>1. CASE participation' = participation
  <2>1. \A e \in Events : Moved(e)
    BY MovedStep
  <2>2. ASSUME NEW e \in Events
        PROVE  /\ Lifecycle!CanMove(event[e].state, event'[e].state)
               /\ Lifecycle!WinnersNamed(e)
    BY <2>1 DEF Moved, Lifecycle!WinnersNamed
  <2>3. Lifecycle!Advance
    BY <1>1, <2>2 DEF Lifecycle!Advance
  <2> QED
    BY <2>3 DEF Lifecycle!Next
<1>2. ASSUME NEW e \in Events, NEW s \in Slots, SubmitParticipation(e, s)
      PROVE  Lifecycle!Next
  <2>1. Lifecycle!Enter(e, s)
    BY <1>2 DEF SubmitParticipation, Lifecycle!Enter
  <2> QED
    BY <2>1 DEF Lifecycle!Next
<1>3. ASSUME NEW e \in Events, NEW s \in Slots, WithdrawParticipation(e, s)
      PROVE  Lifecycle!Next
  <2>1. Lifecycle!Leave(e, s)
    BY <1>3 DEF WithdrawParticipation, Lifecycle!Leave
  <2> QED
    BY <2>1 DEF Lifecycle!Next
<1>4. \/ participation' = participation
      \/ \E e \in Events, s \in Slots : SubmitParticipation(e, s) \/ WithdrawParticipation(e, s)
  <2>1. CASE Tick \/ PhaseCommand \/ Pass \/ UNCHANGED vars
    BY <2>1
    DEF Tick, vars, PhaseCommand, StartGame, OpenDayPhase, AdvancePhase, AdvancePhaseByDeadline,
        EnterPhase, LockThread, UnlockThread, ResolvePhase, CompleteGame, eventVars, Pass,
        Mechanics, PublishNarratives
  <2>2. CASE EventCommand
    BY <2>2, SetEventMoves
    DEF EventCommand, AttachDayProgram, ScheduleDayEvent, OpenDayEvent, CancelDayEvent,
        LockDayEvent, ResolveDayEvent
  <2> QED
    BY <2>1, <2>2 DEF Next
<1> QED
  BY <1>1, <1>2, <1>3, <1>4

\* The write path of hosts, players and passes implements the lifecycle of an
\* event: states in order, entrants frozen by the lock, winners among them.
THEOREM RuntimeImplementsLifecycle == Spec => ImplementsLifecycle
<1>1. Init => Lifecycle!Init
  BY DEF Init, Lifecycle!Init
<1> QED
  BY <1>1, LifecycleStep, AlwaysReplayable, PTL DEF Spec, ImplementsLifecycle, Lifecycle!Spec

-----------------------------------------------------------------------------
(* Passes: one is enough for its observation time, and what its locks      *)
(* leave out of account.                                                   *)

\* No event is to be opened or locked at that observation time.
Settled(at) == \A e \in Events : ~Opens(e, at) /\ ~Locks(e, at)

LEMMA PassSettles ==
  ASSUME TypeOK, NEW at, NEW seeds, Mechanics(at, seeds)
  PROVE  /\ Settled(at)'
         /\ Settled(at) => \A e \in Events : event'[e] = event[e] \/ e \in PendingAuto
<1>1. UNCHANGED gameVars /\ \A e \in Events : event'[e] = Observed(e, at, seeds[e])
  BY DEF Mechanics
<1>2. ASSUME NEW e \in Events
      PROVE  ~Opens(e, at)' /\ ~Locks(e, at)'
  <2> DEFINE s == Definition[e].schedule
             scope == Definition[e].scope
             ctx == Context(at)
  <2>1. /\ Opens(e, at)' <=> MayOpen(s, scope, event'[e].state, ctx)
        /\ Locks(e, at)' <=> MayLock(s, scope, event'[e].state, ctx)
    BY <1>1 DEF Opens, Locks, Context, gameVars
  <2>2. /\ Opens(e, at) <=> MayOpen(s, scope, event[e].state, ctx)
        /\ Locks(e, at) <=> MayLock(s, scope, event[e].state, ctx)
    BY DEF Opens, Locks
  <2> HIDE DEF s, scope, ctx
  <2>3. PICK seed : event'[e] = Observed(e, at, seed)
    BY <1>1
  <2>4. CASE event'[e].state \in {"locked", "resolved"}
    BY <2>1, <2>4 DEF MayOpen, MayLock
  <2>5. CASE event'[e] = event[e] /\ ~Locks(e, at) /\ ~Opens(e, at)
    BY <2>1, <2>2, <2>5
  <2>6. CASE event'[e].state = "open" /\ ~Locks(e, at) /\ Opens(e, at)
    BY <2>1, <2>2, <2>6 DEF MayOpen, MayLock
  <2>7. CASE e \in PendingAuto
    <3>1. event'[e].state = "resolved"
      BY <2>3, <2>7, ResolvedFields DEF Observed
    <3> QED
      BY <2>4, <3>1
  <2>8. CASE e \notin PendingAuto /\ Locks(e, at)
    <3>1. event'[e].state = "locked"
      BY <2>3, <2>8, ObservedFields
    <3> QED
      BY <2>4, <3>1
  <2>9. CASE e \notin PendingAuto /\ ~Locks(e, at) /\ Opens(e, at)
    <3>1. event'[e].state = "open"
      BY <2>3, <2>9, ObservedFields
    <3> QED
      BY <2>6, <2>9, <3>1
  <2>10. CASE e \notin PendingAuto /\ ~Locks(e, at) /\ ~Opens(e, at)
    BY <2>3, <2>5, <2>10 DEF Observed
  <2> QED
    BY <2>7, <2>8, <2>9, <2>10
<1>3. ASSUME Settled(at), NEW e \in Events, e \notin PendingAuto
      PROVE  event'[e] = event[e]
  BY <1>1, <1>3 DEF Settled, Observed
<1> QED
  BY <1>2, <1>3 DEF Settled

\* One pass is enough: it leaves nothing to open or to lock at its observation
\* time, and a pass repeated with it, after a lost completion or by another
\* replica, does nothing but resolve automatic events that are locked already.
THEOREM PassesSettle ==
  Spec => [][\A at \in 0..now, seeds \in [Events -> Seeds] :
               Mechanics(at, seeds) =>
                 /\ Settled(at)'
                 /\ Settled(at) =>
                      \A e \in Events : event'[e] = event[e] \/ e \in PendingAuto]_vars
<1>1. TypeOK /\ [Next]_vars =>
        [\A at \in 0..now, seeds \in [Events -> Seeds] :
           Mechanics(at, seeds) =>
             /\ Settled(at)'
             /\ Settled(at) =>
                  \A e \in Events : event'[e] = event[e] \/ e \in PendingAuto]_vars
  BY PassSettles
<1> QED
  BY <1>1, DayRuntimeTypes, PTL DEF Spec

\* The definition locks its event without a host.
LocksItself(d) ==
  \/ d.scope.kind = "window"
  \/ d.schedule.kind = "absolute" /\ d.schedule.lockAt # None
  \/ d.schedule.kind = "relative" /\ d.schedule.lockOffset # None

LEMMA OnlySelfLocks ==
  ASSUME NEW e \in Events, NEW at, Locks(e, at)
  PROVE  LocksItself(Definition[e])
<1> DEFINE d == Definition[e]
<1>1. LockDue(d.schedule, d.scope, Context(at)) # {}
  BY DEF Locks, MayLock
<1> HIDE DEF d
<1>2. LockBoundary(d.schedule, Context(at)) # {} \/ ScopeBoundary(d.scope) # {}
  BY <1>1 DEF LockDue
<1>3. CASE ScopeBoundary(d.scope) # {}
  BY <1>3 DEF ScopeBoundary, LocksItself, d
<1>4. CASE LockBoundary(d.schedule, Context(at)) # {}
  <2>1. CASE d.schedule.kind = "absolute"
    BY <1>4, <2>1 DEF LockBoundary, Some, LocksItself, d
  <2>2. CASE d.schedule.kind = "relative"
    BY <1>4, <2>2 DEF LockBoundary, Some, LocksItself, d
  <2>3. CASE d.schedule.kind \notin {"absolute", "relative"}
    BY <1>4, <2>3 DEF LockBoundary
  <2> QED
    BY <2>1, <2>2, <2>3
<1> QED
  BY <1>2, <1>3, <1>4

LEMMA MinimumStep ==
  ASSUME TypeOK, LockHonoursMinimum, [Next]_vars, NEW e \in Events,
         ~LocksItself(Definition[e]), event'[e].state \in {"locked", "resolved"}
  PROVE  Cardinality(participation'[e]) >= Definition[e].minimum
<1>1. ASSUME participation'[e] = participation[e],
             event'[e] = event[e] \/ event[e].state = "locked"
      PROVE  Cardinality(participation'[e]) >= Definition[e].minimum
  BY <1>1 DEF LockHonoursMinimum
<1>2. ASSUME NEW f \in Events
      PROVE  /\ [event[f] EXCEPT !.state = "open"].state = "open"
             /\ [event[f] EXCEPT !.state = "cancelled"].state = "cancelled"
             /\ Scheduled(f).state = "scheduled"
  BY RowFields DEF TypeOK, Scheduled
<1>3. CASE Tick \/ PhaseCommand \/ PublishNarratives \/ UNCHANGED vars
  <2>1. UNCHANGED <<event, participation>>
    BY <1>3
    DEF Tick, PublishNarratives, vars, PhaseCommand, StartGame, OpenDayPhase, AdvancePhase,
        AdvancePhaseByDeadline, EnterPhase, LockThread, UnlockThread, ResolvePhase, CompleteGame,
        eventVars
  <2> QED
    BY <1>1, <2>1
<1>4. ASSUME NEW program \in Programs, AttachDayProgram(program)
      PROVE  Cardinality(participation'[e]) >= Definition[e].minimum
  <2>1. participation' = participation
        /\ event'[e] = IF e \in program THEN Scheduled(e) ELSE event[e]
    BY <1>4 DEF AttachDayProgram
  <2> QED
    BY <1>1, <1>2, <2>1
<1>5. ASSUME NEW f \in Events, ScheduleDayEvent(f)
      PROVE  Cardinality(participation'[e]) >= Definition[e].minimum
  <2>1. participation' = participation
        /\ event'[e] = IF e = f THEN Scheduled(e) ELSE event[e]
    BY <1>5 DEF ScheduleDayEvent, TypeOK
  <2> QED
    BY <1>1, <1>2, <2>1
<1>6. ASSUME NEW f \in Events, NEW row, NEW lifecycle, SetEvent(f, row, lifecycle),
             \/ row.state \in {"open", "cancelled"} \/ event[f].state = "locked"
             \/ Cardinality(participation[f]) >= Definition[f].minimum
      PROVE  Cardinality(participation'[e]) >= Definition[e].minimum
  <2>1. participation' = participation /\ event'[e] = IF e = f THEN row ELSE event[e]
    BY <1>6, SetEventMoves
  <2> QED
    BY <1>1, <1>6, <2>1
<1>7. ASSUME NEW f \in Events, OpenDayEvent(f) \/ CancelDayEvent(f)
      PROVE  Cardinality(participation'[e]) >= Definition[e].minimum
  <2>1. CASE OpenDayEvent(f)
    BY <1>2, <1>6, <2>1 DEF OpenDayEvent
  <2>2. CASE CancelDayEvent(f)
    BY <1>2, <1>6, <2>2 DEF CancelDayEvent
  <2> QED
    BY <1>7, <2>1, <2>2
<1>8. ASSUME NEW f \in Events, NEW seed \in Seeds, LockDayEvent(f, seed)
      PROVE  Cardinality(participation'[e]) >= Definition[e].minimum
  BY <1>6, <1>8 DEF LockDayEvent
<1>9. ASSUME NEW f \in Events, NEW chosen \in SUBSET Slots, ResolveDayEvent(f, chosen)
      PROVE  Cardinality(participation'[e]) >= Definition[e].minimum
  BY <1>6, <1>9 DEF ResolveDayEvent
<1>10. ASSUME NEW f \in Events, NEW s \in Slots,
              SubmitParticipation(f, s) \/ WithdrawParticipation(f, s)
       PROVE  Cardinality(participation'[e]) >= Definition[e].minimum
  <2>1. event' = event /\ event[f].state = "open"
    BY <1>10 DEF SubmitParticipation, WithdrawParticipation
  <2>2. e # f
    BY <2>1
  <2>3. participation'[e] = participation[e]
    BY <1>10, <2>2 DEF SubmitParticipation, WithdrawParticipation, TypeOK
  <2> QED
    BY <1>1, <2>1, <2>3
<1>11. ASSUME NEW at \in 0..now, NEW seeds \in [Events -> Seeds], Mechanics(at, seeds)
       PROVE  Cardinality(participation'[e]) >= Definition[e].minimum
  <2>1. participation' = participation
    BY <1>11 DEF Mechanics
  <2>2. PICK seed : event'[e] = Observed(e, at, seed)
    BY <1>11 DEF Mechanics
  <2>3. ~Locks(e, at)
    BY OnlySelfLocks
  <2>4. e \in PendingAuto => event[e].state = "locked"
    BY DEF PendingAuto, IsPendingAuto
  <2> QED
    BY <1>1, <2>1, <2>2, <2>3, <2>4, ObservedFields
<1> QED
  BY <1>3, <1>4, <1>5, <1>7, <1>8, <1>9, <1>10, <1>11 DEF Next, Pass, EventCommand

\* "DayEvent requires at least {} participants before lock" holds of a game whose
\* events with a minimum are locked by their host only: the commands keep the
\* promise, whatever is withdrawn, repeated or resolved in between, and the locks
\* of the schedule are all there is against it.
THEOREM HostLocksHonourMinimum ==
  ASSUME \A e \in Events : LocksItself(Definition[e]) => Definition[e].minimum = 0
  PROVE  Spec => []LockHonoursMinimum
<1>1. Init => LockHonoursMinimum
  BY DEF Init, LockHonoursMinimum
<1>2. ASSUME TypeOK, TypeOK', LockHonoursMinimum, [Next]_vars
      PROVE  LockHonoursMinimum'
  <2> SUFFICES ASSUME NEW e \in Events, event'[e].state \in {"locked", "resolved"}
               PROVE  Cardinality(participation'[e]) >= Definition[e].minimum
    BY DEF LockHonoursMinimum
  <2>1. CASE LocksItself(Definition[e])
    <3>1. participation'[e] \in SUBSET Slots
      BY <1>2 DEF TypeOK
    <3>2. Cardinality(participation'[e]) \in Nat
      BY <3>1, FS_Subset, FS_CardinalityType, SlotAssumption DEF SlotAssumption
    <3> QED
      BY <2>1, <3>2
  <2>2. CASE ~LocksItself(Definition[e])
    BY <1>2, <2>2, MinimumStep
  <2> QED
    BY <2>1, <2>2
<1> QED
  BY <1>1, <1>2, DayRuntimeTypes, PTL DEF Spec

=============================================================================
