----------------------------- MODULE DayRuntime -----------------------------
(***************************************************************************)
(* The DayEvent write path of one game: the host and player commands, the  *)
(* phase commands that feed the schedule, the two transactions of a        *)
(* scheduler pass, and the projected rows they fold in the same            *)
(* transaction, the work-index row included.                               *)
(*                                                                         *)
(* Every command and both scheduler transactions take the game's stream    *)
(* advisory lock before they read anything and append, fold and commit     *)
(* under it, so each is one atomic action here. What interleaves is the    *)
(* transactions, and the observation time of a pass, which is read before  *)
(* the lock is waited for.                                                 *)
(***************************************************************************)
EXTENDS DaySchedule, FiniteSetsExt

CONSTANTS
  Events,      \* DayEvent ids
  Definition,  \* the immutable definition of every event
  Programs,    \* day programs: disjoint sets of events attached together
  Slots,       \* player slots
  SlotOrder,   \* the canonical order of slot ids
  Seeds,       \* audit seeds
  SeededRank,  \* the keyed-digest order of the slots under every seed
  MaxTime,     \* bound on the clock
  MaxWakes     \* bound on the facts that advance the wake cursor

Lifecycles == {"opened", "locked", "resolved", "cancelled"}

Definitions ==
  [schedule : Schedules, scope : Scopes,
   auto : BOOLEAN, seeded : BOOLEAN, winners : Nat \ {0},
   minimum : Nat, maximum : Optional(Nat), narratives : SUBSET Lifecycles]

\* DayEvent::validate. Only a program compiles narratives for its events.
ValidDefinition(d) ==
  /\ ValidSchedule(d.schedule) /\ ValidScope(d.scope)
  /\ d.auto => d.minimum >= d.winners

ASSUME EventAssumption ==
  /\ IsFiniteSet(Events)
  /\ Definition \in [Events -> Definitions]
  /\ \A e \in Events : ValidDefinition(Definition[e])
  /\ Programs \subseteq SUBSET Events
  /\ \A e \in Events \ UNION Programs : Definition[e].narratives = {}

ASSUME SlotAssumption ==
  /\ IsFiniteSet(Slots) /\ None \notin Seeds
  /\ SlotOrder \in [Slots -> Int]
  /\ SeededRank \in [Seeds -> [Slots -> Int]]
  /\ \A rank \in {SlotOrder} \cup {SeededRank[d] : d \in Seeds} :
       \A s, t \in Slots : rank[s] = rank[t] => s = t

ASSUME BoundAssumption == MaxTime \in Nat /\ MaxWakes \in Nat

VARIABLES
  now,            \* the clock every process reads, unix seconds
  status,         \* game_index.status
  phase,          \* the phase_state row: id, locked, openedAt; None before one
  timeline,       \* what the stream says of phases: anchor, signals, resolutions
  event,          \* the day_event rows
  participation,  \* the day_event_participation rows
  narrative,      \* day_event_narrative.status
  posts,          \* how many PostSubmitted notices each narrative has produced
  work            \* the day_event_schedule_work row, None when there is none

vars ==
  <<now, status, phase, timeline, event, participation, narrative, posts, work>>

PhaseRows == [id : Phases, locked : BOOLEAN, openedAt : Optional(Int)]

\* applied: phases with any ResolutionApplied; official: the phase of the last
\* official one, which is what a resolve command checks.
Timelines ==
  [anchor : Anchors, signals : SUBSET Signals,
   applied : SUBSET Phases, official : Optional(Phases)]

Evidence == [seed : Optional(Seeds), slots : SUBSET Slots]

EventRows ==
  [state : States \cup {"absent"}, openDueAt : Optional(Int),
   lockDueAt : Optional(Int), seed : Optional(Seeds),
   winners : SUBSET Slots, evidence : Optional(Evidence)]

WorkRows ==
  [due : Optional(Int), wake : Nat, auto : BOOLEAN, narrative : BOOLEAN]

ASSUME RowAssumption == None \notin PhaseRows /\ None \notin WorkRows

\* Types, and the CHECK of day_event that a due time is recorded once observed.
TypeOK ==
  /\ now \in 0..MaxTime
  /\ status \in {"setup", "active", "completed"}
  /\ phase \in Optional(PhaseRows)
  /\ timeline \in Timelines
  /\ event \in [Events -> EventRows]
  /\ participation \in [Events -> SUBSET Slots]
  /\ narrative \in [Events -> [Lifecycles -> {"none", "armed", "pending", "published"}]]
  /\ posts \in [Events -> [Lifecycles -> Nat]]
  /\ work \in Optional(WorkRows)
  /\ \A e \in Events :
       \A due \in Some(event[e].openDueAt) \cup Some(event[e].lockDueAt) : due <= now

-----------------------------------------------------------------------------
(* The work index: refresh_day_event_schedule_work.                        *)

PhaseId(row) == IF row = None THEN None ELSE row.id
OpenedAt(row) == IF row = None THEN None ELSE row.openedAt

\* Boundaries of one row, as the projection sees them.
Boundaries(e, row, phaseRow) ==
  NextObservation(Definition[e].schedule, Definition[e].scope, row.state,
                  PhaseId(phaseRow), OpenedAt(phaseRow), row.openDueAt)

EarliestOf(S) == IF S = {} THEN None ELSE Min(S)

IsPendingAuto(e, row) == row.state = "locked" /\ Definition[e].auto

RowFor(rows, narratives, phaseRow, wake) ==
  [due |-> EarliestOf(UNION {Boundaries(e, rows[e], phaseRow) : e \in Events}),
   wake |-> wake,
   auto |-> \E e \in Events : IsPendingAuto(e, rows[e]),
   narrative |-> \E e \in Events, l \in Lifecycles : narratives[e][l] = "pending"]

Wake == IF work = None THEN 0 ELSE work.wake

\* Mutant of Refresh: every scheduled fact counts as a wake.
RefreshAlwaysWaking == work' = RowFor(event', narrative', phase', Wake + 1)

\* A fact that can change what is due refreshes the row in its transaction.
Refresh == work' = RowFor(event', narrative', phase', Wake)

\* Phase facts and new events also advance the wake cursor.
RefreshAndWake ==
  /\ Wake < MaxWakes
  /\ work' = RowFor(event', narrative', phase', Wake + 1)

-----------------------------------------------------------------------------
Init ==
  /\ now = 0
  /\ status = "setup"
  /\ phase = None
  /\ timeline = [anchor |-> [p \in Phases |-> None], signals |-> {},
                 applied |-> {}, official |-> None]
  /\ event = [e \in Events |->
                [state |-> "absent", openDueAt |-> None, lockDueAt |-> None,
                 seed |-> None, winners |-> {}, evidence |-> None]]
  /\ participation = [e \in Events |-> {}]
  /\ narrative = [e \in Events |-> [l \in Lifecycles |-> "none"]]
  /\ posts = [e \in Events |-> [l \in Lifecycles |-> 0]]
  /\ work = None

Tick ==
  /\ now < MaxTime
  /\ now' = now + 1
  /\ UNCHANGED <<status, phase, timeline, event, participation, narrative, posts, work>>

eventVars == <<event, participation, narrative, posts>>

NotCompleted == status # "completed"

-----------------------------------------------------------------------------
(* Phase commands.                                                         *)

\* The stream facts that say a phase is now open, and their folds.
EnterPhase(p, openedAt) ==
  /\ phase' = [id |-> p, locked |-> FALSE, openedAt |-> openedAt]
  /\ timeline' = [timeline EXCEPT
       !.anchor[p] = openedAt,
       !.signals = @ \cup {[kind |-> "opened", phase |-> p]}]
  /\ UNCHANGED <<now, eventVars>>
  /\ RefreshAndWake

StartGame(p) ==
  /\ NotCompleted
  /\ status' = "active"
  /\ EnterPhase(p, now)

\* OpenDayPhase names its phase freely, an earlier one included.
OpenDayPhase(p) ==
  /\ NotCompleted
  /\ EnterPhase(p, now)
  /\ UNCHANGED status

\* resolved_locked_phase_stream accepts any resolution envelope of the phase.
Advanceable ==
  /\ NotCompleted
  /\ phase # None
  /\ phase.locked
  /\ phase.id \in timeline.applied
  /\ NextPhase[phase.id] # None

AdvancePhase ==
  /\ Advanceable
  /\ EnterPhase(NextPhase[phase.id], now)
  /\ UNCHANGED status

\* The caller supplies the observation time, which becomes the phase anchor.
AdvancePhaseByDeadline(observedAt) ==
  /\ Advanceable
  /\ EnterPhase(NextPhase[phase.id], observedAt)
  /\ UNCHANGED status

LockThread ==
  /\ NotCompleted
  /\ phase # None /\ ~phase.locked
  /\ phase' = [phase EXCEPT !.locked = TRUE]
  /\ timeline' = [timeline EXCEPT
       !.signals = @ \cup {[kind |-> "locked", phase |-> phase.id]}]
  /\ UNCHANGED <<now, status, eventVars>>
  /\ RefreshAndWake

UnlockThread ==
  /\ NotCompleted
  /\ phase # None /\ phase.locked
  /\ phase' = [phase EXCEPT !.locked = FALSE]
  /\ UNCHANGED <<now, status, timeline, eventVars, work>>

\* The resolution envelope and the lock it appends are one transaction.
ResolvePhase ==
  /\ NotCompleted
  /\ phase # None /\ ~phase.locked
  /\ timeline.official # phase.id
  /\ phase' = [phase EXCEPT !.locked = TRUE]
  /\ timeline' = [timeline EXCEPT
       !.signals = @ \cup {[kind |-> k, phase |-> phase.id] : k \in {"locked", "resolved"}},
       !.applied = @ \cup {phase.id},
       !.official = phase.id]
  /\ UNCHANGED <<now, status, eventVars>>
  /\ RefreshAndWake

CompleteGame ==
  /\ NotCompleted
  /\ status' = "completed"
  /\ work' = None
  /\ UNCHANGED <<now, phase, timeline, eventVars>>

-----------------------------------------------------------------------------
(* Host and player DayEvent commands.                                      *)

gameVars == <<now, status, phase, timeline>>

Scheduled(e) == [event[e] EXCEPT !.state = "scheduled"]

\* Only a program carries narrative templates.
ScheduleDayEvent(e) ==
  /\ NotCompleted
  /\ event[e].state = "absent" /\ Definition[e].narratives = {}
  /\ event' = [event EXCEPT ![e] = Scheduled(e)]
  /\ UNCHANGED <<gameVars, participation, narrative, posts>>
  /\ RefreshAndWake

AttachDayProgram(program) ==
  /\ NotCompleted
  /\ \A e \in program : event[e].state = "absent"
  /\ event' = [e \in Events |-> IF e \in program THEN Scheduled(e) ELSE event[e]]
  /\ narrative' = [e \in Events |->
       IF e \in program
         THEN [l \in Lifecycles |-> IF l \in Definition[e].narratives THEN "armed" ELSE "none"]
         ELSE narrative[e]]
  /\ UNCHANGED <<gameVars, participation, posts>>
  /\ RefreshAndWake

\* activate_day_event_narrative: a lifecycle fact turns its armed narrative into
\* pending work.
Activated(e, lifecycles) ==
  [l \in Lifecycles |->
     IF l \in lifecycles /\ narrative[e][l] = "armed" THEN "pending" ELSE narrative[e][l]]

SetEvent(e, row, lifecycle) ==
  /\ event' = [event EXCEPT ![e] = row]
  /\ narrative' = [narrative EXCEPT ![e] = Activated(e, {lifecycle})]
  /\ UNCHANGED <<gameVars, participation, posts>>
  /\ Refresh

OpenDayEvent(e) ==
  /\ NotCompleted
  /\ event[e].state = "scheduled"
  /\ Definition[e].schedule.kind = "host" /\ Definition[e].scope.kind # "window"
  /\ phase # None /\ ScopeCanOpen(Definition[e].scope, phase.id)
  /\ SetEvent(e, [event[e] EXCEPT !.state = "open"], "opened")

\* auto_seed_for_resolution: only a seeded automatic policy captures the seed.
SeedFor(e, seed) ==
  IF Definition[e].auto /\ Definition[e].seeded THEN seed ELSE None

LockDayEvent(e, seed) ==
  /\ NotCompleted
  /\ event[e].state = "open"
  /\ Cardinality(participation[e]) >= Definition[e].minimum
  /\ SetEvent(e, [event[e] EXCEPT !.state = "locked", !.seed = SeedFor(e, seed)], "locked")

\* Mutant of CancelDayEvent: the cancellation is not a fact of the work index.
CancelWithoutRefresh(e) ==
  /\ NotCompleted
  /\ event[e].state \in {"scheduled", "open", "locked"}
  /\ event' = [event EXCEPT ![e].state = "cancelled"]
  /\ narrative' = [narrative EXCEPT ![e] = Activated(e, {"cancelled"})]
  /\ UNCHANGED <<gameVars, participation, posts, work>>

CancelDayEvent(e) ==
  /\ NotCompleted
  /\ event[e].state \in {"scheduled", "open", "locked"}
  /\ SetEvent(e, [event[e] EXCEPT !.state = "cancelled"], "cancelled")

SubmitParticipation(e, s) ==
  /\ NotCompleted
  /\ event[e].state = "open"
  /\ s \notin participation[e]
  /\ Definition[e].maximum # None => Cardinality(participation[e]) < Definition[e].maximum
  /\ participation' = [participation EXCEPT ![e] = @ \cup {s}]
  /\ UNCHANGED <<gameVars, event, narrative, posts, work>>

\* Mutant of WithdrawParticipation: the event need not be open any more.
WithdrawAnyTime(e, s) ==
  /\ NotCompleted
  /\ s \in participation[e]
  /\ participation' = [participation EXCEPT ![e] = @ \ {s}]
  /\ UNCHANGED <<gameVars, event, narrative, posts, work>>

WithdrawParticipation(e, s) ==
  /\ NotCompleted
  /\ event[e].state = "open"
  /\ s \in participation[e]
  /\ participation' = [participation EXCEPT ![e] = @ \ {s}]
  /\ UNCHANGED <<gameVars, event, narrative, posts, work>>

\* Mutant of Resolved: the resolution draws its own seed.
ResolvedWithFreshSeed(e, winners, evidence) ==
  [event[e] EXCEPT !.state = "resolved", !.winners = winners, !.evidence = evidence,
                   !.seed = CHOOSE seed \in Seeds : seed # event[e].seed]

Resolved(e, winners, evidence) ==
  [event[e] EXCEPT !.state = "resolved", !.winners = winners, !.evidence = evidence]

ResolveDayEvent(e, winners) ==
  /\ NotCompleted
  /\ event[e].state = "locked" /\ ~Definition[e].auto
  /\ winners # {} /\ winners \subseteq participation[e]
  /\ SetEvent(e, Resolved(e, winners, [seed |-> None, slots |-> participation[e]]),
              "resolved")

-----------------------------------------------------------------------------
(* The scheduler pass: a mechanics transaction, then a narrative one.      *)

Context(at) ==
  [now |-> at, phase |-> phase.id,
   anchor |-> timeline.anchor, signals |-> timeline.signals]

Opens(e, at) ==
  MayOpen(Definition[e].schedule, Definition[e].scope, event[e].state, Context(at))

Locks(e, at) ==
  MayLock(Definition[e].schedule, Definition[e].scope, event[e].state, Context(at))

\* select_winners: the lowest of the canonical or of the seeded order.
SelectWinners(d, slots, seed) ==
  LET rank == IF d.seeded THEN SeededRank[seed] ELSE SlotOrder
  IN {s \in slots : Cardinality({t \in slots : rank[t] < rank[s]}) < d.winners}

\* Locked automatic events as they were when the transaction began.
PendingAuto == {e \in Events : IsPendingAuto(e, event[e])}

\* A recorded due time is never overwritten (COALESCE).
Recorded(old, due) == IF old = None THEN EarliestOf(due) ELSE old

\* The row of one event after the pass's facts are folded.
Observed(e, at, seed) ==
  LET d == Definition[e]
      row == event[e]
      opened == IF ~Opens(e, at) THEN row ELSE
        [row EXCEPT !.state = "open",
                    !.openDueAt = Recorded(@, OpeningDue(d.schedule, Context(at)))]
  IN IF e \in PendingAuto
       THEN Resolved(e, SelectWinners(d, participation[e], row.seed),
                     [seed |-> row.seed, slots |-> participation[e]])
     ELSE IF ~Locks(e, at) THEN opened ELSE
       [opened EXCEPT !.state = "locked", !.seed = SeedFor(e, seed),
                      !.lockDueAt = Recorded(@, LockDue(d.schedule, d.scope, Context(at)))]

Reached(e, at) ==
  (IF Opens(e, at) THEN {"opened"} ELSE {})
    \cup (IF Locks(e, at) THEN {"locked"} ELSE {})
    \cup (IF e \in PendingAuto THEN {"resolved"} ELSE {})

\* Mutant of MechanicsSucceed: too few participants are not an error.
MechanicsAlwaysSucceed == NotCompleted /\ phase # None

\* The transaction rolls back as a whole when the game has no phase or when an
\* automatic event has too few participants to select from.
MechanicsSucceed ==
  /\ NotCompleted
  /\ phase # None
  /\ \A e \in PendingAuto : Cardinality(participation[e]) >= Definition[e].winners

\* `at` is the pass's observation time, read before the transaction.
Mechanics(at, seeds) ==
  /\ MechanicsSucceed
  /\ event' = [e \in Events |-> Observed(e, at, seeds[e])]
  /\ narrative' = [e \in Events |-> Activated(e, Reached(e, at))]
  /\ UNCHANGED <<gameVars, participation, posts>>
  /\ IF \E e \in Events : Reached(e, at) # {} THEN Refresh ELSE UNCHANGED work

\* Mutant of PublishNarratives: the notices are posted without their receipts.
PublishWithoutReceipts ==
  /\ NotCompleted
  /\ phase # None
  /\ posts' = [e \in Events |-> [l \in Lifecycles |->
       posts[e][l] + IF narrative[e][l] = "pending" THEN 1 ELSE 0]]
  /\ UNCHANGED <<gameVars, event, participation, narrative, work>>

\* Every pending narrative is posted in the current phase and marked published,
\* all or none.
PublishNarratives ==
  /\ NotCompleted
  /\ phase # None
  /\ LET pending(e, l) == narrative[e][l] = "pending"
     IN /\ narrative' = [e \in Events |-> [l \in Lifecycles |->
             IF pending(e, l) THEN "published" ELSE narrative[e][l]]]
        /\ posts' = [e \in Events |-> [l \in Lifecycles |->
             IF pending(e, l) THEN posts[e][l] + 1 ELSE posts[e][l]]]
        /\ UNCHANGED <<gameVars, event, participation>>
        /\ IF \E e \in Events, l \in Lifecycles : pending(e, l) THEN Refresh
           ELSE UNCHANGED work

-----------------------------------------------------------------------------
PhaseCommand ==
  \/ \E p \in Phases : StartGame(p) \/ OpenDayPhase(p)
  \/ AdvancePhase
  \/ \E at \in 0..MaxTime : AdvancePhaseByDeadline(at)
  \/ LockThread
  \/ UnlockThread
  \/ ResolvePhase
  \/ CompleteGame

EventCommand ==
  \/ \E program \in Programs : AttachDayProgram(program)
  \/ \E e \in Events :
       \/ ScheduleDayEvent(e)
       \/ OpenDayEvent(e)
       \/ \E seed \in Seeds : LockDayEvent(e, seed)
       \/ CancelDayEvent(e)
       \/ \E s \in Slots : SubmitParticipation(e, s) \/ WithdrawParticipation(e, s)
       \/ \E winners \in SUBSET Slots : ResolveDayEvent(e, winners)

\* A lease does not guard a pass: any replica may run one at any time, with an
\* observation time that is as old as its wait for the stream lock.
Pass ==
  \/ \E at \in 0..now, seeds \in [Events -> Seeds] : Mechanics(at, seeds)
  \/ PublishNarratives

Next == Tick \/ PhaseCommand \/ EventCommand \/ Pass

Spec == Init /\ [][Next]_vars

-----------------------------------------------------------------------------
(* Properties.                                                             *)

\* The index is maintained incrementally, fact by fact; it always equals the
\* row a full scan of the projected events would build.
WorkRowCurrent ==
  work # None => work = RowFor(event, narrative, phase, work.wake)

\* An automatic resolution can be replayed from its evidence: the frozen
\* entrants and the seed committed by the lock select exactly those winners.
EvidenceReplays ==
  \A e \in Events :
    LET d == Definition[e]  row == event[e]  evidence == row.evidence IN
    row.state = "resolved" /\ d.auto =>
      /\ evidence.slots = participation[e]
      /\ evidence.seed = row.seed
      /\ row.winners = SelectWinners(d, evidence.slots, evidence.seed)
      /\ Cardinality(row.winners) = d.winners

\* The seed is durable before the resolution that uses it: a pass that fails or
\* is repeated between the two draws the same winners.
SeedCommittedFirst ==
  [][\A e \in Events :
       event'[e].state = "resolved" /\ event[e].state # "resolved" =>
         /\ event[e].state = "locked"
         /\ event'[e].seed = event[e].seed
         /\ Definition[e].auto /\ Definition[e].seeded => event[e].seed # None]_vars

HasReached(e, lifecycle) ==
  \/ lifecycle = "opened" /\ event[e].state \notin {"absent", "scheduled"}
  \/ lifecycle = "locked" /\ event[e].state \in {"locked", "resolved", "cancelled"}
  \/ lifecycle = event[e].state

\* A lifecycle notice is posted at most once however often the publication is
\* retried, and only for a lifecycle its event has been through.
NoticeOncePerLifecycle ==
  \A e \in Events, l \in Lifecycles :
    /\ posts[e][l] = IF narrative[e][l] = "published" THEN 1 ELSE 0
    /\ narrative[e][l] \in {"pending", "published"} => HasReached(e, l)

\* No event is locked with fewer participants than its definition requires:
\* "DayEvent requires at least {} participants before lock". Only lock_day_event
\* looks; the observation of a lock time does not, so it holds (and is proved) of
\* games whose events with a minimum have no lock of their own.
LockHonoursMinimum ==
  \A e \in Events :
    event[e].state \in {"locked", "resolved"} =>
      Cardinality(participation[e]) >= Definition[e].minimum

Lifecycle ==
  INSTANCE DayEventLifecycle WITH
    state <- [e \in Events |-> event[e].state],
    entrants <- participation,
    winners <- [e \in Events |-> event[e].winners]

\* The runtime implements the lifecycle a DayEvent promises.
ImplementsLifecycle == Lifecycle!Spec

=============================================================================
