# A TLA+ development of fmarch

fmarch runs forum mafia games: an event-sourced game engine in Rust over PostgreSQL, an
HTTP API with live updates, identity, forum, membership and media services, and a
browser frontend. This directory models the parts of it whose correctness depends on
order: several replicas, transactions, clocks, leases, retries and crashes. The modules
are checked with TLC and the theorems about them with TLAPS.

Contents: inventory, modules, correspondence with the code, runs, what the runs show
that is wrong, proofs, what is not covered, plan.

## 1. Inventory

The program is a set of crates under `src/crates`. They share one database; a command is
one transaction that takes the advisory lock of a stream, appends events under an
expected version and folds them into projections before it commits.

| Component | State it keeps | Operations | Interacts with | What makes it correct |
|---|---|---|---|---|
| DayEvent schedule rules (`game_platform/day_schedule.rs`) | none, pure | `evaluate`, `next_observation_at` | called by the write path and by the projection fold | both answer the same question: a boundary is stored exactly when a pass would act on it |
| DayEvent write path (`commands/day_runtime.rs`, `day_program.rs`) | `day_event`, participation, narratives, evidence | host and player commands, the two automation transactions | appends to the game stream, folds projections | every event walks its state machine; entrants frozen by the lock; results replayable; notices once |
| DayEvent scheduler (`commands/day_scheduler.rs`, `server/runtime_supervisor.rs`) | `day_event_scheduler_state`, worker loops | claim, pass, finish, back off | reads the work index, calls the write path | no work lost, no lease released by a late statement, retries back off |
| Projections (`projections`) | all read models, the work index `day_event_schedule_work` | one fold per event kind | inside the transaction of the command | incremental rows equal a rebuild |
| Phase and game lifecycle (`commands/lib.rs`, `domain/phase.rs`) | `game_index`, `phase_state` | start, open day, advance, lock, unlock, resolve, complete | feed the DayEvent schedule | phases follow the cadence; a completed game changes no more |
| Command pipeline (`commands/lib.rs`, `command_transport`) | `command_receipts` | claim or replay a receipt, validate, persist | every command | a retried command takes effect once |
| Action submission, host prompts (`commands`) | submissions, prompts | submit, withdraw, answer | resolver input | one answer per prompt, the latest valid action counts |
| Resolver and packs (`domain`) | none, deterministic | resolve a phase over a pack | called by the lifecycle commands | determinism, order independence where promised |
| Event store and key lifecycle (`eventstore`) | events, snapshots, wrapped keys, key registry | append with expected version, seal, rotate, rewrap, retire a key | every writer | no gap in a stream, no envelope under a retired key |
| Live delivery (`api/live_delivery.rs`, `live_projection.rs`) | sessions, cursors, in-flight count, broadcast channel | publish, receive, poll, resynchronise | command handler, page; NOTIFY between replicas | a client catches up with what was committed |
| Identity delivery (`api/identity_delivery.rs`) | mail outbox with leases | claim, revalidate, send, finalise | a mail provider | at most one live message per intent, none after revocation |
| Subject privacy (`identity/subject_privacy.rs`) | erasure requests, key authority | claim, destroy, finalise | an external key authority | erased data stays unreadable, requests finish |
| Sessions and members (`identity`) | sessions, credentials | login, rotate, revoke | HTTP boundary | a revoked session is refused |
| Forum (`forum*`) | topic aggregate | post, edit, moderate | journal with expected version | the aggregate is a fold of its journal |
| Memberships (`membership_application`, `community_membership`) | invitations, memberships | invite, redeem, revoke | quota | quota respected, one redemption |
| Attention, social, profiles, trust and safety, personas | their tables | single-transaction updates | projections | counters equal their facts |
| Media (`media`) | object store, manifests | upload, derive, read | object storage | a manifest refers to stored objects |
| Server (`server`) | admission slots, worker tasks | admit, supervise, shut down | all of the above | slots returned, workers stopped |
| Capabilities, codecs, wire types, content registry | none | pure functions | everywhere | round trips |
| Live transport (`frontend/.../live-transport.mjs`) | establishment, socket, reconnect timer | ask a ticket, open, recover, apply, reconnect | live delivery, projection store | one thing, and only one, brings the next socket about |
| Projection store (`frontend/.../projection-store.mjs`) | snapshot, health, owners, epoch | refresh, apply, invalidate, revoke | read endpoints, live transport, page | ready means fresh, revoked means gone |
| Player command recovery (`frontend/.../g/[game]/+page.svelte`, `player-route-controller.mjs`, `command-*.mjs`) | recovery attempts, session storage, command status | submit, retry, cancel, reload | command endpoint, projection store | an unknown outcome is neither forgotten nor repeated under a new id |
| Rest of the frontend, tools, packs, infrastructure | outside the server | | | not modelled |

The behaviours that are hard to test: replicas that poll one table; statements that
execute after their sender stopped waiting; observation times older than the lock they
are used under; work indices and counters maintained incrementally; external effects
between two transactions (mail, key destruction, objects); cursors that run ahead of
what was sent; a browser that does not know whether its command took effect; reads that
overlap, or that answer after authority was lost. `PROJECT.json` lists them as hazards
with their lines and the property that covers each, or why none does.

The DayEvent automation comes first: it has five of these behaviours at once, it runs
without a person watching, and its failure is silent (an event that never opens). The
way of a player's command comes second: page, endpoint, log, live delivery and back to
the page, over a network that may lose any part of it.

## 2. Modules

    DaySchedule            pure rules: evaluate and next_observation_at
      DayScheduleProofs    where the two agree, for every input
      DayRuntime           commands, phases, passes and the work index of one game
        DayRuntimeProofs   its properties and the refinement, for every instance
        DayEventLifecycle  what a DayEvent promises (abstract)
        DayScheduler       DayRuntime with the workers and the lease (composition)
          DaySchedulerProofs   its runs are runs of both, and no work is lost
    DayLease               claim, pass, fenced completion, any number of games and workers
      DayLeaseProofs       its safety properties, for every instance
    MCDayRuntime, MCDayScheduler, MCDayLease   small instances for TLC

    KekRetirement            retirement of runtime key-encryption keys (eventstore)
      KekRetirementProofs    its six properties, for every instance
    MCKekRetirement          small instance for TLC

    PageView                 what a game page's store promises (abstract)
      ProjectionStore        the store; implements PageView
        ProjectionStoreProofs  its six properties and the refinement, for every instance
      PlayerCommands         a player's commands: page, endpoint, log; uses PageView as its store
        PlayerCommandsProofs   its five invariants, for every instance
    LiveDelivery             writers, websocket session and the page's live connection
      LiveDeliveryProofs     its four invariants, for every instance
    MCProjectionStore, MCPlayerCommands, MCLiveDelivery   small instances for TLC

`DayScheduler` INSTANCEs `DayLease` with `rows <- LeaseRow`, so the lease protocol is
written once: the composition conjoins its worker actions with the transactions of
`DayRuntime`, and `ImplementsLease` states that the result is a run of `DayLease!Spec`
(checked and proved).
`DayRuntime!ImplementsLifecycle` is a refinement of `DayEventLifecycle` with the event
states, participation and winners as mapping, checked and proved. `PageView` stands
between two components: `ProjectionStore` implements it (`KeepsViewPromise`, checked and
proved), and `PlayerCommands` is built on it, so that what is shown of a command holds
for the store as it is. Its liveness, that a refresh is settled, is an assumption of
`PlayerCommands`: it is the deadline of `executeCommandProjectionRecovery`, not the
store's.

## 3. How the modules correspond to the code

**Atomicity.** `commands` acquires the advisory lock of the game stream before it reads;
both scheduler transactions do the same. Each is one action. What is not atomic is kept
apart: a pass is `ReadClock`, `Claim`, `MechanicsPass`, `NarrativePass`, `Report`,
`Execute`, with anything between any two of them.

**DaySchedule.** An `Option<i64>` is a set of at most one element; a minimum over
options becomes a union. `OpeningBoundary`/`LockBoundary` are `opening_due` and
`lock_due` before their comparison with the clock. The checked additions that fail on
`i64` overflow are ordinary additions here, with small values.

**DayRuntime.** One action per command: `ScheduleDayEvent`, `AttachDayProgram`,
`OpenDayEvent`, `LockDayEvent`, `CancelDayEvent`, `SubmitParticipation`,
`WithdrawParticipation`, `ResolveDayEvent`, `StartGame`, `OpenDayPhase`, `AdvancePhase`,
`AdvancePhaseByDeadline`, `LockThread`, `UnlockThread`, `ResolvePhase`, `CompleteGame`.
`Mechanics` is the whole mechanics transaction over all events of the game (observe
every schedule, record due times with COALESCE, lock with a seed, resolve what was
locked when it began); it is disabled where the code returns an error and rolls back.
`PublishNarratives` is the second one. `Refresh` and `RefreshAndWake` are the fold of
the work index: the first for facts that can change what is due, the second for phase
facts and new events, which also advance the wake cursor. The cursor is a stream
sequence number in the code and counts waking transactions here: only its order is used.
`timeline.applied` and `timeline.official` keep apart the two checks the phase commands
make.

`OpenDayPhase` names any phase, as the code allows: the model visits a phase twice.
`Pass` in `DayRuntime` needs no lease and takes any observation time up to now, which
covers a pass whose worker was presumed dead and a pass that waited long for the stream
lock.

**DayLease.** `Claim` is the claim statement with its `ORDER BY` (`Before`) and `FOR
UPDATE SKIP LOCKED` (`MayBeLocked`: rows another statement may hold locked may be passed
over). `requests` holds completion statements sent and not executed: `GiveUp` (a
deadline, a lost connection, a crash) leaves them there, `Execute` may run them at any
later time, `Lose` drops them. `Holds` is the fence by owner, attempt and lease expiry.
`Report` computes its completion time before the statement is sent, possibly a second
behind the clock, because the code adds two truncated durations. `Fold` is any command
on the game, any pass of a worker presumed dead included. The iteration timeout of the
worker loop adds nothing: `GiveUp` may happen at any time.

**DayScheduler.** The same with the real row. Faults (a deadline passed in vain, a
failure reported without a cause, a statement lost) are counted and bounded by
`MaxFaults`; a failure with a cause in the model (`Refused`) and the deadline of a
worker whose statement was lost are not faults.

One clock is shared by all replicas; skew between them is not modelled. A zombie pass,
one committing after its worker was presumed dead, is in `DayLease!Fold` and
`DayRuntime!Pass`, not in `DayScheduler`, where a pass belongs to its worker.

**KekRetirement.** A separate component: the registry of runtime keys
(`event_direct_key_sentinel`) and everything that seals. A transaction is the list of
its locking statements (`Program`), one action each, and `Commit`: sealing a column
("seal"), wrapping a new stream key ("wrap": append, rotation, import), attesting,
rewrapping a stream, the batches over stream keys and over direct envelopes, and the
operator's begin, rehearse and finalize. PostgreSQL reads committed rows and holds a
lock until the transaction ends: FOR SHARE and FOR UPDATE are `Shareable` and
`Lockable`, a missing registry row is inserted by whoever attests first and owned until
it commits. A statement whose check fails leaves only `Abort`, which may also come at
any other time. The triggers of the schema repeat the checks of the code under the same
locks and are not modelled apart. `Ready` is the readiness probe. One stream is
modelled, hence one stream lock; envelopes are never deleted, which would only help a
retirement.

**PageView and ProjectionStore.** The server is a counter of commits, and what a key
shows is the set of the commits it reflects: reading gives `0..n`, a live patch may add
one. A refresh is `StartRefresh`, one `AnswerValue` or `AnswerFailure` per key, and the
turns of the loop at line 229: `Publish`, `Return`, `FailRefresh`, `RejectStale`,
`Abort`. An answer is fixed when the server reads and used when all have arrived.
Publishing and returning are apart because subscribers run between them and may start
another refresh. `Live` keys are those the live connection writes; nothing is promised
about what they show, since a patch may come with less than a read has shown.
`Revocable` keys have a revoke value, `Normalized` ones turn a refused read into a
value, `Hydrated` ones make further reads, which may end after their refresh and revoke
authority then. The variables marked history are not in the code.

**PlayerCommands.** The page is `Submit`, `Retry`, `Cancel`, `Reload`, what it does when
an id may not be stored or is no longer offered (`SubmitRefused`, `RetryDropped`), and
what it does with an answer, a deadline, and the end of the refresh. `attempt` is
`commandRecoveryAttempts` (one id at a time can be in it), `stored` the same in the
session storage, which may stop working at any write. A page that is loaded is one of
the same principal and slot, which offers the stored id again, or of another, which
deletes it if it can (`Restored`), or has no slot to command (`enabled`), and then leaves
the storage alone. The endpoint is one transaction
per request (`Execute`, `Replay`, `DomainReject`, `PrepareReject`, `NoEffect`), executed
at any later time; "over" is an answer that nobody will hear. A command is a "post",
which can be repeated, or "once", which finds its own effect in the game. Merged: a
command that is rejected and whose page is reloaded before it has forgotten it is an
interrupted one; commands that only change what a host sees are no kind of their own;
every refresh that is not of a command is `LiveConnection`.

**LiveDelivery.** A writer is a command request of this process. `Begin` reads what its
kind calls for, the end of the thread or the vote counts; then it commits (`CommitOf`),
reads the counts again and keeps the rows that differ (`Build`, `Differing`), and
publishes what it has, if it has anything (`Send`, `NothingToSend`). Other writers may do
the same in any order in between; votes of one principal do not overlap (`Admitted`). An
event carries the ballots it writes or deletes, and the count of a candidate is that of
the voters whose last ballot names it (`Tally`). The other kinds of `classify_command`
are told apart by what they make the session do: the thread is read, the players' command
state ends the session, another surface moves the cursor, and some commands publish
nothing at all. `HasInflight` counts a request from its commit to its end.

The session subscribes, reads its baseline, says Hello, and from then on receives a
publication (`ReceiveUpdate` reads the durable cursor, `Assemble` reads the thread and
sets the cursor) or polls (`PollCheck`, `PollDecide`). What is told apart is who reads
and when: the posts are read by the session, the counts by the writer, twice. The page
unites the posts it has with those of a delta and replaces single rows of the count
(`DeltaArrives`). Its connection is the establishment (`OpenSocket`, `TicketGranted`,
`TicketFails`, its deadline), the socket and its recovery, and the reconnect timer. A
socket that is lost takes what the page shows with it (`view` is what can be trusted),
because the page then reads everything again.

`unpublished`, `overlapped` and `blurred` are history: the events of which nothing was
published; of a writer, the candidates whose count another commit has changed since it
read them; and the candidates whose last change was not published, or was by such a
writer.

## 4. Runs

| Run | Module, cfg | Question | States |
|---|---|---|---|
| lease | MCDayLease, DayLease | are completions fenced, wakes acknowledged and failures counted correctly with two replicas and late statements? | 1.6 million |
| runtime | MCDayRuntime, DayRuntime | is the index exact, are results replayable, notices unique, and is the lifecycle implemented? | 432 thousand |
| scheduler | MCDayScheduler, DayScheduler | is all work discoverable in the composed system, every due time actionable, and does everything due get done? | 424 thousand |
| kek_retirement | MCKekRetirement, KekRetirement | is a retired key ever still needed, or a fenced one written to? | 873 thousand |
| projection_store | MCProjectionStore, ProjectionStore | do overlapping refreshes, live payloads and revocations keep the promise? | 559 thousand |
| player_commands | MCPlayerCommands, PlayerCommands | is a command whose outcome is unknown neither lost nor done twice, and an acknowledged one shown? | 564 thousand |
| live_delivery | MCLiveDelivery, LiveDelivery | does the page show what was published, and is there always one way back? | 2.7 million |
| live_recovery | MCLiveDelivery, LiveRecovery | does the page always recover, and the cursor catch up? | 199 thousand |
| scheduler_missed | MCDayScheduler, DaySchedulerMissed | violation, section 5 | |
| scheduler_windowed | MCDayScheduler, DaySchedulerWindowed | violation, section 5 | |
| live_votes | MCLiveDelivery, LiveDeliveryVotes | violation, section 5 | |
| live_cursor | MCLiveDelivery, LiveDeliveryCursor | violation, section 5 | |

Properties of *lease*: `WakeSeen` (a wake is acknowledged only after a committed
mechanics pass read it), `LatestAttemptHoldsLease` (a late completion never releases the
lease of a later attempt, even of the same worker), `OverlapNeedsExpiry`,
`FailureCountFresh`. *runtime*: `WorkRowCurrent` (the incrementally maintained row
equals a full scan), `EvidenceReplays`, `SeedCommittedFirst`, `NoticeOncePerLifecycle`,
`ImplementsLifecycle`. *scheduler*: `NoLostWork` (what a pass would do now, the claim
query finds), `DueRowIsActionable` (no due time without a pass that acts on it),
`WorkGetsDone` (what is due is eventually done), `ImplementsLease`.

*kek_retirement*: `RehearsalHolds` (no envelope is under a key from its rehearsal on),
`TargetWritable` (no rotation retires the target of another), `ReadyReads` (a keyring
the probe accepts opens every envelope, although the probe reads none), `NoDeadlock`
(the lock orders fit), `SealsAreFenced` (an envelope is written under a key that is
writable when the write becomes visible).

*projection_store*: `ReadyIsFresh` (a key called ready shows everything committed before
any refresh of it ever started), `RevokedStaysPurged`, `NoWaitingCircle`,
`ReturnedIsFresh`, `NeverOlder`, `KeepsViewPromise`. *player_commands*: `OncePerId`,
`AckedTookEffect`, `SentIsRemembered` (while the outcome of a sent command is unknown its
id is stored and no other is generated; two ways to give up an id are exempt, see section
5), `AckedIsShown`, `PendingEnds`.

*live_delivery*: `OneRecoveryOwner`; `QuietShowsPosts` (when all is quiet the page shows
every post of which something was published); `QuietShowsCounts` (when all is quiet the
page shows the game's count of every candidate whose last change was published by a
command that no other change of that count overlapped). *live_recovery*: `Recovers`;
`CursorCatchesUp` (a session's cursor does not stay behind the log for ever; that
everything up to it has been delivered is not said, and not so: section 5).

Bounds, and why they suffice.

- *lease*: one game, because attempts, leases and rows of different games share nothing
  but the claim order; two workers, because every property relates two attempts; three
  attempts, so that a statement of the first can meet the lease of the third taken by
  its own worker; `MaxTime = 2` with a lease of one second, so that a lease and a
  backoff (one second, capped at two) both run out; two wakes, so that one can land
  before the claim and one during the pass. Workers are symmetric, and only invariants
  are checked.
- *runtime*: two phases, an automatic seeded event of a program relative to the day, and
  an inline one scoped to the day that the host opens and decides; two slots with one
  winner, so that selecting is a choice; two seeds that order the slots differently; the
  clock passes both boundaries; five wakes, so that with the event attached a phase can
  be resolved, left and entered again.
- *scheduler*: a program of an absolute event and one that a phase signal opens; one
  worker, because two workers on one game are the *lease* run and `ImplementsLease` ties
  the two; two wakes, the second of which is the signal; one fault; eight attempts, more
  than the claims that a clock of three steps, two wakes and one fault can cause (TLC
  finds fewer than seven), so that the attempt bound never stops the system. Faults stop
  `LeaseSeconds + RetryMax` before the end of the clock (`FaultAllowed`): a lease taken
  when the clock stops would never expire, which is an effect of the bound. Relative
  events are left to the theorem `WorkIsDiscovered`: a day, a night and the anchor of a
  phase that is over need more wakes than a run with liveness affords.

- *kek_retirement*: three keys and the keyrings of two successive rotations and of the
  way back from the first, so that rotations can chain, cross and reverse; two sessions,
  because every property is also proved for any number; one stream key
  and one column, one of each kind that a census counts; batches of one. Sessions are
  symmetric, and only safety is checked.

- *projection_store*: two keys, one of each kind the properties tell apart; one commit,
  because every property compares an answer with one later commit; three attempts, so
  that a refresh can be overtaken by a second one which is overtaken by a third, or by a
  live payload, or by a revocation; two epochs. Nothing
  here rests on the bounds: all is also proved.
- *player_commands*: two ids, so that a second command can meet the first one's unknown
  outcome; two requests, so that an id can be sent twice, or two ids once; two commits,
  the command's and another; one refresh awaited, as on the page. The safety properties
  are also proved for any number.
- *live_delivery*: two writers, so that two commands overlap in every order; two voters
  and one candidate, because counts of different candidates share only the publication; a
  withdrawal and a death next to the votes, so that a row can vanish; a channel of one
  publication, the smallest the publisher allows, so that it overflows; two commits; one
  fault, after which the connection has to recover, on top of the reconnects that
  resynchronisation causes. Writers are symmetric, and only invariants are checked; they
  are also proved for any number.
- *live_recovery*: one writer, because what the page recovers from does not depend on who
  commits, and commits of others are in it. `Generations` is large enough that no
  establishment is refused for want of a number (TLC: `Recovers` would fail).
- *live_votes*, *live_cursor*: the smallest that show it: two writers, three votes and no
  fault; one writer, two commits and no fault.

Deadlock is not checked except in *kek_retirement*: a completed game has nothing left to
do, a page may be left idle or its connection closed, and the bounded clock and counters
stop.

**Fairness** (`DayScheduler!Fairness`). Weak fairness of the clock; of each worker,
because `run_day_event_worker` polls on an interval for ever and every wait in it has a
deadline; of the database executing or losing what reached it. None of the commands,
none of the faults. A worker has a step enabled until it waits for an answer of the
database, and that wait ends by an answer or by its deadline, so weak fairness suffices.

`PlayerCommands!Fairness`: the deadline of a command (`executeCommandAttempt` races the
request with a timer), that of its refresh, and the continuation of either. The endpoint
may never answer, and nothing is assumed of the player. Weak fairness suffices, since
each stays enabled until it or its rival happens.

`LiveDelivery!Fairness`: each writer's request, the session's loop, each ticket request,
and the page's own steps. `Close`, the commits and what goes wrong are not assumed to
happen; a socket can be lost at most `MaxFaults` times by accident. Since commits are
bounded, commands of this process stop being in flight at some time: `CursorCatchesUp`
rests on it, and without it would be false (section 5).

Every property of a passing run has a mutant of the code that breaks it, next to the
definition it mutates and marked `Mutant of`: a completion fenced by owner only, a
success that records the row's wake, a cancellation that does not refresh the index, a
resolution that draws its own seed, a comparison of vote counts that forgets the rows
which have vanished, and so on.

`NoLostWork` is checked for definitions that are not a trigger inside an explicit
window, `DueRowIsActionable` for definitions that are not an absolute time inside an
explicit window; those are the first two findings below.

## 5. Where the code and its documentation disagree

- **A missed window is due for ever** (`scheduler_missed`, `MissedWindowStaysDue`). An
  event with an explicit window whose replica was down over the window keeps
  `max(openAt, opensAt)` as its due time. Every claim finds it, no pass acts, the pass
  reports success, the lease is cleared and the worker drains at once: a busy loop until
  a host cancels the event or the game ends. `day_schedule.rs:148` promises "the next
  wall-clock boundary that can change this event's state".
- **A trigger before its window is forgotten** (`scheduler_windowed`). The wake of the
  signal is consumed while the window is closed; nothing wakes the game when it opens.
  `day_schedule.rs:150` says that phase facts wake the scheduler.
- **Overlapping votes leave an older count on the page** (`live_votes`). A command
  publishes the rows that differ from those it read before it ran
  (`live_projection.rs:141-190`), and the page replaces single rows. One voter's vote and
  another's withdrawal overlap, both with a count of 1 read before: the vote's request
  reads 2 before the withdrawal commits and publishes it, the withdrawal's reads 1, finds
  no difference and publishes nothing. The page keeps 2 until the next change of that row,
  with its cursor at the end of the log. `docs/arch/03-backend.md:179` promises "no
  lost-update gap". The same happens when both publish and the later count is sent first.
- **The live cursor passes over commits that are not published here** (`live_cursor`). The
  cursor is set to the end of the log read when a publication is received
  (`live_delivery.rs:1398`), whatever surface that publication is of: an event of another
  replica or of the scheduler before it is noticed by no later poll.
  `docs/arch/03-backend.md:118` says that "missed notifications catch up by querying
  committed events after the last delivered `seq`".

What the modules had to allow besides, and what the documentation says of it. These are
read off the code, the models include them, and the properties are stated so as to hold
with them; no run is a violation.

- **The scheduler locks below the minimum.** `lock_day_event` refuses ("DayEvent requires
  at least {} participants before lock"), the observation of a lock time does not
  (`LockHonoursMinimum` is false of the code). An automatic event locked this way makes
  every later mechanics transaction of its game fail until it is cancelled. The theorem
  `HostLocksHonourMinimum` says where it cannot happen.
- **A change may not be published at all**: when the vote counts cannot be read before the
  command (`.ok()`, `command_http.rs:691`) or after it (`live_projection.rs:94`), or when
  the outcome of the commit is unknown. A poll finds it, unless the next publication has
  moved the cursor beyond it. The properties exempt such events (`unpublished`, `blurred`).
- **Polls wait for as long as commands are in flight** (`live_delivery.rs:1165`), also
  those that end in no publication; a game that always has one is never polled.
- **A repeated id can be rejected although it took effect.** A command is prepared
  before its receipt is looked up (`command_http.rs:702`, `:721`); when what it refers
  to has gone since, the retry is a terminal reject and the page forgets the id
  (`PrepareReject`). `docs/arch/04-wire-protocol.md:66` promises that a retry "returns
  the original acknowledgement".
- **A retry that the page refuses drops an id whose outcome is unknown**
  (`+page.svelte:853-857`, `RetryDropped`): the action is no longer offered, the body is
  no longer what the page would send, or it cannot be stored again. The player may then
  send the same wish under a new id. `docs/arch/05-frontend.md:116` says that "an
  ambiguous command result must retry the same id rather than invent a new mutation".
  `SentIsRemembered` exempts these ids ("dropped").
- **A page of another principal or slot deletes the stored id**
  (`command-recovery-storage.mjs:80-87`, `Restored`): when the tab's user or slot has
  changed, nobody will retry it. `SentIsRemembered` exempts these ids ("discarded").
- **A refresh that fails after a command invalidates the whole store**
  (`player-route-controller.mjs:768`) and nothing refreshes it until the page wakes or
  reconnects: the page says that the command was committed and stays unusable.
- **A cancelled id comes back** when its removal from the session storage fails and the
  page is reloaded.
- **One's own post can be missing from the thread** when a live patch overtakes the
  refresh after the command; its own delta brings it. `AckedIsShown` is therefore about
  the command state.

## 6. Proofs

`DayLeaseProofs` proves the five invariants of the run *lease* for any sets of games and
workers, any positive lease, any backoff and any bounds, from the named assumptions of
`DayLease` (the validated configuration; None is not a worker, game, number or row).
None of the invariants is inductive alone. `TypeOK` is; on top of it

- `AttemptInv` adds that attempts are numbered: every claim and every statement in
  flight carries an attempt no higher than the row's (`Numbered`), and one attempt has
  one owner, its statement being sent only after its pass (`Exclusive`). Without these a
  statement of an earlier attempt could carry the current attempt's number.
  `LatestAttemptHoldsLease` follows, because `Holds` compares the attempt.
- `LeaseInv` adds that no worker's reading of the clock is ahead of the clock
  (`ReadingsPast`) and that an attempt is superseded only by a claim made after its
  lease expired (`Superseded`). A claim uses a reading that may be old: it is the
  reading that was past the expiry, hence so is the clock. `OverlapNeedsExpiry` follows.
- `FailureInv` adds that the latest attempt's captured failure count is the row's
  (`FailuresCaptured`): only a completion that holds the lease changes it, and it ends
  the attempt.
- `WakeInv` adds that every captured wake is at most the row's, and at most `seen` once
  the mechanics transaction has committed (`WakesCaptured`).
- `WaitInv` bounds what no run checks: every lease ends within one lease time of the
  present and every backoff within the longest one (`WaitsAreBounded`), because what
  workers and statements carry are past readings of the clock (`CarriedPast`) and the
  delay is capped (`RetryDelayCapped`). With it no history of crashes and failures
  withholds a game for longer.

Each is proved action by action, the actions grouped by what they can disturb
(`ClaimEffect`, `ReportEffect`, `ExecuteSparesRunning`, `PassKeepsClaim`).

`DayScheduleProofs` proves about the pure rules, for every schedule, scope, timeline and
observation time:

- `DiscoveryComplete`: if evaluate has an intent for an event that is not waiting for a
  trigger, the index holds a due time that has passed. For a relative event that
  outlives its phase this needs that it was opened under an anchor no later than the one
  the timeline has now.
- `DiscoverySound`: a due time that has passed is one evaluate acts on, unless the
  window has closed or the phase was opened a second time. Both hypotheses are
  necessary; the first exception is
- `MissedWindowStaysDue`: the finding of section 5 for every absolute event.

The second exception is reachable too: `OpenDayPhase` on an earlier phase moves the
anchor that evaluate uses, while the index keeps the recorded one. It is not reported as
a finding because no document promises anything about a phase opened twice.

`DayRuntimeProofs` proves every property of the run *runtime*, for any definitions,
programs, slots, seeds and bounds, from the named assumptions of `DayRuntime` (events and
slots are finitely many, ranks have no ties, definitions are valid, None is not a seed or
a row). `TypeOK` is inductive, given that a finite set of boundaries has an earliest one
(`LeastOfFinite`); on top of it

- `WorkRowCurrent` is inductive. A step either writes the row again
  (`RefreshedIsCurrent`) or changes nothing the row is computed from
  (`UntouchedIsCurrent`): `UnlockThread` changes a column of the phase that the row does
  not read, and a pass that reaches no fact leaves every event as it was
  (`NothingReached`).
- `Replayable` adds to `EvidenceReplays` that a locked automatic event with a seeded
  policy has its seed. Without it a resolution could draw from no seed, or from another
  than its lock committed. That as many winners are chosen as the definition asks for is
  `LowestAreAsMany`: in an order without ties the number of smaller slots is a bijection
  onto an initial segment (`BelowIsBijection`), which needs no induction.
- `Moved` is what any step makes of one event: at most the moves of the lifecycle,
  winners with the resolution only, the seed kept. `SeedCommittedFirst` and the
  refinement follow; for `NoticeOncePerLifecycle` it shows that what an event has been
  through stays so (`ReachedStays`).
- `PassesSettle`: a mechanics pass leaves nothing to open or to lock at its observation
  time (`Settled`), and a pass repeated with that time only resolves automatic events
  that were locked before. What a pass does in one transaction it need not do again.
- `HostLocksHonourMinimum` bounds a divergence of section 5: `LockHonoursMinimum` holds of
  every game whose events with a minimum have no lock of their own (`LocksItself`: a
  window, an absolute or a relative lock). The commands alone keep the promise.

`DaySchedulerProofs` proves that the composition implements both of its parts, for any
events, programs, workers and configuration (`LaneAssumption`: what
`DayEventSchedulerConfig` validates, and that None is not a worker, the game or a row).
The hypothesis `DueTimes = Int` says that the constant by which TLC enumerates due times
leaves none out. The invariant `Lane` joins the types of both with what neither knows
alone: a busy worker's reading of the clock is of the past (`ReadingsPast`, which makes
its pass one of `DayRuntime`'s), a live game with a phase has a work row (`RowKept`, so
that the narrative transaction rewrites a row) and its wake is within its bound.
`RowFacts` sums up what facts do to the row: write it with its wake or the next, delete
it with the game, or leave it; `PassFacts`: a pass keeps the wake. These are exactly
`Fold`, `Complete` and `PassRows` of `DayLease`. The lease part is instantiated as
`DayLeaseProofs`, so its theorems hold of the composition (`AutomationKeepsLease`) next
to those of `DayRuntime` (`AutomationKeepsRuntime`).

The second half of the module is discovery, which needs both parts at once: what there
is to do depends on the events and the timeline, what is found on the work row and the
cursor. `PhaseMoves` and `Rescheduled` sum up what a step does to the phase and to one
event's schedule.

- `TriggersDoWake` (`TriggersWakeScheduler`): a trigger has no due time, only a wake.
  `Woken` says that no pass has read the cursor since a trigger became ready: an event
  becomes ready only in a transaction that advances the cursor (`ReadyWakes`), and the
  pass that reads it opens every ready event (`MechanicsAnswers`). With `WakeSeen`, the
  acknowledged cursor is behind. The hypothesis `NoWindowedTriggers` excludes the second
  finding of section 5 and nothing else.
- `WorkIsDiscovered` (`NoLostWork`): everything else has a due time by
  `DiscoveryComplete`, whose hypothesis on recorded openings is the invariant
  `OpeningsRecorded`, and the row has the earliest one by `WorkRowCurrent`. The
  hypothesis `[][AnchorsGrow]` says that no phase is opened again as of an earlier time;
  `AdvancePhaseByDeadline` takes that time from its caller, so the code does not exclude
  it. Then evaluate would lock earlier than the due time on record says.
- `DueRowsAreActionable` (`DueRowIsActionable`): conversely, by `DiscoverySound`, if no
  phase is opened again as of another time (`AnchorsStay`, which makes the recorded
  opening that of the anchor, `OpeningsSame`) and no window closes over an event that is
  to open in it (`WindowsReached`, the first finding of section 5).
- `WorkIsClaimable` is the safety half of `WorkGetsDone`: a game with work is a
  candidate of every claim query from one lease time and one longest backoff on, if
  nothing happens to it before. It joins `WorkIsDiscovered` and `WaitsAreBounded`.

The hypotheses on behaviours are conjuncts of the theorem (`SchedulerSpec /\ [][...] =>`);
runs without a windowed trigger in which every phase is opened once satisfy them all.

`KekRetirementProofs` proves `TypeOK`, `RehearsalHolds`, `TargetWritable`, `ReadyReads`,
`SealsAreFenced` and `NoDeadlock` for any keys, keyrings, sessions and envelopes and any
batch size.
None of them but the first speaks of what open transactions hold, so none is inductive.
`CustodyInv` adds that for every open transaction: past its target statement its active
key is shared and writable, or is its own insert (`TargetHeld`); the row it owns is as
its check found it (`ExclusiveHeld`); an operator's transaction holds the lifecycle lock
and no other key is retiring (`Serial`); the census still holds (`CensusHolds`); and no
two hold conflicting locks (`Compatible`). Steps before the commit leave the registry
alone (`LocalStep`); the commit needs that it disturbs nobody else (`CommitOthers`) and
that it seals under a writable key (`CommitWritable`). The assumptions are that an
active key is in its keyring, that None is none of the other values and, for `NoDeadlock`
only, that the schema has direct envelopes at all (`DirectsAssumption`).

`DeadlockFree` rests on `LockOrder`: a transaction holds a lock only if it has performed
the statement that takes it, and what a migration checked still holds (`InOrder`). There
is no one order of the locks, since the rows of the registry are asked for in different
orders; what excludes a circle is which row each operation may own. Suppose that all open
transactions wait. A rotation past its exclusive row waits for nobody, so none is there
(`RotationRuns`); then no migration of direct envelopes can be waiting (`NoReseal`), no
sealer can, nobody owns a registry row any more (`NoOwner`), hence nobody shares one
(`NoSharer`), hence nobody has locked an envelope (`NoLocker`), and who waits for an
advisory lock waits for nobody: no transaction is open (`NobodyOpen`). `NoDeadlock` says
that not all of them wait; since any transaction may abort, it also says that no part of
them waits in a circle.

`ProjectionStoreProofs` proves every property of the run *projection_store* for any keys
of any kinds and any bounds. Four invariants are built on one another:

- `TypedAndOrdered`: types, and that owners, sources and the last revocation are at most
  `lastAttempt`, so that the next attempt is newer than all of them (`Ordered`).
- `Revoked`: a refresh of the present epoch is no older than the last revocation
  (`NewerThanRevocation`). `RevokedStaysPurged` follows: an attempt of an earlier epoch
  cannot publish, one of this epoch is newer.
- `Requested`: a running refresh was only overtaken by newer attempts
  (`OvertakenByNewer`), a running owner's floor is what was asked of the key last
  (`OwnersAsked`), later attempts have no lower floors (`FloorsGrow`), and an answer
  shows what had been committed when its refresh started (`AnswersFresh`).
- `Shown`: what a running refresh has published reaches its floor while it owns the key
  (`PublishedShown`), and so does what a newer owner left that has returned
  (`OvertakenShown`).

`NoWaitingCircle` follows from `OvertakenByNewer`: replacements are newer, so the newest
running refresh waits for none. `StoreKeepsViewPromise` is the refinement: every step of
the store is one of `PageView` or a stutter; `Revoke` and `Invalidate` are `Distrust`, a
live payload is `Show` of no read key, `Publish` is `Show` of the keys still owned.

`PlayerCommandsProofs` proves the invariants of the run *player_commands* for any keys,
ids, tries and commits. `SentIsRemembered` needs `Remembered`: what is offered or stored
is the last id, an open id is offered again unless the storage cannot be read or the page
has no slot to command, and what is awaited is an answer about an open id or a refresh
after one. An id is open until it is answered, cancelled, dropped or discarded. `OncePerId` and `AckedTookEffect` need
`Logged`: receipts and authors are inverse to each other, and an acknowledgement is only
under way for an id with a receipt. `AckedIsShown` needs `Asked` and `Refreshed`: once
an acknowledged command waits for its refresh, its commit is at most what was asked of
the command state, and stays so, hence a ready command state shows it.

`LiveDeliveryProofs` proves the four invariants of the run *live_delivery* for any
writers, voters, candidates, channel capacity, commits and faults. `OneRecoveryOwner`
follows from `Owned`: of the timer, the establishment and the socket exactly one is there
until the connection is closed, and none afterwards. A late ticket is harmless because
`IsCurrent` compares generations. `QuietShowsPosts` and `QuietShowsCounts` speak of a
moment at which everything has arrived; the invariants they need say where each thing is
before:

- `Written`: the log, the writers and the history variables are of their types, and a
  writer publishes its own event with a read before it (`Ordered`).
- `Told`: a candidate that no other commit has overlapped had at the writer's read the
  count from which the writer's own event changed it (lemma `NoBallotsNoChange`), so the
  rows the writer has built hold the game's count of every such candidate.
- `Delivered`: what the session holds is within the log, and there is an update only
  while one is assembled.
- `PostsKept`: a published post is shown, or still with its writer, in the queue, in the
  update or in a frame, unless the page has yet to read or the receiver has lagged.
- `VotesKept`: of a candidate that is not blurred and that no writer is about to tell of
  (`Owed`), the last row on its way to the page, in the queue (`QueueEnds`), the update or
  the frames, is the game's count; or there is none on the way (`QueueLacks`) and the page
  shows it; unless a resynchronisation is demanded (`Demanded`).

`LiveDeliveryTypes` adds that establishments and faults are counted (`Counted`).

Every safety property of a passing run is proved. Only model-checked is liveness
(`WorkGetsDone`, `PendingEnds`, `Recovers`, `CursorCatchesUp`). Out of the prover's
reach: liveness under fairness and ENABLED, and induction over recursive definitions
(none is used).

## 7. Not modelled

In the modelled components: slot aliveness, roles and channels as conditions on
participation; rewards and private circles; opt-in prompts; the text of notices and the
compilation of program templates; `ResolutionApplied` envelopes not produced by a
resolution; integer width; several games in the composed system, hence starvation of one
game by another; clock skew between replicas. In live delivery: who may see a post and
changes of it; the length of the thread's first page; heartbeats; what the host console,
host prompts and private surfaces show (their publications are deltas that move the
cursor; only a change of the players' command state ends in a resynchronisation, and some
commands publish nothing); the citations sent with a post; phases of the vote count; the
second publication of a retry that is acknowledged from its receipt; the wake-up by
NOTIFY (a poll may happen at any time). On the page: media uploads before a command, the host console's own recovery,
`restoreReadiness = false`.

Components left out, with their reasons in `PROJECT.json`: those without a protocol of
their own (codecs, wire types, capabilities, registries, operator tools, schema, the
pages of the frontend); the resolver, which is a sequential interpreter of pack data;
and identity mail, erasure, sessions, invitations, forum and media, whose protocols are
worth a module each and were not reached.

The share of the implementation that is modelled is small: most of the repository's
lines are proof tooling (`tools/`), page models and data. Among its Rust code the parts
modelled are those where several processes meet.

## 8. Plan

What would come next, in this order:

1. `IdentityDelivery`: claim, revalidate, provider, finalise; an abstract outbox. Its
   lease has the form of `DayLease`, the new part is a provider whose answer is lost.
2. Erasure (`identity/subject_privacy.rs`): the same with the destruction of a key
   between two transactions.
3. Invitation quota, media manifests, admission and supervision, sessions; a two-game
   `DayLease` instance with fairness over the claim order.
4. `KekRetirement`: liveness of a rotation that is driven.

Prove next: the safety halves of the other liveness properties, as `WorkIsClaimable` is
that of `WorkGetsDone` (for `LiveDelivery`, that a socket, an establishment or a timer
always has a step; for `PlayerCommands`, that what is pending has a deadline).

## 9. Running

    tlc -workers 2 -config DayLease.cfg MCDayLease
    tlapm DayLeaseProofs.tla

Each run ends within four minutes on two cores, each proof module within fifteen.
