---------------------------- MODULE LiveDelivery ----------------------------
(***************************************************************************)
(* Live delivery of a game to one page: the writers of this process, which *)
(* publish what they commit, the websocket session that turns publications *)
(* and polls into frames, and the page's live connection.                  *)
(*                                                                         *)
(* Two surfaces are followed: the thread, whose new posts the session      *)
(* reads for itself, and the vote count, of which the writer publishes the *)
(* rows that differ from those it read before its command. A change of the *)
(* players' command state ends the session with a demand to resynchronise. *)
(* What else a commit changes moves the session's cursor, or nothing. The  *)
(* page recovers with a full read after every Hello.                       *)
(*                                                                         *)
(* Left out: the visibility of posts and the length of the thread's first  *)
(* page, heartbeats and the lease they renew (its expiry is one of the     *)
(* ways to lose a socket), a retry that is acknowledged from its receipt   *)
(* and publishes once more, and the store, which is ProjectionStore.       *)
(***************************************************************************)
EXTENDS Integers, Sequences, FiniteSets

CONSTANTS
  Writers,       \* command requests this process handles at once
  Voters,
  Candidates,
  NoOne,         \* the choice of a voter without a ballot
  Commands,      \* the commands that are given
  Capacity,      \* capacity of the broadcast channel
  MaxCommits,    \* bound on the game's events
  MaxFaults      \* bound on lost sockets, failed requests and wakes

\* What a command changes: the thread, the vote count, the players' command
\* state, another surface, or nothing that is delivered live.
Kinds == {"post", "vote", "state", "surface", "silent"}

\* The ballots an event writes or, with NoOne, deletes.
Ballots == UNION {[S -> Candidates \cup {NoOne}] : S \in SUBSET Voters}
NoBallots == [v \in {} |-> NoOne]

ASSUME LiveAssumption ==
  /\ MaxCommits \in Nat /\ MaxFaults \in Nat /\ Capacity \in Nat \ {0}
  /\ IsFiniteSet(Voters) /\ NoOne \notin Candidates
  /\ Commands \subseteq [kind : Kinds, ballots : Ballots]
  /\ \A m \in Commands :
       m.kind \in {"post", "surface", "silent"} => DOMAIN m.ballots = {}

Seqs == 1..MaxCommits
\* Bound: the first, and one after every fault or session that ends. A commit
\* ends at most two: by a poll, and by its publication to the next one.
Generations == 1..(MaxFaults + 2 * MaxCommits + 1)

VARIABLES
  log,           \* the game's events, as the commands they come from
  pc,            \* of a writer: "idle", "prepared", "committed" or "built"
  command,       \* of a writer: the command it handles
  read,          \* of a writer: the events there were when it read
                 \* thread_after_seq or previous_vote_counts, or Unread
  own,           \* of a writer: the event it committed
  rows,          \* of a writer: the vote count rows it publishes
  session,       \* "none", "subscribed", "baselined", "open", "querying",
                 \* "assembling" or "ended"
  queue,         \* the session's receiver of publications
  lagged,        \* has the receiver lost publications?
  observed,      \* observed_seq
  latest,        \* latest_seq, read when a publication was received
  update,        \* the publication that is being assembled
  frames,        \* frames on their way to the page
  timer,         \* reconnectHandle: is a reconnect scheduled?
  generation,    \* nextEstablishmentGeneration
  establishment, \* the current establishment, or 0
  asking,        \* establishments whose ticket request is under way
  socket,        \* "none", "connecting", "recovering", "read" or "ready"
  stopped,
  view,          \* what the page shows, or has read: posts and vote counts
  faults,        \* faults so far
  unpublished,   \* history: events of which nothing was published
  overlapped,    \* history: of a writer, the candidates whose count another
                 \* commit has changed since it read the counts
  blurred        \* history: candidates whose last change was not published,
                 \* or was by a command that another change overlapped

writerVars == <<pc, command, read, own, rows>>
sessionVars == <<session, queue, lagged, observed, latest, update, frames>>
linkVars == <<timer, generation, establishment, asking, socket, stopped>>
historyVars == <<unpublished, overlapped, blurred>>
vars == <<log, writerVars, sessionVars, linkVars, view, faults, historyVars>>

Posts == {n \in 1..Len(log) : log[n].kind = "post"}

\* The running tally of the first n events: a voter's last ballot counts.
VotesFor(v, c, n) ==
  \E k \in 1..n : /\ v \in DOMAIN log[k].ballots /\ log[k].ballots[v] = c
                  /\ \A j \in k + 1..n : v \notin DOMAIN log[j].ballots
Count(c, n) == Cardinality({v \in Voters : VotesFor(v, c, n)})

Tally(c) == Count(c, Len(log))

\* The candidates whose count the n-th event changed.
Touched(n) == {c \in Candidates : Count(c, n) # Count(c, n - 1)}

Unread == -1
NoRows == [c \in {} |-> 0]
NoCommand == [kind |-> "none", ballots |-> NoBallots]
NoUpdate == [kind |-> "none", after |-> 0, rows |-> NoRows]
NoView == [posts |-> {}, votes |-> [c \in Candidates |-> 0]]

Init ==
  /\ log = <<>>
  /\ pc = [w \in Writers |-> "idle"]
  /\ command = [w \in Writers |-> NoCommand]
  /\ read = [w \in Writers |-> 0]
  /\ own = [w \in Writers |-> 0]
  /\ rows = [w \in Writers |-> NoRows]
  /\ session = "none" /\ queue = <<>> /\ lagged = FALSE
  /\ observed = 0 /\ latest = 0 /\ update = NoUpdate /\ frames = <<>>
  /\ timer = FALSE /\ generation = 1 /\ establishment = 1 /\ asking = {1}
  /\ socket = "none" /\ stopped = FALSE
  /\ view = NoView
  /\ faults = 0
  /\ unpublished = {} /\ overlapped = [w \in Writers |-> {}] /\ blurred = {}

-----------------------------------------------------------------------------
(* Writers.                                                                *)

\* The guard is taken after the reads and before the transaction, and dropped
\* after the publication is sent. A poll it holds back before the commit might
\* as well have come before the guard: it is counted from the commit on.
HasInflight == \E w \in Writers : pc[w] \in {"committed", "built"}

AppendEvent(m) == Len(log) < MaxCommits /\ log' = Append(log, m)

\* The candidates whose count this step changes, and who is overlapped by it.
Changed == {c \in Candidates : Tally(c)' # Tally(c)}
Overlapping ==
  [w \in Writers |-> IF command[w].kind = "vote" THEN overlapped[w] \cup Changed ELSE {}]

\* A principal has one request at a time, and holds it until it is published.
Admitted(m) ==
  \A w \in Writers : m.kind = "vote" /\ command[w].kind = "vote" =>
                      DOMAIN command[w].ballots \cap DOMAIN m.ballots = {}

\* The thread's end or the counts are read before the command, where its kind
\* calls for it; a read that fails is done without (.ok()).
\* Bound: no more requests than may still commit.
Begin(w, m) ==
  /\ pc[w] = "idle" /\ Admitted(m)
  /\ Len(log) + Cardinality({v \in Writers : pc[v] = "prepared"}) < MaxCommits
  /\ pc' = [pc EXCEPT ![w] = "prepared"]
  /\ command' = [command EXCEPT ![w] = m]
  /\ \E n \in IF m.kind \in {"post", "vote", "state"} THEN {Len(log), Unread} ELSE {0} :
       read' = [read EXCEPT ![w] = n]
  /\ UNCHANGED <<log, own, rows, sessionVars, linkVars, view, faults, historyVars>>

CommitOf(w) ==
  /\ pc[w] = "prepared"
  /\ AppendEvent(command[w])
  /\ pc' = [pc EXCEPT ![w] = "committed"]
  /\ own' = [own EXCEPT ![w] = Len(log) + 1]
  /\ overlapped' = [Overlapping EXCEPT ![w] = overlapped[w]]
  /\ UNCHANGED <<command, read, rows, sessionVars, linkVars, view,
                 faults, unpublished, blurred>>

\* Every way out of a request forgets it and drops its guard.
Finish(w) ==
  /\ pc' = [pc EXCEPT ![w] = "idle"]
  /\ command' = [command EXCEPT ![w] = NoCommand]
  /\ read' = [read EXCEPT ![w] = 0]
  /\ own' = [own EXCEPT ![w] = 0]
  /\ rows' = [rows EXCEPT ![w] = NoRows]

\* The command is rejected, or commits and its transaction's outcome is unknown.
NotCommitted(w) ==
  /\ pc[w] = "prepared"
  /\ \/ UNCHANGED <<log, unpublished>>
     \/ AppendEvent(command[w]) /\ unpublished' = unpublished \cup {Len(log) + 1}
  /\ blurred' = blurred \cup Changed
  /\ overlapped' = [Overlapping EXCEPT ![w] = {}]
  /\ Finish(w)
  /\ UNCHANGED <<sessionVars, linkVars, view, faults>>

\* Mutant of Differing: only the rows there still are are compared.
DifferingPresent(w) == {c \in Candidates : Tally(c) # Count(c, read[w]) /\ Tally(c) # 0}

\* The rows that were not there, have another count, or have vanished (count 0).
Differing(w) == {c \in Candidates : Tally(c) # Count(c, read[w])}

\* The counts are read again, when there are earlier ones to compare them to.
Build(w) ==
  /\ pc[w] = "committed"
  /\ pc' = [pc EXCEPT ![w] = "built"]
  /\ rows' = [rows EXCEPT ![w] = IF command[w].kind = "vote" /\ read[w] # Unread
                                   THEN [c \in Differing(w) |-> Tally(c)]
                                   ELSE NoRows]
  /\ UNCHANGED <<log, command, read, own, sessionVars, linkVars, view,
                 faults, historyVars>>

\* publish returns when the counts cannot be read again.
NotBuilt(w) ==
  /\ pc[w] = "committed" /\ command[w].kind \in {"vote", "state"} /\ read[w] # Unread
  /\ unpublished' = unpublished \cup {own[w]}
  /\ blurred' = blurred \cup Touched(own[w])
  /\ overlapped' = [overlapped EXCEPT ![w] = {}]
  /\ Finish(w)
  /\ UNCHANGED <<log, sessionVars, linkVars, view, faults>>

\* Mutant of Lag: the receiver goes on with what the channel still holds.
LagUnnoticed == UNCHANGED lagged

Lag == lagged' = TRUE

\* A full channel drops its oldest publication.
Broadcast(sent) ==
  IF session \in {"none", "ended"}
    THEN UNCHANGED <<queue, lagged>>
    ELSE IF Len(queue) = Capacity
      THEN queue' = Append(Tail(queue), sent) /\ Lag
      ELSE queue' = Append(queue, sent) /\ UNCHANGED lagged

\* thread_after_seq is the last post read, or none: then the thread is read whole.
Publication(w) ==
  [kind |-> command[w].kind,
   after |-> IF command[w].kind = "post" THEN read[w] ELSE 0,
   rows |-> rows[w]]

\* assemble_update is None when no surface is dirty and no row differs.
NothingToSend(w) ==
  \/ command[w].kind = "silent"
  \/ command[w].kind = "vote" /\ DOMAIN rows[w] = {}

\* A vote is blurred where another commit changed the count it compared or told
\* of; without earlier counts it publishes nothing. Its other rows are told.
Send(w) ==
  /\ pc[w] = "built"
  /\ IF NothingToSend(w) THEN UNCHANGED <<queue, lagged>> ELSE Broadcast(Publication(w))
  /\ blurred' =
       IF command[w].kind = "vote"
         THEN (blurred \ DOMAIN rows[w])
              \cup {c \in DOMAIN rows[w] \cup Touched(own[w]) :
                      c \in overlapped[w] \/ read[w] = Unread}
         ELSE blurred
  /\ unpublished' = IF command[w].kind = "vote" /\ read[w] = Unread
                       THEN unpublished \cup {own[w]} ELSE unpublished
  /\ overlapped' = [overlapped EXCEPT ![w] = {}]
  /\ Finish(w)
  /\ UNCHANGED <<log, session, observed, latest, update, frames, linkVars, view, faults>>

\* Another replica's commit, or the scheduler's: nothing is published here.
CommitElsewhere(m) ==
  /\ AppendEvent(m)
  /\ unpublished' = unpublished \cup {Len(log) + 1}
  /\ blurred' = blurred \cup Changed
  /\ overlapped' = Overlapping
  /\ UNCHANGED <<writerVars, sessionVars, linkVars, view, faults>>

-----------------------------------------------------------------------------
(* The session.                                                            *)

outsideSession == <<log, writerVars, linkVars, view, faults, historyVars>>

\* The baseline is read after the session has subscribed.
Baseline ==
  /\ session = "subscribed"
  /\ session' = "baselined" /\ observed' = Len(log)
  /\ UNCHANGED <<queue, lagged, latest, update, frames, outsideSession>>

Hello ==
  /\ session = "baselined"
  /\ session' = "open" /\ frames' = Append(frames, [kind |-> "hello"])
  /\ UNCHANGED <<queue, lagged, observed, latest, update, outsideSession>>

\* send_resync_required, and the end of the session.
DemandResync ==
  /\ session' = "ended"
  /\ frames' = Append(frames, [kind |-> "resync"])
  /\ queue' = <<>> /\ lagged' = FALSE /\ observed' = 0 /\ latest' = 0
  /\ update' = NoUpdate
  /\ UNCHANGED outsideSession

\* The receiver reports that it has lagged before it yields another publication.
ReceiveLagged ==
  /\ session = "open" /\ lagged
  /\ DemandResync

\* The durable cursor is read before the publication is assembled.
ReceiveUpdate ==
  /\ session = "open" /\ ~lagged /\ queue # <<>>
  /\ IF Head(queue).kind = "state"
       THEN DemandResync
       ELSE /\ session' = "assembling" /\ latest' = Len(log)
            /\ update' = Head(queue) /\ queue' = Tail(queue)
            /\ UNCHANGED <<lagged, observed, frames, outsideSession>>

\* The posts of the thread after a sequence number, at the time of the read.
ThreadAfter(n) == {c \in Posts : c > n}

\* The deltas of the surfaces that are followed, in one frame.
Deltas(posts, counts) == frames' = Append(frames, [kind |-> "delta", posts |-> posts, votes |-> counts])

\* Mutant of Assemble: the cursor is set to the next sequence number.
AssembleBeyond ==
  /\ session = "assembling"
  /\ session' = "open" /\ observed' = latest + 1 /\ latest' = 0 /\ update' = NoUpdate
  /\ IF update.kind = "surface"
       THEN UNCHANGED frames
       ELSE Deltas(IF update.kind = "post" THEN ThreadAfter(update.after) ELSE {}, update.rows)
  /\ UNCHANGED <<queue, lagged, outsideSession>>

\* The cursor passes over whatever else was committed up to latest_seq.
Assemble ==
  /\ session = "assembling"
  /\ session' = "open" /\ observed' = latest /\ latest' = 0 /\ update' = NoUpdate
  /\ IF update.kind = "surface"
       THEN UNCHANGED frames
       ELSE Deltas(IF update.kind = "post" THEN ThreadAfter(update.after) ELSE {}, update.rows)
  /\ UNCHANGED <<queue, lagged, outsideSession>>

\* A notification, or the poll interval: nothing is queued, nothing in flight.
PollCheck ==
  /\ session = "open" /\ queue = <<>> /\ ~lagged /\ ~HasInflight
  /\ session' = "querying"
  /\ UNCHANGED <<queue, lagged, observed, latest, update, frames, outsideSession>>

\* Mutant of PollDecide: a wake without a publication is ignored.
PollIgnored ==
  /\ session = "querying"
  /\ session' = "open"
  /\ UNCHANGED <<queue, lagged, observed, latest, update, frames, outsideSession>>

PollDecide ==
  /\ session = "querying"
  /\ IF Len(log) > observed
       THEN DemandResync
       ELSE /\ session' = "open"
            /\ UNCHANGED <<queue, lagged, observed, latest, update, frames, outsideSession>>

-----------------------------------------------------------------------------
(* The page's live connection.                                             *)

outsideLink == <<log, writerVars, historyVars>>

EndSession ==
  /\ session' = "none" /\ queue' = <<>> /\ lagged' = FALSE
  /\ observed' = 0 /\ latest' = 0 /\ update' = NoUpdate /\ frames' = <<>>

\* A new establishment, unless one is under way.
OpenSocket(current) ==
  IF current # 0
    THEN establishment' = current /\ UNCHANGED <<generation, asking>>
    ELSE /\ generation + 1 \in Generations
         /\ generation' = generation + 1
         /\ establishment' = generation + 1
         /\ asking' = asking \cup {generation + 1}

TimerFires ==
  /\ timer /\ ~stopped
  /\ timer' = FALSE
  /\ OpenSocket(establishment)
  /\ UNCHANGED <<socket, stopped, sessionVars, view, faults, outsideLink>>

\* Mutant of IsCurrent: a retired establishment goes on.
IsAny(g) == ~stopped

IsCurrent(g) == establishment = g /\ ~stopped

\* The ticket is granted, the socket constructed, and the server's session begun.
TicketGranted(g) ==
  /\ g \in asking
  /\ asking' = asking \ {g}
  /\ IF IsCurrent(g)
       THEN /\ socket' = "connecting"
            /\ establishment' = IF establishment = g THEN 0 ELSE establishment
            /\ session' = "subscribed" /\ queue' = <<>> /\ lagged' = FALSE
            /\ observed' = 0 /\ latest' = 0 /\ update' = NoUpdate /\ frames' = <<>>
       ELSE UNCHANGED <<socket, establishment, sessionVars>>
  /\ UNCHANGED <<timer, generation, stopped, view, faults, outsideLink>>

\* The request fails, is refused, or answers after its deadline.
TicketFails(g) ==
  /\ g \in asking
  /\ asking' = asking \ {g}
  /\ IF IsCurrent(g)
       THEN /\ faults < MaxFaults /\ faults' = faults + 1
            /\ establishment' = 0 /\ timer' = TRUE
       ELSE UNCHANGED <<faults, establishment, timer>>
  /\ UNCHANGED <<generation, socket, stopped, sessionVars, view, outsideLink>>

\* The deadline of the establishment: its request may still be answered.
EstablishmentTimesOut ==
  /\ establishment # 0 /\ ~stopped
  /\ faults < MaxFaults /\ faults' = faults + 1
  /\ establishment' = 0 /\ timer' = TRUE
  /\ UNCHANGED <<generation, asking, socket, stopped, sessionVars, view, outsideLink>>

\* Mutant of ScheduleReconnect: a socket that ends schedules nothing.
ScheduleNothing == UNCHANGED timer

ScheduleReconnect == timer' = TRUE

\* Every way to lose the socket: trust in what the page shows is lost with it.
RetireSocket ==
  /\ socket' = "none" /\ view' = NoView
  /\ ScheduleReconnect
  /\ EndSession
  /\ UNCHANGED <<generation, establishment, asking, stopped, outsideLink>>

\* An error, a close, a frame the protocol does not allow, a full frame queue, a
\* recovery that fails, the handshake's or the lease's deadline; the server ends
\* a session whose own reads fail. A session that demands to resynchronise is
\* lost by its last frame, before its end is noticed.
LoseSocket ==
  /\ socket # "none" /\ faults < MaxFaults
  /\ faults' = faults + 1
  /\ RetireSocket

ResyncDemanded ==
  /\ socket = "ready" /\ frames # <<>> /\ Head(frames).kind = "resync"
  /\ RetireSocket
  /\ UNCHANGED faults

HelloArrives ==
  /\ socket = "connecting" /\ frames # <<>> /\ Head(frames).kind = "hello"
  /\ socket' = "recovering" /\ frames' = Tail(frames)
  /\ UNCHANGED <<timer, generation, establishment, asking, stopped, session, queue,
                 lagged, observed, latest, update, view, faults, outsideLink>>

\* The server answers the refresh of all keys; later frames wait meanwhile.
RecoveryRead ==
  /\ socket = "recovering"
  /\ socket' = "read"
  /\ view' = [posts |-> Posts, votes |-> [c \in Candidates |-> Tally(c)]]
  /\ UNCHANGED <<timer, generation, establishment, asking, stopped, sessionVars,
                 faults, outsideLink>>

Recovered ==
  /\ socket = "read"
  /\ socket' = "ready"
  /\ UNCHANGED <<timer, generation, establishment, asking, stopped, sessionVars,
                 view, faults, outsideLink>>

\* The thread is united with the delta's posts; of the counts, the candidates
\* that have a row in the delta are replaced or removed, the others kept.
DeltaArrives ==
  /\ socket = "ready" /\ frames # <<>> /\ Head(frames).kind = "delta"
  /\ frames' = Tail(frames)
  /\ LET delta == Head(frames)
     IN view' = [posts |-> view.posts \cup delta.posts,
                 votes |-> [c \in Candidates |-> IF c \in DOMAIN delta.votes
                                                   THEN delta.votes[c] ELSE view.votes[c]]]
  /\ UNCHANGED <<linkVars, session, queue, lagged, observed, latest, update,
                 faults, outsideLink>>

\* The page wakes up, or is online again: whatever was under way is retired.
ReconnectNow ==
  /\ ~stopped /\ faults < MaxFaults
  /\ faults' = faults + 1
  /\ timer' = FALSE /\ socket' = "none" /\ view' = NoView
  /\ EndSession
  /\ OpenSocket(0)
  /\ UNCHANGED <<stopped, outsideLink>>

\* The connection is closed for good.
Close ==
  /\ ~stopped
  /\ stopped' = TRUE
  /\ timer' = FALSE /\ establishment' = 0 /\ socket' = "none" /\ view' = NoView
  /\ EndSession
  /\ UNCHANGED <<generation, asking, faults, outsideLink>>

Writing(w) == CommitOf(w) \/ NotCommitted(w) \/ Build(w) \/ NotBuilt(w) \/ Send(w)

Session ==
  Baseline \/ Hello \/ ReceiveLagged \/ ReceiveUpdate \/ Assemble \/ PollCheck \/ PollDecide

Ticket(g) == TicketGranted(g) \/ TicketFails(g)

Link ==
  TimerFires \/ ResyncDemanded \/ HelloArrives \/ RecoveryRead
  \/ Recovered \/ DeltaArrives

Next ==
  \/ \E w \in Writers, m \in Commands : Begin(w, m)
  \/ \E w \in Writers : Writing(w)
  \/ \E m \in Commands : CommitElsewhere(m)
  \/ Session
  \/ \E g \in Generations : Ticket(g)
  \/ Link
  \/ EstablishmentTimesOut \/ LoseSocket \/ ReconnectNow \/ Close

\* Requests and reads are answered, timers fire, a session's loop runs. What
\* goes wrong is bounded by MaxFaults.
Fairness ==
  /\ \A w \in Writers : WF_vars(Writing(w))
  /\ WF_vars(Session)
  /\ \A g \in Generations : WF_vars(Ticket(g))
  /\ WF_vars(Link)

Spec == Init /\ [][Next]_vars /\ Fairness

-----------------------------------------------------------------------------
(* Correctness.                                                            *)

\* The types of the delivery's state.
Counts == 0..Cardinality(Voters)
Rows == UNION {[S -> Counts] : S \in SUBSET Candidates}
TypeOK ==
  /\ log \in Seq(Commands) /\ Len(log) <= MaxCommits
  /\ pc \in [Writers -> {"idle", "prepared", "committed", "built"}]
  /\ command \in [Writers -> Commands \cup {NoCommand}]
  /\ read \in [Writers -> {Unread} \cup 0..Len(log)] /\ own \in [Writers -> 0..Len(log)]
  /\ rows \in [Writers -> Rows]
  /\ session \in {"none", "subscribed", "baselined", "open", "querying", "assembling", "ended"}
  /\ Len(queue) <= Capacity /\ lagged \in BOOLEAN
  /\ observed \in 0..Len(log) /\ latest \in 0..Len(log)
  /\ timer \in BOOLEAN /\ stopped \in BOOLEAN
  /\ generation \in Generations /\ establishment \in 0..generation
  /\ asking \subseteq 1..generation
  /\ socket \in {"none", "connecting", "recovering", "read", "ready"}
  /\ view.posts \subseteq 1..Len(log) /\ view.votes \in [Candidates -> Counts]
  /\ faults \in 0..MaxFaults
  /\ unpublished \subseteq 1..Len(log)
  /\ overlapped \in [Writers -> SUBSET Candidates] /\ blurred \subseteq Candidates

\* Until it is closed, the connection has one and only one thing that will bring
\* the next one about: a scheduled reconnect, an establishment, or a socket. A
\* second would open two sockets; none would leave the page dead.
OneRecoveryOwner ==
  LET owners == {o \in {"timer", "establishment", "socket"} :
                   \/ o = "timer" /\ timer
                   \/ o = "establishment" /\ establishment # 0
                   \/ o = "socket" /\ socket # "none"}
  IN IF stopped THEN owners = {} ELSE \E o \in owners : owners = {o}

\* Nothing is under way: no writer, publication, update or frame.
Quiet ==
  /\ socket = "ready" /\ session = "open" /\ frames = <<>>
  /\ queue = <<>> /\ ~lagged
  /\ \A w \in Writers : pc[w] = "idle"

\* When nothing is under way, the page shows every post of which something was
\* published, whatever was dropped, lost or read again meanwhile.
QuietShowsPosts == Quiet => \A n \in Posts : n \in view.posts \cup unpublished

\* When nothing is under way, the page shows the game's count of every candidate
\* whose last change was published by a command that no other change of that
\* count overlapped, from its first read to its publication. The counts of
\* overlapping commands are exempt, for they may be wrong: see CountsAreShown.
QuietShowsCounts == Quiet => \A c \in Candidates \ blurred : view.votes[c] = Tally(c)

\* Violated: the projections are authoritative, and there is no lost-update gap.
\* A command publishes the rows that differ from those it read beforehand: of two
\* that overlap, one may find that a row has not changed, and the other's older
\* row stays on the page when everything has been published and taken.
CountsAreShown ==
  Quiet /\ observed = Len(log) /\ unpublished = {} => \A c \in Candidates : view.votes[c] = Tally(c)

\* Violated: missed notifications catch up by the cursor. The publication of
\* another surface moves it past a post that nothing has told of.
CursorToldOf == Quiet /\ observed = Len(log) => Posts \subseteq view.posts

\* A connection that is not closed recovers from whatever went wrong.
Recovers == (socket # "ready") ~> (socket = "ready" \/ stopped)

\* A session's cursor does not stay behind the log: a poll finds the commit and
\* ends the session, or a later publication moves the cursor past it, and then
\* nobody finds it (see CursorToldOf). Polls do nothing while a command of this
\* process is in flight; as commits are bounded, that comes to an end.
CursorCatchesUp ==
  LET Behind ==
        session \in {"open", "querying", "assembling"} /\ observed < Len(log)
  IN Behind ~> ~Behind
=============================================================================
