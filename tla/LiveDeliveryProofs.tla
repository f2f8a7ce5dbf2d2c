-------------------------- MODULE LiveDeliveryProofs --------------------------
(***************************************************************************)
(* Proofs about LiveDelivery, for every number of writers, voters, events  *)
(* and faults and every capacity of the channel: the page's live           *)
(* connection always has one and only one thing that will bring its next   *)
(* socket about; every published post is on its way to the page or shown   *)
(* by it; and so is every vote count whose last change was published by a  *)
(* command that no other change of that count overlapped.                  *)
(***************************************************************************)
EXTENDS LiveDelivery, SequenceTheorems, FiniteSetTheorems, TLAPS

-----------------------------------------------------------------------------
(* The owners of the recovery, one disjunct for each.                      *)

LinkTypes ==
  /\ timer \in BOOLEAN /\ stopped \in BOOLEAN
  /\ generation \in Generations /\ establishment \in 0..generation
  /\ socket \in {"none", "connecting", "recovering", "read", "ready"}

NoOwner == ~timer /\ establishment = 0 /\ socket = "none"
TimerOwns == timer /\ establishment = 0 /\ socket = "none"
EstablishmentOwns == ~timer /\ establishment # 0 /\ socket = "none"
SocketOwns == ~timer /\ establishment = 0 /\ socket # "none"

Owned ==
  /\ stopped => NoOwner
  /\ ~stopped => TimerOwns \/ EstablishmentOwns \/ SocketOwns

LEMMA OwnedIsOneOwner ==
  ASSUME LinkTypes, Owned
  PROVE  OneRecoveryOwner
<1> DEFINE owners == {o \in {"timer", "establishment", "socket"} :
                        \/ o = "timer" /\ timer
                        \/ o = "establishment" /\ establishment # 0
                        \/ o = "socket" /\ socket # "none"}
<1>1. CASE stopped
  <2>1. owners = {}
    BY <1>1 DEF Owned, NoOwner
  <2> QED
    BY <1>1, <2>1 DEF OneRecoveryOwner
<1>2. CASE ~stopped
  <2>1. TimerOwns => owners = {"timer"}
    BY DEF TimerOwns
  <2>2. EstablishmentOwns => owners = {"establishment"}
    BY DEF EstablishmentOwns
  <2>3. SocketOwns => owners = {"socket"}
    BY DEF SocketOwns
  <2>4. \E o \in owners : owners = {o}
    BY <1>2, <2>1, <2>2, <2>3 DEF Owned
  <2> QED
    BY <1>2, <2>4 DEF OneRecoveryOwner
<1> QED
  BY <1>1, <1>2

LEMMA OwnedInit ==
  ASSUME Init
  PROVE  LinkTypes /\ Owned
<1>1. 1 \in Generations
  <2>1. MaxFaults + 2 * MaxCommits + 1 \in Nat /\ 1 <= MaxFaults + 2 * MaxCommits + 1
    BY LiveAssumption DEF LiveAssumption
  <2> QED
    BY <2>1 DEF Generations
<1>2. LinkTypes
  <2>1. timer = FALSE /\ generation = 1 /\ establishment = 1 /\ socket = "none" /\ stopped = FALSE
    BY DEF Init
  <2>2. 1 \in 0..1
    OBVIOUS
  <2> QED
    BY <1>1, <2>1, <2>2 DEF LinkTypes
<1>3. Owned
  BY DEF Init, Owned, EstablishmentOwns
<1> QED
  BY <1>2, <1>3

\* What the page's next socket is owed to after an establishment is begun.
LEMMA OpenSocketOwns ==
  ASSUME LinkTypes, NEW current \in {0, establishment}, OpenSocket(current)
  PROVE  /\ establishment' # 0 /\ generation' \in Generations
         /\ establishment' \in 0..generation'
<1>1. generation \in Nat
  BY DEF LinkTypes, Generations
<1>2. CASE current # 0
  BY <1>2 DEF LinkTypes, OpenSocket
<1>3. CASE current = 0
  BY <1>1, <1>3 DEF OpenSocket
<1> QED
  BY <1>2, <1>3

LEMMA OwnedStep ==
  ASSUME LinkTypes, Owned, Next
  PROVE  (LinkTypes /\ Owned)'
<1> USE DEF NoOwner, TimerOwns, EstablishmentOwns, SocketOwns
<1> DEFINE Goal == (LinkTypes /\ Owned)'
<1>0. generation \in Nat /\ 0 \in 0..generation
  BY DEF LinkTypes, Generations
<1>1. ASSUME UNCHANGED linkVars
      PROVE  Goal
  BY <1>1 DEF linkVars, LinkTypes, Owned
<1>2. ASSUME NEW w \in Writers, NEW m \in Commands, Begin(w, m)
      PROVE  Goal
  BY <1>1, <1>2 DEF Begin
<1>3. ASSUME NEW w \in Writers, Writing(w)
      PROVE  Goal
  BY <1>1, <1>3 DEF Writing, CommitOf, NotCommitted, Build, NotBuilt, Send
<1>4. ASSUME NEW m \in Commands, CommitElsewhere(m)
      PROVE  Goal
  BY <1>1, <1>4 DEF CommitElsewhere
<1>5. CASE Session
  BY <1>1, <1>5 DEF Session, Baseline, Hello, ReceiveLagged, ReceiveUpdate, Assemble,
                    PollCheck, PollDecide, DemandResync, outsideSession
<1>6. ASSUME NEW g \in Generations, TicketGranted(g)
      PROVE  Goal
  <2>1. g # 0
    BY DEF Generations
  <2>2. CASE IsCurrent(g)
    <3>1. ~stopped /\ EstablishmentOwns
      BY <2>1, <2>2 DEF IsCurrent, Owned
    <3>2. socket' = "connecting" /\ establishment' = 0 /\ UNCHANGED <<timer, generation, stopped>>
      BY <1>6, <2>2 DEF TicketGranted, IsCurrent
    <3> QED
      BY <1>0, <3>1, <3>2 DEF LinkTypes, Owned
  <2>3. CASE ~IsCurrent(g)
    BY <1>6, <2>3 DEF TicketGranted, LinkTypes, Owned
  <2> QED
    BY <2>2, <2>3
<1>7. ASSUME NEW g \in Generations, TicketFails(g)
      PROVE  Goal
  <2>1. g # 0
    BY DEF Generations
  <2>2. CASE IsCurrent(g)
    <3>1. ~stopped /\ EstablishmentOwns
      BY <2>1, <2>2 DEF IsCurrent, Owned
    <3>2. timer' = TRUE /\ establishment' = 0 /\ UNCHANGED <<socket, generation, stopped>>
      BY <1>7, <2>2 DEF TicketFails
    <3> QED
      BY <1>0, <3>1, <3>2 DEF LinkTypes, Owned
  <2>3. CASE ~IsCurrent(g)
    BY <1>7, <2>3 DEF TicketFails, LinkTypes, Owned
  <2> QED
    BY <2>2, <2>3
<1>8. CASE TimerFires
  <2>1. ~stopped /\ TimerOwns /\ UNCHANGED <<socket, stopped>> /\ timer' = FALSE
    BY <1>8 DEF TimerFires, Owned
  <2>2. /\ establishment' # 0 /\ generation' \in Generations
        /\ establishment' \in 0..generation'
    BY <1>8, OpenSocketOwns DEF TimerFires
  <2> QED
    BY <2>1, <2>2 DEF LinkTypes, Owned
<1>9. ASSUME socket # "none", RetireSocket
      PROVE  Goal
  <2>1. ~stopped /\ SocketOwns
    BY <1>9 DEF Owned
  <2>2. timer' = TRUE /\ socket' = "none" /\ UNCHANGED <<generation, establishment, stopped>>
    BY <1>9 DEF RetireSocket, ScheduleReconnect
  <2> QED
    BY <2>1, <2>2 DEF LinkTypes, Owned
<1>10. CASE LoseSocket \/ ResyncDemanded
  BY <1>9, <1>10 DEF LoseSocket, ResyncDemanded
<1>11. CASE HelloArrives \/ RecoveryRead \/ Recovered
  <2>1. socket # "none" /\ socket' \in {"recovering", "read", "ready"}
        /\ UNCHANGED <<timer, generation, establishment, stopped>>
    BY <1>11 DEF HelloArrives, RecoveryRead, Recovered
  <2> QED
    BY <2>1 DEF LinkTypes, Owned
<1>12. CASE DeltaArrives
  BY <1>1, <1>12 DEF DeltaArrives
<1>13. CASE EstablishmentTimesOut
  <2>1. ~stopped /\ EstablishmentOwns
    BY <1>13 DEF EstablishmentTimesOut, Owned
  <2>2. timer' = TRUE /\ establishment' = 0 /\ UNCHANGED <<socket, generation, stopped>>
    BY <1>13 DEF EstablishmentTimesOut
  <2> QED
    BY <1>0, <2>1, <2>2 DEF LinkTypes, Owned
<1>14. CASE ReconnectNow
  <2>1. timer' = FALSE /\ socket' = "none" /\ ~stopped /\ stopped' = stopped
    BY <1>14 DEF ReconnectNow
  <2>2. /\ establishment' # 0 /\ generation' \in Generations
        /\ establishment' \in 0..generation'
    BY <1>14, OpenSocketOwns DEF ReconnectNow
  <2> QED
    BY <2>1, <2>2 DEF LinkTypes, Owned
<1>15. CASE Close
  <2>1. stopped' = TRUE /\ timer' = FALSE /\ establishment' = 0 /\ socket' = "none"
        /\ generation' = generation
    BY <1>15 DEF Close
  <2> QED
    BY <1>0, <2>1 DEF LinkTypes, Owned
<1> QED
  BY <1>2, <1>3, <1>4, <1>5, <1>6, <1>7, <1>8, <1>10, <1>11, <1>12, <1>13, <1>14, <1>15
  DEF Next, Ticket, Link

LEMMA AlwaysOwned == Spec => [](LinkTypes /\ Owned)
<1>1. Init => LinkTypes /\ Owned
  BY OwnedInit
<1>2. LinkTypes /\ Owned /\ [Next]_vars => (LinkTypes /\ Owned)'
  <2>1. ASSUME LinkTypes, Owned, UNCHANGED vars
        PROVE  (LinkTypes /\ Owned)'
    BY <2>1 DEF vars, linkVars, LinkTypes, Owned, NoOwner, TimerOwns, EstablishmentOwns,
                SocketOwns
  <2> QED
    BY <2>1, OwnedStep
<1> QED
  BY <1>1, <1>2, PTL DEF Spec

\* Until it is closed, the connection has one and only one thing that will bring
\* the next one about, whatever is lost, timed out or superseded.
THEOREM OneOwnerRecovers == Spec => []OneRecoveryOwner
<1>1. LinkTypes /\ Owned => OneRecoveryOwner
  BY OwnedIsOneOwner
<1> QED
  BY <1>1, AlwaysOwned, PTL

-----------------------------------------------------------------------------
(* The log and its counts.                                                 *)

LogTypes == log \in Seq(Commands) /\ Len(log) <= MaxCommits

LEMMA LogIsOfCommands ==
  ASSUME LogTypes
  PROVE  /\ Len(log) \in Nat
         /\ \A n \in 1..Len(log) : log[n] \in Commands /\ log[n].kind \in Kinds
BY LenProperties, ElementOfSeq, LiveAssumption DEF LogTypes, LiveAssumption

LEMMA CountTypes ==
  ASSUME NEW c, NEW n
  PROVE  Count(c, n) \in Counts
<1> DEFINE S == {v \in Voters : VotesFor(v, c, n)}
<1>1. /\ IsFiniteSet(S) /\ Cardinality(S) <= Cardinality(Voters)
      /\ Cardinality(S) \in Nat /\ Cardinality(Voters) \in Nat
  BY FS_Subset, FS_CardinalityType, LiveAssumption DEF LiveAssumption
<1> QED
  BY <1>1 DEF Count, Counts

\* An event does not change the counts before it.
LEMMA CountStays ==
  ASSUME LogTypes, NEW n \in Int, n <= Len(log),
         \A k \in 1..Len(log) : log'[k] = log[k], NEW c
  PROVE  Count(c, n)' = Count(c, n)
<1>1. Len(log) \in Nat
  BY LogIsOfCommands
<1>2. \A k \in 1..n : log'[k] = log[k]
  BY <1>1
<1>3. \A v \in Voters : VotesFor(v, c, n)' <=> VotesFor(v, c, n)
  BY <1>1, <1>2 DEF VotesFor
<1>4. {v \in Voters : VotesFor(v, c, n)'} = {v \in Voters : VotesFor(v, c, n)}
  BY <1>3
<1> QED
  BY <1>4 DEF Count

\* An event without ballots leaves the counts as they are.
LEMMA NoBallotsNoChange ==
  ASSUME LogTypes, NEW n \in 1..Len(log), DOMAIN log[n].ballots = {}, NEW c
  PROVE  Count(c, n) = Count(c, n - 1)
<1>1. Len(log) \in Nat
  BY LogIsOfCommands
<1>2. ASSUME NEW v \in Voters
      PROVE  VotesFor(v, c, n) <=> VotesFor(v, c, n - 1)
  <2>1. v \notin DOMAIN log[n].ballots
    OBVIOUS
  <2>2. ASSUME NEW k \in 1..n, v \in DOMAIN log[k].ballots
        PROVE  k \in 1..(n - 1)
    <3>1. k # n
      BY <2>1, <2>2
    <3> QED
      BY <1>1, <3>1
  <2>3. \A k \in 1..(n - 1) : (\A j \in k + 1..n : v \notin DOMAIN log[j].ballots)
                               <=> (\A j \in k + 1..(n - 1) : v \notin DOMAIN log[j].ballots)
    BY <1>1, <2>1, <2>2
  <2>4. \A k \in 1..(n - 1) : k \in 1..n
    BY <1>1
  <2> QED
    BY <2>2, <2>3, <2>4 DEF VotesFor
<1>3. {v \in Voters : VotesFor(v, c, n)} = {v \in Voters : VotesFor(v, c, n - 1)}
  BY <1>2
<1> QED
  BY <1>3 DEF Count

LEMMA LogGrows ==
  ASSUME LogTypes, NEW m \in Commands, AppendEvent(m)
  PROVE  /\ LogTypes' /\ Len(log) \in Nat /\ Len(log') = Len(log) + 1
         /\ \A n \in 1..Len(log) : log'[n] = log[n]
         /\ log'[Len(log) + 1] = m
<1>1. /\ Len(log) \in Nat /\ log' \in Seq(Commands) /\ Len(log') = Len(log) + 1
      /\ \A n \in 1..Len(log) : log'[n] = log[n]
      /\ log'[Len(log) + 1] = m
  BY AppendProperties, LenProperties DEF LogTypes, AppendEvent
<1>2. Len(log') <= MaxCommits
  BY <1>1, LiveAssumption DEF AppendEvent, LiveAssumption
<1> QED
  BY <1>1, <1>2 DEF LogTypes

\* What is published of the counts is a partial function to counts.
LEMMA RowsOfCounts ==
  /\ \A S \in SUBSET Candidates : \A f \in [S -> Counts] : f \in Rows
  /\ \A f \in Rows : DOMAIN f \subseteq Candidates /\ \A c \in DOMAIN f : f[c] \in Counts
  /\ NoRows \in Rows /\ DOMAIN NoRows = {}
<1>1. NoRows \in [{} -> Counts]
  BY DEF NoRows
<1> QED
  BY <1>1 DEF Rows, NoRows

-----------------------------------------------------------------------------
(* The writers.                                                            *)

WriterTypes ==
  /\ pc \in [Writers -> {"idle", "prepared", "committed", "built"}]
  /\ command \in [Writers -> Commands \cup {NoCommand}]
  /\ read \in [Writers -> Int] /\ own \in [Writers -> Nat] /\ rows \in [Writers -> Rows]

\* A writer publishes its own event, after what it read before it, and rows only
\* of a vote.
OrderedAt(w) ==
  /\ read[w] \in Unread..Len(log) /\ own[w] \in 0..Len(log)
  /\ pc[w] # "idle" => command[w] \in Commands
  /\ pc[w] \in {"committed", "built"} =>
       own[w] \in 1..Len(log) /\ log[own[w]] = command[w] /\ read[w] < own[w]
  /\ DOMAIN rows[w] # {} => pc[w] = "built" /\ command[w].kind = "vote"

Ordered == \A w \in Writers : OrderedAt(w)

HistoryTypes ==
  /\ unpublished \subseteq 1..Len(log)
  /\ overlapped \in [Writers -> SUBSET Candidates] /\ blurred \subseteq Candidates

Written == LogTypes /\ WriterTypes /\ Ordered /\ HistoryTypes

\* What a step leaves alone of a writer.
Stays(w) ==
  /\ pc'[w] = pc[w] /\ command'[w] = command[w] /\ read'[w] = read[w]
  /\ own'[w] = own[w] /\ rows'[w] = rows[w]

LogExtends == Len(log') \in Nat /\ Len(log) <= Len(log') /\ \A n \in 1..Len(log) : log'[n] = log[n]

LEMMA LogExtended ==
  ASSUME LogTypes
  PROVE  /\ log' = log => LogTypes' /\ LogExtends
         /\ \A m \in Commands : AppendEvent(m) => LogTypes' /\ LogExtends
<1>1. log' = log => LogTypes' /\ LogExtends
  BY LogIsOfCommands DEF LogTypes, LogExtends
<1>2. \A m \in Commands : AppendEvent(m) => LogTypes' /\ LogExtends
  BY LogGrows DEF LogExtends
<1> QED
  BY <1>1, <1>2

LEMMA WrittenInit ==
  ASSUME Init
  PROVE  Written
<1>1. log = <<>> /\ Len(log) = 0 /\ log \in Seq(Commands)
  BY EmptySeq DEF Init
<1>2. LogTypes
  BY <1>1, LiveAssumption DEF LogTypes, LiveAssumption
<1>3. WriterTypes
  BY RowsOfCounts DEF Init, WriterTypes
<1>4. Ordered
  BY <1>1, RowsOfCounts DEF Init, Ordered, OrderedAt, Unread
<1>5. HistoryTypes
  BY DEF Init, HistoryTypes
<1> QED
  BY <1>2, <1>3, <1>4, <1>5 DEF Written

\* A writer that stays as it is, while the log grows, is still in order.
LEMMA OthersInOrder ==
  ASSUME Written, LogExtends, NEW w \in Writers, Stays(w)
  PROVE  OrderedAt(w)'
<1>1. OrderedAt(w) /\ Len(log) \in Nat /\ own[w] \in Nat /\ read[w] \in Int
  BY LogIsOfCommands DEF Written, Ordered, WriterTypes
<1> QED
  BY <1>1 DEF OrderedAt, Stays, LogExtends, Unread

LEMMA WritersStay ==
  ASSUME Written, LogTypes', LogExtends, UNCHANGED writerVars
  PROVE  WriterTypes' /\ Ordered'
<1>1. \A w \in Writers : Stays(w)
  BY DEF writerVars, Stays
<1>2. Ordered'
  BY <1>1, OthersInOrder DEF Ordered
<1> QED
  BY <1>2 DEF Written, WriterTypes, writerVars

LEMMA FinishStays ==
  ASSUME Written, NEW w \in Writers, Finish(w)
  PROVE  /\ \A v \in Writers \ {w} : Stays(v)
         /\ pc'[w] = "idle" /\ read'[w] = 0 /\ own'[w] = 0 /\ rows'[w] = NoRows
         /\ WriterTypes'
BY RowsOfCounts DEF Finish, Written, WriterTypes, Stays

LEMMA FinishInOrder ==
  ASSUME Written, LogTypes', LogExtends, NEW w \in Writers, Finish(w)
  PROVE  WriterTypes' /\ Ordered'
<1>1. OrderedAt(w)'
  <2>1. Len(log') \in Nat
    BY DEF LogExtends
  <2> QED
    BY <2>1, FinishStays, RowsOfCounts DEF OrderedAt, Unread
<1>2. \A v \in Writers \ {w} : OrderedAt(v)'
  BY FinishStays, OthersInOrder
<1> QED
  BY <1>1, <1>2, FinishStays DEF Ordered

LEMMA OverlappingTypes ==
  ASSUME Written
  PROVE  /\ Changed \subseteq Candidates
         /\ Overlapping \in [Writers -> SUBSET Candidates]
BY DEF Written, HistoryTypes, Changed, Overlapping

\* An event that is not published here is one of the log's.
LEMMA Unpublished ==
  ASSUME Written, NEW m \in Commands, AppendEvent(m),
         unpublished' = unpublished \cup {Len(log) + 1}
  PROVE  unpublished' \subseteq 1..Len(log')
<1>1. Len(log) \in Nat /\ Len(log') = Len(log) + 1
  BY LogGrows DEF Written
<1>2. \A n \in unpublished : n \in 1..Len(log)
  BY DEF Written, HistoryTypes
<1>3. \A n \in 1..Len(log) : n \in 1..(Len(log) + 1)
  BY <1>1
<1>4. Len(log) + 1 \in 1..(Len(log) + 1)
  BY <1>1
<1> QED
  BY <1>1, <1>2, <1>3, <1>4

LEMMA WrittenStep ==
  ASSUME Written, Next
  PROVE  Written'
<1>0. /\ LogTypes /\ Len(log) \in Nat /\ WriterTypes /\ HistoryTypes
      /\ overlapped \in [Writers -> SUBSET Candidates] /\ blurred \subseteq Candidates
  BY LogIsOfCommands DEF Written, HistoryTypes
<1>1. ASSUME UNCHANGED <<log, writerVars, historyVars>>
      PROVE  Written'
  <2>1. LogTypes' /\ LogExtends
    BY <1>0, <1>1, LogExtended
  <2>2. HistoryTypes'
    BY <1>0, <1>1 DEF HistoryTypes, historyVars
  <2> QED
    BY <1>1, <2>1, <2>2, WritersStay DEF Written
<1>2. ASSUME NEW w \in Writers, NEW m \in Commands, Begin(w, m)
      PROVE  Written'
  <2>1. log' = log /\ LogTypes' /\ LogExtends
    BY <1>0, <1>2, LogExtended DEF Begin
  <2>2. HistoryTypes'
    BY <1>0, <1>2, <2>1 DEF Begin, HistoryTypes, historyVars
  <2>3. PICK n \in {Len(log), Unread, 0} : read' = [read EXCEPT ![w] = n]
    BY <1>2 DEF Begin
  <2>4. n \in Int /\ n \in Unread..Len(log)
    BY <1>0, <2>3 DEF Unread
  <2>5. WriterTypes'
    BY <1>0, <1>2, <2>3, <2>4 DEF Begin, WriterTypes
  <2>6. \A v \in Writers \ {w} : Stays(v)
    BY <1>0, <1>2, <2>3 DEF Begin, WriterTypes, Stays
  <2>7. OrderedAt(w)'
    <3>1. /\ pc[w] = "idle" /\ pc'[w] = "prepared" /\ command'[w] = m /\ read'[w] = n
          /\ own'[w] = own[w] /\ rows'[w] = rows[w]
      BY <1>0, <1>2, <2>3 DEF Begin, WriterTypes
    <3>2. OrderedAt(w)
      BY DEF Written, Ordered
    <3> QED
      BY <2>1, <2>4, <3>1, <3>2 DEF OrderedAt
  <2>8. Ordered'
    BY <2>1, <2>6, <2>7, OthersInOrder DEF Ordered
  <2> QED
    BY <2>1, <2>2, <2>5, <2>8 DEF Written
<1>3. ASSUME NEW w \in Writers, CommitOf(w)
      PROVE  Written'
  <2>1. command[w] \in Commands /\ OrderedAt(w)
    BY <1>3 DEF CommitOf, Written, Ordered, OrderedAt
  <2>2. /\ LogTypes' /\ LogExtends /\ Len(log') = Len(log) + 1
        /\ log'[Len(log) + 1] = command[w]
    BY <1>0, <1>3, <2>1, LogExtended, LogGrows DEF CommitOf
  <2>3. HistoryTypes'
    <3>1. overlapped' \in [Writers -> SUBSET Candidates]
      BY <1>0, <1>3, OverlappingTypes DEF CommitOf
    <3> QED
      BY <1>0, <1>3, <2>2, <3>1 DEF CommitOf, HistoryTypes, LogExtends
  <2>4. WriterTypes'
    BY <1>0, <1>3 DEF CommitOf, WriterTypes
  <2>5. \A v \in Writers \ {w} : Stays(v)
    BY <1>0, <1>3 DEF CommitOf, WriterTypes, Stays
  <2>6. OrderedAt(w)'
    <3>1. /\ pc[w] = "prepared" /\ pc'[w] = "committed" /\ command'[w] = command[w]
          /\ read'[w] = read[w] /\ own'[w] = Len(log) + 1 /\ rows'[w] = rows[w]
          /\ read[w] \in Int
      BY <1>0, <1>3 DEF CommitOf, WriterTypes
    <3> QED
      BY <1>0, <2>1, <2>2, <3>1 DEF OrderedAt, Unread
  <2>7. Ordered'
    BY <2>2, <2>5, <2>6, OthersInOrder DEF Ordered
  <2> QED
    BY <2>2, <2>3, <2>4, <2>7 DEF Written
<1>4. ASSUME NEW w \in Writers, NotCommitted(w)
      PROVE  Written'
  <2>1. command[w] \in Commands
    BY <1>4 DEF NotCommitted, Written, Ordered, OrderedAt
  <2>2. LogTypes' /\ LogExtends /\ unpublished' \subseteq 1..Len(log')
    <3>1. CASE UNCHANGED <<log, unpublished>>
      BY <1>0, <3>1, LogExtended DEF HistoryTypes
    <3>2. CASE AppendEvent(command[w]) /\ unpublished' = unpublished \cup {Len(log) + 1}
      BY <1>0, <2>1, <3>2, LogExtended, Unpublished
    <3> QED
      BY <1>4, <3>1, <3>2 DEF NotCommitted
  <2>3. HistoryTypes'
    <3>1. overlapped' \in [Writers -> SUBSET Candidates] /\ blurred' \subseteq Candidates
      BY <1>0, <1>4, OverlappingTypes DEF NotCommitted
    <3> QED
      BY <2>2, <3>1 DEF HistoryTypes
  <2>4. WriterTypes' /\ Ordered'
    BY <1>4, <2>2, FinishInOrder DEF NotCommitted
  <2> QED
    BY <2>2, <2>3, <2>4 DEF Written
<1>5. ASSUME NEW w \in Writers, Build(w)
      PROVE  Written'
  <2>1. log' = log /\ LogTypes' /\ LogExtends
    BY <1>0, <1>5, LogExtended DEF Build
  <2>2. HistoryTypes'
    BY <1>0, <1>5, <2>1 DEF Build, HistoryTypes, historyVars
  <2> DEFINE r == IF command[w].kind = "vote" /\ read[w] # Unread
                    THEN [c \in Differing(w) |-> Tally(c)] ELSE NoRows
  <2>3. r \in Rows
    <3>1. Differing(w) \in SUBSET Candidates /\ \A c : Tally(c) \in Counts
      BY CountTypes DEF Differing, Tally
    <3>2. [c \in Differing(w) |-> Tally(c)] \in [Differing(w) -> Counts]
      BY <3>1
    <3> QED
      BY <3>1, <3>2, RowsOfCounts
  <2>4. DOMAIN r # {} => command[w].kind = "vote"
    BY RowsOfCounts
  <2>5. rows' = [rows EXCEPT ![w] = r]
    BY <1>5 DEF Build
  <2> HIDE DEF r
  <2>6. WriterTypes'
    BY <1>0, <1>5, <2>3, <2>5 DEF Build, WriterTypes
  <2>7. \A v \in Writers \ {w} : Stays(v)
    BY <1>0, <1>5, <2>5 DEF Build, WriterTypes, Stays
  <2>8. OrderedAt(w)'
    <3>1. /\ pc[w] = "committed" /\ pc'[w] = "built" /\ command'[w] = command[w]
          /\ read'[w] = read[w] /\ own'[w] = own[w] /\ rows'[w] = r
      BY <1>0, <1>5, <2>5 DEF Build, WriterTypes
    <3>2. OrderedAt(w)
      BY DEF Written, Ordered
    <3> QED
      BY <2>1, <2>4, <3>1, <3>2 DEF OrderedAt
  <2>9. Ordered'
    BY <2>1, <2>7, <2>8, OthersInOrder DEF Ordered
  <2> QED
    BY <2>1, <2>2, <2>6, <2>9 DEF Written
<1>6. ASSUME NEW w \in Writers, NotBuilt(w) \/ Send(w)
      PROVE  Written'
  <2>1. log' = log /\ LogTypes' /\ LogExtends /\ Finish(w)
    BY <1>0, <1>6, LogExtended DEF NotBuilt, Send
  <2>2. own[w] \in 1..Len(log) /\ rows[w] \in Rows
    BY <1>0, <1>6 DEF NotBuilt, Send, Written, Ordered, OrderedAt, WriterTypes
  <2>3. HistoryTypes'
    <3>1. unpublished' \subseteq 1..Len(log')
      <4>1. unpublished' \subseteq unpublished \cup {own[w]}
        BY <1>6 DEF NotBuilt, Send
      <4> QED
        BY <1>0, <2>1, <2>2, <4>1 DEF HistoryTypes
    <3>2. overlapped' \in [Writers -> SUBSET Candidates]
      <4>1. overlapped' = [overlapped EXCEPT ![w] = {}]
        BY <1>6 DEF NotBuilt, Send
      <4> QED
        BY <1>0, <4>1
    <3>3. blurred' \subseteq Candidates
      <4>1. DOMAIN rows[w] \subseteq Candidates /\ Touched(own[w]) \subseteq Candidates
        BY <2>2, RowsOfCounts DEF Touched
      <4>2. NotBuilt(w) => blurred' \subseteq blurred \cup Touched(own[w])
        BY DEF NotBuilt
      <4>3. Send(w) => blurred' \subseteq blurred \cup DOMAIN rows[w] \cup Touched(own[w])
        BY DEF Send
      <4> QED
        BY <1>0, <1>6, <4>1, <4>2, <4>3
    <3> QED
      BY <3>1, <3>2, <3>3 DEF HistoryTypes
  <2> QED
    BY <2>1, <2>3, FinishInOrder DEF Written
<1>7. ASSUME NEW m \in Commands, CommitElsewhere(m)
      PROVE  Written'
  <2>1. LogTypes' /\ LogExtends /\ Len(log') = Len(log) + 1
    BY <1>0, <1>7, LogExtended, LogGrows DEF CommitElsewhere
  <2>2. HistoryTypes'
    <3>1. overlapped' \in [Writers -> SUBSET Candidates] /\ blurred' \subseteq Candidates
      BY <1>0, <1>7, OverlappingTypes DEF CommitElsewhere
    <3>2. unpublished' \subseteq 1..Len(log')
      BY <1>7, Unpublished DEF CommitElsewhere
    <3> QED
      BY <3>1, <3>2 DEF HistoryTypes
  <2> QED
    BY <1>7, <2>1, <2>2, WritersStay DEF CommitElsewhere, Written
<1>8. CASE Session
  BY <1>1, <1>8 DEF Session, Baseline, Hello, ReceiveLagged, ReceiveUpdate, Assemble,
                    PollCheck, PollDecide, DemandResync, outsideSession
<1>9. ASSUME NEW g \in Generations, Ticket(g)
      PROVE  Written'
  BY <1>1, <1>9 DEF Ticket, TicketGranted, TicketFails, outsideLink
<1>10. CASE Link
  BY <1>1, <1>10 DEF Link, TimerFires, ResyncDemanded, HelloArrives, RecoveryRead,
                     Recovered, DeltaArrives, RetireSocket, outsideLink
<1>11. CASE EstablishmentTimesOut \/ LoseSocket \/ ReconnectNow \/ Close
  BY <1>1, <1>11 DEF EstablishmentTimesOut, LoseSocket, ReconnectNow, Close, RetireSocket,
                     outsideLink
<1> QED
  BY <1>2, <1>3, <1>4, <1>5, <1>6, <1>7, <1>8, <1>9, <1>10, <1>11 DEF Next, Writing

LEMMA AlwaysWritten == Spec => []Written
<1>1. Init => Written
  BY WrittenInit
<1>2. Written /\ [Next]_vars => Written'
  <2>1. ASSUME Written, UNCHANGED vars
        PROVE  Written'
    <3>1. UNCHANGED <<log, writerVars, historyVars>>
      BY <2>1 DEF vars
    <3>2. LogTypes' /\ LogExtends
      BY <2>1, <3>1, LogExtended DEF Written
    <3>3. HistoryTypes'
      BY <2>1, <3>1 DEF Written, HistoryTypes, historyVars
    <3> QED
      BY <2>1, <3>1, <3>2, <3>3, WritersStay DEF Written
  <2> QED
    BY <2>1, WrittenStep
<1> QED
  BY <1>1, <1>2, PTL DEF Spec

-----------------------------------------------------------------------------
(* What the rows of a vote tell.                                           *)

\* If no other commit changed the count of c since a vote read it, the vote's own
\* event is all that did, and the vote has a row of c just when it did.
ToldAt(w, c) ==
  command[w].kind = "vote" /\ read[w] # Unread /\ c \notin overlapped[w] =>
    /\ pc[w] = "prepared" => Count(c, read[w]) = Tally(c)
    /\ pc[w] \in {"committed", "built"} =>
         Count(c, read[w]) = Count(c, own[w] - 1) /\ Count(c, own[w]) = Tally(c)
    /\ pc[w] = "built" =>
         /\ c \in DOMAIN rows[w] <=> Count(c, read[w]) # Tally(c)
         /\ c \in DOMAIN rows[w] => rows[w][c] = Tally(c)

Told == \A w \in Writers, c \in Candidates : ToldAt(w, c)

\* A commit changes the counts that Changed says, and keeps those of the past.
LEMMA CountsKept ==
  ASSUME Written, LogExtends, NEW c
  PROVE  \A n \in Int : n <= Len(log) => Count(c, n)' = Count(c, n)
BY CountStays DEF Written, LogExtends

LEMMA UnchangedCounts ==
  ASSUME Written, log' = log
  PROVE  /\ \A c, n : Count(c, n)' = Count(c, n)
         /\ \A c : Tally(c)' = Tally(c)
         /\ \A n : Touched(n)' = Touched(n)
BY DEF Count, VotesFor, Tally, Touched

\* A writer that stays as it is, while the log grows, tells what it told, of the
\* counts that are not changed.
LEMMA OthersTell ==
  ASSUME Written, Told, LogExtends, NEW w \in Writers, NEW c \in Candidates, Stays(w),
         command[w].kind = "vote" /\ c \notin overlapped'[w] =>
           c \notin overlapped[w] /\ Tally(c)' = Tally(c)
  PROVE  ToldAt(w, c)'
<1>1. SUFFICES ASSUME command[w].kind = "vote", read[w] # Unread, c \notin overlapped'[w]
               PROVE  ToldAt(w, c)'
  BY DEF ToldAt, Stays
<1>2. ToldAt(w, c) /\ c \notin overlapped[w] /\ Tally(c)' = Tally(c)
  BY <1>1 DEF Told
<1>3. /\ Len(log) \in Nat /\ read[w] \in Int /\ own[w] \in Int /\ own[w] - 1 \in Int
      /\ read[w] <= Len(log) /\ own[w] <= Len(log) /\ own[w] - 1 <= Len(log)
  BY LogIsOfCommands DEF Written, WriterTypes, Ordered, OrderedAt, Unread
<1>4. /\ Count(c, read[w])' = Count(c, read[w])
      /\ Count(c, own[w])' = Count(c, own[w])
      /\ Count(c, own[w] - 1)' = Count(c, own[w] - 1)
  <2>1. /\ read'[w] = read[w] /\ own'[w] = own[w]
    BY DEF Stays
  <2>2. \A n \in Int : n <= Len(log) => Count(c, n)' = Count(c, n)
    BY CountsKept
  <2> QED
    BY <1>3, <2>1, <2>2 DEF Count, VotesFor
<1> QED
  BY <1>1, <1>2, <1>4 DEF ToldAt, Stays

\* What Overlapping says of the votes under way.
LEMMA OverlappingTells ==
  ASSUME Written, NEW w \in Writers, NEW c \in Candidates,
         command[w].kind = "vote", c \notin Overlapping[w]
  PROVE  c \notin overlapped[w] /\ Tally(c)' = Tally(c)
BY DEF Overlapping, Changed

LEMMA ToldStep ==
  ASSUME Written, Told, Next
  PROVE  Told'
<1>0. LogTypes /\ Len(log) \in Nat /\ WriterTypes /\ overlapped \in [Writers -> SUBSET Candidates]
  BY LogIsOfCommands DEF Written, HistoryTypes
<1>1. ASSUME log' = log, NEW c \in Candidates, NEW w \in Writers, Stays(w),
             overlapped'[w] = overlapped[w]
      PROVE  ToldAt(w, c)'
  BY <1>0, <1>1, LogExtended, UnchangedCounts, OthersTell
<1>2. ASSUME UNCHANGED <<log, writerVars, historyVars>>
      PROVE  Told'
  <2>1. \A w \in Writers : Stays(w)
    BY <1>2 DEF writerVars, Stays
  <2> QED
    BY <1>1, <1>2, <2>1 DEF Told, historyVars
<1>3. ASSUME NEW w \in Writers, NEW m \in Commands, Begin(w, m)
      PROVE  Told'
  <2>1. log' = log /\ overlapped' = overlapped
    BY <1>3 DEF Begin, historyVars
  <2>2. \A v \in Writers \ {w} : Stays(v)
    BY <1>0, <1>3 DEF Begin, WriterTypes, Stays
  <2>3. ASSUME NEW c \in Candidates
        PROVE  ToldAt(w, c)'
    <3>1. /\ pc'[w] = "prepared" /\ command'[w] = m
          /\ m.kind = "vote" => read'[w] \in {Len(log), Unread}
      BY <1>0, <1>3 DEF Begin, WriterTypes
    <3>2. Len(log') = Len(log)
      BY <2>1
    <3> QED
      BY <3>1, <3>2 DEF ToldAt, Tally
  <2> QED
    BY <1>1, <2>1, <2>2, <2>3 DEF Told
<1>4. ASSUME NEW w \in Writers, NEW c \in Candidates, LogExtends, Stays(w),
             overlapped'[w] = Overlapping[w]
      PROVE  ToldAt(w, c)'
  BY <1>4, OverlappingTells, OthersTell
<1>5. ASSUME NEW w \in Writers, CommitOf(w)
      PROVE  Told'
  <2>1. command[w] \in Commands /\ OrderedAt(w)
    BY <1>5 DEF CommitOf, Written, Ordered, OrderedAt
  <2>2. LogExtends /\ Len(log') = Len(log) + 1
    BY <1>0, <1>5, <2>1, LogExtended, LogGrows DEF CommitOf
  <2>3. \A v \in Writers \ {w} : Stays(v) /\ overlapped'[v] = Overlapping[v]
    BY <1>0, <1>5, OverlappingTypes DEF CommitOf, WriterTypes, Stays
  <2>4. ASSUME NEW c \in Candidates
        PROVE  ToldAt(w, c)'
    <3>1. /\ pc[w] = "prepared" /\ pc'[w] = "committed" /\ command'[w] = command[w]
          /\ read'[w] = read[w] /\ own'[w] = Len(log) + 1 /\ overlapped'[w] = overlapped[w]
      BY <1>0, <1>5, OverlappingTypes DEF CommitOf, WriterTypes
    <3>2. SUFFICES ASSUME command[w].kind = "vote", read[w] # Unread, c \notin overlapped[w]
                   PROVE  /\ Count(c, read[w])' = Count(c, own[w] - 1)'
                          /\ Count(c, own[w])' = Tally(c)'
      BY <3>1 DEF ToldAt
    <3>3. Count(c, read[w]) = Count(c, Len(log))
      BY <3>1, <3>2 DEF Told, ToldAt, Tally
    <3>4. read[w] \in Int /\ read[w] <= Len(log)
      BY <1>0, <2>1 DEF OrderedAt, Unread
    <3>5. \A n \in Int : n <= Len(log) => Count(c, n)' = Count(c, n)
      BY <2>2, CountsKept
    <3>6. Count(c, read[w])' = Count(c, read[w])
      BY <3>1, <3>4, <3>5 DEF Count, VotesFor
    <3>7. (own[w] - 1)' = Len(log)
      BY <1>0, <3>1
    <3>8. Count(c, own[w] - 1)' = Count(c, Len(log))
      <4>1. PICK n \in Int : n = Len(log)
        BY <1>0
      <4>2. Count(c, n)' = Count(c, n)
        BY <3>5, <4>1
      <4>3. (own[w] - 1)' = n
        BY <3>7, <4>1
      <4>4. Count(c, own[w] - 1)' = Count(c, n)'
        BY <4>3 DEF Count, VotesFor
      <4> QED
        BY <4>1, <4>2, <4>4
    <3>9. Count(c, own[w])' = Tally(c)'
      BY <2>2, <3>1 DEF Tally
    <3> QED
      BY <3>3, <3>6, <3>8, <3>9
  <2> QED
    BY <1>4, <2>2, <2>3, <2>4 DEF Told
<1>6. ASSUME NEW w \in Writers, Finish(w)
      PROVE  \A c \in Candidates : ToldAt(w, c)'
  BY <1>6, FinishStays DEF ToldAt
<1>7. ASSUME NEW w \in Writers, NotCommitted(w)
      PROVE  Told'
  <2>1. command[w] \in Commands
    BY <1>7 DEF NotCommitted, Written, Ordered, OrderedAt
  <2>2. LogExtends /\ Finish(w)
    BY <1>0, <1>7, <2>1, LogExtended DEF NotCommitted
  <2>3. \A v \in Writers \ {w} : Stays(v) /\ overlapped'[v] = Overlapping[v]
    BY <1>7, <2>2, FinishStays, OverlappingTypes DEF NotCommitted
  <2> QED
    BY <1>4, <1>6, <2>2, <2>3 DEF Told
<1>8. ASSUME NEW w \in Writers, Build(w)
      PROVE  Told'
  <2>1. log' = log /\ overlapped' = overlapped
    BY <1>8 DEF Build, historyVars
  <2>2. \A v \in Writers \ {w} : Stays(v)
    BY <1>0, <1>8 DEF Build, WriterTypes, Stays
  <2>3. ASSUME NEW c \in Candidates
        PROVE  ToldAt(w, c)'
    <3>1. /\ pc[w] = "committed" /\ pc'[w] = "built" /\ command'[w] = command[w]
          /\ read'[w] = read[w] /\ own'[w] = own[w]
          /\ command[w].kind = "vote" /\ read[w] # Unread =>
               rows'[w] = [d \in Differing(w) |-> Tally(d)]
      BY <1>0, <1>8 DEF Build, WriterTypes
    <3>2. SUFFICES ASSUME command[w].kind = "vote", read[w] # Unread, c \notin overlapped[w]
                   PROVE  ToldAt(w, c)'
      BY <2>1, <3>1 DEF ToldAt
    <3>3. Count(c, read[w]) = Count(c, own[w] - 1) /\ Count(c, own[w]) = Tally(c)
      BY <3>1, <3>2 DEF Told, ToldAt
    <3>4. /\ c \in DOMAIN rows'[w] <=> Count(c, read[w]) # Tally(c)
          /\ c \in DOMAIN rows'[w] => rows'[w][c] = Tally(c)
      BY <3>1, <3>2 DEF Differing
    <3>5. /\ Count(c, read[w])' = Count(c, read[w]) /\ Count(c, own[w])' = Count(c, own[w])
          /\ Count(c, own[w] - 1)' = Count(c, own[w] - 1) /\ Tally(c)' = Tally(c)
      BY <2>1, <3>1 DEF Count, VotesFor, Tally
    <3> QED
      BY <3>1, <3>2, <3>3, <3>4, <3>5 DEF ToldAt
  <2> QED
    BY <1>1, <2>1, <2>2, <2>3 DEF Told
<1>9. ASSUME NEW w \in Writers, NotBuilt(w) \/ Send(w)
      PROVE  Told'
  <2>1. log' = log /\ Finish(w) /\ overlapped' = [overlapped EXCEPT ![w] = {}]
    BY <1>9 DEF NotBuilt, Send
  <2>2. \A v \in Writers \ {w} : Stays(v) /\ overlapped'[v] = overlapped[v]
    BY <1>0, <2>1, FinishStays
  <2> QED
    BY <1>1, <1>6, <2>1, <2>2 DEF Told
<1>10. ASSUME NEW m \in Commands, CommitElsewhere(m)
       PROVE  Told'
  <2>1. LogExtends /\ \A w \in Writers : Stays(w) /\ overlapped'[w] = Overlapping[w]
    BY <1>0, <1>10, LogExtended DEF CommitElsewhere, writerVars, Stays
  <2> QED
    BY <1>4, <2>1 DEF Told
<1>11. CASE Session
  BY <1>2, <1>11 DEF Session, Baseline, Hello, ReceiveLagged, ReceiveUpdate, Assemble,
                     PollCheck, PollDecide, DemandResync, outsideSession
<1>12. ASSUME NEW g \in Generations, Ticket(g)
       PROVE  Told'
  BY <1>2, <1>12 DEF Ticket, TicketGranted, TicketFails, outsideLink
<1>13. CASE Link
  BY <1>2, <1>13 DEF Link, TimerFires, ResyncDemanded, HelloArrives, RecoveryRead,
                     Recovered, DeltaArrives, RetireSocket, outsideLink
<1>14. CASE EstablishmentTimesOut \/ LoseSocket \/ ReconnectNow \/ Close
  BY <1>2, <1>14 DEF EstablishmentTimesOut, LoseSocket, ReconnectNow, Close, RetireSocket,
                     outsideLink
<1> QED
  BY <1>3, <1>5, <1>7, <1>8, <1>9, <1>10, <1>11, <1>12, <1>13, <1>14 DEF Next, Writing

LEMMA AlwaysTold == Spec => [](Written /\ Told)
<1>1. Init => Told
  BY DEF Init, Told, ToldAt
<1>2. Written /\ Told /\ [Next]_vars => Told'
  <2>1. ASSUME Written, Told, UNCHANGED vars
        PROVE  Told'
    <3>1. UNCHANGED <<log, writerVars, overlapped>>
      BY <2>1 DEF vars, historyVars
    <3>2. LogExtends /\ (\A w \in Writers : Stays(w)) /\ (\A c : Tally(c)' = Tally(c))
      BY <2>1, <3>1, LogExtended, UnchangedCounts DEF Written, writerVars, Stays
    <3> QED
      BY <2>1, <3>1, <3>2, OthersTell DEF Told
  <2> QED
    BY <2>1, ToldStep
<1> QED
  BY <1>1, <1>2, AlwaysWritten, PTL DEF Spec

-----------------------------------------------------------------------------
(* What the session holds.                                                 *)

Publications(n) ==
  {u \in [kind : Kinds, after : Unread..n, rows : Rows] : u.kind # "vote" => DOMAIN u.rows = {}}

Frames(n) ==
  [kind : {"hello", "resync"}] \cup [kind : {"delta"}, posts : SUBSET (1..n), votes : Rows]

Views(n) == [posts : SUBSET (1..n), votes : [Candidates -> Counts]]

Delivered ==
  /\ session \in {"none", "subscribed", "baselined", "open", "querying", "assembling", "ended"}
  /\ queue \in Seq(Publications(Len(log))) /\ Len(queue) <= Capacity
  /\ frames \in Seq(Frames(Len(log)))
  /\ IF session = "assembling" THEN update \in Publications(Len(log)) ELSE update = NoUpdate
  /\ lagged \in BOOLEAN
  /\ observed \in 0..Len(log) /\ latest \in 0..Len(log)
  /\ view \in Views(Len(log))

LEMMA DeliveredGrows ==
  ASSUME Delivered, Len(log) \in Nat, Len(log') \in Nat, Len(log) <= Len(log'),
         UNCHANGED <<sessionVars, view>>
  PROVE  Delivered'
<1>1. /\ Publications(Len(log)) \subseteq Publications(Len(log'))
      /\ Frames(Len(log)) \subseteq Frames(Len(log'))
      /\ Views(Len(log)) \subseteq Views(Len(log'))
  BY DEF Publications, Frames, Views, Unread
<1>2. queue \in Seq(Publications(Len(log'))) /\ frames \in Seq(Frames(Len(log')))
  BY <1>1, SeqMonotonic DEF Delivered
<1> QED
  BY <1>1, <1>2 DEF Delivered, sessionVars

\* The session is over, or a new one begins.
LEMMA DeliveredAnew ==
  ASSUME Len(log) \in Nat, log' = log, session' \in {"none", "subscribed"},
         queue' = <<>>, lagged' = FALSE, observed' = 0, latest' = 0,
         update' = NoUpdate, frames' = <<>>, view' \in Views(Len(log))
  PROVE  Delivered'
<1>1. queue' \in Seq(Publications(Len(log'))) /\ frames' \in Seq(Frames(Len(log')))
      /\ Len(queue') = 0
  BY EmptySeq
<1>2. Len(queue') <= Capacity
  BY <1>1, LiveAssumption DEF LiveAssumption
<1>3. session' # "assembling" /\ session' \in {"none", "subscribed", "baselined", "open",
        "querying", "assembling", "ended"}
  OBVIOUS
<1>4. observed' \in 0..Len(log') /\ latest' \in 0..Len(log')
  OBVIOUS
<1> QED
  BY <1>1, <1>2, <1>3, <1>4 DEF Delivered

LEMMA NothingShown ==
  ASSUME NEW n \in Nat
  PROVE  NoView \in Views(n)
<1>1. 0 \in Counts
  <2>1. Cardinality(Voters) \in Nat
    BY FS_CardinalityType, LiveAssumption DEF LiveAssumption
  <2> QED
    BY <2>1 DEF Counts
<1> QED
  BY <1>1 DEF NoView, Views

LEMMA DeliveredInit ==
  ASSUME Init
  PROVE  Delivered
<1>1. log = <<>> /\ Len(log) = 0
  BY EmptySeq DEF Init
<1>2. queue \in Seq(Publications(Len(log))) /\ frames \in Seq(Frames(Len(log)))
      /\ Len(queue) = 0
  BY EmptySeq DEF Init
<1>3. Len(queue) <= Capacity
  BY <1>2, LiveAssumption DEF LiveAssumption
<1>4. view \in Views(Len(log))
  BY <1>1, NothingShown DEF Init
<1>5. observed \in 0..Len(log) /\ latest \in 0..Len(log)
  BY <1>1 DEF Init
<1>6. session = "none" /\ update = NoUpdate /\ lagged \in BOOLEAN
  BY DEF Init
<1> QED
  BY <1>2, <1>3, <1>4, <1>5, <1>6 DEF Delivered

LEMMA FrameSent ==
  ASSUME Delivered, NEW f \in Frames(Len(log)), frames' = Append(frames, f), log' = log
  PROVE  frames' \in Seq(Frames(Len(log')))
BY AppendProperties DEF Delivered

\* The demand to resynchronise ends the session.
LEMMA ResyncDelivered ==
  ASSUME Delivered, DemandResync, Len(log) \in Nat
  PROVE  Delivered'
<1>1. [kind |-> "resync"] \in Frames(Len(log)) /\ UNCHANGED <<log, view>>
  BY DEF Frames, DemandResync, outsideSession
<1>2. frames' \in Seq(Frames(Len(log')))
  BY <1>1, FrameSent DEF DemandResync
<1>3. queue' \in Seq(Publications(Len(log'))) /\ Len(queue') = 0 /\ 0 <= Capacity
  BY EmptySeq, LiveAssumption DEF DemandResync, LiveAssumption
<1>4. observed' \in 0..Len(log') /\ latest' \in 0..Len(log')
  BY <1>1 DEF DemandResync
<1>5. session' = "ended" /\ update' = NoUpdate /\ lagged' \in BOOLEAN
  BY DEF DemandResync
<1>6. view' \in Views(Len(log'))
  BY <1>1 DEF Delivered
<1>7. Len(queue') <= Capacity
  BY <1>3
<1> QED
  BY <1>2, <1>3, <1>4, <1>5, <1>6, <1>7 DEF Delivered

LEMMA SentIsPublication ==
  ASSUME Written, NEW w \in Writers
  PROVE  pc[w] = "built" => Publication(w) \in Publications(Len(log))
<1>1. SUFFICES ASSUME pc[w] = "built"
               PROVE  Publication(w) \in Publications(Len(log))
  OBVIOUS
<1>2. /\ Len(log) \in Nat /\ rows[w] \in Rows /\ read[w] \in Int /\ OrderedAt(w)
      /\ command[w] \in Commands
  BY <1>1, LogIsOfCommands DEF Written, WriterTypes, Ordered, OrderedAt
<1>3. command[w].kind \in Kinds
  BY <1>2, LiveAssumption DEF LiveAssumption
<1>4. (IF command[w].kind = "post" THEN read[w] ELSE 0) \in Unread..Len(log)
  BY <1>2 DEF OrderedAt, Unread
<1>5. command[w].kind # "vote" => DOMAIN rows[w] = {}
  BY <1>2 DEF OrderedAt
<1> QED
  BY <1>2, <1>3, <1>4, <1>5 DEF Publications, Publication

LEMMA DeliveredStep ==
  ASSUME Written, Delivered, Next
  PROVE  Delivered'
<1>0. LogTypes /\ Len(log) \in Nat
  BY LogIsOfCommands DEF Written
<1>1. ASSUME UNCHANGED <<log, sessionVars, view>>
      PROVE  Delivered'
  BY <1>1 DEF Delivered, sessionVars
<1>2. ASSUME NEW w \in Writers, NEW m \in Commands, Begin(w, m)
      PROVE  Delivered'
  BY <1>1, <1>2 DEF Begin
<1>3. ASSUME NEW m \in Commands, AppendEvent(m), UNCHANGED <<sessionVars, view>>
      PROVE  Delivered'
  <2>1. Len(log') = Len(log) + 1
    BY <1>0, <1>3, LogGrows
  <2> QED
    BY <1>0, <1>3, <2>1, DeliveredGrows
<1>4. ASSUME NEW w \in Writers, CommitOf(w) \/ NotCommitted(w) \/ Build(w) \/ NotBuilt(w)
      PROVE  Delivered'
  <2>1. pc[w] # "idle" => command[w] \in Commands
    BY DEF Written, Ordered, OrderedAt
  <2>2. CASE CommitOf(w) \/ NotCommitted(w)
    BY <1>1, <1>3, <2>1, <2>2 DEF CommitOf, NotCommitted
  <2>3. CASE Build(w) \/ NotBuilt(w)
    BY <1>1, <2>3 DEF Build, NotBuilt
  <2> QED
    BY <1>4, <2>2, <2>3
<1>5. ASSUME NEW w \in Writers, Send(w)
      PROVE  Delivered'
  <2> DEFINE sent == Publication(w)
  <2>1. sent \in Publications(Len(log))
    BY <1>5, SentIsPublication DEF Send
  <2>2. UNCHANGED <<log, session, observed, latest, update, frames, view>>
    BY <1>5 DEF Send
  <2>3. lagged' \in BOOLEAN
    BY <1>5 DEF Send, Broadcast, Lag, Delivered
  <2>4. \/ queue' = queue
        \/ Len(queue) # Capacity /\ queue' = Append(queue, sent)
        \/ Len(queue) = Capacity /\ queue' = Append(Tail(queue), sent)
    BY <1>5 DEF Send, Broadcast
  <2> HIDE DEF sent
  <2>5. queue \in Seq(Publications(Len(log))) /\ Len(queue) \in Nat /\ Len(queue) <= Capacity
        /\ Capacity \in Nat \ {0}
    BY LenProperties, LiveAssumption DEF Delivered, LiveAssumption
  <2>6. queue' \in Seq(Publications(Len(log))) /\ Len(queue') <= Capacity
    <3>1. CASE Len(queue) # Capacity /\ queue' = Append(queue, sent)
      BY <2>1, <2>5, <3>1, AppendProperties
    <3>2. CASE Len(queue) = Capacity /\ queue' = Append(Tail(queue), sent)
      <4>1. queue # <<>>
        BY <2>5, <3>2, EmptySeq
      <4>2. Tail(queue) \in Seq(Publications(Len(log))) /\ Len(Tail(queue)) = Len(queue) - 1
        BY <2>5, <4>1, HeadTailProperties
      <4> QED
        BY <2>1, <2>5, <3>2, <4>2, AppendProperties
    <3> QED
      BY <2>4, <2>5, <3>1, <3>2
  <2> QED
    BY <2>2, <2>3, <2>6 DEF Delivered
<1>6. ASSUME NEW m \in Commands, CommitElsewhere(m)
      PROVE  Delivered'
  BY <1>3, <1>6 DEF CommitElsewhere
<1>7. CASE Baseline
  BY <1>0, <1>7 DEF Baseline, Delivered, outsideSession
<1>8. CASE Hello
  <2>1. [kind |-> "hello"] \in Frames(Len(log)) /\ log' = log
    BY <1>8 DEF Frames, Hello, outsideSession
  <2>2. frames' \in Seq(Frames(Len(log')))
    BY <1>8, <2>1, FrameSent DEF Hello
  <2> QED
    BY <1>8, <2>2 DEF Hello, Delivered, outsideSession
<1>9. CASE ReceiveLagged
  BY <1>0, <1>9, ResyncDelivered DEF ReceiveLagged
<1>10. CASE ReceiveUpdate
  <2>1. CASE Head(queue).kind = "state"
    BY <1>0, <1>10, <2>1, ResyncDelivered DEF ReceiveUpdate
  <2>2. CASE Head(queue).kind # "state"
    <3>1. /\ Head(queue) \in Publications(Len(log))
          /\ Tail(queue) \in Seq(Publications(Len(log))) /\ Len(Tail(queue)) = Len(queue) - 1
          /\ Len(queue) \in Nat
      BY <1>10, HeadTailProperties, LenProperties DEF ReceiveUpdate, Delivered
    <3>2. /\ session' = "assembling" /\ latest' = Len(log) /\ update' = Head(queue)
          /\ queue' = Tail(queue) /\ UNCHANGED <<lagged, observed, frames, log, view>>
      BY <1>10, <2>2 DEF ReceiveUpdate, outsideSession
    <3>3. Len(queue') <= Capacity
      BY <3>1, <3>2, LiveAssumption DEF Delivered, LiveAssumption
    <3> QED
      BY <1>0, <3>1, <3>2, <3>3 DEF Delivered
  <2> QED
    BY <2>1, <2>2
<1>11. CASE Assemble
  <2> DEFINE posts == IF update.kind = "post" THEN ThreadAfter(update.after) ELSE {}
             delta == [kind |-> "delta", posts |-> posts, votes |-> update.rows]
  <2>1. posts \subseteq 1..Len(log)
    BY DEF ThreadAfter, Posts
  <2>2. update.rows \in Rows
    BY <1>11 DEF Assemble, Delivered, Publications
  <2>3. delta \in Frames(Len(log))
    BY <2>1, <2>2 DEF Frames
  <2>4. /\ session' = "open" /\ observed' = latest /\ latest' = 0 /\ update' = NoUpdate
        /\ UNCHANGED <<queue, lagged, log, view>>
        /\ frames' = frames \/ frames' = Append(frames, delta)
    BY <1>11 DEF Assemble, Deltas, outsideSession
  <2> HIDE DEF delta
  <2>5. frames' \in Seq(Frames(Len(log')))
    BY <2>3, <2>4, FrameSent DEF Delivered
  <2> QED
    BY <1>0, <2>4, <2>5 DEF Delivered
<1>12. CASE PollCheck
  BY <1>12 DEF PollCheck, Delivered, outsideSession
<1>13. CASE PollDecide
  <2>1. CASE Len(log) > observed
    BY <1>0, <1>13, <2>1, ResyncDelivered DEF PollDecide
  <2>2. CASE ~(Len(log) > observed)
    BY <1>13, <2>2 DEF PollDecide, Delivered, outsideSession
  <2> QED
    BY <2>1, <2>2
<1>14. ASSUME NEW g \in Generations, Ticket(g)
       PROVE  Delivered'
  <2>1. CASE TicketGranted(g) /\ IsCurrent(g)
    BY <1>0, <2>1, DeliveredAnew DEF TicketGranted, outsideLink, Delivered
  <2>2. CASE TicketGranted(g) /\ ~IsCurrent(g)
    BY <1>1, <2>2 DEF TicketGranted, outsideLink
  <2>3. CASE TicketFails(g)
    BY <1>1, <2>3 DEF TicketFails, outsideLink
  <2> QED
    BY <1>14, <2>1, <2>2, <2>3 DEF Ticket
<1>15. ASSUME EndSession, view' = NoView, log' = log
       PROVE  Delivered'
  BY <1>0, <1>15, DeliveredAnew, NothingShown DEF EndSession
<1>16. CASE TimerFires \/ Recovered \/ EstablishmentTimesOut
  BY <1>1, <1>16 DEF TimerFires, Recovered, EstablishmentTimesOut, outsideLink
<1>17. CASE ResyncDemanded \/ LoseSocket \/ ReconnectNow \/ Close
  BY <1>15, <1>17 DEF ResyncDemanded, LoseSocket, ReconnectNow, Close, RetireSocket, outsideLink
<1>18. CASE HelloArrives
  <2>1. frames' \in Seq(Frames(Len(log)))
    BY <1>18, HeadTailProperties DEF HelloArrives, Delivered
  <2> QED
    BY <1>18, <2>1 DEF HelloArrives, Delivered, outsideLink
<1>19. CASE RecoveryRead
  <2>1. Posts \subseteq 1..Len(log) /\ [c \in Candidates |-> Tally(c)] \in [Candidates -> Counts]
    BY CountTypes DEF Posts, Tally
  <2>2. view' \in Views(Len(log))
    BY <1>19, <2>1 DEF RecoveryRead, Views
  <2> QED
    BY <1>19, <2>2 DEF RecoveryRead, Delivered, sessionVars, outsideLink
<1>20. CASE DeltaArrives
  <2>1. Head(frames) \in Frames(Len(log)) /\ frames' \in Seq(Frames(Len(log)))
    BY <1>20, HeadTailProperties DEF DeltaArrives, Delivered
  <2>2. Head(frames).posts \subseteq 1..Len(log) /\ Head(frames).votes \in Rows
    BY <1>20, <2>1 DEF DeltaArrives, Frames
  <2>3. \A c \in DOMAIN Head(frames).votes : Head(frames).votes[c] \in Counts
    BY <2>2, RowsOfCounts
  <2>4. view.posts \subseteq 1..Len(log) /\ view.votes \in [Candidates -> Counts]
    BY DEF Delivered, Views
  <2>5. view' \in Views(Len(log))
    BY <1>20, <2>2, <2>3, <2>4 DEF DeltaArrives, Views
  <2> QED
    BY <1>20, <2>1, <2>5 DEF DeltaArrives, Delivered, outsideLink
<1> QED
  BY <1>2, <1>4, <1>5, <1>6, <1>7, <1>8, <1>9, <1>10, <1>11, <1>12, <1>13, <1>14, <1>16,
     <1>17, <1>18, <1>19, <1>20
  DEF Next, Writing, Session, Link

LEMMA AlwaysDelivered == Spec => [](Written /\ Delivered)
<1>1. Init => Delivered
  BY DeliveredInit
<1>2. Written /\ Delivered /\ [Next]_vars => Delivered'
  <2>1. ASSUME Delivered, UNCHANGED vars
        PROVE  Delivered'
    BY <2>1 DEF vars, sessionVars, Delivered
  <2> QED
    BY <2>1, DeliveredStep
<1> QED
  BY <1>1, <1>2, AlwaysWritten, PTL DEF Spec

-----------------------------------------------------------------------------
(* Where a published post is, until the page shows it.                     *)

Active == session \notin {"none", "ended"}

ToPublish(c) == \E w \in Writers : pc[w] \in {"committed", "built"} /\ own[w] = c
InQueue(c) == \E i \in 1..Len(queue) : queue[i].kind = "post" /\ queue[i].after < c
InUpdate(c) == update.kind = "post" /\ update.after < c
Holds(f, c) == f.kind = "delta" /\ c \in f.posts
InFrames(c) == \E i \in 1..Len(frames) : Holds(frames[i], c)

\* Nothing is owed to the page before it has read, or when it will read again.
WillRead == socket \notin {"read", "ready"} \/ ~Active \/ lagged

PostKept(c) ==
  WillRead \/ c \in view.posts \/ ToPublish(c) \/ InQueue(c) \/ InUpdate(c) \/ InFrames(c)

PostsKept == \A c \in Posts \ unpublished : PostKept(c)

LEMMA StillToPublish ==
  ASSUME Written, NEW w \in Writers, NEW c,
         \A v \in Writers : v # w => pc'[v] = pc[v] /\ own'[v] = own[v]
  PROVE  ToPublish(c) => ToPublish(c)' \/ (pc[w] \in {"committed", "built"} /\ own[w] = c)
BY DEF ToPublish

LEMMA FinishLeaves ==
  ASSUME Written, NEW w \in Writers, Finish(w), NEW c
  PROVE  ToPublish(c) => ToPublish(c)' \/ (pc[w] \in {"committed", "built"} /\ own[w] = c)
<1>1. \A v \in Writers : v # w => pc'[v] = pc[v] /\ own'[v] = own[v]
  BY DEF Finish, Written, WriterTypes
<1> QED
  BY <1>1, StillToPublish

LEMMA FramesAppended ==
  ASSUME Delivered, NEW f, frames' = Append(frames, f), f \in Frames(Len(log)), NEW c
  PROVE  /\ InFrames(c) => InFrames(c)'
         /\ Holds(f, c) => InFrames(c)'
<1>1. /\ Len(frames) \in Nat /\ Len(frames') = Len(frames) + 1
      /\ \A i \in 1..Len(frames) : frames'[i] = frames[i]
      /\ frames'[Len(frames) + 1] = f
  BY AppendProperties, LenProperties DEF Delivered
<1> QED
  BY <1>1 DEF InFrames

LEMMA FrameTaken ==
  ASSUME Delivered, frames # <<>>, frames' = Tail(frames), NEW c
  PROVE  InFrames(c) => InFrames(c)' \/ Holds(Head(frames), c)
<1>1. /\ Len(frames) \in Nat /\ Len(frames') = Len(frames) - 1
      /\ \A i \in 1..Len(frames') : frames'[i] = frames[i + 1]
      /\ Head(frames) = frames[1]
  BY HeadTailProperties, LenProperties DEF Delivered
<1>2. ASSUME NEW i \in 1..Len(frames), Holds(frames[i], c), i # 1
      PROVE  InFrames(c)'
  <2>1. i - 1 \in 1..Len(frames') /\ frames'[i - 1] = frames[i]
    BY <1>1, <1>2
  <2> QED
    BY <1>2, <2>1 DEF InFrames
<1> QED
  BY <1>1, <1>2 DEF InFrames

LEMMA UpdateQueued ==
  ASSUME Delivered, NEW u, queue' = Append(queue, u), u \in Publications(Len(log)), NEW c
  PROVE  /\ InQueue(c) => InQueue(c)'
         /\ u.kind = "post" /\ u.after < c => InQueue(c)'
<1>1. /\ Len(queue) \in Nat /\ Len(queue') = Len(queue) + 1
      /\ \A i \in 1..Len(queue) : queue'[i] = queue[i]
      /\ queue'[Len(queue) + 1] = u
  BY AppendProperties, LenProperties DEF Delivered
<1> QED
  BY <1>1 DEF InQueue

LEMMA UpdateTaken ==
  ASSUME Delivered, queue # <<>>, queue' = Tail(queue), update' = Head(queue), NEW c
  PROVE  InQueue(c) => InQueue(c)' \/ InUpdate(c)'
<1>1. /\ Len(queue) \in Nat /\ Len(queue') = Len(queue) - 1
      /\ \A i \in 1..Len(queue') : queue'[i] = queue[i + 1]
      /\ Head(queue) = queue[1]
  BY HeadTailProperties, LenProperties DEF Delivered
<1>2. ASSUME NEW i \in 1..Len(queue), queue[i].kind = "post" /\ queue[i].after < c, i # 1
      PROVE  InQueue(c)'
  <2>1. i - 1 \in 1..Len(queue') /\ queue'[i - 1] = queue[i]
    BY <1>1, <1>2
  <2> QED
    BY <1>2, <2>1 DEF InQueue
<1>3. queue[1].kind = "post" /\ queue[1].after < c => InUpdate(c)'
  BY <1>1 DEF InUpdate
<1> QED
  BY <1>2, <1>3 DEF InQueue

LEMMA PostsStep ==
  ASSUME Written, Delivered, PostsKept, Next
  PROVE  PostsKept'
<1>0. LogTypes /\ Len(log) \in Nat
  BY LogIsOfCommands DEF Written
<1>1. ASSUME log' = log, unpublished \subseteq unpublished',
             \A c \in Posts \ unpublished' : PostKept(c) => PostKept(c)'
      PROVE  PostsKept'
  <2>1. Posts' = Posts
    BY <1>1 DEF Posts
  <2> QED
    BY <1>1, <2>1 DEF PostsKept
<1>2. ASSUME UNCHANGED <<sessionVars, socket, view>>, NEW c,
             ToPublish(c) => ToPublish(c)'
      PROVE  PostKept(c) => PostKept(c)'
  BY <1>2 DEF PostKept, WillRead, Active, InQueue, InUpdate, InFrames, Holds, sessionVars
<1>3. ASSUME UNCHANGED <<log, pc, own, unpublished, sessionVars, socket, view>>
      PROVE  PostsKept'
  BY <1>1, <1>2, <1>3 DEF ToPublish
<1>4. ASSUME log' = log, unpublished' = unpublished, WillRead'
      PROVE  PostsKept'
  BY <1>1, <1>4 DEF PostKept
<1>5. ASSUME UNCHANGED <<log, pc, own, unpublished, socket, view>>,
             \A c : InQueue(c) \/ InUpdate(c) \/ InFrames(c) =>
                      WillRead' \/ (InQueue(c) \/ InUpdate(c) \/ InFrames(c))',
             WillRead => WillRead'
      PROVE  PostsKept'
  BY <1>1, <1>5 DEF PostKept, ToPublish
<1>6. ASSUME NEW m \in Commands, AppendEvent(m), UNCHANGED <<sessionVars, socket, view>>,
             unpublished \subseteq unpublished',
             \A c : c = Len(log) + 1 => c \in unpublished' \/ ToPublish(c)',
             \A c : ToPublish(c) => ToPublish(c)'
      PROVE  PostsKept'
  <2>1. Posts' \subseteq Posts \cup {Len(log) + 1}
    BY <1>0, <1>6, LogGrows DEF Posts
  <2>2. \A c \in Posts \ unpublished' : PostKept(c)'
    BY <1>2, <1>6 DEF PostsKept
  <2>3. \A c : c = Len(log) + 1 => c \in unpublished' \/ PostKept(c)'
    BY <1>6 DEF PostKept
  <2> QED
    BY <2>1, <2>2, <2>3 DEF PostsKept
<1>7. ASSUME NEW w \in Writers, NEW m \in Commands, Begin(w, m)
      PROVE  PostsKept'
  <2>1. pc[w] = "idle" /\ \A v \in Writers : v # w => pc'[v] = pc[v] /\ own'[v] = own[v]
    BY <1>7 DEF Begin, Written, WriterTypes
  <2>2. \A c : ToPublish(c) => ToPublish(c)'
    BY <2>1, StillToPublish
  <2> QED
    BY <1>1, <1>2, <1>7, <2>2 DEF Begin, linkVars, historyVars
<1>8. ASSUME NEW w \in Writers, CommitOf(w)
      PROVE  PostsKept'
  <2>0. command[w] \in Commands
    BY <1>8 DEF CommitOf, Written, Ordered, OrderedAt
  <2>1. /\ pc[w] = "prepared" /\ pc'[w] = "committed"
        /\ own'[w] = Len(log) + 1
        /\ \A v \in Writers : v # w => pc'[v] = pc[v] /\ own'[v] = own[v]
    BY <1>8 DEF CommitOf, Written, WriterTypes
  <2>2. \A c : ToPublish(c) => ToPublish(c)'
    BY <2>1, StillToPublish
  <2>3. \A c : c = Len(log) + 1 => ToPublish(c)'
    BY <2>1 DEF ToPublish
  <2> QED
    BY <1>6, <1>8, <2>0, <2>2, <2>3 DEF CommitOf, linkVars
<1>9. ASSUME NEW w \in Writers, NotCommitted(w)
      PROVE  PostsKept'
  <2>1. command[w] \in Commands /\ pc[w] = "prepared"
    BY <1>9 DEF NotCommitted, Written, Ordered, OrderedAt
  <2>2. \A c : ToPublish(c) => ToPublish(c)'
    BY <1>9, <2>1, FinishLeaves DEF NotCommitted
  <2>3. CASE UNCHANGED <<log, unpublished>>
    BY <1>1, <1>2, <1>9, <2>2, <2>3 DEF NotCommitted, linkVars
  <2>4. CASE AppendEvent(command[w]) /\ unpublished' = unpublished \cup {Len(log) + 1}
    BY <1>6, <1>9, <2>1, <2>2, <2>4 DEF NotCommitted, linkVars
  <2> QED
    BY <1>9, <2>3, <2>4 DEF NotCommitted
<1>10. ASSUME NEW w \in Writers, Build(w)
       PROVE  PostsKept'
  <2>1. /\ pc'[w] = "built" /\ own' = own
        /\ \A v \in Writers : v # w => pc'[v] = pc[v]
    BY <1>10 DEF Build, Written, WriterTypes
  <2>2. \A c : ToPublish(c) => ToPublish(c)'
    BY <2>1 DEF ToPublish
  <2> QED
    BY <1>1, <1>2, <1>10, <2>2 DEF Build, linkVars, historyVars
<1>11. ASSUME NEW w \in Writers, NotBuilt(w)
       PROVE  PostsKept'
  <2>1. \A c \in Posts \ unpublished' : ToPublish(c) => ToPublish(c)'
    BY <1>11, FinishLeaves DEF NotBuilt
  <2> QED
    BY <1>1, <1>2, <1>11, <2>1 DEF NotBuilt, linkVars
<1>12. ASSUME NEW w \in Writers, Send(w)
       PROVE  PostsKept'
  <2> DEFINE sent == Publication(w)
  <2>1. sent \in Publications(Len(log))
    BY <1>12, SentIsPublication DEF Send
  <2>2. /\ pc[w] = "built" /\ Finish(w)
        /\ UNCHANGED <<log, session, update, frames, socket, view>>
        /\ unpublished \subseteq unpublished'
    BY <1>12 DEF Send, linkVars
  <2>3. log[own[w]] = command[w] /\ read[w] < own[w] /\ command[w] \in Commands
    BY <2>2 DEF Written, Ordered, OrderedAt
  <2>4. ASSUME NEW c \in Posts, ~WillRead', queue' = queue \/ queue' = Append(queue, sent),
               own[w] = c => InQueue(c)', WillRead => WillRead'
        PROVE  PostKept(c) => PostKept(c)'
    <3>1. InQueue(c) => InQueue(c)'
      BY <2>1, <2>4, UpdateQueued DEF InQueue
    <3>2. ToPublish(c) => ToPublish(c)' \/ own[w] = c
      BY <2>2, FinishLeaves
    <3>3. (InUpdate(c) => InUpdate(c)') /\ (InFrames(c) => InFrames(c)')
      BY <2>2 DEF InUpdate, InFrames, Holds
    <3> QED
      BY <2>2, <2>4, <3>1, <3>2, <3>3 DEF PostKept
  <2>5. CASE session \in {"none", "ended"}
    BY <1>1, <2>2, <2>5 DEF PostKept, WillRead, Active
  <2>6. CASE session \notin {"none", "ended"} /\ lagged' = TRUE
    BY <1>1, <2>2, <2>6 DEF PostKept, WillRead
  <2>7. CASE session \notin {"none", "ended"} /\ NothingToSend(w)
    <3>1. queue' = queue /\ lagged' = lagged
      BY <1>12, <2>7 DEF Send
    <3>2. WillRead => WillRead'
      BY <2>2, <3>1 DEF WillRead, Active
    <3>3. \A c \in Posts : own[w] # c
      BY <2>3, <2>7 DEF NothingToSend, Posts
    <3>4. \A c \in Posts : PostKept(c) => PostKept(c)'
      BY <2>4, <3>1, <3>2, <3>3 DEF PostKept
    <3> QED
      BY <1>1, <2>2, <3>4
  <2>8. CASE session \notin {"none", "ended"} /\ ~NothingToSend(w) /\ Len(queue) # Capacity
    <3>1. queue' = Append(queue, sent) /\ lagged' = lagged
      BY <1>12, <2>8 DEF Send, Broadcast
    <3>2. WillRead => WillRead'
      BY <2>2, <3>1 DEF WillRead, Active
    <3>3. sent.kind = command[w].kind /\ (command[w].kind = "post" => sent.after = read[w])
      BY DEF Publication
    <3> HIDE DEF sent
    <3>4. \A c \in Posts : own[w] = c => InQueue(c)'
      BY <2>1, <2>3, <3>1, <3>3, UpdateQueued DEF Posts
    <3>5. \A c \in Posts : PostKept(c) => PostKept(c)'
      BY <2>4, <3>1, <3>2, <3>4 DEF PostKept
    <3> QED
      BY <1>1, <2>2, <3>5
  <2>9. session \notin {"none", "ended"} /\ ~NothingToSend(w) /\ Len(queue) = Capacity
          => lagged' = TRUE
    BY <1>12 DEF Send, Broadcast, Lag
  <2> QED
    BY <2>5, <2>6, <2>7, <2>8, <2>9
<1>13. ASSUME NEW m \in Commands, CommitElsewhere(m)
       PROVE  PostsKept'
  <2>1. \A c : ToPublish(c) => ToPublish(c)'
    BY <1>13 DEF CommitElsewhere, writerVars, ToPublish
  <2> QED
    BY <1>6, <1>13, <2>1 DEF CommitElsewhere, linkVars
<1>14. CASE Baseline \/ PollCheck
  <2>1. /\ UNCHANGED <<log, pc, own, unpublished, socket, view, queue, update, frames, lagged>>
        /\ Active /\ Active'
    BY <1>14 DEF Baseline, PollCheck, outsideSession, writerVars, linkVars, historyVars, Active
  <2>2. WillRead => WillRead'
    BY <2>1 DEF WillRead
  <2> QED
    BY <1>5, <2>1, <2>2 DEF InQueue, InUpdate, InFrames, Holds
<1>15. CASE DemandResync
  BY <1>4, <1>15 DEF DemandResync, WillRead, Active, outsideSession, historyVars
<1>16. CASE Hello
  <2>1. /\ UNCHANGED <<log, pc, own, unpublished, socket, view, queue, update, lagged>>
        /\ Active /\ Active' /\ frames' = Append(frames, [kind |-> "hello"])
    BY <1>16 DEF Hello, outsideSession, writerVars, linkVars, historyVars, Active
  <2>2. [kind |-> "hello"] \in Frames(Len(log))
    BY DEF Frames
  <2>3. \A c : InFrames(c) => InFrames(c)'
    BY <2>1, <2>2, FramesAppended
  <2>4. WillRead => WillRead'
    BY <2>1 DEF WillRead
  <2> QED
    BY <1>5, <2>1, <2>3, <2>4 DEF InQueue, InUpdate
<1>17. CASE ReceiveUpdate
  <2>1. CASE Head(queue).kind = "state"
    BY <1>15, <1>17, <2>1 DEF ReceiveUpdate
  <2>2. CASE Head(queue).kind # "state"
    <3>1. /\ UNCHANGED <<log, pc, own, unpublished, socket, view, frames, lagged>>
          /\ Active /\ Active' /\ queue # <<>> /\ queue' = Tail(queue) /\ update' = Head(queue)
      BY <1>17, <2>2
      DEF ReceiveUpdate, outsideSession, writerVars, linkVars, historyVars, Active
    <3>2. \A c : InQueue(c) => (InQueue(c) \/ InUpdate(c))'
      BY <3>1, UpdateTaken
    <3>3. \A c : ~InUpdate(c)
      BY <1>17 DEF ReceiveUpdate, Delivered, InUpdate, NoUpdate
    <3>4. \A c : InFrames(c) => InFrames(c)'
      BY <3>1 DEF InFrames, Holds
    <3>5. WillRead => WillRead'
      BY <3>1 DEF WillRead
    <3> QED
      BY <1>5, <3>1, <3>2, <3>3, <3>4, <3>5
  <2> QED
    BY <2>1, <2>2
<1>18. CASE Assemble
  <2> DEFINE posts == IF update.kind = "post" THEN ThreadAfter(update.after) ELSE {}
             delta == [kind |-> "delta", posts |-> posts, votes |-> update.rows]
  <2>1. posts \subseteq 1..Len(log)
    BY DEF ThreadAfter, Posts
  <2>2. update.rows \in Rows
    BY <1>18 DEF Assemble, Delivered, Publications
  <2>3. delta \in Frames(Len(log))
    BY <2>1, <2>2 DEF Frames
  <2>4. /\ UNCHANGED <<log, pc, own, unpublished, socket, view, queue, lagged>>
        /\ Active /\ Active'
        /\ IF update.kind = "surface" THEN frames' = frames ELSE frames' = Append(frames, delta)
    BY <1>18 DEF Assemble, Deltas, outsideSession, writerVars, linkVars, historyVars, Active
  <2>5. \A c \in Posts : InUpdate(c) => Holds(delta, c) /\ update.kind # "surface"
    BY DEF InUpdate, Holds, ThreadAfter
  <2> HIDE DEF delta
  <2>6. ASSUME NEW c \in Posts
        PROVE  InUpdate(c) \/ InFrames(c) => InFrames(c)'
    <3>1. CASE update.kind = "surface"
      BY <2>4, <2>5, <3>1 DEF InFrames, Holds
    <3>2. CASE update.kind # "surface"
      BY <2>3, <2>4, <2>5, <3>2, FramesAppended
    <3> QED
      BY <3>1, <3>2
  <2>7. ASSUME NEW c \in Posts \ unpublished'
        PROVE  PostKept(c) => PostKept(c)'
    <3>1. InUpdate(c) \/ InFrames(c) => InFrames(c)'
      BY <2>6
    <3>2. (WillRead => WillRead') /\ (InQueue(c) => InQueue(c)') /\ (ToPublish(c) => ToPublish(c)')
      BY <2>4 DEF WillRead, InQueue, ToPublish
    <3> QED
      BY <2>4, <3>1, <3>2 DEF PostKept
  <2> QED
    BY <1>1, <2>4, <2>7
<1>19. CASE PollDecide
  <2>1. CASE Len(log) > observed
    BY <1>15, <1>19, <2>1 DEF PollDecide
  <2>2. CASE ~(Len(log) > observed)
    <3>1. /\ UNCHANGED <<log, pc, own, unpublished, socket, view, queue, update, frames, lagged>>
          /\ Active /\ Active'
      BY <1>19, <2>2 DEF PollDecide, outsideSession, writerVars, linkVars, historyVars, Active
    <3>2. WillRead => WillRead'
      BY <3>1 DEF WillRead
    <3> QED
      BY <1>5, <3>1, <3>2 DEF InQueue, InUpdate, InFrames, Holds
  <2> QED
    BY <2>1, <2>2
<1>20. CASE ReceiveLagged
  BY <1>15, <1>20 DEF ReceiveLagged
<1>21. ASSUME NEW g \in Generations, Ticket(g)
       PROVE  PostsKept'
  <2>1. CASE TicketGranted(g) /\ IsCurrent(g)
    BY <1>4, <2>1 DEF TicketGranted, WillRead, outsideLink, historyVars
  <2>2. CASE TicketGranted(g) /\ ~IsCurrent(g)
    BY <1>3, <2>2 DEF TicketGranted, outsideLink, writerVars, historyVars
  <2>3. CASE TicketFails(g)
    BY <1>3, <2>3 DEF TicketFails, outsideLink, writerVars, historyVars
  <2> QED
    BY <1>21, <2>1, <2>2, <2>3 DEF Ticket
<1>22. CASE TimerFires \/ EstablishmentTimesOut
  BY <1>3, <1>22 DEF TimerFires, EstablishmentTimesOut, outsideLink, writerVars, historyVars
<1>23. CASE ResyncDemanded \/ LoseSocket \/ ReconnectNow \/ Close
  <2>1. socket' = "none" /\ UNCHANGED <<log, unpublished>>
    BY <1>23 DEF ResyncDemanded, LoseSocket, ReconnectNow, Close, RetireSocket, outsideLink,
                 historyVars
  <2> QED
    BY <1>4, <2>1 DEF WillRead
<1>24. CASE HelloArrives
  BY <1>4, <1>24 DEF HelloArrives, WillRead, outsideLink, historyVars
<1>25. CASE RecoveryRead
  <2>1. log' = log /\ unpublished' = unpublished /\ view'.posts = Posts
    BY <1>25 DEF RecoveryRead, outsideLink, historyVars
  <2>2. \A c \in Posts : PostKept(c)'
    BY <2>1 DEF PostKept
  <2> QED
    BY <1>1, <2>1, <2>2
<1>26. CASE Recovered
  <2>1. /\ UNCHANGED <<log, pc, own, unpublished, sessionVars, view>>
        /\ socket = "read" /\ socket' = "ready"
    BY <1>26 DEF Recovered, outsideLink, writerVars, historyVars
  <2>2. ASSUME NEW c
        PROVE  PostKept(c) => PostKept(c)'
    <3>1. WillRead => WillRead'
      BY <2>1 DEF WillRead, Active, sessionVars
    <3>2. /\ ToPublish(c) => ToPublish(c)'
          /\ InQueue(c) => InQueue(c)'
          /\ InUpdate(c) => InUpdate(c)'
          /\ InFrames(c) => InFrames(c)'
      BY <2>1 DEF ToPublish, InQueue, InUpdate, InFrames, Holds, sessionVars
    <3> QED
      BY <2>1, <3>1, <3>2 DEF PostKept
  <2> QED
    BY <1>1, <2>1, <2>2
<1>27. CASE DeltaArrives
  <2>1. /\ UNCHANGED <<log, pc, own, unpublished, socket, session, queue, lagged, update>>
        /\ frames # <<>> /\ frames' = Tail(frames)
        /\ view'.posts = view.posts \cup Head(frames).posts
    BY <1>27 DEF DeltaArrives, linkVars, outsideLink, writerVars, historyVars
  <2>2. ASSUME NEW c
        PROVE  PostKept(c) => PostKept(c)'
    <3>1. InFrames(c) => InFrames(c)' \/ c \in view'.posts
      BY <2>1, FrameTaken DEF Holds
    <3>2. /\ ToPublish(c) => ToPublish(c)'
          /\ InQueue(c) => InQueue(c)'
          /\ InUpdate(c) => InUpdate(c)'
          /\ WillRead => WillRead'
      BY <2>1 DEF ToPublish, InQueue, InUpdate, WillRead, Active
    <3> QED
      BY <2>1, <3>1, <3>2 DEF PostKept
  <2> QED
    BY <1>1, <2>1, <2>2
<1> QED
  BY <1>7, <1>8, <1>9, <1>10, <1>11, <1>12, <1>13, <1>14, <1>16, <1>17, <1>18, <1>19, <1>20,
     <1>21, <1>22, <1>23, <1>24, <1>25, <1>26, <1>27
  DEF Next, Writing, Session, Link

-----------------------------------------------------------------------------
(* Where the count of a candidate is, until the page shows it.             *)

\* Of N rows, the last that tells of c says t; none tells of c.
Ends(R, N, c, t) ==
  \E i \in 1..N : /\ c \in DOMAIN R[i] /\ R[i][c] = t
                  /\ \A j \in i + 1..N : c \notin DOMAIN R[j]
Lacks(R, N, c) == \A i \in 1..N : c \notin DOMAIN R[i]

LEMMA RowsAppended ==
  ASSUME NEW R, NEW S, NEW N \in Nat, \A i \in 1..N : S[i] = R[i], NEW c, NEW t
  PROVE  /\ c \in DOMAIN S[N + 1] /\ S[N + 1][c] = t => Ends(S, N + 1, c, t)
         /\ c \notin DOMAIN S[N + 1] => /\ Ends(R, N, c, t) => Ends(S, N + 1, c, t)
                                        /\ Lacks(R, N, c) => Lacks(S, N + 1, c)
<1>1. \A i \in 1..(N + 1) : i \in 1..N \/ i = N + 1
  OBVIOUS
<1>2. N + 1 \in 1..(N + 1) /\ \A j \in (N + 1) + 1..(N + 1) : FALSE
  OBVIOUS
<1>3. ASSUME c \notin DOMAIN S[N + 1], Ends(R, N, c, t)
      PROVE  Ends(S, N + 1, c, t)
  <2>1. PICK i \in 1..N : /\ c \in DOMAIN R[i] /\ R[i][c] = t
                          /\ \A j \in i + 1..N : c \notin DOMAIN R[j]
    BY <1>3 DEF Ends
  <2>2. i \in 1..(N + 1) /\ \A j \in i + 1..(N + 1) : j \in i + 1..N \/ j = N + 1
    OBVIOUS
  <2>3. \A j \in i + 1..N : j \in 1..N
    OBVIOUS
  <2>4. \A j \in i + 1..(N + 1) : c \notin DOMAIN S[j]
    BY <1>3, <2>1, <2>2, <2>3
  <2> QED
    BY <2>1, <2>2, <2>4 DEF Ends
<1>4. c \notin DOMAIN S[N + 1] /\ Lacks(R, N, c) => Lacks(S, N + 1, c)
  BY <1>1 DEF Lacks
<1>5. c \in DOMAIN S[N + 1] /\ S[N + 1][c] = t => Ends(S, N + 1, c, t)
  BY <1>2 DEF Ends
<1> QED
  BY <1>3, <1>4, <1>5

\* S is R without its first of M rows.
Without1(R, S, M, N) == M \in Nat /\ N \in Nat /\ M = N + 1 /\ \A i \in 1..N : S[i] = R[i + 1]

LEMMA RowsTaken ==
  ASSUME NEW R, NEW S, NEW M, NEW N, Without1(R, S, M, N), NEW c, NEW t
  PROVE  /\ Ends(R, M, c, t) =>
              \/ Ends(S, N, c, t)
              \/ Lacks(S, N, c) /\ Ends(R, 1, c, t)
         /\ Lacks(R, M, c) => Lacks(S, N, c) /\ c \notin DOMAIN R[1]
<1>0. M \in Nat /\ N \in Nat /\ M = N + 1 /\ \A i \in 1..N : S[i] = R[i + 1]
  BY DEF Without1
<1>1. \A i \in 1..N : i + 1 \in 1..M
  BY <1>0
<1>2. ASSUME Ends(R, M, c, t)
      PROVE  \/ Ends(S, N, c, t)
             \/ Lacks(S, N, c) /\ Ends(R, 1, c, t)
  <2>1. PICK i \in 1..M : /\ c \in DOMAIN R[i] /\ R[i][c] = t
                                /\ \A j \in i + 1..M : c \notin DOMAIN R[j]
    BY <1>2 DEF Ends
  <2>2. CASE i = 1
    <3>1. \A j \in 1..N : j + 1 \in i + 1..M
      BY <1>0, <2>2
    <3> QED
      BY <1>0, <2>1, <2>2, <3>1 DEF Lacks, Ends
  <2>3. CASE i # 1
    <3>1. i - 1 \in 1..N /\ S[i - 1] = R[i]
      BY <1>0, <2>3
    <3>2. \A j \in (i - 1) + 1..N : j \in 1..N /\ j + 1 \in i + 1..M
      BY <1>0, <3>1
    <3>3. \A j \in (i - 1) + 1..N : c \notin DOMAIN S[j]
      BY <1>0, <2>1, <3>2
    <3> QED
      BY <2>1, <3>1, <3>3 DEF Ends
  <2> QED
    BY <2>2, <2>3
<1>3. Lacks(R, M, c) => Lacks(S, N, c) /\ c \notin DOMAIN R[1]
  <2>1. 1 \in 1..M
    BY <1>0
  <2> QED
    BY <1>0, <1>1, <2>1 DEF Lacks
<1> QED
  BY <1>2, <1>3

\* A write of c's count that is not sent, or a full read that is demanded.
Telling(c) == \E w \in Writers : pc[w] \in {"committed", "built"} /\ c \in Touched(own[w])
Demanded == \E i \in 1..Len(queue) : queue[i].kind = "state"

\* Is c's count owed to the page?
Owed(c) == Active /\ ~lagged /\ c \notin blurred /\ ~Telling(c) /\ ~Demanded

RowsOf(f) == IF f.kind = "delta" THEN f.votes ELSE NoRows
QueueRows == [i \in 1..Len(queue) |-> queue[i].rows]
FrameRows == [i \in 1..Len(frames) |-> RowsOf(frames[i])]

QueueEnds(c) == Ends(QueueRows, Len(queue), c, Tally(c))
QueueLacks(c) == Lacks(QueueRows, Len(queue), c)
UpdateTells(c) == c \in DOMAIN update.rows /\ update.rows[c] = Tally(c)
FramesEnd(c) == Ends(FrameRows, Len(frames), c, Tally(c))
FramesLack(c) == Lacks(FrameRows, Len(frames), c)
ViewTells(c) == socket \in {"read", "ready"} => view.votes[c] = Tally(c)

FromUpdate(c) ==
  \/ UpdateTells(c)
  \/ c \notin DOMAIN update.rows /\ (FramesEnd(c) \/ (FramesLack(c) /\ ViewTells(c)))

\* The last that is on its way tells the game's count, or nothing is on its way
\* that tells of c and the page shows it.
VoteKept(c) == Owed(c) => QueueEnds(c) \/ (QueueLacks(c) /\ FromUpdate(c))

VotesKept == \A c \in Candidates : VoteKept(c)

LEMMA RowsQueued ==
  ASSUME Delivered, NEW u, queue' = Append(queue, u), u \in Publications(Len(log)),
         NEW c, Tally(c)' = Tally(c)
  PROVE  /\ c \in DOMAIN u.rows /\ u.rows[c] = Tally(c) => QueueEnds(c)'
         /\ c \notin DOMAIN u.rows => /\ QueueEnds(c) => QueueEnds(c)'
                                      /\ QueueLacks(c) => QueueLacks(c)'
<1>1. /\ Len(queue) \in Nat /\ Len(queue') = Len(queue) + 1
      /\ \A i \in 1..Len(queue) : queue'[i] = queue[i]
      /\ queue'[Len(queue) + 1] = u
  BY AppendProperties, LenProperties DEF Delivered
<1>2. /\ \A i \in 1..Len(queue) : QueueRows'[i] = QueueRows[i]
      /\ QueueRows'[Len(queue) + 1] = u.rows
  BY <1>1 DEF QueueRows
<1> QED
  BY <1>1, <1>2, RowsAppended DEF QueueEnds, QueueLacks

LEMMA QueueRowsTaken ==
  ASSUME Delivered, queue # <<>>, queue' = Tail(queue), NEW c, Tally(c)' = Tally(c)
  PROVE  /\ QueueEnds(c) =>
              \/ QueueEnds(c)'
              \/ /\ QueueLacks(c)' /\ c \in DOMAIN Head(queue).rows
                 /\ Head(queue).rows[c] = Tally(c)
         /\ QueueLacks(c) => QueueLacks(c)' /\ c \notin DOMAIN Head(queue).rows
<1>1. /\ Len(queue') \in Nat /\ Len(queue) \in Nat /\ Len(queue) = Len(queue') + 1
      /\ \A i \in 1..Len(queue') : queue'[i] = queue[i + 1]
      /\ Head(queue) = queue[1]
  BY HeadTailProperties, LenProperties DEF Delivered
<1>2. Without1(QueueRows, QueueRows', Len(queue), Len(queue'))
  BY <1>1 DEF QueueRows, Without1
<1>3. QueueRows[1] = Head(queue).rows
  BY <1>1 DEF QueueRows
<1>4. Ends(QueueRows, 1, c, Tally(c)) => c \in DOMAIN Head(queue).rows /\ Head(queue).rows[c] = Tally(c)
  BY <1>3 DEF Ends
<1>5. Ends(QueueRows, Len(queue), c, Tally(c)) =>
        \/ Ends(QueueRows', Len(queue'), c, Tally(c))
        \/ Lacks(QueueRows', Len(queue'), c) /\ Ends(QueueRows, 1, c, Tally(c))
  BY <1>2, RowsTaken
<1>6. Lacks(QueueRows, Len(queue), c) =>
        Lacks(QueueRows', Len(queue'), c) /\ c \notin DOMAIN QueueRows[1]
  BY <1>2, RowsTaken
<1>7. QueueEnds(c)' <=> Ends(QueueRows', Len(queue'), c, Tally(c))
  BY DEF QueueEnds
<1>8. QueueLacks(c)' <=> Lacks(QueueRows', Len(queue'), c)
  BY DEF QueueLacks
<1> QED
  BY <1>3, <1>4, <1>5, <1>6, <1>7, <1>8 DEF QueueEnds, QueueLacks

LEMMA FrameRowsAppended ==
  ASSUME Delivered, NEW f, frames' = Append(frames, f), f \in Frames(Len(log)),
         NEW c, Tally(c)' = Tally(c)
  PROVE  /\ c \in DOMAIN RowsOf(f) /\ RowsOf(f)[c] = Tally(c) => FramesEnd(c)'
         /\ c \notin DOMAIN RowsOf(f) => /\ FramesEnd(c) => FramesEnd(c)'
                                         /\ FramesLack(c) => FramesLack(c)'
<1>1. /\ Len(frames) \in Nat /\ Len(frames') = Len(frames) + 1
      /\ \A i \in 1..Len(frames) : frames'[i] = frames[i]
      /\ frames'[Len(frames) + 1] = f
  BY AppendProperties, LenProperties DEF Delivered
<1>2. /\ \A i \in 1..Len(frames) : FrameRows'[i] = FrameRows[i]
      /\ FrameRows'[Len(frames) + 1] = RowsOf(f)
  BY <1>1 DEF FrameRows, RowsOf
<1> QED
  BY <1>1, <1>2, RowsAppended DEF FramesEnd, FramesLack

LEMMA FrameRowsTaken ==
  ASSUME Delivered, frames # <<>>, frames' = Tail(frames), NEW c, Tally(c)' = Tally(c)
  PROVE  /\ FramesEnd(c) =>
              \/ FramesEnd(c)'
              \/ /\ FramesLack(c)' /\ c \in DOMAIN RowsOf(Head(frames))
                 /\ RowsOf(Head(frames))[c] = Tally(c)
         /\ FramesLack(c) => FramesLack(c)' /\ c \notin DOMAIN RowsOf(Head(frames))
<1>1. /\ Len(frames') \in Nat /\ Len(frames) \in Nat /\ Len(frames) = Len(frames') + 1
      /\ \A i \in 1..Len(frames') : frames'[i] = frames[i + 1]
      /\ Head(frames) = frames[1]
  BY HeadTailProperties, LenProperties DEF Delivered
<1>2. Without1(FrameRows, FrameRows', Len(frames), Len(frames'))
  BY <1>1 DEF FrameRows, RowsOf, Without1
<1>3. FrameRows[1] = RowsOf(Head(frames))
  BY <1>1 DEF FrameRows, RowsOf
<1>4. Ends(FrameRows, 1, c, Tally(c)) => c \in DOMAIN RowsOf(Head(frames)) /\ RowsOf(Head(frames))[c] = Tally(c)
  BY <1>3 DEF Ends
<1> QED
  BY <1>2, <1>3, <1>4, RowsTaken DEF FramesEnd, FramesLack

\* The event of a writer changed the counts that it did when it was committed.
LEMMA TouchedKept ==
  ASSUME Written, LogExtends, NEW n \in 1..Len(log), NEW c \in Candidates
  PROVE  c \in Touched(n)' <=> c \in Touched(n)
<1>1. Len(log) \in Nat /\ n \in Int /\ n - 1 \in Int /\ n <= Len(log) /\ n - 1 <= Len(log)
  BY LogIsOfCommands DEF Written
<1>2. Count(c, n)' = Count(c, n)
  BY <1>1, CountsKept
<1>3. Count(c, n - 1)' = Count(c, n - 1)
  BY <1>1, CountStays DEF Written, LogExtends
<1> QED
  BY <1>2, <1>3 DEF Touched

\* While the log grows, a writer that stays at its event goes on telling.
LEMMA StillTelling ==
  ASSUME Written, LogExtends, NEW w \in Writers, NEW c \in Candidates,
         \A v \in Writers : v # w /\ pc[v] \in {"committed", "built"} =>
           pc'[v] \in {"committed", "built"} /\ own'[v] = own[v]
  PROVE  Telling(c) =>
           \/ Telling(c)'
           \/ pc[w] \in {"committed", "built"} /\ c \in Touched(own[w])
<1>1. ASSUME NEW v \in Writers, v # w, pc[v] \in {"committed", "built"}, c \in Touched(own[v])
      PROVE  Telling(c)'
  <2>1. own[v] \in 1..Len(log)
    BY <1>1 DEF Written, Ordered, OrderedAt
  <2>2. c \in Touched(own[v])'
    <3>1. PICK n \in 1..Len(log) : n = own[v]
      BY <2>1
    <3>2. c \in Touched(n)'
      BY <1>1, <3>1, TouchedKept
    <3>3. own'[v] = n
      BY <1>1, <3>1
    <3> QED
      BY <3>2, <3>3 DEF Touched, Count, VotesFor
  <2> QED
    BY <1>1, <2>2 DEF Telling
<1> QED
  BY <1>1 DEF Telling

LEMMA TellingStays ==
  ASSUME Written, LogExtends, NEW c \in Candidates,
         \A v \in Writers : pc[v] \in {"committed", "built"} =>
           pc'[v] \in {"committed", "built"} /\ own'[v] = own[v]
  PROVE  Telling(c) => Telling(c)'
<1>1. ASSUME NEW w \in Writers, pc[w] \in {"committed", "built"}, c \in Touched(own[w])
      PROVE  Telling(c)'
  <2>1. PICK n \in 1..Len(log) : n = own[w]
    BY <1>1 DEF Written, Ordered, OrderedAt
  <2>2. c \in Touched(n)'
    BY <1>1, <2>1, TouchedKept
  <2>3. own'[w] = n /\ pc'[w] \in {"committed", "built"}
    BY <1>1, <2>1
  <2>4. c \in Touched(own[w])'
    BY <2>2, <2>3 DEF Touched, Count, VotesFor
  <2> QED
    BY <2>3, <2>4 DEF Telling
<1> QED
  BY <1>1 DEF Telling

\* A step that neither ends what exempts c nor touches what is on its way.
LEMMA OwedBefore ==
  ASSUME NEW c, Active' => Active, ~lagged' => ~lagged, c \notin blurred' => c \notin blurred,
         Telling(c) => Telling(c)', Demanded => Demanded'
  PROVE  Owed(c)' => Owed(c)
BY DEF Owed

LEMMA QueueStays ==
  ASSUME NEW c, queue' = queue, Tally(c)' = Tally(c)
  PROVE  /\ QueueEnds(c) => QueueEnds(c)'
         /\ QueueLacks(c) => QueueLacks(c)'
         /\ Demanded => Demanded'
BY DEF QueueEnds, QueueLacks, QueueRows, Ends, Lacks, Demanded

LEMMA FramesStay ==
  ASSUME NEW c, frames' = frames, Tally(c)' = Tally(c)
  PROVE  (FramesEnd(c) => FramesEnd(c)') /\ (FramesLack(c) => FramesLack(c)')
BY DEF FramesEnd, FramesLack, FrameRows, RowsOf, Ends, Lacks

LEMMA UpdateStays ==
  ASSUME NEW c, Tally(c)' = Tally(c), UNCHANGED <<update, frames, view>>,
         socket' \in {"read", "ready"} => socket \in {"read", "ready"}
  PROVE  FromUpdate(c) => FromUpdate(c)'
<1>1. (FramesEnd(c) => FramesEnd(c)') /\ (FramesLack(c) => FramesLack(c)')
  BY FramesStay
<1>2. (UpdateTells(c) => UpdateTells(c)') /\ (ViewTells(c) => ViewTells(c)')
  BY DEF UpdateTells, ViewTells
<1> QED
  BY <1>1, <1>2 DEF FromUpdate

LEMMA TransitStays ==
  ASSUME NEW c, VoteKept(c), Owed(c)' => Owed(c), Tally(c)' = Tally(c),
         UNCHANGED <<queue, update, frames, view>>,
         socket' \in {"read", "ready"} => socket \in {"read", "ready"}
  PROVE  VoteKept(c)'
<1>1. (QueueEnds(c) => QueueEnds(c)') /\ (QueueLacks(c) => QueueLacks(c)')
  BY QueueStays
<1>2. FromUpdate(c) => FromUpdate(c)'
  BY UpdateStays
<1> QED
  BY <1>1, <1>2 DEF VoteKept

\* Of a commit, a count is either Changed or as it was.
LEMMA CommitKeeps ==
  ASSUME VotesKept, NEW c \in Candidates, Telling(c) => Telling(c)',
         blurred \subseteq blurred', UNCHANGED <<sessionVars, linkVars, view>>,
         c \in Changed => c \in blurred' \/ Telling(c)'
  PROVE  VoteKept(c)'
<1>1. CASE c \in Changed
  BY <1>1 DEF VoteKept, Owed
<1>2. CASE c \notin Changed
  <2>1. Tally(c)' = Tally(c)
    BY <1>2 DEF Changed
  <2>2. Owed(c)' => Owed(c)
    BY <2>1, OwedBefore, QueueStays DEF sessionVars, Active
  <2>3. VoteKept(c)
    BY DEF VotesKept
  <2> QED
    BY <2>1, <2>2, <2>3, TransitStays DEF sessionVars, linkVars
<1> QED
  BY <1>1, <1>2

\* A publication that says nothing of c leaves what is on its way as it was.
LEMMA SentAside ==
  ASSUME Written, Delivered, VotesKept, NEW w \in Writers, Send(w), NEW c \in Candidates,
         c \notin DOMAIN rows[w], c \notin Touched(own[w]),
         c \notin blurred' => c \notin blurred
  PROVE  VoteKept(c)'
<1>1. /\ pc[w] = "built" /\ Finish(w)
      /\ UNCHANGED <<log, session, update, frames, socket, view>>
  BY DEF Send, linkVars
<1>2. LogExtends /\ Tally(c)' = Tally(c)
  BY <1>1, LogExtended, UnchangedCounts DEF Written
<1>3. Telling(c) => Telling(c)'
  <2>1. \A v \in Writers : v # w => pc'[v] = pc[v] /\ own'[v] = own[v]
    BY <1>1, FinishStays DEF Stays
  <2> QED
    BY <1>2, <2>1, StillTelling
<1>4. CASE ~Active \/ lagged'
  BY <1>1, <1>4 DEF VoteKept, Owed, Active
<1>5. CASE Active /\ ~lagged'
  <2>1. ~lagged /\ (queue' = queue \/ queue' = Append(queue, Publication(w)))
    BY <1>5 DEF Send, Broadcast, Lag, Active
  <2>2. Publication(w) \in Publications(Len(log)) /\ Publication(w).rows = rows[w]
    BY <1>1, SentIsPublication DEF Publication
  <2>3. /\ QueueEnds(c) => QueueEnds(c)'
        /\ QueueLacks(c) => QueueLacks(c)'
        /\ Demanded => Demanded'
    <3>1. CASE queue' = queue
      BY <1>2, <3>1, QueueStays
    <3>2. CASE queue' = Append(queue, Publication(w))
      <4>1. /\ Len(queue) \in Nat /\ Len(queue') = Len(queue) + 1
            /\ \A i \in 1..Len(queue) : queue'[i] = queue[i]
        BY <2>2, <3>2, AppendProperties, LenProperties DEF Delivered
      <4>2. Demanded => Demanded'
        BY <4>1 DEF Demanded
      <4> QED
        BY <1>2, <2>2, <3>2, <4>2, RowsQueued
    <3> QED
      BY <2>1, <3>1, <3>2
  <2>4. Owed(c)' => Owed(c)
    BY <1>1, <1>3, <2>1, <2>3, OwedBefore DEF Active
  <2>5. FromUpdate(c) => FromUpdate(c)'
    BY <1>1, <1>2, UpdateStays
  <2>6. VoteKept(c)
    BY DEF VotesKept
  <2> QED
    BY <2>3, <2>4, <2>5, <2>6 DEF VoteKept
<1> QED
  BY <1>4, <1>5

\* A vote tells the count that it has a row of, unless it was overlapped.
LEMMA SentTells ==
  ASSUME Written, Told, Delivered, NEW w \in Writers, Send(w), NEW c \in Candidates,
         c \in DOMAIN rows[w]
  PROVE  VoteKept(c)'
<1>1. pc[w] = "built" /\ command[w].kind = "vote" /\ UNCHANGED <<log, session>>
  BY DEF Send, Written, Ordered, OrderedAt
<1>2. Tally(c)' = Tally(c)
  BY <1>1, UnchangedCounts
<1>3. CASE ~Active \/ lagged' \/ c \in blurred'
  BY <1>1, <1>3 DEF VoteKept, Owed, Active
<1>4. CASE Active /\ ~lagged' /\ c \notin blurred'
  <2>1. c \notin overlapped[w] /\ read[w] # Unread
    BY <1>1, <1>4 DEF Send
  <2>2. rows[w][c] = Tally(c)
    BY <1>1, <2>1 DEF Told, ToldAt
  <2>3. queue' = Append(queue, Publication(w))
    <3>1. ~NothingToSend(w)
      BY <1>1 DEF NothingToSend
    <3> QED
      BY <1>4, <3>1 DEF Send, Broadcast, Lag, Active
  <2>4. Publication(w) \in Publications(Len(log)) /\ Publication(w).rows = rows[w]
    BY <1>1, SentIsPublication DEF Publication
  <2>5. QueueEnds(c)'
    BY <1>2, <2>2, <2>3, <2>4, RowsQueued
  <2> QED
    BY <2>5 DEF VoteKept
<1> QED
  BY <1>3, <1>4

LEMMA SentKeeps ==
  ASSUME Written, Told, Delivered, VotesKept, NEW w \in Writers, Send(w), NEW c \in Candidates
  PROVE  VoteKept(c)'
<1>1. /\ pc[w] = "built" /\ own[w] \in 1..Len(log) /\ log[own[w]] = command[w]
      /\ command[w] \in Commands /\ UNCHANGED <<log, session>>
  BY DEF Send, Written, Ordered, OrderedAt
<1>2. CASE c \in DOMAIN rows[w]
  BY <1>2, SentTells
<1>3. CASE c \notin DOMAIN rows[w] /\ command[w].kind = "vote"
  <2>1. CASE c \in blurred'
    BY <2>1 DEF VoteKept, Owed
  <2>2. CASE c \notin blurred'
    <3>1. c \notin Touched(own[w])
      <4>1. CASE c \in overlapped[w] \/ read[w] = Unread
        BY <1>3, <2>2, <4>1 DEF Send
      <4>2. CASE c \notin overlapped[w] /\ read[w] # Unread
        BY <1>1, <1>3, <4>2 DEF Told, ToldAt, Touched
      <4> QED
        BY <4>1, <4>2
    <3>2. c \notin blurred
      BY <1>3, <2>2 DEF Send
    <3> QED
      BY <1>3, <3>1, <3>2, SentAside
  <2> QED
    BY <2>1, <2>2
<1>4. CASE command[w].kind = "state"
  <2>1. CASE ~Active \/ lagged'
    BY <1>1, <2>1 DEF VoteKept, Owed, Active
  <2>2. CASE Active /\ ~lagged'
    <3>1. queue' = Append(queue, Publication(w)) /\ Publication(w).kind = "state"
      BY <1>4, <2>2 DEF Send, NothingToSend, Broadcast, Lag, Active, Publication
    <3>2. Publication(w) \in Publications(Len(log))
      BY <1>1, SentIsPublication
    <3>3. Len(queue) + 1 \in 1..Len(queue') /\ queue'[Len(queue) + 1] = Publication(w)
      BY <3>1, <3>2, AppendProperties, LenProperties DEF Delivered
    <3>4. Demanded'
      BY <3>1, <3>3 DEF Demanded
    <3> QED
      BY <3>4 DEF VoteKept, Owed
  <2> QED
    BY <2>1, <2>2
<1>5. CASE command[w].kind \notin {"vote", "state"}
  <2>1. DOMAIN log[own[w]].ballots = {}
    BY <1>1, <1>5, LiveAssumption DEF LiveAssumption, Kinds
  <2>2. c \notin Touched(own[w])
    BY <1>1, <2>1, NoBallotsNoChange DEF Written, Touched
  <2>3. DOMAIN rows[w] = {}
    BY <1>1, <1>5 DEF Written, Ordered, OrderedAt
  <2>4. blurred' = blurred
    BY <1>5 DEF Send
  <2> QED
    BY <2>2, <2>3, <2>4, SentAside
<1> QED
  BY <1>2, <1>3, <1>4, <1>5

LEMMA VotesKeptStep ==
  ASSUME Written, Told, Delivered, VotesKept, Next
  PROVE  VotesKept'
<1>0. LogTypes /\ Len(log) \in Nat /\ DOMAIN NoRows = {}
  BY LogIsOfCommands, RowsOfCounts DEF Written
<1>1. ASSUME ~Active' \/ lagged'
      PROVE  VotesKept'
  BY <1>1 DEF VotesKept, VoteKept, Owed
<1>2. ASSUME UNCHANGED <<log, pc, own, blurred>>
      PROVE  \A c \in Candidates : /\ Tally(c)' = Tally(c)
                                   /\ Telling(c) => Telling(c)'
                                   /\ c \notin blurred' => c \notin blurred
  <2>1. \A c : Tally(c)' = Tally(c)
    BY <1>2, UnchangedCounts
  <2>2. \A n : Touched(n)' = Touched(n)
    BY <1>2, UnchangedCounts
  <2>3. \A c \in Candidates : Telling(c) => Telling(c)'
    BY <1>2, <2>2 DEF Telling, Touched, Count, VotesFor
  <2> QED
    BY <1>2, <2>1, <2>3
<1>3. ASSUME UNCHANGED <<log, pc, own, blurred, queue, lagged, update, frames, view>>,
             Active' => Active, socket' \in {"read", "ready"} => socket \in {"read", "ready"}
      PROVE  VotesKept'
  <2>1. SUFFICES ASSUME NEW c \in Candidates
                 PROVE  VoteKept(c)'
    BY DEF VotesKept
  <2>2. Owed(c)' => Owed(c)
    BY <1>2, <1>3, OwedBefore, QueueStays
  <2>3. VoteKept(c)
    BY DEF VotesKept
  <2> QED
    BY <1>2, <1>3, <2>2, <2>3, TransitStays
<1>4. ASSUME UNCHANGED <<log, pc, own, blurred, queue, lagged>>, Active' => Active,
             \A c \in Candidates : FromUpdate(c) => FromUpdate(c)'
      PROVE  VotesKept'
  <2>1. SUFFICES ASSUME NEW c \in Candidates
                 PROVE  VoteKept(c)'
    BY DEF VotesKept
  <2>2. Owed(c)' => Owed(c)
    BY <1>2, <1>4, OwedBefore, QueueStays
  <2>3. (QueueEnds(c) => QueueEnds(c)') /\ (QueueLacks(c) => QueueLacks(c)')
    BY <1>2, <1>4, QueueStays
  <2>4. VoteKept(c)
    BY DEF VotesKept
  <2> QED
    BY <1>4, <2>2, <2>3, <2>4 DEF VoteKept
<1>5. ASSUME NEW w \in Writers, NEW m \in Commands, Begin(w, m)
      PROVE  VotesKept'
  <2>1. SUFFICES ASSUME NEW c \in Candidates
                 PROVE  VoteKept(c)'
    BY DEF VotesKept
  <2>2. /\ UNCHANGED <<log, own, blurred, sessionVars, linkVars, view>>
        /\ \A v \in Writers : pc[v] \in {"committed", "built"} => pc'[v] \in {"committed", "built"}
    BY <1>5 DEF Begin, historyVars, Written, WriterTypes
  <2>3. LogExtends /\ Tally(c)' = Tally(c) /\ c \notin Changed
    BY <1>0, <2>2, LogExtended, UnchangedCounts DEF Changed
  <2>4. Telling(c) => Telling(c)'
    BY <2>2, <2>3, TellingStays
  <2> QED
    BY <2>2, <2>3, <2>4, CommitKeeps
<1>6. ASSUME NEW w \in Writers, CommitOf(w)
      PROVE  VotesKept'
  <2>1. SUFFICES ASSUME NEW c \in Candidates
                 PROVE  VoteKept(c)'
    BY DEF VotesKept
  <2>2. command[w] \in Commands
    BY <1>6 DEF CommitOf, Written, Ordered, OrderedAt
  <2>3. LogExtends /\ Len(log') = Len(log) + 1
    BY <1>0, <1>6, <2>2, LogExtended, LogGrows DEF CommitOf
  <2>4. /\ pc[w] = "prepared" /\ pc'[w] = "committed" /\ own'[w] = Len(log) + 1
        /\ blurred' = blurred /\ UNCHANGED <<sessionVars, linkVars, view>>
        /\ \A v \in Writers : v # w => pc'[v] = pc[v] /\ own'[v] = own[v]
    BY <1>6 DEF CommitOf, Written, WriterTypes
  <2>5. Telling(c) => Telling(c)'
    BY <2>3, <2>4, StillTelling
  <2>6. c \in Changed => Telling(c)'
    <3>1. SUFFICES ASSUME c \in Changed
                   PROVE  c \in Touched(own[w])'
      BY <2>4 DEF Telling
    <3>2. Count(c, own[w])' = Tally(c)'
      BY <2>3, <2>4 DEF Tally
    <3>3. PICK n \in Int : n = Len(log)
      BY <1>0
    <3>4. Count(c, n)' = Tally(c)
      BY <2>3, <3>3, CountsKept DEF Tally
    <3>5. (own[w] - 1)' = n
      BY <1>0, <2>4, <3>3
    <3>6. Count(c, own[w] - 1)' = Tally(c)
      BY <3>4, <3>5 DEF Count, VotesFor
    <3> QED
      BY <3>1, <3>2, <3>6 DEF Changed, Touched
  <2> QED
    BY <2>4, <2>5, <2>6, CommitKeeps
<1>7. ASSUME NEW w \in Writers, NotCommitted(w)
      PROVE  VotesKept'
  <2>1. SUFFICES ASSUME NEW c \in Candidates
                 PROVE  VoteKept(c)'
    BY DEF VotesKept
  <2>2. command[w] \in Commands /\ pc[w] = "prepared" /\ Finish(w)
    BY <1>7 DEF NotCommitted, Written, Ordered, OrderedAt
  <2>3. LogExtends
    BY <1>0, <1>7, <2>2, LogExtended DEF NotCommitted
  <2>4. blurred' = blurred \cup Changed /\ UNCHANGED <<sessionVars, linkVars, view>>
    BY <1>7 DEF NotCommitted
  <2>5. Telling(c) => Telling(c)'
    BY <2>2, <2>3, StillTelling, FinishStays DEF Stays
  <2> QED
    BY <2>4, <2>5, CommitKeeps
<1>8. ASSUME NEW w \in Writers, Build(w)
      PROVE  VotesKept'
  <2>1. SUFFICES ASSUME NEW c \in Candidates
                 PROVE  VoteKept(c)'
    BY DEF VotesKept
  <2>2. /\ UNCHANGED <<log, own, blurred, sessionVars, linkVars, view>>
        /\ \A v \in Writers : pc[v] \in {"committed", "built"} => pc'[v] \in {"committed", "built"}
    BY <1>8 DEF Build, historyVars, Written, WriterTypes
  <2>3. LogExtends /\ Tally(c)' = Tally(c) /\ c \notin Changed
    BY <1>0, <2>2, LogExtended, UnchangedCounts DEF Changed
  <2>4. Telling(c) => Telling(c)'
    BY <2>2, <2>3, TellingStays
  <2> QED
    BY <2>2, <2>3, <2>4, CommitKeeps
<1>9. ASSUME NEW w \in Writers, NotBuilt(w)
      PROVE  VotesKept'
  <2>1. SUFFICES ASSUME NEW c \in Candidates
                 PROVE  VoteKept(c)'
    BY DEF VotesKept
  <2>2. /\ log' = log /\ Finish(w) /\ UNCHANGED <<sessionVars, linkVars, view>>
        /\ blurred' = blurred \cup Touched(own[w])
    BY <1>9 DEF NotBuilt
  <2>3. LogExtends /\ c \notin Changed
    BY <1>0, <2>2, LogExtended, UnchangedCounts DEF Changed
  <2>4. CASE c \in Touched(own[w])
    BY <2>2, <2>4 DEF VoteKept, Owed
  <2>5. CASE c \notin Touched(own[w])
    <3>1. Telling(c) => Telling(c)'
      BY <2>2, <2>3, <2>5, StillTelling, FinishStays DEF Stays
    <3> QED
      BY <2>2, <2>3, <3>1, CommitKeeps
  <2> QED
    BY <2>4, <2>5
<1>10. ASSUME NEW w \in Writers, Send(w)
       PROVE  VotesKept'
  BY <1>10, SentKeeps DEF VotesKept
<1>11. ASSUME NEW m \in Commands, CommitElsewhere(m)
       PROVE  VotesKept'
  <2>1. SUFFICES ASSUME NEW c \in Candidates
                 PROVE  VoteKept(c)'
    BY DEF VotesKept
  <2>2. LogExtends
    BY <1>0, <1>11, LogExtended DEF CommitElsewhere
  <2>3. /\ blurred' = blurred \cup Changed
        /\ UNCHANGED <<pc, own, sessionVars, linkVars, view>>
    BY <1>11 DEF CommitElsewhere, writerVars
  <2>4. Telling(c) => Telling(c)'
    BY <2>2, <2>3, TellingStays
  <2> QED
    BY <2>3, <2>4, CommitKeeps
<1>12. CASE Baseline \/ PollCheck
  BY <1>3, <1>12 DEF Baseline, PollCheck, outsideSession, writerVars, linkVars, historyVars, Active
<1>13. CASE DemandResync
  BY <1>1, <1>13 DEF DemandResync, Active
<1>14. CASE Hello
  <2>1. /\ UNCHANGED <<log, pc, own, blurred, socket, view, queue, update, lagged>>
        /\ Active /\ frames' = Append(frames, [kind |-> "hello"])
    BY <1>14 DEF Hello, outsideSession, writerVars, linkVars, historyVars, Active
  <2>2. [kind |-> "hello"] \in Frames(Len(log)) /\ RowsOf([kind |-> "hello"]) = NoRows
    BY DEF Frames, RowsOf
  <2>3. ASSUME NEW c \in Candidates
        PROVE  FromUpdate(c) => FromUpdate(c)'
    <3>1. Tally(c)' = Tally(c)
      BY <1>2, <2>1
    <3>2. (FramesEnd(c) => FramesEnd(c)') /\ (FramesLack(c) => FramesLack(c)')
      BY <1>0, <2>1, <2>2, <3>1, FrameRowsAppended
    <3> QED
      BY <2>1, <3>1, <3>2 DEF FromUpdate, UpdateTells, ViewTells
  <2> QED
    BY <1>4, <2>1, <2>3
<1>15. CASE ReceiveUpdate
  <2>1. CASE Head(queue).kind = "state"
    BY <1>13, <1>15, <2>1 DEF ReceiveUpdate
  <2>2. CASE Head(queue).kind # "state"
    <3>1. /\ UNCHANGED <<log, pc, own, blurred, socket, view, frames, lagged>>
          /\ Active /\ queue # <<>> /\ queue' = Tail(queue) /\ update' = Head(queue)
          /\ update = NoUpdate
      BY <1>15, <2>2
      DEF ReceiveUpdate, outsideSession, writerVars, linkVars, historyVars, Active, Delivered
    <3>2. SUFFICES ASSUME NEW c \in Candidates
                   PROVE  VoteKept(c)'
      BY DEF VotesKept
    <3>3. Tally(c)' = Tally(c) /\ (Telling(c) => Telling(c)')
      BY <1>2, <3>1
    <3>4. Demanded => Demanded'
      <4>1. /\ Len(queue) \in Nat /\ Len(queue') = Len(queue) - 1
            /\ \A i \in 1..Len(queue') : queue'[i] = queue[i + 1]
            /\ Head(queue) = queue[1]
        BY <3>1, HeadTailProperties, LenProperties DEF Delivered
      <4>2. ASSUME NEW i \in 1..Len(queue), queue[i].kind = "state"
            PROVE  Demanded'
        <5>1. i # 1
          BY <2>2, <4>1, <4>2
        <5>2. i - 1 \in 1..Len(queue') /\ queue'[i - 1] = queue[i]
          BY <4>1, <5>1
        <5> QED
          BY <4>2, <5>2 DEF Demanded
      <4> QED
        BY <4>2 DEF Demanded
    <3>5. Owed(c)' => Owed(c)
      BY <3>1, <3>3, <3>4, OwedBefore
    <3>6. /\ QueueEnds(c) => QueueEnds(c)' \/ (QueueLacks(c)' /\ UpdateTells(c)')
          /\ QueueLacks(c) => QueueLacks(c)' /\ c \notin DOMAIN update'.rows
      BY <3>1, <3>3, QueueRowsTaken DEF UpdateTells
    <3>7. FromUpdate(c) /\ c \notin DOMAIN update'.rows => FromUpdate(c)'
      <4>1. c \notin DOMAIN update.rows
        BY <1>0, <3>1 DEF NoUpdate
      <4>2. (FramesEnd(c) => FramesEnd(c)') /\ (FramesLack(c) => FramesLack(c)')
        BY <3>1, <3>3, FramesStay
      <4> QED
        BY <3>1, <3>3, <4>1, <4>2 DEF FromUpdate, UpdateTells, ViewTells
    <3>8. VoteKept(c)
      BY DEF VotesKept
    <3> QED
      BY <3>5, <3>6, <3>7, <3>8 DEF VoteKept, FromUpdate
  <2> QED
    BY <2>1, <2>2
<1>16. CASE Assemble
  <2> DEFINE posts == IF update.kind = "post" THEN ThreadAfter(update.after) ELSE {}
             delta == [kind |-> "delta", posts |-> posts, votes |-> update.rows]
  <2>1. posts \subseteq 1..Len(log)
    BY DEF ThreadAfter, Posts
  <2>2. update \in Publications(Len(log)) /\ update.rows \in Rows
    BY <1>16 DEF Assemble, Delivered, Publications
  <2>3. delta \in Frames(Len(log)) /\ RowsOf(delta) = update.rows
    BY <2>1, <2>2 DEF Frames, RowsOf
  <2>4. /\ UNCHANGED <<log, pc, own, blurred, socket, view, queue, lagged>>
        /\ Active /\ update' = NoUpdate
        /\ IF update.kind = "surface" THEN frames' = frames ELSE frames' = Append(frames, delta)
    BY <1>16 DEF Assemble, Deltas, outsideSession, writerVars, linkVars, historyVars, Active
  <2> HIDE DEF delta
  <2>5. update.kind = "surface" => DOMAIN update.rows = {}
    BY <2>2 DEF Publications
  <2>6. ASSUME NEW c \in Candidates
        PROVE  FromUpdate(c) => FromUpdate(c)'
    <3>1. Tally(c)' = Tally(c) /\ c \notin DOMAIN update'.rows
      BY <1>0, <1>2, <2>4 DEF NoUpdate
    <3>2. /\ UpdateTells(c) => FramesEnd(c)'
          /\ c \notin DOMAIN update.rows =>
               (FramesEnd(c) => FramesEnd(c)') /\ (FramesLack(c) => FramesLack(c)')
      <4>1. CASE update.kind = "surface"
        BY <2>4, <2>5, <3>1, <4>1, FramesStay DEF UpdateTells
      <4>2. CASE update.kind # "surface"
        BY <2>3, <2>4, <3>1, <4>2, FrameRowsAppended DEF UpdateTells
      <4> QED
        BY <4>1, <4>2
    <3>3. ViewTells(c) => ViewTells(c)'
      BY <2>4, <3>1 DEF ViewTells
    <3> QED
      BY <3>1, <3>2, <3>3 DEF FromUpdate
  <2> QED
    BY <1>4, <2>4, <2>6
<1>17. CASE PollDecide
  <2>1. CASE Len(log) > observed
    BY <1>13, <1>17, <2>1 DEF PollDecide
  <2>2. CASE ~(Len(log) > observed)
    BY <1>3, <1>17, <2>2 DEF PollDecide, outsideSession, writerVars, linkVars, historyVars, Active
  <2> QED
    BY <2>1, <2>2
<1>18. CASE ReceiveLagged
  BY <1>13, <1>18 DEF ReceiveLagged
<1>19. ASSUME NEW g \in Generations, Ticket(g)
       PROVE  VotesKept'
  <2>1. CASE TicketGranted(g) /\ IsCurrent(g)
    <3>1. socket' = "connecting" /\ queue' = <<>> /\ update' = NoUpdate /\ frames' = <<>>
      BY <2>1 DEF TicketGranted
    <3>2. Len(queue') = 0 /\ Len(frames') = 0
      BY <3>1, EmptySeq
    <3>3. \A c : QueueLacks(c)' /\ FramesLack(c)' /\ c \notin DOMAIN update'.rows /\ ViewTells(c)'
      BY <1>0, <3>1, <3>2 DEF QueueLacks, FramesLack, Lacks, NoUpdate, ViewTells
    <3> QED
      BY <3>3 DEF VotesKept, VoteKept, FromUpdate
  <2>2. CASE TicketGranted(g) /\ ~IsCurrent(g)
    BY <1>3, <2>2 DEF TicketGranted, outsideLink, sessionVars, writerVars, historyVars, Active
  <2>3. CASE TicketFails(g)
    BY <1>3, <2>3 DEF TicketFails, outsideLink, sessionVars, writerVars, historyVars, Active
  <2> QED
    BY <1>19, <2>1, <2>2, <2>3 DEF Ticket
<1>20. CASE TimerFires \/ EstablishmentTimesOut \/ Recovered
  BY <1>3, <1>20 DEF TimerFires, EstablishmentTimesOut, Recovered, outsideLink, sessionVars,
                     writerVars, historyVars, Active
<1>21. CASE ResyncDemanded \/ LoseSocket \/ ReconnectNow \/ Close
  BY <1>1, <1>21 DEF ResyncDemanded, LoseSocket, ReconnectNow, Close, RetireSocket, EndSession,
                     Active
<1>22. CASE HelloArrives
  <2>1. /\ UNCHANGED <<log, pc, own, blurred, session, queue, lagged, update>>
        /\ frames # <<>> /\ frames' = Tail(frames) /\ RowsOf(Head(frames)) = NoRows
        /\ socket' = "recovering"
    BY <1>22 DEF HelloArrives, outsideLink, writerVars, historyVars, RowsOf
  <2>2. ASSUME NEW c \in Candidates
        PROVE  FromUpdate(c) => FromUpdate(c)'
    <3>1. Tally(c)' = Tally(c)
      BY <1>2, <2>1
    <3>2. (FramesEnd(c) => FramesEnd(c)') /\ (FramesLack(c) => FramesLack(c)')
      BY <1>0, <2>1, <3>1, FrameRowsTaken
    <3> QED
      BY <2>1, <3>1, <3>2 DEF FromUpdate, UpdateTells, ViewTells
  <2> QED
    BY <1>4, <2>1, <2>2 DEF Active
<1>23. CASE RecoveryRead
  <2>1. /\ UNCHANGED <<log, pc, own, blurred, session, queue, lagged, update, frames>>
        /\ \A c \in Candidates : view'.votes[c] = Tally(c)
    BY <1>23 DEF RecoveryRead, sessionVars, outsideLink, writerVars, historyVars
  <2>2. ASSUME NEW c \in Candidates
        PROVE  FromUpdate(c) => FromUpdate(c)'
    <3>1. Tally(c)' = Tally(c)
      BY <1>2, <2>1
    <3>2. (FramesEnd(c) => FramesEnd(c)') /\ (FramesLack(c) => FramesLack(c)')
      BY <2>1, <3>1, FramesStay
    <3> QED
      BY <2>1, <3>1, <3>2 DEF FromUpdate, UpdateTells, ViewTells
  <2> QED
    BY <1>4, <2>1, <2>2 DEF Active
<1>24. CASE DeltaArrives
  <2>1. /\ UNCHANGED <<log, pc, own, blurred, session, socket, queue, lagged, update>>
        /\ frames # <<>> /\ frames' = Tail(frames) /\ RowsOf(Head(frames)) = Head(frames).votes
        /\ \A c \in Candidates :
             view'.votes[c] = IF c \in DOMAIN Head(frames).votes
                                THEN Head(frames).votes[c] ELSE view.votes[c]
    BY <1>24 DEF DeltaArrives, linkVars, outsideLink, writerVars, historyVars, RowsOf
  <2>2. ASSUME NEW c \in Candidates
        PROVE  FromUpdate(c) => FromUpdate(c)'
    <3>1. Tally(c)' = Tally(c)
      BY <1>2, <2>1
    <3>2. /\ FramesEnd(c) => FramesEnd(c)' \/ (FramesLack(c)' /\ ViewTells(c)')
          /\ FramesLack(c) /\ ViewTells(c) => FramesLack(c)' /\ ViewTells(c)'
      BY <2>1, <3>1, FrameRowsTaken DEF ViewTells
    <3> QED
      BY <2>1, <3>1, <3>2 DEF FromUpdate, UpdateTells
  <2> QED
    BY <1>4, <2>1, <2>2 DEF Active
<1> QED
  BY <1>5, <1>6, <1>7, <1>8, <1>9, <1>10, <1>11, <1>12, <1>14, <1>15, <1>16, <1>17, <1>18,
     <1>19, <1>20, <1>21, <1>22, <1>23, <1>24
  DEF Next, Writing, Session, Link

-----------------------------------------------------------------------------
(* What the page shows when all is quiet, and the types.                   *)

Kept == PostsKept /\ VotesKept

LEMMA KeptInit ==
  ASSUME Init
  PROVE  Kept
<1>1. Len(log) = 0
  BY EmptySeq DEF Init
<1>2. PostsKept
  BY <1>1 DEF PostsKept, Posts
<1>3. VotesKept
  BY DEF Init, VotesKept, VoteKept, Owed, Active
<1> QED
  BY <1>2, <1>3 DEF Kept

LEMMA KeptStutters ==
  ASSUME Written, Kept, UNCHANGED vars
  PROVE  Kept'
<1>1. /\ UNCHANGED <<log, pc, own, unpublished, blurred, socket, view>>
      /\ UNCHANGED <<session, queue, lagged, update, frames>>
  BY DEF vars, writerVars, sessionVars, linkVars, historyVars
<1>2. PostsKept'
  <2>1. \A c : PostKept(c) => PostKept(c)'
    BY <1>1 DEF PostKept, WillRead, Active, ToPublish, InQueue, InUpdate, InFrames, Holds
  <2> QED
    BY <1>1, <2>1 DEF Kept, PostsKept, Posts
<1>3. VotesKept'
  <2>1. SUFFICES ASSUME NEW c \in Candidates
                 PROVE  VoteKept(c)'
    BY DEF VotesKept
  <2>2. LogExtends /\ Tally(c)' = Tally(c)
    BY <1>1, LogExtended, UnchangedCounts DEF Written
  <2>3. Telling(c) => Telling(c)'
    BY <1>1, <2>2, TellingStays
  <2>4. Owed(c)' => Owed(c)
    BY <1>1, <2>2, <2>3, OwedBefore, QueueStays DEF Active
  <2>5. VoteKept(c)
    BY DEF Kept, VotesKept
  <2> QED
    BY <1>1, <2>2, <2>4, <2>5, TransitStays
<1> QED
  BY <1>2, <1>3 DEF Kept

LEMMA AlwaysKept == Spec => [](Written /\ Delivered /\ Kept)
<1>1. Init => Kept
  BY KeptInit
<1>2. Written /\ Told /\ Delivered /\ Kept /\ [Next]_vars => Kept'
  <2>1. Written /\ Told /\ Delivered /\ Kept /\ Next => Kept'
    BY PostsStep, VotesKeptStep DEF Kept
  <2> QED
    BY <2>1, KeptStutters
<1> QED
  BY <1>1, <1>2, AlwaysDelivered, AlwaysTold, PTL DEF Spec

\* With nothing on its way, what is kept is what is shown.
LEMMA QuietPage ==
  ASSUME Written, Delivered, Kept, Quiet
  PROVE  /\ \A n \in Posts : n \in view.posts \cup unpublished
         /\ \A c \in Candidates \ blurred : view.votes[c] = Tally(c)
<1>1. /\ Len(queue) = 0 /\ Len(frames) = 0 /\ update = NoUpdate /\ Active
      /\ socket = "ready" /\ ~lagged /\ \A w \in Writers : pc[w] = "idle"
  BY EmptySeq DEF Delivered, Quiet, Active
<1>2. \A n \in Posts : n \in view.posts \cup unpublished
  <2>1. \A n : ~ToPublish(n) /\ ~InQueue(n) /\ ~InUpdate(n) /\ ~InFrames(n) /\ ~WillRead
    BY <1>1 DEF ToPublish, InQueue, InUpdate, InFrames, WillRead, NoUpdate
  <2> QED
    BY <2>1 DEF Kept, PostsKept, PostKept
<1>3. ASSUME NEW c \in Candidates \ blurred
      PROVE  view.votes[c] = Tally(c)
  <2>1. Owed(c)
    BY <1>1 DEF Owed, Telling, Demanded
  <2>2. ~QueueEnds(c) /\ ~FramesEnd(c)
    BY <1>1 DEF QueueEnds, FramesEnd, Ends
  <2>3. ~UpdateTells(c)
    BY <1>1, RowsOfCounts DEF UpdateTells, NoUpdate
  <2>4. ViewTells(c)
    BY <2>1, <2>2, <2>3 DEF Kept, VotesKept, VoteKept, FromUpdate
  <2> QED
    BY <1>1, <2>4 DEF ViewTells
<1> QED
  BY <1>2, <1>3

\* When nothing is under way the page shows every post of which something was
\* published: between them the thread reads after thread_after_seq, the session's
\* loop and cursor, the page's union of posts and its recovery skip none.
THEOREM PublishedPostsAreShown == Spec => []QuietShowsPosts
<1>1. Written /\ Delivered /\ Kept => QuietShowsPosts
  BY QuietPage DEF QuietShowsPosts
<1> QED
  BY <1>1, AlwaysKept, PTL

\* When nothing is under way the page shows the game's count of every candidate
\* whose last change was published by a command that no other change of that count
\* overlapped: the rows assemble_update selects and the page's upserts are enough
\* where commands do not overlap. Where they do they are not (CountsAreShown).
THEOREM UnoverlappedCountsAreShown == Spec => []QuietShowsCounts
<1>1. Written /\ Delivered /\ Kept => QuietShowsCounts
  BY QuietPage DEF QuietShowsCounts
<1> QED
  BY <1>1, AlwaysKept, PTL

\* The requests and the faults that are counted.
Counted == asking \subseteq 1..generation /\ faults \in 0..MaxFaults

LEMMA CountedStep ==
  ASSUME LinkTypes, Counted, Next
  PROVE  Counted'
<1>0. generation \in Nat /\ MaxFaults \in Nat
  BY LiveAssumption DEF LinkTypes, Generations, LiveAssumption
<1>1. ASSUME generation' = generation, asking' \subseteq asking,
             faults' = faults \/ (faults < MaxFaults /\ faults' = faults + 1)
      PROVE  Counted'
  BY <1>0, <1>1 DEF Counted
<1>2. ASSUME NEW current \in Nat, OpenSocket(current),
             faults' = faults \/ (faults < MaxFaults /\ faults' = faults + 1)
      PROVE  Counted'
  <2>1. CASE current # 0
    BY <1>1, <1>2, <2>1 DEF OpenSocket
  <2>2. CASE current = 0
    <3>1. generation' = generation + 1 /\ asking' = asking \cup {generation + 1}
      BY <1>2, <2>2 DEF OpenSocket
    <3>2. faults' \in 0..MaxFaults
      BY <1>0, <1>2 DEF Counted
    <3> QED
      BY <1>0, <3>1, <3>2 DEF Counted
  <2> QED
    BY <2>1, <2>2
<1>3. ASSUME NEW w \in Writers, NEW m \in Commands, Begin(w, m)
      PROVE  Counted'
  BY <1>1, <1>3 DEF Begin, linkVars
<1>4. ASSUME NEW w \in Writers, Writing(w)
      PROVE  Counted'
  BY <1>1, <1>4 DEF Writing, CommitOf, NotCommitted, Build, NotBuilt, Send, linkVars
<1>5. ASSUME NEW m \in Commands, CommitElsewhere(m)
      PROVE  Counted'
  BY <1>1, <1>5 DEF CommitElsewhere, linkVars
<1>6. CASE Session
  BY <1>1, <1>6 DEF Session, Baseline, Hello, ReceiveLagged, ReceiveUpdate, Assemble,
                    PollCheck, PollDecide, DemandResync, outsideSession, linkVars
<1>7. ASSUME NEW g \in Generations, Ticket(g)
      PROVE  Counted'
  <2>1. CASE TicketGranted(g)
    BY <1>1, <2>1 DEF TicketGranted
  <2>2. CASE TicketFails(g)
    BY <1>1, <2>2 DEF TicketFails
  <2> QED
    BY <1>7, <2>1, <2>2 DEF Ticket
<1>8. CASE TimerFires
  <2>1. establishment \in Nat
    BY <1>0 DEF LinkTypes
  <2> QED
    BY <1>2, <1>8, <2>1 DEF TimerFires
<1>9. CASE ResyncDemanded \/ HelloArrives \/ RecoveryRead \/ Recovered \/ DeltaArrives
  BY <1>1, <1>9 DEF ResyncDemanded, HelloArrives, RecoveryRead, Recovered, DeltaArrives,
                    RetireSocket, linkVars
<1>10. CASE EstablishmentTimesOut \/ LoseSocket \/ Close
  BY <1>1, <1>10 DEF EstablishmentTimesOut, LoseSocket, Close, RetireSocket
<1>11. CASE ReconnectNow
  BY <1>2, <1>11 DEF ReconnectNow
<1> QED
  BY <1>3, <1>4, <1>5, <1>6, <1>7, <1>8, <1>9, <1>10, <1>11 DEF Next, Link

LEMMA AlwaysCounted == Spec => []Counted
<1>1. Init => Counted
  BY LiveAssumption DEF Init, Counted, LiveAssumption
<1>2. LinkTypes /\ Counted /\ [Next]_vars => Counted'
  BY CountedStep DEF Counted, vars, linkVars
<1> QED
  BY <1>1, <1>2, AlwaysOwned, PTL DEF Spec

\* The delivery's state is always of its type.
THEOREM LiveDeliveryTypes == Spec => []TypeOK
<1>1. ASSUME Written, Delivered, LinkTypes, Counted
      PROVE  TypeOK
  <2>1. log \in Seq(Commands) /\ Len(log) <= MaxCommits
    BY <1>1 DEF Written, LogTypes
  <2>2. /\ pc \in [Writers -> {"idle", "prepared", "committed", "built"}]
        /\ command \in [Writers -> Commands \cup {NoCommand}] /\ rows \in [Writers -> Rows]
    BY <1>1 DEF Written, WriterTypes
  <2>3. Len(log) \in Nat
    BY <1>1, LogIsOfCommands DEF Written
  <2>4. \A w \in Writers : read[w] \in {Unread} \cup 0..Len(log) /\ own[w] \in 0..Len(log)
    BY <1>1, <2>3 DEF Written, Ordered, OrderedAt, Unread
  <2>5. read \in [Writers -> {Unread} \cup 0..Len(log)] /\ own \in [Writers -> 0..Len(log)]
    BY <1>1, <2>4 DEF Written, WriterTypes
  <2>6. /\ session \in {"none", "subscribed", "baselined", "open", "querying", "assembling", "ended"}
        /\ Len(queue) <= Capacity /\ lagged \in BOOLEAN
        /\ observed \in 0..Len(log) /\ latest \in 0..Len(log)
        /\ view.posts \subseteq 1..Len(log) /\ view.votes \in [Candidates -> Counts]
    BY <1>1 DEF Delivered, Views
  <2>7. /\ unpublished \subseteq 1..Len(log)
        /\ overlapped \in [Writers -> SUBSET Candidates] /\ blurred \subseteq Candidates
    BY <1>1 DEF Written, HistoryTypes
  <2> QED
    BY <1>1, <2>1, <2>2, <2>5, <2>6, <2>7 DEF TypeOK, LinkTypes, Counted
<1>2. Written /\ Delivered /\ LinkTypes /\ Counted => TypeOK
  BY <1>1
<1> QED
  BY <1>2, AlwaysDelivered, AlwaysOwned, AlwaysCounted, PTL
=============================================================================
