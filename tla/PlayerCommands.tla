---------------------------- MODULE PlayerCommands ----------------------------
(***************************************************************************)
(* A player's commands: from the control on the game page, through the     *)
(* command endpoint, to the game's log, and back to what the page shows.   *)
(*                                                                         *)
(* The page sends one command at a time under an id it has put into the    *)
(* tab's session storage first. A try that is not answered leaves it not   *)
(* knowing whether the command took effect; it then offers that id again,  *)
(* and no other command. The server records a receipt with the effect and  *)
(* answers a repeated id from it. A confirmed command is followed by a     *)
(* refresh of the projections it changes.                                  *)
(*                                                                         *)
(* PageView is the page's store, with all ProjectionStore promises and no  *)
(* more; its server is the game's log here.                                *)
(***************************************************************************)
EXTENDS PageView

CONSTANTS
  StateKey,      \* the key of the slot's command state
  MaxIds,        \* bound on command ids
  MaxTries       \* bound on requests

ASSUME CommandAssumption ==
  /\ StateKey \in ReadKeys /\ Asks \subseteq Nat \ {0}
  /\ MaxIds \in Nat /\ MaxTries \in Nat

Ids == 1..MaxIds
Tries == 1..MaxTries
Commits == 1..MaxCommits
Kinds == {"post", "once"}

VARIABLES
  author,        \* the id whose effect a commit of the log is, 0 for others
  receipt,       \* command_receipt: the commit of an id, 0 for none
  minted,        \* command ids generated so far
  kindOf,        \* the command of an id: a post, or one that cannot be repeated
  tries,         \* requests sent so far
  idOf,          \* the id of a request
  request,       \* "unsent", at the "server", or the answer on its way back;
                 \* "over" when nobody will hear the answer
  attempt,       \* commandRecoveryAttempts: the id that may be retried, or 0
  stored,        \* the same in the tab's session storage
  storage,       \* commandRecoveryStorageAvailable
  enabled,       \* data.commandsEnabled: was the page loaded with a slot?
  status,        \* commandStatus
  about,         \* the id commandStatus speaks of
  awaiting,      \* the request whose answer is awaited, or 0
  recovering,    \* the refresh after an answer that is awaited, or 0
  fate           \* history: how the page parted with an id

serverVars == <<author, receipt>>
idVars == <<minted, kindOf>>
wireVars == <<tries, idOf, request>>
recoveryVars == <<attempt, stored, storage, enabled>>
pageVars == <<status, about, awaiting, recovering, fate>>
commandVars == <<serverVars, idVars, wireVars, recoveryVars, pageVars>>
vars == <<viewVars, commandVars>>

Init ==
  /\ ViewInit
  /\ author = [c \in Commits |-> 0]
  /\ receipt = [i \in Ids |-> 0]
  /\ minted = 0
  /\ kindOf = [i \in Ids |-> "post"]
  /\ tries = 0
  /\ idOf = [t \in Tries |-> 0]
  /\ request = [t \in Tries |-> "unsent"]
  /\ attempt = 0 /\ stored = 0 /\ storage = TRUE /\ enabled = TRUE
  /\ status = "idle" /\ about = 0 /\ awaiting = 0 /\ recovering = 0
  /\ fate = [i \in Ids |-> "open"]

-----------------------------------------------------------------------------
(* The command endpoint. Each request is one transaction, and is answered  *)
(* once; the answer, and the request itself, may be lost or arrive after   *)
(* the page has stopped waiting.                                           *)

AtServer(t) == request[t] = "server"

\* The answer of a request that is not awaited any more is not heard.
AnswerRequest(t, answered) ==
  /\ request' = [request EXCEPT ![t] = IF awaiting = t THEN answered ELSE "over"]
  /\ UNCHANGED <<tries, idOf>>

\* Mutant of Unclaimed: the receipt of an earlier request is not consulted.
NeverClaimed(i) == TRUE

\* claim_or_replay_receipt_in_tx inserts the receipt.
Unclaimed(i) == receipt[i] = 0

\* A command that cannot be repeated finds its own effect in the game.
Spent(i) ==
  kindOf[i] = "once" /\ \E c \in 1..committed : author[c] # 0 /\ kindOf[author[c]] = "once"

\* Mutant of TakeEffect: the receipt outlives the effect, which is rolled back.
ReceiptAlone(i) ==
  /\ Unclaimed(i) /\ ~Spent(i) /\ committed < MaxCommits
  /\ receipt' = [receipt EXCEPT ![i] = committed + 1]
  /\ UNCHANGED <<viewVars, author>>

\* The events and the receipt are committed together.
TakeEffect(i) ==
  /\ Unclaimed(i) /\ ~Spent(i)
  /\ Commit
  /\ author' = [author EXCEPT ![committed + 1] = i]
  /\ receipt' = [receipt EXCEPT ![i] = committed + 1]

\* "over": the commit's acknowledgement, or the answer, is lost on the way.
Execute(t) ==
  /\ AtServer(t)
  /\ TakeEffect(idOf[t])
  /\ \E answered \in {"ack", "over"} : AnswerRequest(t, answered)
  /\ UNCHANGED <<idVars, recoveryVars, pageVars>>

Replay(t) ==
  /\ AtServer(t) /\ ~Unclaimed(idOf[t])
  /\ \E answered \in {"ack", "over"} : AnswerRequest(t, answered)
  /\ UNCHANGED <<viewVars, serverVars, idVars, recoveryVars, pageVars>>

\* The transaction rolls back on a reject of the domain, after the receipt was
\* claimed: no other receipt of the id exists.
DomainReject(t) ==
  /\ AtServer(t) /\ Unclaimed(idOf[t])
  /\ AnswerRequest(t, "reject")
  /\ UNCHANGED <<viewVars, serverVars, idVars, recoveryVars, pageVars>>

\* Preparing the command (its media and embed are looked up again) comes before
\* the receipt: it may refuse an id that has taken effect.
PrepareReject(t) ==
  /\ AtServer(t) /\ ~Unclaimed(idOf[t])
  /\ AnswerRequest(t, "reject")
  /\ UNCHANGED <<viewVars, serverVars, idVars, recoveryVars, pageVars>>

\* The stream is locked by another command, the budget is used up; or no answer
\* of the protocol: admission, lease expiry, a request that never arrives.
NoEffect(t) ==
  /\ AtServer(t)
  /\ \E answered \in {"retryable", "over"} : AnswerRequest(t, answered)
  /\ UNCHANGED <<viewVars, serverVars, idVars, recoveryVars, pageVars>>

\* Other players, the moderator, the server's own scheduler.
CommitOfOthers == Commit /\ UNCHANGED commandVars

-----------------------------------------------------------------------------
(* The page.                                                               *)

\* What dispatch asks for: a ready store and the authority of the slot.
MayDispatch == enabled /\ Ready /\ shown[StateKey] # {} /\ storage

\* setItem and removeItem may fail; the stored value then stays.
Persist(value) ==
  \/ stored' = value /\ UNCHANGED storage
  \/ storage' = FALSE /\ UNCHANGED stored

\* commitPlayerCommandRecovery, then the request.
Send(i) ==
  /\ tries < MaxTries
  /\ tries' = tries + 1
  /\ idOf' = [idOf EXCEPT ![tries + 1] = i]
  /\ request' = [request EXCEPT ![tries + 1] = "server"]
  /\ awaiting' = tries + 1
  /\ attempt' = i /\ stored' = i
  /\ status' = "pending" /\ about' = i /\ recovering' = 0
  /\ fate' = [fate EXCEPT ![i] = "open"]
  /\ UNCHANGED <<storage, enabled>>

Part(i, how) == fate' = [fate EXCEPT ![i] = how]

\* The page forgets an id: its attempt is deleted here and in the storage.
Forget(i, how) == attempt' = 0 /\ Persist(0) /\ Part(i, how) /\ UNCHANGED enabled

\* Mutant of RecoveryRequired: a new command may be sent at any time.
NothingRequired == FALSE

\* An id that is offered again keeps every other command from being sent.
RecoveryRequired == status \in {"interrupted", "retryable"}

MayStart == status # "pending" /\ ~RecoveryRequired /\ MayDispatch

\* A command that cannot be repeated is only offered until the page shows it.
Submit(kind) ==
  /\ MayStart
  /\ kind = "once" =>
       ~\E c \in shown[StateKey] \ {0} : author[c] # 0 /\ kindOf[author[c]] = "once"
  /\ minted < MaxIds
  /\ minted' = minted + 1
  /\ kindOf' = [kindOf EXCEPT ![minted + 1] = kind]
  /\ Send(minted + 1)
  /\ UNCHANGED <<viewVars, serverVars>>

\* An id that cannot be stored is not sent, nor is a command that the page's
\* state no longer offers: neither is an interruption, and its attempt is deleted.
SubmitRefused ==
  /\ MayStart
  /\ status' = "reject" /\ about' = 0
  /\ \/ stored' = 0 /\ storage' \in BOOLEAN
     \/ UNCHANGED stored /\ storage' = FALSE
  /\ UNCHANGED <<viewVars, serverVars, idVars, wireVars, attempt, enabled,
                 awaiting, recovering, fate>>

Retry ==
  /\ RecoveryRequired /\ attempt # 0 /\ MayDispatch
  /\ Send(attempt)
  /\ UNCHANGED <<viewVars, serverVars, idVars>>

\* The same of an attempt that is retried: it is no longer offered, or its body
\* is no longer what the page would send, or it cannot be stored again.
RetryDropped ==
  /\ RecoveryRequired /\ attempt # 0 /\ MayDispatch
  /\ attempt' = 0 /\ Part(attempt, "dropped")
  /\ status' = "reject"
  /\ \/ stored' = 0 /\ storage' \in BOOLEAN
     \/ UNCHANGED stored /\ storage' = FALSE
  /\ UNCHANGED <<viewVars, serverVars, idVars, wireVars, enabled, about, awaiting, recovering>>

Cancel ==
  /\ RecoveryRequired /\ attempt # 0
  /\ Forget(attempt, "cancelled")
  /\ status' = "idle" /\ about' = 0
  /\ UNCHANGED <<viewVars, serverVars, idVars, wireVars, awaiting, recovering>>

\* Mutant of StopWaiting: the request is given the command's status.
StopWaitingMixedUp ==
  /\ awaiting' = 0
  /\ request' = [request EXCEPT ![awaiting] = status]
  /\ UNCHANGED <<tries, idOf>>

\* The page stops listening; the request may still be on its way.
StopWaiting ==
  /\ awaiting' = 0
  /\ request' = [request EXCEPT ![awaiting] = IF AtServer(awaiting) THEN "server" ELSE "over"]
  /\ UNCHANGED <<tries, idOf>>

\* The state the page gives a slot it learns it has lost: it shows no commit.
Withdraw ==
  /\ shown' = [shown EXCEPT ![StateKey] = {}]
  /\ Mark({StateKey}, TRUE)
  /\ UNCHANGED <<committed, asked, refresh, keysOf, floor>>

Arrived(answered) ==
  /\ awaiting # 0 /\ request[awaiting] = answered
  /\ StopWaiting

\* Mutant of RefreshKeys: nothing is refreshed after a command.
NothingToRefresh(kind) == {}

\* playerRefreshKeysForAction: those of the command, and the command state.
RefreshKeys(kind) == IF kind = "post" THEN Keys ELSE {StateKey}

\* The status stays pending until the refresh is over.
Recover ==
  /\ \E r \in Asks : Ask(r, RefreshKeys(kindOf[about])) /\ recovering' = r
  /\ UNCHANGED <<status, about>>

ReceiveAck ==
  /\ Arrived("ack")
  /\ Forget(about, "ack")
  /\ Recover
  /\ UNCHANGED <<serverVars, idVars>>

\* A reject that says the page is out of date is followed by a refresh, one that
\* says the slot is lost withdraws the command state.
ReceiveReject ==
  /\ Arrived("reject")
  /\ Forget(about, "reject")
  /\ \/ Recover
     \/ /\ Withdraw \/ UNCHANGED viewVars
        /\ status' = "reject"
        /\ UNCHANGED <<about, recovering>>
  /\ UNCHANGED <<serverVars, idVars>>

\* The attempt is stored again as one that may be retried.
ReceiveRetryable ==
  /\ Arrived("retryable")
  /\ Persist(attempt)
  /\ Recover
  /\ UNCHANGED <<serverVars, idVars, attempt, enabled, fate>>

\* executeCommandAttempt's deadline, a lost connection, or an answer that is no
\* protocol answer: the outcome is unknown.
Interrupt ==
  /\ awaiting # 0 /\ StopWaiting
  /\ Persist(attempt)
  /\ status' = "interrupted"
  /\ UNCHANGED <<viewVars, serverVars, idVars, attempt, enabled, about, recovering, fate>>

Confirmed == IF fate[about] = "open" THEN "retryable" ELSE fate[about]

RecoveryDone ==
  /\ recovering # 0 /\ refresh[recovering] = "ok"
  /\ recovering' = 0 /\ status' = Confirmed
  /\ UNCHANGED <<viewVars, serverVars, idVars, wireVars, recoveryVars, about,
                 awaiting, fate>>

\* Mutant of RecoveryFailed: the failure of the refresh is not handled.
RecoveryFailedUnhandled ==
  /\ recovering # 0 /\ refresh[recovering] = "failed"
  /\ recovering' = 0
  /\ UNCHANGED <<viewVars, serverVars, idVars, wireVars, recoveryVars, status,
                 about, awaiting, fate>>

\* "Command committed; authoritative state refresh is unavailable."
RecoveryFailed ==
  /\ recovering # 0 /\ refresh[recovering] = "failed"
  /\ Distrust(Keys, {})
  /\ recovering' = 0
  /\ status' = IF Confirmed = "ack" THEN "unrefreshed" ELSE Confirmed
  /\ UNCHANGED <<serverVars, idVars, wireVars, recoveryVars, about, awaiting, fate>>

\* What a page that is loaded finds in the storage, which may be unreadable: the
\* attempt its own principal and slot left there was interrupted. It deletes, if
\* it can, what it cannot parse or what another principal or slot left.
Restored ==
  \/ /\ attempt' = IF storage' THEN stored ELSE 0
     /\ UNCHANGED <<stored, fate>>
  \/ /\ storage' /\ stored # 0
     /\ attempt' = 0 /\ stored' \in {0, stored}
     /\ fate' = [fate EXCEPT ![stored] = IF @ = "open" THEN "discarded" ELSE @]

\* The page is loaded again, with what the server renders. Its store is not
\* ready until its live connection has recovered. Without a slot to command, the
\* storage is neither read nor changed.
Reload ==
  /\ shown' \in [ReadKeys -> Contents]
  /\ Mark(Keys, FALSE)
  /\ asked' = [k \in ReadKeys |-> 0]
  /\ refresh' = [r \in Asks |-> "unused"]
  /\ keysOf' = [r \in Asks |-> {}] /\ floor' = [r \in Asks |-> 0]
  /\ storage' \in BOOLEAN
  /\ enabled' \in BOOLEAN /\ (enabled' => shown'[StateKey] # {})
  /\ IF enabled' THEN Restored ELSE attempt' = 0 /\ UNCHANGED <<stored, fate>>
  /\ status' = IF attempt' = 0 THEN "idle" ELSE "interrupted"
  /\ about' = attempt' /\ recovering' = 0
  /\ IF awaiting = 0 THEN UNCHANGED <<awaiting, wireVars>> ELSE StopWaiting
  /\ UNCHANGED <<committed, serverVars, idVars>>

-----------------------------------------------------------------------------
(* The rest of the page: its live connection and whoever else refreshes.   *)

\* What they read is at least as new as PageView promises to this page's own.
LiveConnection ==
  /\ \/ \E keys \in SUBSET Keys : Show(keys)
     \/ \E keys \in SUBSET Keys, purged \in SUBSET ReadKeys : Distrust(keys, purged)
  /\ UNCHANGED commandVars

Settled(r) ==
  /\ Return(r) \/ \E keys \in SUBSET Keys : Fail(r, keys)
  /\ UNCHANGED commandVars

Endpoint(t) ==
  Execute(t) \/ Replay(t) \/ DomainReject(t) \/ PrepareReject(t) \/ NoEffect(t)

Receive == ReceiveAck \/ ReceiveReject \/ ReceiveRetryable \/ Interrupt

Player ==
  \/ \E kind \in Kinds : Submit(kind)
  \/ SubmitRefused \/ Retry \/ RetryDropped \/ Cancel \/ Reload

Next ==
  \/ \E t \in Tries : Endpoint(t)
  \/ CommitOfOthers
  \/ Player
  \/ Receive
  \/ RecoveryDone \/ RecoveryFailed
  \/ LiveConnection
  \/ \E r \in Asks : Settled(r)

\* The deadlines of a command and of its refresh always come, and the page's own
\* steps run. Nothing else is promised: the endpoint may never answer.
Fairness ==
  /\ WF_vars(Interrupt)
  /\ \A r \in Asks : WF_vars(Settled(r))
  /\ WF_vars(RecoveryDone \/ RecoveryFailed)

Spec == Init /\ [][Next]_vars /\ Fairness

-----------------------------------------------------------------------------
(* Correctness.                                                            *)

\* The types of the page's and the endpoint's state.
TypeOK ==
  /\ committed \in 0..MaxCommits
  /\ shown \in [ReadKeys -> SUBSET (0..MaxCommits)]
  /\ ready \in [Keys -> BOOLEAN]
  /\ asked \in [ReadKeys -> 0..MaxCommits]
  /\ refresh \in [Asks -> {"unused", "running", "ok", "failed"}]
  /\ keysOf \in [Asks -> SUBSET Keys]
  /\ floor \in [Asks -> 0..MaxCommits]
  /\ author \in [Commits -> 0..MaxIds]
  /\ receipt \in [Ids -> 0..MaxCommits]
  /\ minted \in 0..MaxIds
  /\ kindOf \in [Ids -> Kinds]
  /\ tries \in 0..MaxTries
  /\ idOf \in [Tries -> 0..MaxIds]
  /\ request \in [Tries -> {"unsent", "server", "ack", "reject", "retryable", "over"}]
  /\ attempt \in 0..MaxIds /\ stored \in 0..MaxIds /\ about \in 0..MaxIds
  /\ storage \in BOOLEAN /\ enabled \in BOOLEAN
  /\ status \in {"idle", "pending", "interrupted", "retryable", "ack", "reject", "unrefreshed"}
  /\ awaiting \in 0..MaxTries
  /\ recovering \in Asks \cup {0}
  /\ fate \in [Ids -> {"open", "ack", "reject", "cancelled", "dropped", "discarded"}]

\* However often a command is sent again, and whichever of its requests arrive
\* and when, it takes effect at most once.
OncePerId ==
  \A c, d \in 1..committed : author[c] = author[d] /\ author[c] # 0 => c = d

\* An acknowledged command is in the log: an acknowledgement from a receipt
\* never speaks of an effect that was rolled back.
AckedTookEffect ==
  \A i \in Ids : fate[i] = "ack" => \E c \in 1..committed : author[c] = i

\* The id of a command that was sent and may or may not have taken effect is in
\* the session storage, so that a reload can offer it again, and no other id is
\* generated meanwhile. The page is done with an id when it is answered, when the
\* player cancels it, and also in two cases that leave its outcome unknown: its
\* retry is refused by the page itself (RetryDropped, where the documentation
\* says that an ambiguous result must retry the same id), or the tab's next page
\* belongs to another principal or slot and deletes it (Restored).
SentIsRemembered ==
  \A i \in 1..minted : fate[i] = "open" => stored = i /\ i = minted

\* When the page says that a command was acknowledged and its store is ready,
\* the command state shows the command's own effect, or that the slot is lost.
AckedIsShown ==
  status = "ack" /\ Ready =>
    \/ shown[StateKey] = {}
    \/ \E c \in shown[StateKey] \ {0} : author[c] = about

\* A pending command always comes to an end: an answer, an interruption, and a
\* refresh that is over.
PendingEnds == status = "pending" ~> status # "pending"
=============================================================================
