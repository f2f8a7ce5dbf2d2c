------------------------- MODULE PlayerCommandsProofs -------------------------
(***************************************************************************)
(* Proofs about PlayerCommands, for every number of commands, requests,    *)
(* projections and commits: its types, that an id that may still have to   *)
(* be retried is stored, that no id takes effect twice, that what is       *)
(* acknowledged took effect, and that the page then shows it.              *)
(*                                                                         *)
(* The state has three parts, each with an inductive invariant relative to *)
(* those before it: the page's own bookkeeping (Remembered), the log and   *)
(* its receipts (Logged), and the page's projections (Refreshed).          *)
(***************************************************************************)
EXTENDS PlayerCommands, TLAPS

-----------------------------------------------------------------------------
(* What a step does to the projections.                                    *)

\* The projections of a page that has been loaded again.
Reopen ==
  /\ shown' \in [ReadKeys -> Contents]
  /\ Mark(Keys, FALSE)
  /\ asked' = [k \in ReadKeys |-> 0]
  /\ refresh' = [r \in Asks |-> "unused"]
  /\ keysOf' = [r \in Asks |-> {}] /\ floor' = [r \in Asks |-> 0]
  /\ UNCHANGED committed

ViewMove ==
  \/ UNCHANGED viewVars
  \/ Commit
  \/ \E r \in Asks, keys \in SUBSET Keys : Ask(r, keys) \/ Fail(r, keys)
  \/ \E r \in Asks : Return(r)
  \/ \E keys \in SUBSET Keys : Show(keys)
  \/ \E keys \in SUBSET Keys, purged \in SUBSET ReadKeys : Distrust(keys, purged)
  \/ Withdraw

LEMMA RefreshKeysAreKeys ==
  \A kind : RefreshKeys(kind) \in SUBSET Keys /\ StateKey \in RefreshKeys(kind)
BY ViewAssumption, CommandAssumption
DEF ViewAssumption, CommandAssumption, RefreshKeys, ReadKeys

LEMMA EveryViewMove ==
  ASSUME Next
  PROVE  ViewMove \/ Reopen
<1>1. \A t \in Tries : Endpoint(t) => ViewMove
  BY DEF Endpoint, Execute, TakeEffect, Replay, DomainReject, PrepareReject, NoEffect, ViewMove
<1>2. CommitOfOthers => ViewMove
  BY DEF CommitOfOthers, ViewMove
<1>3. Player => ViewMove \/ Reopen
  BY DEF Player, Submit, SubmitRefused, Retry, RetryDropped, Cancel, Reload, Reopen, ViewMove
<1>4. Recover => ViewMove
  <2> SUFFICES ASSUME NEW r \in Asks, Ask(r, RefreshKeys(kindOf[about]))
               PROVE  ViewMove
    BY DEF Recover
  <2>1. PICK keys \in SUBSET Keys : keys = RefreshKeys(kindOf[about])
    BY RefreshKeysAreKeys
  <2>2. Ask(r, keys)
    BY <2>1 DEF Ask, Mark
  <2> QED
    BY <2>2 DEF ViewMove
<1>5. Receive => ViewMove
  BY <1>4 DEF Receive, ReceiveAck, ReceiveReject, ReceiveRetryable, Interrupt, ViewMove
<1>6. RecoveryDone => ViewMove
  BY DEF RecoveryDone, ViewMove
<1>7. RecoveryFailed => ViewMove
  BY DEF RecoveryFailed, ViewMove
<1>8. LiveConnection => ViewMove
  BY DEF LiveConnection, ViewMove
<1>9. \A r \in Asks : Settled(r) => ViewMove
  BY DEF Settled, ViewMove
<1> QED
  BY <1>1, <1>2, <1>3, <1>5, <1>6, <1>7, <1>8, <1>9 DEF Next

-----------------------------------------------------------------------------
(* Types.                                                                  *)

ViewTypes ==
  /\ committed \in 0..MaxCommits
  /\ shown \in [ReadKeys -> SUBSET (0..MaxCommits)]
  /\ ready \in [Keys -> BOOLEAN]
  /\ asked \in [ReadKeys -> 0..MaxCommits]
  /\ refresh \in [Asks -> {"unused", "running", "ok", "failed"}]
  /\ keysOf \in [Asks -> SUBSET Keys]
  /\ floor \in [Asks -> 0..MaxCommits]

\* The page's and the wire's own.
OwnTypes ==
  /\ minted \in 0..MaxIds
  /\ kindOf \in [Ids -> Kinds]
  /\ tries \in 0..MaxTries
  /\ idOf \in [Tries -> 0..MaxIds]
  /\ request \in [Tries -> {"unsent", "server", "ack", "reject", "retryable", "over"}]
  /\ attempt \in 0..MaxIds /\ stored \in 0..MaxIds /\ about \in 0..MaxIds
  /\ storage \in BOOLEAN /\ enabled \in BOOLEAN
  /\ status \in {"idle", "pending", "interrupted", "retryable", "ack", "reject", "unrefreshed"}
  /\ awaiting \in 0..MaxTries
  /\ recovering \in Asks \cup {0}
  /\ fate \in [Ids -> {"open", "ack", "reject", "cancelled", "dropped", "discarded"}]

PageTypes ==
  /\ author \in [Commits -> 0..MaxIds]
  /\ receipt \in [Ids -> 0..MaxCommits]
  /\ OwnTypes

LEMMA TypeParts == TypeOK <=> ViewTypes /\ PageTypes
BY DEF TypeOK, ViewTypes, PageTypes, OwnTypes

LEMMA ViewTypesInit ==
  ASSUME ViewInit
  PROVE  ViewTypes
BY ViewAssumption DEF ViewAssumption, ViewInit, ViewTypes

LEMMA ContentsAreCommits ==
  ASSUME ViewTypes
  PROVE  Contents \subseteq SUBSET (0..MaxCommits)
BY ViewAssumption DEF ViewAssumption, ViewTypes, Contents

LEMMA ViewTypesStep ==
  ASSUME ViewTypes, ViewMove \/ Reopen
  PROVE  ViewTypes'
<1> USE ViewAssumption DEF ViewAssumption
<1>0. ASSUME NEW keys, NEW value \in BOOLEAN, Mark(keys, value)
      PROVE  ready' \in [Keys -> BOOLEAN]
  BY <1>0 DEF Mark, ViewTypes
<1>1. CASE UNCHANGED viewVars
  BY <1>1 DEF viewVars, ViewTypes
<1>2. CASE Commit
  BY <1>2 DEF Commit, ViewTypes
<1>3. ASSUME NEW r \in Asks, NEW state \in {"ok", "failed"}, Settle(r, state),
             ready' \in [Keys -> BOOLEAN]
      PROVE  ViewTypes'
  BY <1>3 DEF Settle, ViewTypes
<1>4. ASSUME NEW r \in Asks, NEW keys \in SUBSET Keys, Ask(r, keys)
      PROVE  ViewTypes'
  <2>1. ready' \in [Keys -> BOOLEAN]
    BY <1>0, <1>4 DEF Ask
  <2>2. asked' \in [ReadKeys -> 0..MaxCommits]
    BY <1>4 DEF Ask, ViewTypes
  <2> QED
    BY <1>4, <2>1, <2>2 DEF Ask, ViewTypes
<1>5. ASSUME NEW r \in Asks, NEW keys \in SUBSET Keys, Fail(r, keys)
      PROVE  ViewTypes'
  BY <1>0, <1>3, <1>5 DEF Fail
<1>6. ASSUME NEW r \in Asks, Return(r)
      PROVE  ViewTypes'
  <2>1. ready' \in [Keys -> BOOLEAN]
    BY <1>6 DEF Return, ViewTypes
  <2> QED
    BY <1>3, <1>6, <2>1 DEF Return
<1>7. ASSUME NEW keys \in SUBSET Keys, Show(keys)
      PROVE  ViewTypes'
  <2>1. ready' \in [Keys -> BOOLEAN]
    BY <1>0, <1>7 DEF Show
  <2>2. shown' \in [ReadKeys -> SUBSET (0..MaxCommits)]
    <3>1. PICK value \in [keys \ Live -> Contents] :
            shown' = [k \in ReadKeys |-> IF k \in keys THEN value[k] ELSE shown[k]]
      BY <1>7 DEF Show
    <3>2. \A k \in keys \ Live : value[k] \in SUBSET (0..MaxCommits)
      BY ContentsAreCommits
    <3> QED
      BY <3>1, <3>2 DEF ReadKeys, ViewTypes
  <2> QED
    BY <1>7, <2>1, <2>2 DEF Show, ViewTypes
<1>8. ASSUME NEW keys \in SUBSET Keys, NEW purged \in SUBSET ReadKeys, Distrust(keys, purged)
      PROVE  ViewTypes'
  <2>1. ready' \in [Keys -> BOOLEAN]
    BY <1>0, <1>8 DEF Distrust
  <2>2. shown' \in [ReadKeys -> SUBSET (0..MaxCommits)]
    BY <1>8 DEF Distrust, ViewTypes
  <2> QED
    BY <1>8, <2>1, <2>2 DEF Distrust, ViewTypes
<1>9. CASE Withdraw
  <2>1. ready' \in [Keys -> BOOLEAN]
    BY <1>0, <1>9 DEF Withdraw
  <2> QED
    BY <1>9, <2>1 DEF Withdraw, ViewTypes
<1>10. CASE Reopen
  <2>1. ready' \in [Keys -> BOOLEAN]
    BY <1>0, <1>10 DEF Reopen
  <2>2. shown' \in [ReadKeys -> SUBSET (0..MaxCommits)]
    BY <1>10, ContentsAreCommits DEF Reopen
  <2> QED
    BY <1>10, <2>1, <2>2 DEF Reopen, ViewTypes
<1> QED
  BY <1>1, <1>2, <1>4, <1>5, <1>6, <1>7, <1>8, <1>9, <1>10 DEF ViewMove

-----------------------------------------------------------------------------
(* The page's bookkeeping.                                                 *)

\* An id whose outcome is unknown is the last one and the stored one, and the page
\* either offers it again, or cannot read its storage, or has no slot to command.
Remembered ==
  /\ attempt \in {0, minted} /\ stored \in {0, minted} /\ about <= minted
  /\ awaiting # 0 =>
       /\ status = "pending" /\ about # 0 /\ fate[about] = "open"
       /\ attempt = about /\ idOf[awaiting] = about
       /\ request[awaiting] # "unsent"
       /\ recovering = 0
  /\ recovering # 0 =>
       /\ status = "pending" /\ about # 0 /\ awaiting = 0
       /\ fate[about] \in {"open", "ack", "reject"}
  /\ \A i \in 1..minted : fate[i] = "open" =>
       /\ stored = i /\ i = minted
       /\ \/ attempt = i /\ about = i /\ status \in {"pending", "interrupted", "retryable"}
          \/ attempt = 0 /\ ~(storage /\ enabled) /\ status = "idle"

LEMMA PageInit ==
  ASSUME Init
  PROVE  PageTypes /\ Remembered
<1>1. PageTypes
  BY CommandAssumption, ViewAssumption
  DEF CommandAssumption, ViewAssumption, Init, PageTypes, OwnTypes, Kinds
<1>2. Remembered
  BY DEF Init, Remembered
<1> QED
  BY <1>1, <1>2

\* A request at the server is answered, by the commit of its effect or without.
AnswerStep(t) ==
  /\ AtServer(t)
  /\ \E answered \in {"ack", "reject", "retryable", "over"} : AnswerRequest(t, answered)
  /\ UNCHANGED <<idVars, recoveryVars, pageVars>>

LEMMA EndpointAnswers ==
  ASSUME NEW t \in Tries, Endpoint(t)
  PROVE  AnswerStep(t)
BY DEF Endpoint, Execute, Replay, DomainReject, PrepareReject, NoEffect, AnswerStep

LEMMA ServerTypes ==
  ASSUME ViewTypes, PageTypes, Remembered, Next
  PROVE  author' \in [Commits -> 0..MaxIds] /\ receipt' \in [Ids -> 0..MaxCommits]
<1>1. ASSUME NEW t \in Tries, Execute(t)
      PROVE  author' \in [Commits -> 0..MaxIds] /\ receipt' \in [Ids -> 0..MaxCommits]
  <2>1. committed + 1 \in 0..MaxCommits
    BY <1>1, ViewAssumption DEF ViewAssumption, Execute, TakeEffect, Commit, ViewTypes
  <2>2. idOf[t] \in 0..MaxIds
    BY DEF PageTypes, OwnTypes
  <2> QED
    BY <1>1, <2>1, <2>2 DEF Execute, TakeEffect, PageTypes
<1>2. (\E t \in Tries : Execute(t)) \/ UNCHANGED serverVars
  BY DEF Next, Endpoint, Replay, DomainReject, PrepareReject, NoEffect, CommitOfOthers,
         Player, Submit, SubmitRefused, Retry, RetryDropped, Cancel, Reload, Receive,
         ReceiveAck, ReceiveReject, ReceiveRetryable, Interrupt, RecoveryDone,
         RecoveryFailed, LiveConnection, Settled, commandVars
<1> QED
  BY <1>1, <1>2 DEF serverVars, PageTypes

\* Sending the last id, with no other one open.
LEMMA SendRemembers ==
  ASSUME OwnTypes, NEW i \in Ids, Send(i),
         minted' = i, kindOf' \in [Ids -> Kinds],
         \A j \in 1..minted' : fate[j] = "open" => j = i
  PROVE  (OwnTypes /\ Remembered)'
<1> USE CommandAssumption DEF CommandAssumption
<1>1. tries + 1 \in Tries /\ tries + 1 # 0 /\ i # 0 /\ i \in 0..MaxIds
  BY DEF OwnTypes, Send, Tries, Ids
<1>2. /\ attempt' = i /\ stored' = i /\ about' = i /\ status' = "pending"
      /\ awaiting' = tries + 1 /\ recovering' = 0 /\ tries' = tries + 1
      /\ storage' = storage /\ enabled' = enabled
      /\ idOf' = [idOf EXCEPT ![tries + 1] = i]
      /\ request' = [request EXCEPT ![tries + 1] = "server"]
      /\ fate' = [fate EXCEPT ![i] = "open"]
  BY DEF Send
<1>3. idOf'[tries + 1] = i /\ request'[tries + 1] = "server" /\ fate'[i] = "open"
  BY <1>1, <1>2 DEF OwnTypes
<1>4. \A j \in 1..minted' : fate'[j] = "open" => j = i
  BY <1>2 DEF OwnTypes, Ids
<1>5. OwnTypes'
  BY <1>1, <1>2 DEF OwnTypes, Tries, Ids
<1>6. Remembered'
  BY <1>1, <1>2, <1>3, <1>4 DEF Remembered
<1> QED
  BY <1>5, <1>6

\* A page that reads its storage keeps what the stored id is, or is done with it.
LEMMA RestoredKeeps ==
  ASSUME OwnTypes, Restored
  PROVE  /\ attempt' \in {0, stored} /\ stored' \in {0, stored}
         /\ fate' \in [Ids -> {"open", "ack", "reject", "cancelled", "dropped", "discarded"}]
         /\ \A i \in Ids : fate'[i] = "ack" => fate[i] = "ack"
         /\ \A i \in Ids : fate'[i] = "open" =>
              /\ fate[i] = "open" /\ (i = stored => stored' = stored)
              /\ (i = stored => attempt' = IF storage' THEN stored ELSE 0)
<1>1. CASE attempt' = (IF storage' THEN stored ELSE 0) /\ UNCHANGED <<stored, fate>>
  BY <1>1 DEF OwnTypes
<1>2. CASE /\ attempt' = 0 /\ stored' \in {0, stored} /\ stored # 0
           /\ fate' = [fate EXCEPT ![stored] = IF @ = "open" THEN "discarded" ELSE @]
  <2>1. stored \in Ids
    BY <1>2 DEF OwnTypes, Ids
  <2>2. \A i \in Ids : fate'[i] = IF i = stored /\ fate[i] = "open" THEN "discarded" ELSE fate[i]
    BY <1>2, <2>1 DEF OwnTypes
  <2>3. fate' \in [Ids -> {"open", "ack", "reject", "cancelled", "dropped", "discarded"}]
    BY <1>2, <2>1 DEF OwnTypes
  <2> QED
    BY <1>2, <2>2, <2>3
<1> QED
  BY <1>1, <1>2 DEF Restored

LEMMA OwnStep ==
  ASSUME OwnTypes, Remembered, Next
  PROVE  (OwnTypes /\ Remembered)'
<1> USE CommandAssumption DEF CommandAssumption
<1> DEFINE Goal == (OwnTypes /\ Remembered)'
<1>0. ASSUME UNCHANGED commandVars
      PROVE  Goal
  BY <1>0 DEF commandVars, serverVars, idVars, wireVars, recoveryVars, pageVars,
              OwnTypes, Remembered
<1>1. ASSUME NEW t \in Tries, AnswerStep(t)
      PROVE  Goal
  <2>1. /\ UNCHANGED <<idVars, recoveryVars, pageVars, tries, idOf>>
        /\ request' \in [Tries -> {"unsent", "server", "ack", "reject", "retryable", "over"}]
        /\ \A u \in Tries : request[u] # "unsent" => request'[u] # "unsent"
    BY <1>1 DEF AnswerStep, AnswerRequest, OwnTypes
  <2>2. awaiting # 0 => awaiting \in Tries
    BY DEF OwnTypes, Tries
  <2> QED
    BY <2>1, <2>2 DEF OwnTypes, Remembered, idVars, recoveryVars, pageVars
<1>2. ASSUME NEW kind \in Kinds, Submit(kind)
      PROVE  Goal
  <2> DEFINE i == minted + 1
  <2>1. i \in Ids /\ minted' = i
    BY <1>2 DEF Submit, OwnTypes, Ids
  <2>2. kindOf' \in [Ids -> Kinds]
    BY <1>2 DEF Submit, OwnTypes
  <2>3. \A j \in 1..minted' : fate[j] = "open" => j = i
    <3> SUFFICES ASSUME NEW j \in 1..minted', fate[j] = "open", j # i
                 PROVE  FALSE
      OBVIOUS
    <3>1. j \in 1..minted
      BY <2>1 DEF OwnTypes
    <3> QED
      BY <1>2, <3>1 DEF Submit, MayStart, MayDispatch, RecoveryRequired, Remembered
  <2>4. Send(i)
    BY <1>2 DEF Submit
  <2> HIDE DEF i
  <2> QED
    BY <2>1, <2>2, <2>3, <2>4, SendRemembers
<1>3. CASE SubmitRefused
  <2>1. \A i \in 1..minted : fate[i] # "open"
    BY <1>3 DEF SubmitRefused, MayStart, MayDispatch, RecoveryRequired, Remembered
  <2>2. awaiting = 0 /\ recovering = 0
    BY <1>3 DEF SubmitRefused, MayStart, Remembered
  <2>3. /\ UNCHANGED <<idVars, wireVars, attempt, enabled, awaiting, recovering, fate>>
        /\ status' = "reject" /\ about' = 0 /\ stored' \in {0, stored} /\ storage' \in BOOLEAN
    BY <1>3 DEF SubmitRefused
  <2> QED
    BY <2>1, <2>2, <2>3 DEF OwnTypes, Remembered, idVars, wireVars
<1>4. CASE Retry
  <2>1. attempt \in Ids /\ attempt = minted /\ Send(attempt) /\ UNCHANGED idVars
    BY <1>4 DEF Retry, OwnTypes, Remembered, Ids
  <2>2. \A j \in 1..minted : fate[j] = "open" => j = attempt
    BY <1>4 DEF Retry, RecoveryRequired, Remembered
  <2>3. PICK i \in Ids : i = attempt
    BY <2>1
  <2>4. Send(i)
    BY <2>1, <2>3 DEF Send
  <2> QED
    BY <2>1, <2>2, <2>3, <2>4, SendRemembers DEF idVars, OwnTypes
<1>5. ASSUME NEW how \in {"cancelled", "dropped"}, RecoveryRequired, attempt # 0, Part(attempt, how),
             attempt' = 0, UNCHANGED <<idVars, wireVars, enabled, awaiting, recovering>>,
             status' \in {"reject", "idle"}, about' \in {0, about}, stored' \in {0, stored}, storage' \in BOOLEAN
      PROVE  Goal
  <2>1. awaiting = 0 /\ recovering = 0
    BY <1>5 DEF RecoveryRequired, Remembered
  <2>2. fate' = [fate EXCEPT ![attempt] = how]
    BY <1>5 DEF Part
  <2>3. OwnTypes'
    <3>1. fate' \in [Ids -> {"open", "ack", "reject", "cancelled", "dropped", "discarded"}]
      BY <1>5, <2>2 DEF OwnTypes
    <3>2. attempt' \in 0..MaxIds /\ stored' \in 0..MaxIds /\ about' \in 0..MaxIds
      BY <1>5 DEF OwnTypes
    <3> QED
      BY <1>5, <3>1, <3>2 DEF OwnTypes, idVars, wireVars
  <2>4. \A j \in 1..minted : fate'[j] # "open"
    <3> SUFFICES ASSUME NEW j \in 1..minted, fate'[j] = "open"
                 PROVE  FALSE
      OBVIOUS
    <3>1. j \in Ids
      BY DEF OwnTypes, Ids
    <3>2. j # attempt /\ fate[j] = "open"
      BY <2>2, <3>1 DEF OwnTypes
    <3> QED
      BY <1>5, <3>2 DEF RecoveryRequired, Remembered
  <2> QED
    BY <1>5, <2>1, <2>3, <2>4 DEF Remembered, idVars, wireVars, OwnTypes
<1>6. CASE RetryDropped
  BY <1>5, <1>6 DEF RetryDropped, OwnTypes
<1>7. CASE Cancel
  BY <1>5, <1>7 DEF Cancel, Forget, Persist, OwnTypes
<1>8. ASSUME awaiting # 0, StopWaiting
      PROVE  /\ awaiting' = 0 /\ UNCHANGED <<tries, idOf>>
             /\ request' \in [Tries -> {"unsent", "server", "ack", "reject", "retryable", "over"}]
  BY <1>8 DEF StopWaiting, OwnTypes
<1>9. CASE Reload
  <2>1. /\ awaiting' = 0 /\ UNCHANGED <<tries, idOf>>
        /\ request' \in [Tries -> {"unsent", "server", "ack", "reject", "retryable", "over"}]
    BY <1>8, <1>9 DEF Reload, wireVars, OwnTypes
  <2>2. /\ status' = IF attempt' = 0 THEN "idle" ELSE "interrupted"
        /\ about' = attempt' /\ recovering' = 0
        /\ storage' \in BOOLEAN /\ enabled' \in BOOLEAN /\ UNCHANGED idVars
    BY <1>9 DEF Reload
  <2>3. /\ attempt' \in {0, stored} /\ stored' \in {0, stored}
        /\ fate' \in [Ids -> {"open", "ack", "reject", "cancelled", "dropped", "discarded"}]
        /\ \A i \in Ids : fate'[i] = "open" =>
             /\ fate[i] = "open" /\ (i = stored => stored' = stored)
             /\ (i = stored => attempt' = IF storage' /\ enabled' THEN stored ELSE 0)
    BY <1>9, RestoredKeeps DEF Reload, OwnTypes
  <2>4. OwnTypes'
    BY <2>1, <2>2, <2>3 DEF OwnTypes, idVars
  <2>5. \A i \in 1..minted : fate'[i] = "open" =>
          /\ i = minted /\ stored' = i
          /\ attempt' = IF storage' /\ enabled' THEN i ELSE 0
    <3> SUFFICES ASSUME NEW i \in 1..minted, fate'[i] = "open"
                 PROVE  /\ i = minted /\ stored' = i
                        /\ attempt' = IF storage' /\ enabled' THEN i ELSE 0
      OBVIOUS
    <3>1. i \in Ids
      BY DEF OwnTypes, Ids
    <3>2. fate[i] = "open"
      BY <2>3, <3>1
    <3>3. i = minted /\ i = stored
      BY <3>2 DEF Remembered
    <3> QED
      BY <2>3, <3>1, <3>3
  <2>6. attempt' \in {0, minted} /\ stored' \in {0, minted} /\ attempt' <= minted
    BY <2>3 DEF Remembered, OwnTypes
  <2>7. Remembered'
    BY <2>1, <2>2, <2>5, <2>6 DEF Remembered, idVars, OwnTypes
  <2> QED
    BY <2>4, <2>7
<1>10. ASSUME awaiting # 0
       PROVE  /\ status = "pending" /\ about \in Ids /\ about <= minted /\ fate[about] = "open"
              /\ attempt = about /\ recovering = 0
              /\ \A i \in 1..minted : fate[i] = "open" => i = about /\ stored = i
  BY <1>10 DEF Remembered, OwnTypes, Ids
\* The awaited answer settles the id.
<1>11. ASSUME NEW answered \in {"ack", "reject"}, awaiting # 0, StopWaiting,
              Forget(about, answered), UNCHANGED idVars,
              \/ status' = "pending" /\ about' = about /\ recovering' \in Asks
              \/ status' = "reject" /\ UNCHANGED <<about, recovering>>
       PROVE  Goal
  <2>1. /\ awaiting' = 0 /\ UNCHANGED <<tries, idOf>>
        /\ request' \in [Tries -> {"unsent", "server", "ack", "reject", "retryable", "over"}]
    BY <1>8, <1>11
  <2>2. /\ attempt' = 0 /\ fate' = [fate EXCEPT ![about] = answered]
        /\ stored' \in {0, stored} /\ storage' \in BOOLEAN /\ enabled' = enabled
    BY <1>11 DEF Forget, Persist, Part, OwnTypes
  <2>3. OwnTypes'
    <3>1. fate' \in [Ids -> {"open", "ack", "reject", "cancelled", "dropped", "discarded"}]
      BY <1>11, <2>2 DEF OwnTypes
    <3>2. attempt' \in 0..MaxIds /\ stored' \in 0..MaxIds /\ about' \in 0..MaxIds
      BY <1>11, <2>2 DEF OwnTypes
    <3>3. status' \in {"pending", "reject"} /\ recovering' \in Asks \cup {0}
      BY <1>11 DEF OwnTypes
    <3> QED
      BY <1>11, <2>1, <2>2, <3>1, <3>2, <3>3 DEF OwnTypes, idVars
  <2>4. fate'[about] = answered
    BY <1>10, <1>11, <2>2 DEF OwnTypes
  <2>5. \A i \in 1..minted : fate'[i] # "open"
    <3> SUFFICES ASSUME NEW i \in 1..minted, fate'[i] = "open"
                 PROVE  FALSE
      OBVIOUS
    <3>1. i \in Ids
      BY DEF OwnTypes, Ids
    <3>2. i # about /\ fate[i] = "open"
      BY <2>2, <2>4, <3>1 DEF OwnTypes
    <3> QED
      BY <1>10, <1>11, <3>2
  <2>6. 0 <= minted /\ about' = about /\ about # 0 /\ stored' <= minted
    BY <1>10, <1>11, <2>2 DEF OwnTypes, Remembered, Ids
  <2>7. Remembered'
    BY <1>10, <1>11, <2>1, <2>2, <2>4, <2>5, <2>6 DEF Remembered, idVars
  <2> QED
    BY <2>3, <2>7
\* The outcome stays open, and the attempt is stored again.
<1>12. ASSUME awaiting # 0, StopWaiting, Persist(attempt),
              UNCHANGED <<idVars, attempt, enabled, fate, about>>,
              \/ status' = "pending" /\ recovering' \in Asks
              \/ status' = "interrupted" /\ UNCHANGED recovering
       PROVE  Goal
  <2>1. /\ awaiting' = 0 /\ UNCHANGED <<tries, idOf>>
        /\ request' \in [Tries -> {"unsent", "server", "ack", "reject", "retryable", "over"}]
    BY <1>8, <1>12
  <2>2. stored' \in {attempt, stored} /\ storage' \in BOOLEAN
    BY <1>12 DEF Persist, OwnTypes
  <2>3. OwnTypes'
    BY <1>12, <2>1, <2>2 DEF OwnTypes, idVars
  <2>4. about # 0 /\ about <= minted /\ stored' <= minted
    BY <1>10, <1>12, <2>2 DEF Remembered, Ids
  <2>5. Remembered'
    BY <1>10, <1>12, <2>1, <2>2, <2>4 DEF Remembered, idVars
  <2> QED
    BY <2>3, <2>5
<1>13. ASSUME Recover
       PROVE  recovering' \in Asks /\ UNCHANGED <<status, about>>
  BY <1>13 DEF Recover
<1>14. CASE ReceiveAck
  <2>1. awaiting # 0 /\ StopWaiting
    BY <1>14 DEF ReceiveAck, Arrived
  <2> QED
    BY <1>10, <1>11, <1>13, <1>14, <2>1 DEF ReceiveAck
<1>15. CASE ReceiveReject
  <2>1. awaiting # 0 /\ StopWaiting
    BY <1>15 DEF ReceiveReject, Arrived
  <2> QED
    BY <1>10, <1>11, <1>13, <1>15, <2>1 DEF ReceiveReject
<1>16. CASE ReceiveRetryable
  <2>1. awaiting # 0 /\ StopWaiting
    BY <1>16 DEF ReceiveRetryable, Arrived
  <2> QED
    BY <1>10, <1>12, <1>13, <1>16, <2>1 DEF ReceiveRetryable
<1>17. CASE Interrupt
  BY <1>12, <1>17 DEF Interrupt
\* The refresh after an answer is over.
<1>18. ASSUME recovering # 0, recovering' = 0,
              status' = Confirmed \/ (Confirmed = "ack" /\ status' = "unrefreshed"),
              UNCHANGED <<idVars, wireVars, recoveryVars, about, awaiting, fate>>
       PROVE  Goal
  <2>1. /\ status = "pending" /\ about # 0 /\ awaiting = 0
        /\ fate[about] \in {"open", "ack", "reject"}
    BY <1>18 DEF Remembered
  <2>2. status' \in {"retryable", "ack", "reject", "unrefreshed"}
        /\ (fate[about] = "open" => status' = "retryable")
    BY <1>18, <2>1 DEF Confirmed
  <2>3. OwnTypes'
    BY <1>18, <2>2 DEF OwnTypes, idVars, wireVars, recoveryVars
  <2>4. Remembered'
    BY <1>18, <2>1, <2>2 DEF Remembered, idVars, wireVars, recoveryVars
  <2> QED
    BY <2>3, <2>4
<1>19. CASE RecoveryDone
  BY <1>18, <1>19 DEF RecoveryDone
<1>20. CASE RecoveryFailed
  BY <1>18, <1>20 DEF RecoveryFailed
<1>21. CASE CommitOfOthers \/ LiveConnection \/ \E r \in Asks : Settled(r)
  BY <1>0, <1>21 DEF CommitOfOthers, LiveConnection, Settled
<1>22. CASE \E t \in Tries : Endpoint(t)
  BY <1>1, <1>22, EndpointAnswers
<1>23. CASE Player
  BY <1>2, <1>3, <1>4, <1>6, <1>7, <1>9, <1>23 DEF Player
<1>24. CASE Receive
  BY <1>14, <1>15, <1>16, <1>17, <1>24 DEF Receive
<1> QED
  BY <1>19, <1>20, <1>21, <1>22, <1>23, <1>24 DEF Next

Typed == ViewTypes /\ PageTypes

LEMMA TypedNext ==
  ASSUME Typed, Remembered, [Next]_vars
  PROVE  (Typed /\ Remembered)'
<1>1. CASE Next
  <2>1. ViewTypes'
    BY <1>1, EveryViewMove, ViewTypesStep DEF Typed
  <2>2. (PageTypes /\ Remembered)'
    BY <1>1, OwnStep, ServerTypes DEF Typed, PageTypes
  <2> QED
    BY <2>1, <2>2 DEF Typed
<1>2. CASE UNCHANGED vars
  BY <1>2 DEF vars, viewVars, commandVars, serverVars, idVars, wireVars, recoveryVars,
              pageVars, Typed, ViewTypes, PageTypes, OwnTypes, Remembered
<1> QED
  BY <1>1, <1>2

LEMMA AlwaysTyped == Spec => [](Typed /\ Remembered)
<1>1. Init => Typed /\ Remembered
  BY PageInit, ViewTypesInit DEF Init, Typed
<1>2. Typed /\ Remembered /\ [Next]_vars => (Typed /\ Remembered)'
  BY TypedNext
<1> QED
  BY <1>1, <1>2, PTL DEF Spec

\* Every reachable state is well typed; in particular the status that follows a
\* refresh is always one of a command that was answered.
THEOREM PlayerCommandTypes == Spec => []TypeOK
<1>1. Typed => TypeOK
  BY TypeParts DEF Typed
<1> QED
  BY <1>1, AlwaysTyped, PTL

\* While a sent command may or may not have taken effect, its id is in the session
\* storage and no other id is generated, unless the player cancels it, its retry
\* is refused by the page, or a page of another principal or slot deletes it.
THEOREM UnknownIsRemembered == Spec => []SentIsRemembered
<1>1. Remembered => SentIsRemembered
  BY DEF Remembered, SentIsRemembered
<1> QED
  BY <1>1, AlwaysTyped, PTL

-----------------------------------------------------------------------------
(* The log and its receipts.                                               *)

\* The receipts are the inverse of the authors, and whoever acknowledges an id,
\* or heard it acknowledged, has its receipt.
Logged ==
  /\ \A c \in Commits : c > committed => author[c] = 0
  /\ \A c \in 1..committed : author[c] # 0 => receipt[author[c]] = c
  /\ \A i \in Ids : receipt[i] # 0 => receipt[i] <= committed /\ author[receipt[i]] = i
  /\ \A t \in Tries :
       /\ request[t] # "unsent" => idOf[t] \in 1..minted
       /\ request[t] = "ack" => receipt[idOf[t]] # 0
  /\ \A i \in Ids : fate[i] = "ack" => receipt[i] # 0

LEMMA LoggedInit ==
  ASSUME Init
  PROVE  Logged
BY DEF Init, ViewInit, Logged

\* A step of the page does not touch the log.
LEMMA LoggedKept ==
  ASSUME Typed, Logged, UNCHANGED <<committed, author, receipt>>,
         \A t \in Tries :
           /\ request'[t] # "unsent" => idOf'[t] \in 1..minted'
           /\ request'[t] = "ack" => request[t] = "ack" /\ idOf'[t] = idOf[t],
         \A i \in Ids : fate'[i] = "ack" => receipt[i] # 0
  PROVE  Logged'
BY DEF Logged

\* No request but the sent one changes, and it is not answered yet.
LEMMA SentIsOpen ==
  ASSUME Typed, Logged, NEW i \in Ids, Send(i), i <= minted',
         minted' \in Nat, minted <= minted',
         UNCHANGED <<committed, author, receipt>>
  PROVE  Logged'
<1>0. i \in 1..minted'
  BY DEF Ids
<1>1. tries + 1 \in Tries
  BY CommandAssumption DEF CommandAssumption, Typed, PageTypes, OwnTypes, Send, Tries
<1>2. \A t \in Tries :
        IF t = tries + 1 THEN request'[t] = "server" /\ idOf'[t] = i
        ELSE request'[t] = request[t] /\ idOf'[t] = idOf[t]
  BY <1>1 DEF Typed, PageTypes, OwnTypes, Send
<1>3. \A t \in Tries : request[t] # "unsent" => idOf[t] \in 1..minted'
  <2>1. \A n \in 1..minted : n \in 1..minted'
    BY DEF Typed, PageTypes, OwnTypes
  <2> QED
    BY <2>1 DEF Logged
<1>4. \A j \in Ids : fate'[j] = "ack" => receipt[j] # 0
  BY DEF Send, Typed, PageTypes, OwnTypes, Logged
<1> QED
  BY <1>0, <1>1, <1>2, <1>3, <1>4, LoggedKept

LEMMA LoggedStep ==
  ASSUME Typed, Remembered, Logged, Next
  PROVE  Logged'
<1> USE DEF Typed, PageTypes, OwnTypes
<1>1. ASSUME NEW t \in Tries, NEW answered \in {"ack", "reject", "retryable", "over"},
             AtServer(t), AnswerRequest(t, answered),
             UNCHANGED <<idVars, pageVars>>,
             \A i \in Ids : receipt[i] # 0 => receipt'[i] # 0,
             answered = "ack" => receipt'[idOf[t]] # 0
      PROVE  /\ \A u \in Tries :
                  /\ request'[u] # "unsent" => idOf'[u] \in 1..minted'
                  /\ request'[u] = "ack" => receipt'[idOf'[u]] # 0
             /\ \A i \in Ids : fate'[i] = "ack" => receipt'[i] # 0
  <2>1. \A u \in Tries : request[u] # "unsent" => idOf[u] \in Ids
    BY DEF Logged, Ids
  <2>2. UNCHANGED <<idOf, minted, fate>>
    BY <1>1 DEF AnswerRequest, idVars, pageVars
  <2>3. \A u \in Tries : u # t => request'[u] = request[u]
    BY <1>1 DEF AnswerRequest
  <2>4. request[t] = "server" /\ request'[t] \in {answered, "over"}
    BY <1>1 DEF AnswerRequest, AtServer
  <2> QED
    BY <1>1, <2>1, <2>2, <2>3, <2>4 DEF Logged
<1>2. ASSUME NEW t \in Tries, Execute(t)
      PROVE  Logged'
  <2> DEFINE c == committed + 1
             i == idOf[t]
  <2>1. i \in Ids /\ receipt[i] = 0
    BY <1>2 DEF Execute, TakeEffect, Unclaimed, AtServer, Logged, Ids
  <2>2. c \in Commits /\ committed \in Nat /\ committed' = c
    BY <1>2, ViewAssumption
    DEF ViewAssumption, Execute, TakeEffect, Commit, ViewTypes, Commits
  <2>3. author' = [author EXCEPT ![c] = i] /\ receipt' = [receipt EXCEPT ![i] = c]
    BY <1>2 DEF Execute, TakeEffect
  <2>4. receipt'[i] = c /\ author'[c] = i /\ c # 0
    BY <2>1, <2>2, <2>3
  <2>5. \A d \in Commits : d > committed' => author'[d] = 0
    <3> SUFFICES ASSUME NEW d \in Commits, d > committed'
                 PROVE  author'[d] = 0
      OBVIOUS
    <3>1. d # c /\ d > committed
      BY <2>2 DEF Commits
    <3> QED
      BY <2>3, <3>1 DEF Logged
  <2>6. \A d \in 1..committed' : author'[d] # 0 => receipt'[author'[d]] = d
    <3> SUFFICES ASSUME NEW d \in 1..committed', author'[d] # 0, d # c
                 PROVE  receipt'[author'[d]] = d
      BY <2>4
    <3>0. committed \in Nat /\ committed' = committed + 1 /\ committed + 1 \in 1..MaxCommits
      BY <2>2 DEF Commits
    <3>1. d \in 1..committed /\ d \in Commits
      BY <3>0, ViewAssumption DEF ViewAssumption, Commits
    <3>2. author'[d] = author[d] /\ author[d] \in Ids
      BY <2>3, <3>1 DEF Ids
    <3>3. receipt[author[d]] = d /\ author[d] # i
      BY <2>1, <3>1, <3>2 DEF Logged
    <3> QED
      BY <2>3, <3>2, <3>3
  <2>7. \A j \in Ids : receipt'[j] # 0 => receipt'[j] <= committed' /\ author'[receipt'[j]] = j
    <3> SUFFICES ASSUME NEW j \in Ids, receipt'[j] # 0, j # i
                 PROVE  receipt'[j] <= committed' /\ author'[receipt'[j]] = j
      BY <2>2, <2>4
    <3>1. receipt'[j] = receipt[j] /\ receipt[j] \in 1..committed /\ author[receipt[j]] = j
      BY <2>2, <2>3 DEF Logged
    <3>2. receipt[j] # c /\ receipt[j] <= committed' /\ receipt[j] \in Commits
      BY <2>2, <3>1 DEF Commits
    <3> QED
      BY <2>3, <3>1, <3>2
  <2>8. \A j \in Ids : receipt[j] # 0 => receipt'[j] # 0
    BY <2>1, <2>3
  <2>9. /\ \A u \in Tries :
             /\ request'[u] # "unsent" => idOf'[u] \in 1..minted'
             /\ request'[u] = "ack" => receipt'[idOf'[u]] # 0
        /\ \A j \in Ids : fate'[j] = "ack" => receipt'[j] # 0
    BY <1>1, <1>2, <2>4, <2>8 DEF Execute
  <2> QED
    BY <2>5, <2>6, <2>7, <2>9 DEF Logged
<1>3. ASSUME NEW t \in Tries, Replay(t) \/ DomainReject(t) \/ PrepareReject(t) \/ NoEffect(t)
      PROVE  Logged'
  <2>1. UNCHANGED <<committed, author, receipt>>
    BY <1>3 DEF Replay, DomainReject, PrepareReject, NoEffect, viewVars, serverVars
  <2>2. PICK answered \in {"ack", "reject", "retryable", "over"} :
          /\ AtServer(t) /\ AnswerRequest(t, answered) /\ UNCHANGED <<idVars, pageVars>>
          /\ answered = "ack" => receipt[idOf[t]] # 0
    BY <1>3 DEF Replay, DomainReject, PrepareReject, NoEffect, Unclaimed
  <2>3. /\ \A u \in Tries :
             /\ request'[u] # "unsent" => idOf'[u] \in 1..minted'
             /\ request'[u] = "ack" => receipt'[idOf'[u]] # 0
        /\ \A j \in Ids : fate'[j] = "ack" => receipt'[j] # 0
    BY <1>1, <2>1, <2>2
  <2> QED
    BY <2>1, <2>3 DEF Logged
<1>4. ASSUME Commit, UNCHANGED commandVars
      PROVE  Logged'
  <2>1. committed \in Nat /\ committed' = committed + 1 /\ committed' \in Commits
    BY <1>4, ViewAssumption DEF ViewAssumption, Commit, ViewTypes, Commits
  <2>2. UNCHANGED <<author, receipt, request, idOf, minted, fate>>
    BY <1>4 DEF commandVars, serverVars, idVars, wireVars, pageVars
  <2>3. author[committed'] = 0
    BY <2>1 DEF Logged
  <2>4. \A d \in Commits : d > committed' => author[d] = 0
    BY <2>1 DEF Logged, Commits
  <2>5. \A d \in 1..committed' : d = committed' \/ d \in 1..committed
    BY <2>1
  <2>6. \A j \in Ids : receipt[j] # 0 => receipt[j] <= committed'
    BY <2>1 DEF Logged
  <2> QED
    BY <2>2, <2>3, <2>4, <2>5, <2>6 DEF Logged
\* The page stops waiting for a request, or does not send one.
<1>5. ASSUME UNCHANGED <<committed, author, receipt, minted>>,
             UNCHANGED wireVars \/ (awaiting # 0 /\ StopWaiting),
             \A i \in Ids : fate'[i] = "ack" => receipt[i] # 0
      PROVE  Logged'
  <2>1. awaiting # 0 => awaiting \in Tries /\ request[awaiting] # "unsent"
    BY DEF Remembered, Tries
  <2>2. idOf' = idOf
    BY <1>5 DEF wireVars, StopWaiting
  <2>3. \A t \in Tries :
          /\ request'[t] # "unsent" => request[t] # "unsent"
          /\ request'[t] = "ack" => request[t] = "ack"
    BY <1>5, <2>1 DEF wireVars, StopWaiting, AtServer
  <2> QED
    BY <1>5, <2>2, <2>3, LoggedKept DEF Logged
<1>6. \A i \in Ids : fate[i] = "ack" => receipt[i] # 0
  BY DEF Logged
<1>7. ASSUME NEW j, NEW how \in {"reject", "cancelled", "dropped"}, Part(j, how)
      PROVE  \A i \in Ids : fate'[i] = "ack" => receipt[i] # 0
  BY <1>6, <1>7 DEF Part
<1>8. CASE Player
  <2>1. ASSUME NEW kind \in Kinds, Submit(kind)
        PROVE  Logged'
    <3>0. minted + 1 \in Ids
      BY <2>1, CommandAssumption DEF CommandAssumption, Submit, Ids
    <3>1. PICK i \in Ids : i = minted + 1
      BY <3>0
    <3>2. Send(i) /\ i <= minted' /\ minted' \in Nat /\ minted <= minted'
      BY <2>1, <3>1 DEF Submit, Send
    <3>3. UNCHANGED <<committed, author, receipt>>
      BY <2>1 DEF Submit, viewVars, serverVars
    <3> QED
      BY <3>2, <3>3, SentIsOpen
  <2>2. ASSUME Retry
        PROVE  Logged'
    <3>1. PICK i \in Ids : i = attempt
      BY <2>2 DEF Retry, Ids
    <3>2. Send(i) /\ i <= minted' /\ minted' \in Nat /\ minted <= minted'
      BY <2>2, <3>1 DEF Retry, Send, idVars, Remembered
    <3>3. UNCHANGED <<committed, author, receipt>>
      BY <2>2 DEF Retry, viewVars, serverVars
    <3> QED
      BY <3>2, <3>3, SentIsOpen
  <2>3. CASE SubmitRefused
    BY <1>5, <1>6, <2>3 DEF SubmitRefused, viewVars, serverVars, idVars
  <2>4. CASE RetryDropped
    BY <1>5, <1>7, <2>4 DEF RetryDropped, viewVars, serverVars, idVars
  <2>5. CASE Cancel
    BY <1>5, <1>7, <2>5 DEF Cancel, Forget, viewVars, serverVars, idVars
  <2>6. CASE Reload
    <3>1. \A i \in Ids : fate'[i] = "ack" => fate[i] = "ack"
      BY <2>6, RestoredKeeps DEF Reload, Typed, PageTypes
    <3> QED
      BY <1>5, <1>6, <2>6, <3>1 DEF Reload, serverVars, idVars
  <2> QED
    BY <1>8, <2>1, <2>2, <2>3, <2>4, <2>5, <2>6 DEF Player
<1>9. Recover => UNCHANGED committed
  BY DEF Recover, Ask
<1>10. CASE Receive
  <2>1. CASE ReceiveAck
    <3>1. awaiting \in Tries /\ request[awaiting] = "ack" /\ idOf[awaiting] = about
      BY <2>1 DEF ReceiveAck, Arrived, Remembered, Tries
    <3>2. receipt[about] # 0
      BY <3>1 DEF Logged
    <3>3. \A i \in Ids : fate'[i] = "ack" => receipt[i] # 0
      BY <1>6, <2>1, <3>2 DEF ReceiveAck, Forget, Part
    <3> QED
      BY <1>5, <1>9, <2>1, <3>3 DEF ReceiveAck, Arrived, serverVars, idVars
  <2>2. CASE ReceiveReject
    <3>1. UNCHANGED committed
      BY <1>9, <2>2 DEF ReceiveReject, Withdraw, viewVars
    <3> QED
      BY <1>5, <1>7, <2>2, <3>1 DEF ReceiveReject, Forget, Arrived, serverVars, idVars
  <2>3. CASE ReceiveRetryable
    BY <1>5, <1>6, <1>9, <2>3 DEF ReceiveRetryable, Arrived, serverVars, idVars
  <2>4. CASE Interrupt
    BY <1>5, <1>6, <2>4 DEF Interrupt, viewVars, serverVars, idVars
  <2> QED
    BY <1>10, <2>1, <2>2, <2>3, <2>4 DEF Receive
<1>11. CASE RecoveryDone
  BY <1>5, <1>6, <1>11 DEF RecoveryDone, viewVars, serverVars, idVars
<1>12. CASE RecoveryFailed
  BY <1>5, <1>6, <1>12 DEF RecoveryFailed, Distrust, serverVars, idVars
<1>13. CASE LiveConnection \/ \E r \in Asks : Settled(r)
  <2>1. UNCHANGED committed /\ UNCHANGED commandVars
    BY <1>13 DEF LiveConnection, Show, Distrust, Settled, Return, Fail, Settle
  <2> QED
    BY <1>5, <1>6, <2>1 DEF commandVars, serverVars, idVars, pageVars
<1> QED
  BY <1>2, <1>3, <1>4, <1>8, <1>10, <1>11, <1>12, <1>13 DEF Next, Endpoint, CommitOfOthers

LEMMA AlwaysLogged == Spec => []Logged
<1>1. Init => Logged
  BY LoggedInit
<1>2. Typed /\ Remembered /\ Logged /\ [Next]_vars => Logged'
  <2>1. ASSUME Logged, UNCHANGED vars
        PROVE  Logged'
    BY <2>1 DEF Logged, vars, viewVars, commandVars, serverVars, idVars, wireVars, pageVars
  <2> QED
    BY <2>1, LoggedStep
<1> QED
  BY <1>1, <1>2, AlwaysTyped, PTL DEF Spec

\* However often a command is sent, and whichever of its requests arrive, it
\* takes effect at most once: the receipts invert the log's authors.
THEOREM NothingHappensTwice == Spec => []OncePerId
<1>1. Typed /\ Logged => OncePerId
  BY DEF Logged, OncePerId
<1> QED
  BY <1>1, AlwaysTyped, AlwaysLogged, PTL

\* An acknowledged command is in the log, whichever of its requests was answered
\* and whether from the commit or from the receipt.
THEOREM AcksTellTheTruth == Spec => []AckedTookEffect
<1>1. Typed /\ Logged => AckedTookEffect
  <2> SUFFICES ASSUME Typed, Logged, NEW i \in Ids, fate[i] = "ack"
               PROVE  \E c \in 1..committed : author[c] = i
    BY DEF AckedTookEffect
  <2>1. receipt[i] \in 1..committed /\ author[receipt[i]] = i
    BY DEF Typed, PageTypes, ViewTypes, Logged
  <2> QED
    BY <2>1
<1> QED
  BY <1>1, AlwaysTyped, AlwaysLogged, PTL

-----------------------------------------------------------------------------
(* What the page shows of an acknowledged command.                         *)

\* The command state is ready only when it shows what was asked for; and what
\* was asked for since an acknowledgement covers the effect it speaks of.
Asked ==
  /\ \A k \in ReadKeys : asked[k] <= committed
  /\ ready[StateKey] => UpTo(shown[StateKey], asked[StateKey])

Refreshed ==
  /\ status = "ack" => about # 0 /\ fate[about] = "ack"
  /\ (status = "ack" \/ recovering # 0) /\ fate[about] = "ack" =>
       receipt[about] <= asked[StateKey]

LEMMA AskedInit ==
  ASSUME ViewInit
  PROVE  Asked
BY CommandAssumption DEF CommandAssumption, ViewInit, Asked, UpTo

LEMMA AskedStep ==
  ASSUME ViewTypes, Asked, ViewMove \/ Reopen
  PROVE  Asked'
<1> USE ViewAssumption, CommandAssumption
    DEF ViewAssumption, CommandAssumption, ViewTypes
<1>0. StateKey \in ReadKeys /\ StateKey \in Keys /\ committed \in Nat
  BY DEF ReadKeys
\* A step that asks for nothing, and leaves the command state or unreadies it.
<1>1. ASSUME asked' = asked, committed' \in {committed, committed + 1},
             ready'[StateKey] => ready[StateKey] /\ shown'[StateKey] = shown[StateKey]
      PROVE  Asked'
  BY <1>0, <1>1 DEF Asked, UpTo
<1>2. ASSUME UNCHANGED <<asked, committed>>, UpTo(shown'[StateKey], asked[StateKey])
      PROVE  Asked'
  BY <1>0, <1>2 DEF Asked, UpTo
<1>3. CASE UNCHANGED viewVars
  BY <1>1, <1>3 DEF viewVars
<1>4. CASE Commit
  BY <1>1, <1>4 DEF Commit
<1>5. ASSUME NEW r \in Asks, NEW keys \in SUBSET Keys, Ask(r, keys)
      PROVE  Asked'
  <2>1. \A k \in ReadKeys : asked'[k] = IF k \in keys THEN committed ELSE asked[k]
    BY <1>5 DEF Ask
  <2>2. ready'[StateKey] => StateKey \notin keys /\ ready[StateKey]
    BY <1>0, <1>5 DEF Ask, Mark
  <2>3. UNCHANGED <<committed, shown>>
    BY <1>5 DEF Ask
  <2> QED
    BY <1>0, <2>1, <2>2, <2>3 DEF Asked, UpTo
<1>6. ASSUME NEW r \in Asks, NEW keys \in SUBSET Keys, Fail(r, keys)
      PROVE  Asked'
  <2>1. ready'[StateKey] => ready[StateKey]
    BY <1>0, <1>6 DEF Fail, Mark
  <2> QED
    BY <1>1, <1>6, <2>1 DEF Fail, Settle
<1>7. ASSUME NEW r \in Asks, Return(r)
      PROVE  Asked'
  BY <1>1, <1>7 DEF Return, Settle
<1>8. ASSUME NEW keys \in SUBSET Keys, Show(keys)
      PROVE  Asked'
  <2>1. PICK value \in [keys \ Live -> Contents] :
          /\ \A k \in keys \ Live : UpTo(value[k], asked[k])
          /\ shown' = [k \in ReadKeys |-> IF k \in keys THEN value[k] ELSE shown[k]]
    BY <1>8 DEF Show
  <2>2. UNCHANGED <<asked, committed>> /\ Mark(keys, TRUE)
    BY <1>8 DEF Show
  <2>3. CASE StateKey \in keys
    <3>1. UpTo(shown'[StateKey], asked[StateKey])
      BY <1>0, <2>1, <2>3 DEF ReadKeys
    <3> QED
      BY <1>2, <2>2, <3>1
  <2>4. CASE StateKey \notin keys
    <3>1. shown'[StateKey] = shown[StateKey]
      BY <1>0, <2>1, <2>4
    <3>2. ready'[StateKey] => ready[StateKey]
      BY <1>0, <2>2, <2>4 DEF Mark
    <3> QED
      BY <1>1, <2>2, <3>1, <3>2
  <2> QED
    BY <2>3, <2>4
<1>9. ASSUME NEW keys \in SUBSET Keys, NEW purged \in SUBSET ReadKeys, Distrust(keys, purged)
      PROVE  Asked'
  <2>1. UNCHANGED <<asked, committed>>
    BY <1>9 DEF Distrust
  <2>2. CASE StateKey \in purged
    <3>1. UpTo(shown'[StateKey], asked[StateKey])
      BY <1>0, <1>9, <2>2 DEF Distrust, UpTo
    <3> QED
      BY <1>2, <2>1, <3>1
  <2>3. CASE StateKey \notin purged
    <3>1. shown'[StateKey] = shown[StateKey]
      BY <1>0, <1>9, <2>3 DEF Distrust
    <3>2. ready'[StateKey] => ready[StateKey]
      BY <1>0, <1>9 DEF Distrust, Mark
    <3> QED
      BY <1>1, <2>1, <3>1, <3>2
  <2> QED
    BY <2>2, <2>3
<1>10. CASE Withdraw
  BY <1>0, <1>2, <1>10 DEF Withdraw, UpTo
<1>11. CASE Reopen
  <2>1. ~ready'[StateKey]
    BY <1>0, <1>11 DEF Reopen, Mark
  <2>2. committed' = committed /\ \A k \in ReadKeys : asked'[k] = 0
    BY <1>11 DEF Reopen
  <2> QED
    BY <1>0, <2>1, <2>2 DEF Asked
<1> QED
  BY <1>3, <1>4, <1>5, <1>6, <1>7, <1>8, <1>9, <1>10, <1>11 DEF ViewMove

LEMMA RefreshedStep ==
  ASSUME Typed, Remembered, Logged, Asked, Refreshed, Next
  PROVE  Refreshed'
<1> USE CommandAssumption DEF CommandAssumption
<1>0. about # 0 => about \in Ids
  BY DEF Typed, PageTypes, OwnTypes, Ids
\* A step after which nothing is acknowledged, or going to be.
<1>1. ASSUME status' # "ack", recovering' = 0 \/ fate'[about'] # "ack"
      PROVE  Refreshed'
  BY <1>1 DEF Refreshed
<1>2. ASSUME UNCHANGED <<pageVars, asked>>,
             \A i \in Ids : receipt[i] # 0 => receipt'[i] = receipt[i]
      PROVE  Refreshed'
  <2>1. (status = "ack" \/ recovering # 0) => about \in Ids
    BY <1>0 DEF Refreshed, Remembered
  <2>2. (status = "ack" \/ recovering # 0) /\ fate[about] = "ack" =>
          receipt'[about] = receipt[about]
    BY <1>2, <2>1 DEF Logged
  <2> QED
    BY <1>2, <2>2 DEF Refreshed, pageVars
<1>3. ASSUME NEW t \in Tries, Endpoint(t)
      PROVE  Refreshed'
  <2>1. CASE Execute(t)
    <3>1. receipt[idOf[t]] = 0 /\ receipt' = [receipt EXCEPT ![idOf[t]] = committed + 1]
      BY <2>1 DEF Execute, TakeEffect, Unclaimed
    <3>2. \A i \in Ids : receipt[i] # 0 => receipt'[i] = receipt[i]
      BY <3>1 DEF Typed, PageTypes
    <3> QED
      BY <1>2, <2>1, <3>2 DEF Execute, TakeEffect, Commit
  <2>2. CASE Replay(t) \/ DomainReject(t) \/ PrepareReject(t) \/ NoEffect(t)
    BY <1>2, <2>2 DEF Replay, DomainReject, PrepareReject, NoEffect, viewVars, serverVars
  <2> QED
    BY <1>3, <2>1, <2>2 DEF Endpoint
<1>4. CASE Player
  <2>1. \A kind \in Kinds : Submit(kind) => status' = "pending" /\ recovering' = 0
    BY DEF Submit, Send
  <2>2. Retry => status' = "pending" /\ recovering' = 0
    BY DEF Retry, Send
  <2>3. SubmitRefused \/ RetryDropped \/ Cancel => status' \in {"reject", "idle"} /\ recovering' = 0
    BY DEF SubmitRefused, RetryDropped, Cancel, MayStart, RecoveryRequired, Remembered
  <2>4. Reload => status' \in {"interrupted", "idle"} /\ recovering' = 0
    BY DEF Reload
  <2> QED
    BY <1>1, <1>4, <2>1, <2>2, <2>3, <2>4 DEF Player
<1>5. awaiting # 0 => about \in Ids /\ status = "pending" /\ fate[about] = "open" /\ recovering = 0
  BY <1>0 DEF Remembered
<1>6. ASSUME NEW how \in {"ack", "reject"}, awaiting # 0, Part(about, how)
      PROVE  fate'[about] = how
  BY <1>5, <1>6 DEF Part, Typed, PageTypes, OwnTypes
<1>7. CASE ReceiveAck
  <2>1. awaiting # 0 /\ fate'[about] = "ack" /\ Recover /\ UNCHANGED receipt
    BY <1>6, <1>7 DEF ReceiveAck, Arrived, Forget, serverVars
  <2>2. status' = "pending" /\ about' = about
    BY <1>5, <2>1 DEF Recover
  <2>3. asked'[StateKey] = committed
    BY <2>1, RefreshKeysAreKeys DEF Recover, Ask
  <2>4. receipt[about] <= committed
    BY <1>5, <2>1 DEF Logged, Typed, PageTypes, ViewTypes
  <2> QED
    BY <2>1, <2>2, <2>3, <2>4 DEF Refreshed
<1>8. CASE ReceiveReject
  <2>1. awaiting # 0 /\ fate'[about] = "reject" /\ recovering = 0 /\ status = "pending"
    BY <1>5, <1>6, <1>8 DEF ReceiveReject, Arrived, Forget
  <2>2. about' = about /\ status' \in {"pending", "reject"}
    BY <1>8, <2>1 DEF ReceiveReject, Recover
  <2> QED
    BY <1>1, <2>1, <2>2
<1>9. CASE ReceiveRetryable
  <2>1. awaiting # 0 /\ UNCHANGED <<fate, about>> /\ status' = status
    BY <1>9 DEF ReceiveRetryable, Arrived, Recover
  <2> QED
    BY <1>1, <1>5, <2>1
<1>10. CASE Interrupt
  BY <1>1, <1>5, <1>10 DEF Interrupt
<1>11. CASE RecoveryDone
  <2>1. recovering # 0 /\ recovering' = 0 /\ status' = Confirmed
        /\ UNCHANGED <<about, fate, asked, receipt>>
    BY <1>11 DEF RecoveryDone, viewVars, serverVars
  <2>2. about # 0
    BY <2>1 DEF Remembered
  <2>3. status' = "ack" => fate[about] = "ack"
    BY <2>1 DEF Confirmed
  <2> QED
    BY <2>1, <2>2, <2>3 DEF Refreshed
<1>12. CASE RecoveryFailed
  <2>1. recovering' = 0 /\ status' # "ack"
    BY <1>12 DEF RecoveryFailed, Confirmed
  <2> QED
    BY <1>1, <2>1
<1>13. CASE CommitOfOthers \/ LiveConnection \/ \E r \in Asks : Settled(r)
  <2>1. UNCHANGED asked /\ UNCHANGED commandVars
    BY <1>13 DEF CommitOfOthers, Commit, LiveConnection, Show, Distrust, Settled, Return, Fail, Settle
  <2> QED
    BY <1>2, <2>1 DEF commandVars, serverVars
<1> QED
  BY <1>3, <1>4, <1>7, <1>8, <1>9, <1>10, <1>11, <1>12, <1>13 DEF Next, Receive

\* When the page says that a command was acknowledged and its store is ready,
\* the command state shows the command's own effect, or that the slot is lost.
THEOREM AcksAreShown == Spec => []AckedIsShown
<1>1. Init => Asked /\ Refreshed
  BY AskedInit DEF Init, Refreshed
<1>2. /\ Typed /\ Remembered /\ Logged /\ Asked /\ Refreshed
      /\ [Next]_vars
      => (Asked /\ Refreshed)'
  <2>1. ASSUME Typed, Remembered, Logged, Asked, Refreshed, Next
        PROVE  (Asked /\ Refreshed)'
    BY <2>1, EveryViewMove, AskedStep, RefreshedStep DEF Typed
  <2>2. ASSUME Asked, Refreshed, UNCHANGED vars
        PROVE  (Asked /\ Refreshed)'
    BY <2>2 DEF Asked, Refreshed, vars, viewVars, commandVars, serverVars, pageVars, UpTo
  <2> QED
    BY <2>1, <2>2
<1>3. Typed /\ Logged /\ Asked /\ Refreshed => AckedIsShown
  <2> SUFFICES ASSUME Typed, Logged, Asked, Refreshed, status = "ack", Ready,
                      shown[StateKey] # {}
               PROVE  \E c \in shown[StateKey] \ {0} : author[c] = about
    BY DEF AckedIsShown
  <2>1. about \in Ids /\ receipt[about] <= asked[StateKey] /\ receipt[about] # 0
    BY DEF Typed, PageTypes, OwnTypes, Ids, Refreshed, Logged
  <2>2. author[receipt[about]] = about
    BY <2>1 DEF Logged
  <2>3. StateKey \in ReadKeys /\ ready[StateKey]
    BY CommandAssumption DEF CommandAssumption, ReadKeys, Ready
  <2>4. 0..asked[StateKey] \subseteq shown[StateKey]
    BY <2>3 DEF Asked, UpTo
  <2>5. receipt[about] \in 0..asked[StateKey]
    BY <2>1, <2>3 DEF Typed, PageTypes, ViewTypes
  <2> QED
    BY <2>1, <2>2, <2>4, <2>5
<1> QED
  BY <1>1, <1>2, <1>3, AlwaysTyped, AlwaysLogged, PTL DEF Spec
=============================================================================
