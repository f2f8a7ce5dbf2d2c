------------------------ MODULE ProjectionStoreProofs ------------------------
(***************************************************************************)
(* Proofs about ProjectionStore, for every set of keys and every number of *)
(* refreshes, epochs and commits: its types, the order of attempts, what a *)
(* revocation promises, what a ready key and a returned refresh show, that *)
(* refreshes never wait in a circle, and that it implements PageView.      *)
(*                                                                         *)
(* Each invariant is proved inductive relative to those before it, over    *)
(* the same nine kinds of steps (StepKinds).                               *)
(***************************************************************************)
EXTENDS ProjectionStore, WellFoundedInduction, TLAPS

-----------------------------------------------------------------------------
(* The kinds of steps.                                                     *)

FailStep(a) == Running(a) /\ Fail(a)

\* A payload of a key the live connection writes, or one that shows no commit.
ApplyStep(k, value) == (k \in Live \/ value = Purged) /\ Apply(k, value)

AnswerStep(a, k) == AnswerValue(a, k) \/ AnswerFailure(a, k)

Step ==
  \/ Commit
  \/ \E keys \in SUBSET Keys : Invalidate(keys)
  \/ Revoke
  \/ \E keys \in SUBSET Keys : StartRefresh(keys)
  \/ \E a \in Attempts, k \in Keys : AnswerStep(a, k)
  \/ \E a \in Attempts : FailStep(a)
  \/ \E a \in Attempts : Publish(a)
  \/ \E a \in Attempts : Return(a)
  \/ \E k \in Keys, value \in Contents : ApplyStep(k, value)

LEMMA RangeInContents ==
  ASSUME NEW n \in 0..MaxCommits
  PROVE  0..n \in Contents
BY StoreAssumption DEF Contents

\* Every step of the store is of one of the nine kinds.
LEMMA StepKinds ==
  ASSUME StoreTypeOK, StoreNext
  PROVE  Step
<1>1. ASSUME NEW a \in Attempts, NEW k \in Keys, HydrationDenied(a, k)
      PROVE  Step
  BY <1>1 DEF HydrationDenied, Step
<1>2. ASSUME NEW a \in Attempts, RejectStale(a) \/ Abort(a) \/ FailRefresh(a)
      PROVE  Step
  BY <1>2 DEF RejectStale, Abort, FailRefresh, FailStep, Step
<1>3. ASSUME NEW k \in Live, LivePayload(k)
      PROVE  Step
  <2>1. k \in Keys
    BY StoreAssumption DEF StoreAssumption
  <2>2. PICK n \in 0..committed : \E value \in {0..n, snapshot[k] \cup {n}} : Apply(k, value)
    BY <1>3 DEF LivePayload
  <2>3. PICK value \in {0..n, snapshot[k] \cup {n}} : Apply(k, value)
    BY <2>2
  <2>4. n \in 0..MaxCommits
    BY StoreAssumption DEF StoreTypeOK, StoreAssumption
  <2>5. snapshot[k] \in Contents
    BY <2>1 DEF StoreTypeOK
  <2>6. value \in Contents
    BY <2>4, <2>5, RangeInContents DEF Contents
  <2> QED
    BY <2>1, <2>3, <2>6 DEF ApplyStep, Step
<1>4. ASSUME NEW k \in Normalized, Withdraw(k)
      PROVE  Step
  <2>1. k \in Keys /\ Purged \in Contents
    BY StoreAssumption DEF StoreAssumption, Purged, Contents
  <2> QED
    BY <2>1, <1>4 DEF Withdraw, ApplyStep, Step
<1> QED
  BY <1>1, <1>2, <1>3, <1>4 DEF StoreNext, Step, AnswerStep

-----------------------------------------------------------------------------
(* Types.                                                                  *)

LEMMA TakeOverTypes ==
  ASSUME StoreTypeOK, NEW keys, NEW state \in {"running", "settled"},
         TakeOver(keys, state)
  PROVE  /\ lastAttempt' = lastAttempt + 1 /\ lastAttempt' \in Attempts
         /\ owner' \in [Keys -> Attempts]
         /\ outcome' \in [Attempts -> {"unused", "running", "ok", "failed", "settled"}]
BY StoreAssumption DEF StoreTypeOK, StoreAssumption, TakeOver, Attempts

LEMMA SettleTypes ==
  ASSUME StoreTypeOK, NEW a \in Attempts, NEW state \in {"ok", "failed"},
         Settle(a, state)
  PROVE  /\ outcome' \in [Attempts -> {"unused", "running", "ok", "failed", "settled"}]
         /\ wanted' \in [Attempts -> SUBSET Keys]
         /\ answer' \in [Attempts -> [Keys -> {"pending", "value", "failure"}]]
         /\ content' \in [Attempts -> [Keys -> Contents]]
         /\ published' \in [Attempts -> BOOLEAN]
         /\ floor' \in [Attempts -> 0..MaxCommits]
<1>1. {k \in Hydrated : Pending(a, k)} \in SUBSET Keys
  BY StoreAssumption DEF StoreAssumption
<1>2. [k \in Keys |-> "pending"] \in [Keys -> {"pending", "value", "failure"}]
  OBVIOUS
<1>3. [k \in Keys |-> Purged] \in [Keys -> Contents]
  BY DEF Purged, Contents
<1>4. 0 \in 0..MaxCommits
  BY StoreAssumption DEF StoreAssumption
<1> QED
  BY <1>1, <1>2, <1>3, <1>4 DEF StoreTypeOK, Settle

LEMMA HealthTypes ==
  ASSUME NEW keys, NEW state \in {"ready", "refreshing", "unavailable"},
         health \in [Keys -> {"ready", "refreshing", "unavailable"}],
         SetHealth(keys, state)
  PROVE  health' \in [Keys -> {"ready", "refreshing", "unavailable"}]
BY DEF SetHealth

LEMMA TypeInit ==
  ASSUME StoreInit
  PROVE  StoreTypeOK
<1>1. {0} \in Contents /\ Purged \in Contents
  BY StoreAssumption DEF StoreAssumption, Contents, Purged
<1>2. 0 \in Attempts /\ 0 \in 0..MaxCommits /\ 0 \in 0..MaxEpoch
  BY StoreAssumption DEF StoreAssumption, Attempts
<1>3. [k \in Keys |-> "pending"] \in [Keys -> {"pending", "value", "failure"}]
  OBVIOUS
<1>4. [k \in Keys |-> Purged] \in [Keys -> Contents]
  BY <1>1
<1> QED
  BY <1>1, <1>2, <1>3, <1>4 DEF StoreInit, StoreTypeOK

LEMMA TypeStep ==
  ASSUME StoreTypeOK, Step
  PROVE  StoreTypeOK'
<1> USE StoreAssumption DEF StoreAssumption
<1>1. CASE Commit
  BY <1>1 DEF Commit, StoreTypeOK, shownVars, refreshVars, settledVars, Contents, Attempts
<1>2. ASSUME NEW keys \in SUBSET Keys, Invalidate(keys)
      PROVE  StoreTypeOK'
  <2>1. epoch' \in 0..MaxEpoch
    BY <1>2 DEF Invalidate, AdvanceEpoch, StoreTypeOK
  <2>2. health' \in [Keys -> {"ready", "refreshing", "unavailable"}]
    BY <1>2, HealthTypes DEF Invalidate, StoreTypeOK
  <2> QED
    BY <1>2, <2>1, <2>2, TakeOverTypes
    DEF Invalidate, StoreTypeOK, refreshVars, settledVars, Contents, Attempts
<1>3. CASE Revoke
  <2>1. epoch' \in 0..MaxEpoch
    BY <1>3 DEF Revoke, AdvanceEpoch, StoreTypeOK
  <2>2. health' \in [Keys -> {"ready", "refreshing", "unavailable"}]
    BY <1>3, HealthTypes DEF Revoke, StoreTypeOK
  <2>3. snapshot' \in [Keys -> Contents]
    BY <1>3 DEF Revoke, Purge, Purged, Contents, StoreTypeOK
  <2>4. /\ lastAttempt' = lastAttempt + 1 /\ lastAttempt' \in Attempts
        /\ owner' \in [Keys -> Attempts]
        /\ outcome' \in [Attempts -> {"unused", "running", "ok", "failed", "settled"}]
    BY <1>3, TakeOverTypes DEF Revoke
  <2>5. revokedAt' \in Attempts
    BY <1>3, <2>4 DEF Revoke
  <2> QED
    BY <1>3, <2>1, <2>2, <2>3, <2>4, <2>5
    DEF Revoke, StoreTypeOK, refreshVars, settledVars
<1>4. ASSUME NEW keys \in SUBSET Keys, StartRefresh(keys)
      PROVE  StoreTypeOK'
  <2>1. /\ lastAttempt' = lastAttempt + 1 /\ lastAttempt' \in Attempts
        /\ owner' \in [Keys -> Attempts]
        /\ outcome' \in [Attempts -> {"unused", "running", "ok", "failed", "settled"}]
    BY <1>4, TakeOverTypes DEF StartRefresh
  <2>2. health' \in [Keys -> {"ready", "refreshing", "unavailable"}]
    BY <1>4, HealthTypes DEF StartRefresh, StoreTypeOK
  <2>3. /\ wanted' \in [Attempts -> SUBSET Keys]
        /\ captured' \in [Attempts -> 0..MaxEpoch]
        /\ floor' \in [Attempts -> 0..MaxCommits]
        /\ asked' \in [Keys -> 0..MaxCommits]
    BY <1>4 DEF StartRefresh, StoreTypeOK
  <2> QED
    BY <1>4, <2>1, <2>2, <2>3 DEF StartRefresh, StoreTypeOK
<1>5. ASSUME NEW a \in Attempts, NEW k \in Keys, AnswerStep(a, k)
      PROVE  StoreTypeOK'
  <2>1. answer' \in [Attempts -> [Keys -> {"pending", "value", "failure"}]]
    <3>1. PICK kind \in {"value", "failure"} : SetAnswer(a, k, kind)
      BY <1>5 DEF AnswerStep, AnswerValue, AnswerFailure
    <3>2. [answer[a] EXCEPT ![k] = kind] \in [Keys -> {"pending", "value", "failure"}]
      BY DEF StoreTypeOK
    <3> QED
      BY <3>1, <3>2 DEF SetAnswer, StoreTypeOK
  <2>2. content' \in [Attempts -> [Keys -> Contents]]
    <3>1. CASE AnswerValue(a, k)
      <4>1. PICK value \in {0..committed} \cup (IF k \in Normalized THEN {Purged} ELSE {}) :
              content' = [content EXCEPT ![a] = [content[a] EXCEPT ![k] = value]]
        BY <3>1 DEF AnswerValue
      <4>2. value \in Contents
        <5>1. committed \in 0..MaxCommits
          BY DEF StoreTypeOK
        <5>2. value = 0..committed \/ value = Purged
          BY <4>1
        <5> QED
          BY <5>1, <5>2, RangeInContents DEF Purged, Contents
      <4>3. [content[a] EXCEPT ![k] = value] \in [Keys -> Contents]
        BY <4>2 DEF StoreTypeOK
      <4> QED
        BY <4>1, <4>3 DEF StoreTypeOK
    <3>2. CASE AnswerFailure(a, k)
      BY <3>2 DEF AnswerFailure, StoreTypeOK
    <3> QED
      BY <1>5, <3>1, <3>2 DEF AnswerStep
  <2> QED
    BY <1>5, <2>1, <2>2
    DEF AnswerStep, AnswerValue, AnswerFailure, StoreTypeOK, shownVars
<1>6. ASSUME NEW a \in Attempts, FailStep(a)
      PROVE  StoreTypeOK'
  <2>1. health' \in [Keys -> {"ready", "refreshing", "unavailable"}]
    BY <1>6, HealthTypes DEF FailStep, Fail, StoreTypeOK
  <2> QED
    BY <1>6, <2>1, SettleTypes DEF FailStep, Fail, StoreTypeOK
<1>7. ASSUME NEW a \in Attempts, Publish(a)
      PROVE  StoreTypeOK'
  <2>1. health' \in [Keys -> {"ready", "refreshing", "unavailable"}]
    BY <1>7, HealthTypes DEF Publish, StoreTypeOK
  <2>2. /\ snapshot' \in [Keys -> Contents]
        /\ source' \in [Keys -> Attempts]
        /\ published' \in [Attempts -> BOOLEAN]
    BY <1>7 DEF Publish, StoreTypeOK
  <2> QED
    BY <1>7, <2>1, <2>2 DEF Publish, StoreTypeOK
<1>8. ASSUME NEW a \in Attempts, Return(a)
      PROVE  StoreTypeOK'
  BY <1>8, SettleTypes DEF Return, StoreTypeOK, shownVars
<1>9. ASSUME NEW k \in Keys, NEW value \in Contents, ApplyStep(k, value)
      PROVE  StoreTypeOK'
  <2>1. /\ lastAttempt' = lastAttempt + 1 /\ lastAttempt' \in Attempts
        /\ owner' \in [Keys -> Attempts]
        /\ outcome' \in [Attempts -> {"unused", "running", "ok", "failed", "settled"}]
    BY <1>9, TakeOverTypes DEF ApplyStep, Apply
  <2>2. health' \in [Keys -> {"ready", "refreshing", "unavailable"}]
    BY <1>9, HealthTypes DEF ApplyStep, Apply, StoreTypeOK
  <2>3. snapshot' \in [Keys -> Contents] /\ source' \in [Keys -> Attempts]
    BY <1>9, <2>1 DEF ApplyStep, Apply, StoreTypeOK
  <2> QED
    BY <1>9, <2>1, <2>2, <2>3
    DEF ApplyStep, Apply, StoreTypeOK, refreshVars, settledVars
<1> QED
  BY <1>1, <1>2, <1>3, <1>4, <1>5, <1>6, <1>7, <1>8, <1>9 DEF Step

\* Every reachable state of the store is well typed: no revocation, payload or
\* answer gives a key a value outside what keys may show.
THEOREM StoreTypes == StoreSpec => []StoreTypeOK
<1>1. StoreInit => StoreTypeOK
  BY TypeInit
<1>2. StoreTypeOK /\ [StoreNext]_storeVars => StoreTypeOK'
  <2>1. ASSUME StoreTypeOK, StoreNext
        PROVE  StoreTypeOK'
    BY <2>1, StepKinds, TypeStep
  <2>2. ASSUME StoreTypeOK, UNCHANGED storeVars
        PROVE  StoreTypeOK'
    BY <2>2 DEF StoreTypeOK, storeVars, shownVars, refreshVars, settledVars
  <2> QED
    BY <2>1, <2>2
<1> QED
  BY <1>1, <1>2, PTL DEF StoreSpec

-----------------------------------------------------------------------------
(* The order of attempts.                                                  *)

\* Attempts are taken in order; a key shows nothing newer than its owner; a
\* refresh that does not run has no answers and has published nothing.
Ordered ==
  /\ \A a \in Attempts : outcome[a] = "unused" <=> a > lastAttempt
  /\ \A k \in Keys : owner[k] <= lastAttempt /\ source[k] <= owner[k]
  /\ revokedAt <= lastAttempt
  /\ \A a \in Attempts : ~Running(a) =>
       ~published[a] /\ \A k \in Keys : answer[a][k] = "pending"

\* What a step that takes keys over does, whatever the new attempt is.
Taken(keys, state) ==
  /\ lastAttempt \in Nat /\ lastAttempt + 1 \in Attempts
  /\ lastAttempt' = lastAttempt + 1
  /\ outcome[lastAttempt + 1] = "unused"
  /\ outcome'[lastAttempt + 1] = state
  /\ \A a \in Attempts : a # lastAttempt + 1 => outcome'[a] = outcome[a]
  /\ \A a \in Attempts : outcome'[a] = "unused" <=> a > lastAttempt'
  /\ \A k \in Keys : owner'[k] = IF k \in keys THEN lastAttempt + 1 ELSE owner[k]
  /\ \A k \in Keys : owner'[k] <= lastAttempt' /\ owner[k] <= owner'[k]

LEMMA TakeOverOrdered ==
  ASSUME StoreTypeOK, Ordered, NEW keys, NEW state \in {"running", "settled"},
         TakeOver(keys, state)
  PROVE  Taken(keys, state)
<1> DEFINE next == lastAttempt + 1
<1>1. next \in Attempts /\ lastAttempt \in Nat
  BY StoreAssumption DEF StoreAssumption, StoreTypeOK, TakeOver, Attempts
<1>2. outcome[next] = "unused"
  BY <1>1 DEF Ordered, Attempts
<1>3. /\ lastAttempt' = next
      /\ outcome' = [outcome EXCEPT ![next] = state]
      /\ owner' = [k \in Keys |-> IF k \in keys THEN next ELSE owner[k]]
  BY DEF TakeOver
<1>4. /\ outcome'[next] = state
      /\ \A a \in Attempts : a # next => outcome'[a] = outcome[a]
  BY <1>1, <1>3 DEF StoreTypeOK
<1>5. \A a \in Attempts : outcome'[a] = "unused" <=> a > lastAttempt'
  BY <1>1, <1>3, <1>4 DEF Ordered, Attempts
<1>6. \A k \in Keys : owner'[k] <= lastAttempt' /\ owner[k] <= owner'[k]
  BY <1>1, <1>3 DEF Ordered, StoreTypeOK, Attempts
<1> QED
  BY <1>1, <1>2, <1>3, <1>4, <1>5, <1>6 DEF Taken

LEMMA OwnersGrow ==
  ASSUME StoreTypeOK, NEW keys, NEW state, Taken(keys, state)
  PROVE  \A k \in Keys :
           owner[k] \in Nat /\ owner'[k] \in Nat /\ owner[k] <= owner'[k]
<1> SUFFICES ASSUME NEW k \in Keys
             PROVE  owner[k] \in Nat /\ owner'[k] \in Nat /\ owner[k] <= owner'[k]
  OBVIOUS
<1>1. owner[k] \in Nat
  BY DEF StoreTypeOK, Attempts
<1>2. owner'[k] = lastAttempt + 1 \/ owner'[k] = owner[k]
  BY DEF Taken
<1>3. lastAttempt \in Nat /\ owner[k] <= owner'[k]
  BY DEF Taken
<1> QED
  BY <1>1, <1>2, <1>3

LEMMA OrderedInit ==
  ASSUME StoreInit
  PROVE  Ordered
BY StoreAssumption DEF StoreAssumption, StoreInit, Ordered, Attempts

LEMMA OrderedStep ==
  ASSUME StoreTypeOK, Ordered, Step
  PROVE  Ordered' /\ \A k \in Keys : source'[k] >= source[k]
<1> DEFINE Goal == Ordered' /\ \A k \in Keys : source'[k] >= source[k]
<1>0. ASSUME NEW keys, NEW state \in {"running", "settled"}, Taken(keys, state),
             UNCHANGED <<answer, published>>, revokedAt' \in {revokedAt, lastAttempt + 1},
             \A k \in Keys : source'[k] = source[k] \/ source'[k] = owner'[k]
      PROVE  Goal
  <2>0. \A k \in Keys :
          /\ source[k] \in Nat /\ owner[k] \in Nat /\ source[k] <= owner[k]
          /\ owner'[k] \in Nat /\ owner[k] <= owner'[k]
    <3>1. \A k \in Keys : owner[k] \in Nat /\ owner'[k] \in Nat /\ owner[k] <= owner'[k]
      BY <1>0, OwnersGrow
    <3>2. \A k \in Keys : source[k] \in Nat
      BY DEF StoreTypeOK, Attempts
    <3>3. \A k \in Keys : source[k] <= owner[k]
      BY DEF Ordered
    <3> QED
      BY <3>1, <3>2, <3>3
  <2>1. \A k \in Keys : source'[k] <= owner'[k] /\ source'[k] >= source[k]
    BY <1>0, <2>0
  <2>2. revokedAt' <= lastAttempt'
    BY <1>0 DEF Taken, Ordered, StoreTypeOK, Attempts
  <2>3. \A a \in Attempts : ~Running(a)' => ~Running(a)
    BY <1>0 DEF Taken, Running
  <2> QED
    BY <1>0, <2>1, <2>2, <2>3 DEF Taken, Ordered
<1>1. CASE Commit
  <2>1. UNCHANGED <<outcome, lastAttempt, owner, source, revokedAt, published, answer>>
    BY <1>1 DEF Commit, shownVars, refreshVars, settledVars
  <2> QED
    BY <2>1 DEF Ordered, Running, StoreTypeOK, Attempts
<1>2. ASSUME NEW keys \in SUBSET Keys, Invalidate(keys)
      PROVE  Goal
  <2>1. Taken(keys, "settled")
    BY <1>2, TakeOverOrdered DEF Invalidate
  <2> QED
    BY <1>0, <1>2, <2>1 DEF Invalidate, refreshVars, settledVars
<1>3. CASE Revoke
  <2>1. Taken(Keys, "settled")
    BY <1>3, TakeOverOrdered DEF Revoke
  <2> QED
    BY <1>0, <1>3, <2>1 DEF Revoke, refreshVars, settledVars
<1>4. ASSUME NEW keys \in SUBSET Keys, StartRefresh(keys)
      PROVE  Goal
  <2>1. Taken(keys, "running")
    BY <1>4, TakeOverOrdered DEF StartRefresh
  <2> QED
    BY <1>0, <1>4, <2>1 DEF StartRefresh
<1>5. ASSUME NEW a \in Attempts, NEW k \in Keys, AnswerStep(a, k)
      PROVE  Goal
  <2>1. Running(a) /\ \A b \in Attempts : b # a => answer'[b] = answer[b]
    BY <1>5 DEF AnswerStep, AnswerValue, AnswerFailure, SetAnswer, StoreTypeOK
  <2>2. UNCHANGED <<outcome, lastAttempt, owner, source, revokedAt, published>>
    BY <1>5 DEF AnswerStep, AnswerValue, AnswerFailure, shownVars
  <2>3. \A b \in Attempts : ~Running(b)' =>
          ~published'[b] /\ \A j \in Keys : answer'[b][j] = "pending"
    BY <2>1, <2>2 DEF Ordered, Running
  <2>4. \A j \in Keys : source'[j] >= source[j]
    BY <2>2 DEF StoreTypeOK, Attempts
  <2> QED
    BY <2>2, <2>3, <2>4 DEF Ordered
<1>6. ASSUME NEW a \in Attempts, NEW state \in {"ok", "failed"}, Running(a), Settle(a, state),
             UNCHANGED <<lastAttempt, owner, source, revokedAt>>
      PROVE  Goal
  <2>1. /\ \A b \in Attempts : b # a => outcome'[b] = outcome[b]
        /\ outcome'[a] = state /\ outcome[a] = "running"
    BY <1>6 DEF Settle, StoreTypeOK, Running
  <2>2. \A b \in Attempts :
          IF b = a THEN published'[b] = FALSE /\ answer'[b] = [k \in Keys |-> "pending"]
                   ELSE published'[b] = published[b] /\ answer'[b] = answer[b]
    BY <1>6 DEF Settle, StoreTypeOK
  <2>3. \A b \in Attempts : ~Running(b)' =>
          ~published'[b] /\ \A k \in Keys : answer'[b][k] = "pending"
    BY <2>1, <2>2 DEF Ordered, Running
  <2>4. \A k \in Keys : source'[k] >= source[k]
    BY <1>6 DEF StoreTypeOK, Attempts
  <2>5. \A b \in Attempts : outcome'[b] = "unused" <=> b > lastAttempt
    BY <1>6, <2>1 DEF Ordered
  <2> QED
    BY <1>6, <2>3, <2>4, <2>5 DEF Ordered
<1>7. ASSUME NEW a \in Attempts, FailStep(a)
      PROVE  Goal
  BY <1>6, <1>7 DEF FailStep, Fail
<1>8. ASSUME NEW a \in Attempts, Publish(a)
      PROVE  Goal
  <2>1. \A k \in Keys : source'[k] <= owner[k] /\ source'[k] >= source[k]
    BY <1>8 DEF Publish, Own, Ordered, StoreTypeOK, Attempts
  <2>2. Running(a) /\ \A b \in Attempts : b # a => published'[b] = published[b]
    BY <1>8 DEF Publish, MayComplete, StoreTypeOK
  <2>3. UNCHANGED <<outcome, lastAttempt, owner, revokedAt, answer>>
    BY <1>8 DEF Publish
  <2> QED
    BY <2>1, <2>2, <2>3 DEF Ordered, Running
<1>9. ASSUME NEW a \in Attempts, Return(a)
      PROVE  Goal
  BY <1>6, <1>9 DEF Return, MayComplete, shownVars
<1>10. ASSUME NEW k \in Keys, NEW value \in Contents, ApplyStep(k, value)
       PROVE  Goal
  <2>1. Taken({k}, "settled")
    BY <1>10, TakeOverOrdered DEF ApplyStep, Apply
  <2>2. \A j \in Keys : source'[j] = source[j] \/ source'[j] = owner'[j]
    BY <1>10, <2>1 DEF ApplyStep, Apply, Taken, StoreTypeOK
  <2> QED
    BY <1>0, <1>10, <2>1, <2>2 DEF ApplyStep, Apply, refreshVars, settledVars
<1> QED
  BY <1>1, <1>2, <1>3, <1>4, <1>5, <1>7, <1>8, <1>9, <1>10 DEF Step

TypedAndOrdered == StoreTypeOK /\ Ordered

LEMMA OrderedNext ==
  ASSUME TypedAndOrdered, [StoreNext]_storeVars
  PROVE  TypedAndOrdered' /\ \A k \in Keys : source'[k] >= source[k]
<1>1. CASE StoreNext
  BY <1>1, StepKinds, TypeStep, OrderedStep DEF TypedAndOrdered
<1>2. CASE UNCHANGED storeVars
  <2>1. \A k \in Keys : source[k] >= source[k]
    BY DEF TypedAndOrdered, StoreTypeOK, Attempts
  <2> QED
    BY <1>2, <2>1
    DEF TypedAndOrdered, StoreTypeOK, Ordered, Running, storeVars, shownVars, refreshVars, settledVars
<1> QED
  BY <1>1, <1>2

LEMMA AlwaysOrdered == StoreSpec => []TypedAndOrdered
<1>1. StoreInit => TypedAndOrdered
  BY TypeInit, OrderedInit DEF TypedAndOrdered
<1>2. TypedAndOrdered /\ [StoreNext]_storeVars => TypedAndOrdered'
  BY OrderedNext
<1> QED
  BY <1>1, <1>2, PTL DEF StoreSpec

\* The attempt whose content a key shows never goes back: an answer that was
\* overtaken is not published after the one that overtook it.
THEOREM OldAnswersStayOut == StoreSpec => NeverOlder
<1>1. TypedAndOrdered /\ [StoreNext]_storeVars
        => [\A k \in Keys : source'[k] >= source[k]]_storeVars
  BY OrderedNext
<1> QED
  BY <1>1, AlwaysOrdered, PTL DEF StoreSpec, NeverOlder

-----------------------------------------------------------------------------
(* Revocations.                                                            *)

\* A refresh of the current epoch is newer than the last revocation.
NewerThanRevocation ==
  /\ \A a \in Attempts : captured[a] <= epoch
  /\ \A a \in Attempts : Running(a) /\ Current(a) => a >= revokedAt

Revoked == NewerThanRevocation /\ RevokedStaysPurged

LEMMA RevokedInit ==
  ASSUME StoreInit
  PROVE  Revoked
BY StoreAssumption
DEF StoreAssumption, StoreInit, Revoked, NewerThanRevocation, RevokedStaysPurged,
    Running, Attempts

\* A new epoch, in which no refresh is current yet.
LEMMA NewEpoch ==
  ASSUME StoreTypeOK, Revoked, AdvanceEpoch, UNCHANGED captured
  PROVE  NewerThanRevocation'
BY DEF StoreTypeOK, Revoked, NewerThanRevocation, AdvanceEpoch, Current

LEMMA RevokedStep ==
  ASSUME TypedAndOrdered, Revoked, Step
  PROVE  Revoked'
<1> USE DEF TypedAndOrdered
<1>0. ASSUME UNCHANGED <<captured, epoch, revokedAt>>,
             \A a \in Attempts : Running(a)' => Running(a)
      PROVE  NewerThanRevocation'
  BY <1>0 DEF Revoked, NewerThanRevocation, Current
<1>1. ASSUME UNCHANGED <<captured, epoch, revokedAt, snapshot, source>>,
             \A a \in Attempts : Running(a)' => Running(a)
      PROVE  Revoked'
  BY <1>0, <1>1 DEF Revoked, RevokedStaysPurged
<1>2. CASE Commit
  BY <1>1, <1>2 DEF Commit, shownVars, refreshVars, settledVars, Running
<1>3. ASSUME NEW keys \in SUBSET Keys, Invalidate(keys)
      PROVE  Revoked'
  <2>1. NewerThanRevocation'
    BY <1>3, NewEpoch DEF Invalidate, refreshVars
  <2> QED
    BY <1>3, <2>1 DEF Invalidate, Revoked, RevokedStaysPurged
<1>4. CASE Revoke
  <2>1. NewerThanRevocation'
    BY <1>4, NewEpoch DEF Revoke, refreshVars
  <2>2. \A k \in Revocable : snapshot'[k] = {}
    BY <1>4, StoreAssumption DEF StoreAssumption, Revoke, Purge, Purged
  <2> QED
    BY <2>1, <2>2 DEF Revoked, RevokedStaysPurged
<1>5. ASSUME NEW keys \in SUBSET Keys, StartRefresh(keys)
      PROVE  Revoked'
  <2>1. Taken(keys, "running")
    BY <1>5, TakeOverOrdered DEF StartRefresh
  <2>2. lastAttempt + 1 >= revokedAt
    BY <2>1 DEF Ordered, StoreTypeOK, Attempts, Taken
  <2>3. \A a \in Attempts :
          IF a = lastAttempt + 1 THEN captured'[a] = epoch
          ELSE captured'[a] = captured[a] /\ (Running(a)' <=> Running(a))
    BY <1>5, <2>1 DEF StartRefresh, Taken, StoreTypeOK, Running
  <2>4. epoch <= epoch
    BY DEF StoreTypeOK
  <2>5. UNCHANGED <<epoch, revokedAt, snapshot, source>>
    BY <1>5 DEF StartRefresh
  <2>6. NewerThanRevocation'
    BY <2>2, <2>3, <2>4, <2>5 DEF Revoked, NewerThanRevocation, Current
  <2> QED
    BY <2>5, <2>6 DEF Revoked, RevokedStaysPurged
<1>6. ASSUME NEW a \in Attempts, NEW k \in Keys, AnswerStep(a, k)
      PROVE  Revoked'
  BY <1>1, <1>6 DEF AnswerStep, AnswerValue, AnswerFailure, shownVars, Running
<1>7. ASSUME NEW a \in Attempts, NEW state \in {"ok", "failed"}, Settle(a, state)
      PROVE  \A b \in Attempts : Running(b)' => Running(b)
  BY <1>7 DEF Settle, Running, StoreTypeOK
<1>8. ASSUME NEW a \in Attempts, FailStep(a)
      PROVE  Revoked'
  BY <1>1, <1>7, <1>8 DEF FailStep, Fail
<1>9. ASSUME NEW a \in Attempts, Publish(a)
      PROVE  Revoked'
  <2>1. NewerThanRevocation'
    BY <1>0, <1>9 DEF Publish, Running
  <2>2. a >= revokedAt
    BY <1>9 DEF Publish, MayComplete, Revoked, NewerThanRevocation
  <2>3. \A k \in Keys : source'[k] = a \/ (source'[k] = source[k] /\ snapshot'[k] = snapshot[k])
    BY <1>9 DEF Publish
  <2>4. Revocable \subseteq Keys /\ revokedAt' = revokedAt
    BY <1>9, StoreAssumption DEF StoreAssumption, Publish
  <2> QED
    BY <2>1, <2>2, <2>3, <2>4 DEF Revoked, RevokedStaysPurged
<1>10. ASSUME NEW a \in Attempts, Return(a)
       PROVE  Revoked'
  BY <1>1, <1>7, <1>10 DEF Return, shownVars
<1>11. ASSUME NEW k \in Keys, NEW value \in Contents, ApplyStep(k, value)
       PROVE  Revoked'
  <2>1. Taken({k}, "settled")
    BY <1>11, TakeOverOrdered DEF ApplyStep, Apply
  <2>2. \A a \in Attempts : Running(a)' => Running(a)
    BY <2>1 DEF Taken, Running
  <2>3. NewerThanRevocation'
    BY <1>0, <1>11, <2>2 DEF ApplyStep, Apply, refreshVars
  <2>4. lastAttempt + 1 >= revokedAt
    BY <2>1 DEF Ordered, StoreTypeOK, Attempts, Taken
  <2>5. \A j \in Keys : source'[j] = lastAttempt + 1
          \/ (source'[j] = source[j] /\ snapshot'[j] = snapshot[j])
    BY <1>11 DEF ApplyStep, Apply, StoreTypeOK
  <2>6. Revocable \subseteq Keys /\ revokedAt' = revokedAt
    BY <1>11, StoreAssumption DEF StoreAssumption, ApplyStep, Apply
  <2> QED
    BY <2>3, <2>4, <2>5, <2>6 DEF Revoked, RevokedStaysPurged
<1> QED
  BY <1>2, <1>3, <1>4, <1>5, <1>6, <1>8, <1>9, <1>10, <1>11 DEF Step

LEMMA AlwaysRevoked == StoreSpec => []Revoked
<1>1. StoreInit => Revoked
  BY RevokedInit
<1>2. TypedAndOrdered /\ Revoked /\ [StoreNext]_storeVars => Revoked'
  <2>1. ASSUME TypedAndOrdered, Revoked, StoreNext
        PROVE  Revoked'
    BY <2>1, StepKinds, RevokedStep DEF TypedAndOrdered
  <2>2. ASSUME Revoked, UNCHANGED storeVars
        PROVE  Revoked'
    BY <2>2 DEF Revoked, NewerThanRevocation, RevokedStaysPurged, Running, Current,
                storeVars, shownVars, refreshVars, settledVars
  <2> QED
    BY <2>1, <2>2
<1> QED
  BY <1>1, <1>2, AlwaysOrdered, PTL DEF StoreSpec

\* Nothing a private key shows was requested or received before the last
\* revocation, however many reads were in flight.
THEOREM RevocationHolds == StoreSpec => []RevokedStaysPurged
<1>1. Revoked => RevokedStaysPurged
  BY DEF Revoked
<1> QED
  BY <1>1, AlwaysRevoked, PTL

-----------------------------------------------------------------------------
(* What keys show.                                                         *)
(*                                                                         *)
(* ReadyIsFresh is inductive only together with the reasons for it: the    *)
(* running owner of a key is the last refresh asked for it, its answers    *)
(* are no older than its request, and whoever overtook a running refresh   *)
(* is newer than it and has published what it was asked for.               *)

\* The owner of a key that is a running refresh is the last that asked for it.
OwnersAsked ==
  \A a \in Attempts, k \in Keys : Running(a) /\ owner[k] = a =>
    k \in wanted[a] /\ floor[a] = asked[k]

\* A running refresh was only overtaken by newer attempts.
OvertakenByNewer ==
  \A a \in Attempts : Running(a) => \A k \in wanted[a] : owner[k] >= a

\* Newer refreshes were asked for after more commits.
FloorsGrow ==
  \A a \in Attempts : Running(a) =>
    /\ floor[a] <= committed
    /\ \A b \in Attempts : Running(b) /\ a <= b => floor[a] <= floor[b]

\* An answer reflects a state of the server since the refresh was asked for.
AnswersFresh ==
  \A a \in Attempts, k \in Keys : Running(a) /\ answer[a][k] = "value" =>
    content[a][k] = Purged \/ \E n \in 0..committed : n >= floor[a] /\ content[a][k] = 0..n

\* What a running refresh has published stays while it owns the key.
PublishedShown ==
  \A a \in Attempts, k \in Keys \ Live :
    Running(a) /\ published[a] /\ owner[k] = a => ShowsUpTo(k, floor[a])

\* A key that was taken over by a refresh that has returned shows what any older
\* refresh that is still running wants of it.
OvertakenShown ==
  \A a, b \in Attempts, k \in Keys \ Live :
    /\ Running(a) /\ Current(a) /\ k \in wanted[a]
    /\ owner[k] = b /\ outcome[b] \in {"ok", "settled"}
    => ShowsUpTo(k, floor[a])

Requested == OwnersAsked /\ OvertakenByNewer /\ FloorsGrow /\ AnswersFresh

Shown == PublishedShown /\ OvertakenShown /\ ReadyIsFresh

LEMMA ShowsLess ==
  ASSUME NEW k \in Keys, NEW m \in Nat, NEW n \in Nat, n <= m, ShowsUpTo(k, m)
  PROVE  ShowsUpTo(k, n)
BY DEF ShowsUpTo

LEMMA RequestedInit ==
  ASSUME StoreInit
  PROVE  Requested
BY StoreAssumption
DEF StoreAssumption, StoreInit, Requested, OwnersAsked, OvertakenByNewer, FloorsGrow,
    AnswersFresh, Running, Attempts

LEMMA RequestedStep ==
  ASSUME TypedAndOrdered, Requested, Step
  PROVE  Requested'
<1> USE DEF TypedAndOrdered
<1>1. CASE Commit
  <2>1. UNCHANGED <<outcome, owner, wanted, floor, asked, answer, content>>
    BY <1>1 DEF Commit, refreshVars, settledVars
  <2>2. committed \in Nat /\ committed' = committed + 1
    BY <1>1 DEF Commit, StoreTypeOK
  <2>3. OwnersAsked' /\ OvertakenByNewer'
    BY <2>1 DEF Requested, OwnersAsked, OvertakenByNewer, Running
  <2>4. FloorsGrow'
    BY <2>1, <2>2 DEF Requested, FloorsGrow, Running, StoreTypeOK
  <2>5. AnswersFresh'
    BY <2>1, <2>2 DEF Requested, AnswersFresh, Running
  <2> QED
    BY <2>3, <2>4, <2>5 DEF Requested
<1>2. ASSUME NEW keys \in SUBSET Keys, Taken(keys, "settled"),
             UNCHANGED <<committed, wanted, floor, asked, answer, content>>
      PROVE  Requested'
  <2>1. \A a \in Attempts : Running(a)' =>
          Running(a) /\ \A k \in Keys : owner'[k] = a => owner[k] = a
    BY <1>2 DEF Taken, Running
  <2>2. \A k \in Keys : owner[k] \in Nat /\ owner'[k] \in Nat /\ owner[k] <= owner'[k]
    BY <1>2, OwnersGrow
  <2>3. OwnersAsked'
    BY <1>2, <2>1 DEF Requested, OwnersAsked
  <2>4. OvertakenByNewer'
    <3> SUFFICES ASSUME NEW a \in Attempts, Running(a)', NEW k \in wanted[a]
                 PROVE  owner'[k] >= a
      BY <1>2 DEF OvertakenByNewer
    <3>1. a \in Nat
      BY DEF Attempts
    <3>2. k \in Keys /\ owner[k] >= a
      BY <2>1 DEF Requested, OvertakenByNewer, StoreTypeOK
    <3> QED
      BY <2>2, <3>1, <3>2
  <2>5. FloorsGrow'
    BY <1>2, <2>1 DEF Requested, FloorsGrow
  <2>6. AnswersFresh'
    BY <1>2, <2>1 DEF Requested, AnswersFresh
  <2> QED
    BY <2>3, <2>4, <2>5, <2>6 DEF Requested
<1>3. ASSUME NEW keys \in SUBSET Keys, Invalidate(keys)
      PROVE  Requested'
  BY <1>2, <1>3, TakeOverOrdered DEF Invalidate, refreshVars, settledVars
<1>4. CASE Revoke
  BY <1>2, <1>4, TakeOverOrdered DEF Revoke, refreshVars, settledVars
<1>5. ASSUME NEW keys \in SUBSET Keys, StartRefresh(keys)
      PROVE  Requested'
  <2> DEFINE next == lastAttempt + 1
  <2>1. Taken(keys, "running")
    BY <1>5, TakeOverOrdered DEF StartRefresh
  <2>2. next \in Attempts /\ next \in Nat /\ ~Running(next)
    BY <2>1 DEF Taken, Running
  <2>3. UNCHANGED <<committed, answer, content>>
    BY <1>5 DEF StartRefresh
  <2>4. /\ wanted'[next] = keys /\ floor'[next] = committed
        /\ \A a \in Attempts : a # next => wanted'[a] = wanted[a] /\ floor'[a] = floor[a]
    BY <1>5, <2>2 DEF StartRefresh, StoreTypeOK
  <2>5. \A a \in Attempts : a # next => (Running(a)' <=> Running(a))
    BY <2>1 DEF Taken, Running
  <2>6. \A k \in Keys : owner[k] # next
    BY <2>1 DEF Taken, Ordered, StoreTypeOK, Attempts
  <2>7. \A k \in Keys : asked'[k] = IF k \in keys THEN committed ELSE asked[k]
    BY <1>5 DEF StartRefresh
  <2>8. \A k \in Keys : owner'[k] = IF k \in keys THEN next ELSE owner[k]
    BY <2>1 DEF Taken
  <2>9. OwnersAsked'
    <3> SUFFICES ASSUME NEW a \in Attempts, NEW k \in Keys, Running(a)', owner'[k] = a
                 PROVE  k \in wanted'[a] /\ floor'[a] = asked'[k]
      BY DEF OwnersAsked
    <3>1. CASE k \in keys
      BY <2>4, <2>7, <2>8, <3>1
    <3>2. CASE k \notin keys
      <4>1. owner[k] = a /\ a # next
        BY <2>6, <2>8, <3>2
      <4>2. Running(a)
        BY <2>5, <4>1
      <4> QED
        BY <2>4, <2>7, <3>2, <4>1, <4>2 DEF Requested, OwnersAsked
    <3> QED
      BY <3>1, <3>2
  <2>10. OvertakenByNewer'
    <3> SUFFICES ASSUME NEW a \in Attempts, Running(a)', NEW k \in wanted'[a]
                 PROVE  owner'[k] >= a
      BY DEF OvertakenByNewer
    <3>1. CASE a = next
      <4>1. k \in Keys /\ owner'[k] = next
        BY <2>4, <2>8, <3>1
      <4> QED
        BY <2>2, <3>1, <4>1
    <3>2. CASE a # next
      <4>1. k \in Keys /\ owner[k] >= a
        BY <2>4, <2>5, <3>2 DEF Requested, OvertakenByNewer, StoreTypeOK
      <4>2. owner[k] \in Nat /\ owner'[k] \in Nat /\ owner[k] <= owner'[k]
        BY <2>1, <4>1, OwnersGrow
      <4>3. a \in Nat
        BY DEF Attempts
      <4> QED
        BY <4>1, <4>2, <4>3
    <3> QED
      BY <3>1, <3>2
  <2>11. FloorsGrow'
    <3>0. committed \in Nat /\ \A a \in Attempts : floor[a] \in Nat
      BY DEF StoreTypeOK
    <3>1. \A a \in Attempts : Running(a)' => floor'[a] <= committed
      <4> SUFFICES ASSUME NEW a \in Attempts, Running(a)'
                   PROVE  floor'[a] <= committed
        OBVIOUS
      <4>1. CASE a = next
        BY <2>4, <3>0, <4>1
      <4>2. CASE a # next
        BY <2>4, <2>5, <4>2 DEF Requested, FloorsGrow
      <4> QED
        BY <4>1, <4>2
    <3> SUFFICES ASSUME NEW a \in Attempts, NEW b \in Attempts, Running(a)', Running(b)', a <= b
                 PROVE  floor'[a] <= floor'[b]
      BY <2>3, <3>1 DEF FloorsGrow
    <3>2. b <= next
      BY <2>1 DEF Taken, Running, Attempts
    <3>3. CASE b = next
      BY <2>4, <3>1, <3>3
    <3>4. CASE b # next
      <4>1. a # next
        BY <2>2, <3>2, <3>4 DEF Attempts
      <4> QED
        BY <2>4, <2>5, <3>4, <4>1 DEF Requested, FloorsGrow
    <3> QED
      BY <3>3, <3>4
  <2>12. AnswersFresh'
    <3>1. \A k \in Keys : answer[next][k] = "pending"
      BY <2>2 DEF Ordered
    <3> QED
      BY <2>3, <2>4, <2>5, <3>1 DEF Requested, AnswersFresh
  <2> QED
    BY <2>9, <2>10, <2>11, <2>12 DEF Requested
<1>6. ASSUME NEW a \in Attempts, NEW k \in Keys, AnswerStep(a, k)
      PROVE  Requested'
  <2>1. UNCHANGED <<committed, outcome, owner, wanted, floor, asked>>
    BY <1>6 DEF AnswerStep, AnswerValue, AnswerFailure
  <2>2. OwnersAsked' /\ OvertakenByNewer' /\ FloorsGrow'
    BY <2>1 DEF Requested, OwnersAsked, OvertakenByNewer, FloorsGrow, Running
  <2>3. ASSUME NEW b \in Attempts, NEW j \in Keys, Running(b)', answer'[b][j] = "value"
        PROVE  content'[b][j] = Purged
                 \/ \E n \in 0..committed : n >= floor[b] /\ content'[b][j] = 0..n
    <3>1. CASE AnswerValue(a, k)
      <4>1. PICK value \in {0..committed} \cup (IF k \in Normalized THEN {Purged} ELSE {}) :
              content' = [content EXCEPT ![a] = [content[a] EXCEPT ![k] = value]]
        BY <3>1 DEF AnswerValue
      <4>2. value = 0..committed \/ value = Purged
        BY <4>1
      <4>3. CASE b = a /\ j = k
        <5>1. content'[b][j] = value
          BY <4>1, <4>3 DEF StoreTypeOK
        <5>2. Running(a) /\ floor[a] <= committed /\ committed \in 0..committed
          BY <3>1 DEF AnswerValue, Requested, FloorsGrow, StoreTypeOK
        <5>3. committed >= floor[b]
          BY <5>2, <4>3 DEF StoreTypeOK
        <5> QED
          BY <4>2, <5>1, <5>2, <5>3
      <4>4. CASE ~(b = a /\ j = k)
        <5>1. content'[b][j] = content[b][j]
          BY <4>1, <4>4 DEF StoreTypeOK
        <5>2. answer'[b][j] = answer[b][j]
          BY <3>1, <4>4 DEF AnswerValue, SetAnswer, StoreTypeOK
        <5> QED
          BY <2>1, <2>3, <5>1, <5>2 DEF Requested, AnswersFresh, Running
      <4> QED
        BY <4>3, <4>4
    <3>2. CASE AnswerFailure(a, k)
      <4>1. content' = content
        BY <3>2 DEF AnswerFailure
      <4>2. answer'[b][j] = answer[b][j]
        BY <2>3, <3>2 DEF AnswerFailure, SetAnswer, StoreTypeOK
      <4> QED
        BY <2>1, <2>3, <4>1, <4>2 DEF Requested, AnswersFresh, Running
    <3> QED
      BY <1>6, <3>1, <3>2 DEF AnswerStep
  <2> QED
    BY <2>1, <2>2, <2>3 DEF Requested, AnswersFresh
<1>7. ASSUME NEW a \in Attempts, NEW state \in {"ok", "failed"}, Settle(a, state),
             UNCHANGED <<committed, owner, asked>>
      PROVE  Requested'
  <2>1. \A b \in Attempts : Running(b)' => b # a /\ Running(b)
    BY <1>7 DEF Settle, Running, StoreTypeOK
  <2>2. \A b \in Attempts : b # a =>
          wanted'[b] = wanted[b] /\ floor'[b] = floor[b]
          /\ answer'[b] = answer[b] /\ content'[b] = content[b]
    BY <1>7 DEF Settle, StoreTypeOK
  <2>3. \A k \in Keys : owner[k] \in Attempts
    BY DEF StoreTypeOK
  <2> QED
    BY <1>7, <2>1, <2>2, <2>3
    DEF Requested, OwnersAsked, OvertakenByNewer, FloorsGrow, AnswersFresh
<1>8. ASSUME NEW a \in Attempts, FailStep(a)
      PROVE  Requested'
  BY <1>7, <1>8 DEF FailStep, Fail
<1>9. ASSUME NEW a \in Attempts, Publish(a)
      PROVE  Requested'
  BY <1>9 DEF Publish, Requested, OwnersAsked, OvertakenByNewer, FloorsGrow, AnswersFresh, Running
<1>10. ASSUME NEW a \in Attempts, Return(a)
       PROVE  Requested'
  BY <1>7, <1>10 DEF Return
<1>11. ASSUME NEW k \in Keys, NEW value \in Contents, ApplyStep(k, value)
       PROVE  Requested'
  BY <1>2, <1>11, TakeOverOrdered DEF ApplyStep, Apply, refreshVars, settledVars
<1> QED
  BY <1>1, <1>3, <1>4, <1>5, <1>6, <1>8, <1>9, <1>10, <1>11 DEF Step

LEMMA ShownInit ==
  ASSUME StoreInit
  PROVE  Shown
<1>1. \A k \in Keys : snapshot[k] = {0} /\ asked[k] = 0 /\ ShowsUpTo(k, 0)
  BY DEF StoreInit, ShowsUpTo
<1>2. \A a \in Attempts : ~Running(a)
  BY DEF StoreInit, Running
<1> QED
  BY <1>1, <1>2 DEF Shown, PublishedShown, OvertakenShown, ReadyIsFresh

\* What an attempt publishes of the keys only refreshes write shows all that
\* had been committed when it was asked for.
LEMMA PublishedIsFresh ==
  ASSUME TypedAndOrdered, Requested, NEW a \in Attempts, Publish(a),
         NEW k \in Own(a)
  PROVE  ShowsUpTo(k, floor[a])' /\ floor[a] = asked[k]
<1> USE DEF TypedAndOrdered
<1>1. k \in wanted[a] /\ owner[k] = a /\ k \in Keys
  BY DEF Own, StoreTypeOK
<1>2. Running(a) /\ answer[a][k] # "pending" /\ answer[a][k] # "failure"
  BY <1>1 DEF Publish, MayComplete, Answered, Failing
<1>3. answer[a][k] = "value"
  BY <1>1, <1>2 DEF StoreTypeOK
<1>4. content[a][k] = Purged \/ \E n \in 0..committed : n >= floor[a] /\ content[a][k] = 0..n
  BY <1>1, <1>2, <1>3 DEF Requested, AnswersFresh
<1>5. snapshot'[k] = content[a][k] /\ floor' = floor
  BY <1>1 DEF Publish
<1>6. floor[a] \in Nat /\ committed \in Nat
  BY DEF StoreTypeOK
<1>7. ShowsUpTo(k, floor[a])'
  <2>1. CASE content[a][k] = Purged
    BY <1>5, <2>1 DEF ShowsUpTo, Purged
  <2>2. ASSUME NEW n \in 0..committed, n >= floor[a], content[a][k] = 0..n
        PROVE  ShowsUpTo(k, floor[a])'
    <3>1. 0..floor[a] \subseteq 0..n
      BY <1>6, <2>2
    <3> QED
      BY <1>5, <2>2, <3>1 DEF ShowsUpTo
  <2> QED
    BY <1>4, <2>1, <2>2
<1> QED
  BY <1>1, <1>2, <1>7 DEF Requested, OwnersAsked

LEMMA ShownStep ==
  ASSUME TypedAndOrdered, Requested, Revoked, Shown, Step
  PROVE  Shown'
<1> USE DEF TypedAndOrdered
\* A step that takes no key over and publishes nothing.
<1>1. ASSUME UNCHANGED <<snapshot, owner, asked, epoch, captured>>,
             \A k \in Keys : health'[k] = "ready" => health[k] = "ready",
             \A a \in Attempts : Running(a)' =>
               /\ Running(a) /\ wanted'[a] = wanted[a] /\ floor'[a] = floor[a]
               /\ published'[a] = published[a],
             \A b \in Attempts : outcome'[b] \in {"ok", "settled"} =>
               outcome[b] \in {"ok", "settled"}
      PROVE  Shown'
  <2>1. \A k \in Keys, n \in 0..MaxCommits : ShowsUpTo(k, n)' <=> ShowsUpTo(k, n)
    BY <1>1 DEF ShowsUpTo
  <2>2. PublishedShown'
    BY <1>1, <2>1 DEF Shown, PublishedShown, StoreTypeOK, ShowsUpTo
  <2>3. OvertakenShown'
    BY <1>1, <2>1 DEF Shown, OvertakenShown, StoreTypeOK, ShowsUpTo, Current
  <2>4. ReadyIsFresh'
    BY <1>1, <2>1 DEF Shown, ReadyIsFresh, StoreTypeOK, ShowsUpTo
  <2> QED
    BY <2>2, <2>3, <2>4 DEF Shown
\* A step that takes keys over and does not start a refresh.
<1>2. ASSUME NEW keys, Taken(keys, "settled"), UNCHANGED <<wanted, floor, published, asked, captured>>,
             \A k \in Keys \ Live : snapshot'[k] \in {snapshot[k], {}}
      PROVE  PublishedShown'
  <2>1. \A a \in Attempts : Running(a)' =>
          Running(a) /\ \A k \in Keys : owner'[k] = a => owner[k] = a
    BY <1>2 DEF Taken, Running
  <2>2. \A k \in Keys \ Live, n \in 0..MaxCommits : ShowsUpTo(k, n) => ShowsUpTo(k, n)'
    BY <1>2 DEF ShowsUpTo
  <2>3. \A a \in Attempts : floor[a] \in 0..MaxCommits /\ floor'[a] = floor[a]
    BY <1>2 DEF StoreTypeOK
  <2> SUFFICES ASSUME NEW a \in Attempts, NEW k \in Keys \ Live,
                      Running(a)', published'[a], owner'[k] = a
               PROVE  ShowsUpTo(k, floor[a])'
    BY DEF PublishedShown
  <2>4. ShowsUpTo(k, floor[a])
    BY <1>2, <2>1 DEF Shown, PublishedShown
  <2> QED
    BY <2>2, <2>3, <2>4 DEF ShowsUpTo
\* A step that begins a new epoch.
<1>3. ASSUME NEW keys, Taken(keys, "settled"), UNCHANGED <<wanted, floor, published, asked, captured>>,
             AdvanceEpoch, SetHealth(keys, "unavailable"),
             \A k \in Keys \ Live : snapshot'[k] \in {snapshot[k], {}}
      PROVE  Shown'
  <2>1. PublishedShown'
    BY <1>2, <1>3
  <2>2. \A a \in Attempts : ~Current(a)'
    BY <1>3 DEF Revoked, NewerThanRevocation, AdvanceEpoch, Current, StoreTypeOK
  <2>3. OvertakenShown'
    BY <2>2 DEF OvertakenShown
  <2>4. ReadyIsFresh'
    BY <1>3 DEF Shown, ReadyIsFresh, SetHealth, ShowsUpTo
  <2> QED
    BY <2>1, <2>3, <2>4 DEF Shown
<1>4. CASE Commit
  BY <1>1, <1>4 DEF Commit, shownVars, refreshVars, settledVars, Running
<1>5. ASSUME NEW keys \in SUBSET Keys, Invalidate(keys)
      PROVE  Shown'
  <2>1. Taken(keys, "settled")
    BY <1>5, TakeOverOrdered DEF Invalidate
  <2> QED
    BY <1>3, <1>5, <2>1 DEF Invalidate, refreshVars, settledVars
<1>6. CASE Revoke
  <2>1. Taken(Keys, "settled")
    BY <1>6, TakeOverOrdered DEF Revoke
  <2>2. \A k \in Keys : snapshot'[k] \in {snapshot[k], {}}
    BY <1>6 DEF Revoke, Purge, Purged
  <2> QED
    BY <1>3, <1>6, <2>1, <2>2 DEF Revoke, refreshVars, settledVars
<1>7. ASSUME NEW keys \in SUBSET Keys, StartRefresh(keys)
      PROVE  Shown'
  <2> DEFINE next == lastAttempt + 1
  <2>1. Taken(keys, "running")
    BY <1>7, TakeOverOrdered DEF StartRefresh
  <2>2. next \in Attempts /\ ~Running(next) /\ outcome'[next] = "running"
    BY <2>1 DEF Taken, Running
  <2>3. ~published[next] /\ \A k \in Keys : owner[k] # next
    BY <2>1, <2>2 DEF Taken, Ordered, StoreTypeOK, Attempts
  <2>4. UNCHANGED <<snapshot, epoch, published>>
    BY <1>7 DEF StartRefresh
  <2>5. \A a \in Attempts : a # next =>
          /\ wanted'[a] = wanted[a] /\ floor'[a] = floor[a] /\ captured'[a] = captured[a]
          /\ outcome'[a] = outcome[a] /\ \A k \in Keys : owner'[k] = a => owner[k] = a
    BY <1>7, <2>1 DEF StartRefresh, Taken, StoreTypeOK
  <2>6. wanted'[next] = keys /\ \A k \in keys : owner'[k] = next
    BY <1>7, <2>1, <2>2 DEF StartRefresh, Taken, StoreTypeOK
  <2>7. PublishedShown'
    <3> SUFFICES ASSUME NEW a \in Attempts, NEW k \in Keys \ Live,
                        Running(a)', published'[a], owner'[k] = a
                 PROVE  ShowsUpTo(k, floor[a])'
      BY DEF PublishedShown
    <3>1. a # next
      BY <2>3, <2>4
    <3> QED
      BY <2>4, <2>5, <3>1 DEF Shown, PublishedShown, ShowsUpTo, Running
  <2>8. OvertakenShown'
    <3> SUFFICES ASSUME NEW a \in Attempts, NEW b \in Attempts, NEW k \in Keys \ Live,
                        Running(a)', Current(a)', k \in wanted'[a],
                        owner'[k] = b, outcome'[b] \in {"ok", "settled"}
                 PROVE  ShowsUpTo(k, floor[a])'
      BY DEF OvertakenShown
    <3>1. b # next
      BY <2>2
    <3>2. a # next
      BY <2>6, <3>1
    <3> QED
      BY <2>4, <2>5, <3>1, <3>2 DEF Shown, OvertakenShown, ShowsUpTo, Running, Current
  <2>9. ReadyIsFresh'
    BY <1>7, <2>4 DEF StartRefresh, SetHealth, Shown, ReadyIsFresh, ShowsUpTo
  <2> QED
    BY <2>7, <2>8, <2>9 DEF Shown
<1>8. ASSUME NEW a \in Attempts, NEW k \in Keys, AnswerStep(a, k)
      PROVE  Shown'
  BY <1>1, <1>8 DEF AnswerStep, AnswerValue, AnswerFailure, shownVars, Running
<1>9. ASSUME NEW a \in Attempts, NEW state \in {"ok", "failed"}, Settle(a, state)
      PROVE  \A b \in Attempts :
               /\ outcome'[b] = IF b = a THEN state ELSE outcome[b]
               /\ Running(b)' => /\ b # a /\ Running(b) /\ wanted'[b] = wanted[b]
                                 /\ floor'[b] = floor[b] /\ published'[b] = published[b]
  BY <1>9 DEF Settle, Running, StoreTypeOK
<1>10. ASSUME NEW a \in Attempts, FailStep(a)
       PROVE  Shown'
  BY <1>1, <1>9, <1>10 DEF FailStep, Fail, SetHealth
<1>11. ASSUME NEW a \in Attempts, Publish(a)
       PROVE  Shown'
  <2>1. \A k \in Own(a) : ShowsUpTo(k, floor[a])' /\ floor[a] = asked[k]
    BY <1>11, PublishedIsFresh
  <2>2. \A k \in Keys : k \notin Own(a) => snapshot'[k] = snapshot[k] /\ health'[k] = health[k]
    BY <1>11 DEF Publish, SetHealth
  <2>3. UNCHANGED <<owner, outcome, wanted, floor, asked, epoch, captured>>
    BY <1>11 DEF Publish
  <2>4. \A b \in Attempts : b # a => published'[b] = published[b]
    BY <1>11 DEF Publish, StoreTypeOK
  <2>5. Running(a) /\ \A k \in Own(a) : owner[k] = a
    BY <1>11 DEF Publish, MayComplete, Own
  <2>6. PublishedShown'
    <3> SUFFICES ASSUME NEW b \in Attempts, NEW k \in Keys \ Live,
                        Running(b)', published'[b], owner'[k] = b
                 PROVE  ShowsUpTo(k, floor[b])'
      BY DEF PublishedShown
    <3>1. CASE b = a
      <4>1. k \in Own(a)
        BY <2>3, <2>5, <3>1 DEF Requested, OwnersAsked, Own
      <4> QED
        BY <2>1, <3>1, <4>1
    <3>2. CASE b # a
      <4>1. k \notin Own(a)
        BY <2>3, <2>5, <3>2
      <4> QED
        BY <2>2, <2>3, <2>4, <3>2, <4>1 DEF Shown, PublishedShown, ShowsUpTo, Running
    <3> QED
      BY <3>1, <3>2
  <2>7. OvertakenShown'
    <3> SUFFICES ASSUME NEW c \in Attempts, NEW b \in Attempts, NEW k \in Keys \ Live,
                        Running(c)', Current(c)', k \in wanted'[c],
                        owner'[k] = b, outcome'[b] \in {"ok", "settled"}
                 PROVE  ShowsUpTo(k, floor[c])'
      BY DEF OvertakenShown
    <3>1. k \notin Own(a)
      BY <2>3, <2>5 DEF Running
    <3> QED
      BY <2>2, <2>3, <3>1 DEF Shown, OvertakenShown, ShowsUpTo, Running, Current
  <2>8. ReadyIsFresh'
    BY <2>1, <2>2, <2>3 DEF Shown, ReadyIsFresh, ShowsUpTo
  <2> QED
    BY <2>6, <2>7, <2>8 DEF Shown
<1>12. ASSUME NEW a \in Attempts, Return(a)
       PROVE  Shown'
  <2>1. UNCHANGED <<snapshot, health, owner, asked, epoch, captured>>
    BY <1>12 DEF Return, shownVars
  <2>2. \A b \in Attempts :
          /\ outcome'[b] = IF b = a THEN "ok" ELSE outcome[b]
          /\ Running(b)' => /\ b # a /\ Running(b) /\ wanted'[b] = wanted[b]
                            /\ floor'[b] = floor[b] /\ published'[b] = published[b]
    BY <1>9, <1>12 DEF Return
  <2>3. Running(a)
    BY <1>12 DEF Return, MayComplete
  <2>4. PublishedShown' /\ ReadyIsFresh'
    BY <2>1, <2>2 DEF Shown, PublishedShown, ReadyIsFresh, ShowsUpTo
  <2>5. OvertakenShown'
    <3> SUFFICES ASSUME NEW c \in Attempts, NEW b \in Attempts, NEW k \in Keys \ Live,
                        Running(c)', Current(c)', k \in wanted'[c],
                        owner'[k] = b, outcome'[b] \in {"ok", "settled"}
                 PROVE  ShowsUpTo(k, floor[c])'
      BY DEF OvertakenShown
    <3>1. Running(c) /\ Current(c) /\ k \in wanted[c] /\ owner[k] = b /\ floor'[c] = floor[c]
      BY <2>1, <2>2 DEF Current
    <3>2. CASE b = a
      <4>1. k \in Own(a)
        BY <2>3, <3>1, <3>2 DEF Requested, OwnersAsked, Own
      <4>2. ShowsUpTo(k, floor[a])
        BY <1>12, <2>3, <3>1, <3>2, <4>1 DEF Return, Shown, PublishedShown
      <4>3. c <= a
        BY <3>1, <3>2 DEF Requested, OvertakenByNewer, Attempts
      <4>4. floor[c] <= floor[a] /\ floor[c] \in Nat /\ floor[a] \in Nat
        BY <2>3, <3>1, <4>3 DEF Requested, FloorsGrow, StoreTypeOK
      <4>5. ShowsUpTo(k, floor[c])
        BY <4>2, <4>4, ShowsLess
      <4> QED
        BY <2>1, <3>1, <4>5 DEF ShowsUpTo
    <3>3. CASE b # a
      BY <2>1, <2>2, <3>1, <3>3 DEF Shown, OvertakenShown, ShowsUpTo
    <3> QED
      BY <3>2, <3>3
  <2> QED
    BY <2>4, <2>5 DEF Shown
<1>13. ASSUME NEW k \in Keys, NEW value \in Contents, ApplyStep(k, value)
       PROVE  Shown'
  <2>1. Taken({k}, "settled")
    BY <1>13, TakeOverOrdered DEF ApplyStep, Apply
  <2>2. UNCHANGED <<wanted, floor, published, asked, captured, epoch>>
    BY <1>13 DEF ApplyStep, Apply, refreshVars, settledVars
  <2>3. \A j \in Keys \ Live :
          IF j = k THEN snapshot'[j] = {}
          ELSE snapshot'[j] = snapshot[j] /\ health'[j] = health[j]
    BY <1>13 DEF ApplyStep, Apply, Purged, StoreTypeOK, SetHealth
  <2>4. PublishedShown'
    BY <1>2, <2>1, <2>2, <2>3
  <2>5. OvertakenShown'
    <3> SUFFICES ASSUME NEW a \in Attempts, NEW b \in Attempts, NEW j \in Keys \ Live,
                        Running(a)', Current(a)', j \in wanted'[a],
                        owner'[j] = b, outcome'[b] \in {"ok", "settled"}
                 PROVE  ShowsUpTo(j, floor[a])'
      BY DEF OvertakenShown
    <3>1. Running(a)
      BY <2>1 DEF Taken, Running
    <3>2. CASE j = k
      BY <2>3, <3>2 DEF ShowsUpTo
    <3>3. CASE j # k
      <4>1. owner[j] = b
        BY <2>1, <3>3 DEF Taken
      <4>2. b # lastAttempt + 1
        BY <2>1, <4>1 DEF Taken, Ordered, StoreTypeOK, Attempts
      <4>3. outcome[b] \in {"ok", "settled"}
        BY <2>1, <4>2 DEF Taken
      <4> QED
        BY <2>2, <2>3, <3>1, <3>3, <4>1, <4>3 DEF Shown, OvertakenShown, ShowsUpTo, Current
    <3> QED
      BY <3>2, <3>3
  <2>6. ReadyIsFresh'
    BY <2>2, <2>3 DEF Shown, ReadyIsFresh, ShowsUpTo
  <2> QED
    BY <2>4, <2>5, <2>6 DEF Shown
<1> QED
  BY <1>4, <1>5, <1>6, <1>7, <1>8, <1>10, <1>11, <1>12, <1>13 DEF Step

\* The reachable states, as far as the theorems below need them.
Explained == TypedAndOrdered /\ Revoked /\ Requested /\ Shown

LEMMA AlwaysExplained == StoreSpec => []Explained
<1>1. StoreInit => Requested /\ Shown
  BY RequestedInit, ShownInit
<1>2. /\ TypedAndOrdered /\ Revoked /\ Requested /\ Shown
      /\ [StoreNext]_storeVars
      => (Requested /\ Shown)'
  <2>1. ASSUME TypedAndOrdered, Revoked, Requested, Shown, StoreNext
        PROVE  (Requested /\ Shown)'
    <3>1. Step
      BY <2>1, StepKinds DEF TypedAndOrdered
    <3> QED
      BY <2>1, <3>1, RequestedStep, ShownStep
  <2>2. ASSUME Requested, Shown, UNCHANGED storeVars
        PROVE  (Requested /\ Shown)'
    <3>1. Requested'
      BY <2>2 DEF Requested, OwnersAsked, OvertakenByNewer, FloorsGrow, AnswersFresh,
                  Running, storeVars, shownVars, refreshVars, settledVars
    <3>2. Shown'
      BY <2>2 DEF Shown, PublishedShown, OvertakenShown, ReadyIsFresh, ShowsUpTo,
                  Running, Current, storeVars, shownVars, refreshVars, settledVars
    <3> QED
      BY <3>1, <3>2
  <2> QED
    BY <2>1, <2>2
<1> QED
  BY <1>1, <1>2, AlwaysOrdered, AlwaysRevoked, PTL DEF StoreSpec, Explained

\* A key that only refreshes write and that is called ready shows everything
\* committed before any refresh of it that ever started.
THEOREM ReadyKeysAreFresh == StoreSpec => []ReadyIsFresh
<1>1. Explained => ReadyIsFresh
  BY DEF Explained, Shown
<1> QED
  BY <1>1, AlwaysExplained, PTL

LEMMA ReturnIsFresh ==
  ASSUME Explained, NEW a \in Attempts, Return(a), NEW k \in wanted[a] \ Live
  PROVE  ShowsUpTo(k, floor[a])
<1> USE DEF Explained, TypedAndOrdered
<1>1. k \in Keys /\ owner[k] \in Attempts
  BY DEF StoreTypeOK
<1>2. Running(a) /\ Current(a) /\ ~Failing(a) /\ ~Waiting(a)
  BY DEF Return, MayComplete
<1>3. CASE owner[k] = a
  <2>1. k \in Own(a)
    BY <1>3 DEF Own
  <2>2. published[a]
    BY <2>1 DEF Return
  <2> QED
    BY <1>1, <1>2, <1>3, <2>2 DEF Shown, PublishedShown
<1>4. CASE owner[k] # a
  <2>1. owner[k] \in Replacements(a)
    BY <1>4 DEF Replacements
  <2>2. outcome[owner[k]] # "failed" /\ outcome[owner[k]] # "running"
    BY <1>1, <1>2, <2>1 DEF Failing, Waiting, Running
  <2>3. outcome[owner[k]] # "unused"
    <3>1. owner[k] <= lastAttempt /\ lastAttempt \in Nat /\ owner[k] \in Nat
      BY <1>1 DEF Ordered, StoreTypeOK, Attempts
    <3> QED
      BY <1>1, <3>1 DEF Ordered
  <2>4. outcome[owner[k]] \in {"ok", "settled"}
    BY <1>1, <2>2, <2>3 DEF StoreTypeOK
  <2> QED
    BY <1>1, <1>2, <2>4 DEF Shown, OvertakenShown
<1> QED
  BY <1>3, <1>4

\* Only returning makes a running refresh successful.
LEMMA OnlyReturned ==
  ASSUME TypedAndOrdered, Step, NEW a \in Attempts, Running(a), outcome'[a] = "ok"
  PROVE  Return(a)
<1> USE DEF TypedAndOrdered, Running
<1>1. ASSUME NEW keys, NEW state \in {"running", "settled"}, Taken(keys, state)
      PROVE  FALSE
  BY <1>1 DEF Taken
<1>2. CASE Commit
  BY <1>2 DEF Commit
<1>3. ASSUME NEW keys \in SUBSET Keys, Invalidate(keys)
      PROVE  FALSE
  BY <1>1, <1>3, TakeOverOrdered DEF Invalidate
<1>4. CASE Revoke
  BY <1>1, <1>4, TakeOverOrdered DEF Revoke
<1>5. ASSUME NEW keys \in SUBSET Keys, StartRefresh(keys)
      PROVE  FALSE
  BY <1>1, <1>5, TakeOverOrdered DEF StartRefresh
<1>6. ASSUME NEW b \in Attempts, NEW k \in Keys, AnswerStep(b, k)
      PROVE  FALSE
  BY <1>6 DEF AnswerStep, AnswerValue, AnswerFailure
<1>7. ASSUME NEW b \in Attempts, FailStep(b)
      PROVE  FALSE
  BY <1>7 DEF FailStep, Fail, Settle, StoreTypeOK
<1>8. ASSUME NEW b \in Attempts, Publish(b)
      PROVE  FALSE
  BY <1>8 DEF Publish
<1>9. ASSUME NEW b \in Attempts, Return(b)
      PROVE  Return(a)
  BY <1>9 DEF Return, Settle, StoreTypeOK
<1>10. ASSUME NEW k \in Keys, NEW value \in Contents, ApplyStep(k, value)
       PROVE  FALSE
  BY <1>1, <1>10, TakeOverOrdered DEF ApplyStep, Apply
<1> QED
  BY <1>2, <1>3, <1>4, <1>5, <1>6, <1>7, <1>8, <1>9, <1>10 DEF Step

\* A refresh that returns has its keys show everything committed before it
\* started, whoever published them.
THEOREM ReturnsAreFresh == StoreSpec => ReturnedIsFresh
<1> DEFINE Fresh ==
      \A a \in Attempts : Running(a) /\ outcome'[a] = "ok" =>
        \A k \in wanted[a] \ Live : ShowsUpTo(k, floor[a])
<1>1. ASSUME Explained, StoreNext
      PROVE  Fresh
  <2>1. Step
    BY <1>1, StepKinds DEF Explained, TypedAndOrdered
  <2> QED
    BY <1>1, <2>1, OnlyReturned, ReturnIsFresh DEF Explained
<1>2. Explained /\ [StoreNext]_storeVars => [Fresh]_storeVars
  BY <1>1
<1> QED
  BY <1>2, AlwaysExplained, PTL DEF StoreSpec, ReturnedIsFresh

-----------------------------------------------------------------------------
(* Waiting.                                                                *)

\* Refreshes never wait for one another in a circle: the newest one that runs
\* was only overtaken by newer attempts, which do not run.
THEOREM NobodyWaitsInACircle == StoreSpec => []NoWaitingCircle
<1>1. ASSUME Explained
      PROVE  NoWaitingCircle
  <2> SUFFICES ASSUME NEW a \in Attempts, Running(a)
               PROVE  \E b \in Attempts : Running(b) /\ ~Waiting(b)
    BY DEF NoWaitingCircle
  <2> DEFINE Ages == {n \in Nat : \E b \in Attempts : Running(b) /\ n = MaxAttempts - b}
  <2>0. \A b \in Attempts : b \in Nat /\ MaxAttempts - b \in Nat
    BY StoreAssumption DEF StoreAssumption, Attempts
  <2>1. Ages \subseteq Nat /\ Ages # {}
    BY <2>0
  <2>2. PICK age \in Ages : \A other \in Ages : ~(other < age)
    <3>1. IsWellFoundedOn(OpToRel(<, Nat), Nat)
      BY NatLessThanWellFounded
    <3> HIDE DEF Ages
    <3>2. \E age \in Ages : \A other \in Ages : ~(<<other, age>> \in OpToRel(<, Nat))
      BY <2>1, <3>1, WFMin
    <3> QED
      BY <2>1, <3>2 DEF OpToRel
  <2>3. PICK b \in Attempts : Running(b) /\ age = MaxAttempts - b
    BY <2>2
  <2>4. \A c \in Attempts : Running(c) => c <= b
    <3> SUFFICES ASSUME NEW c \in Attempts, Running(c)
                 PROVE  c <= b
      OBVIOUS
    <3>1. MaxAttempts - c \in Ages
      BY <2>0
    <3>2. ~(MaxAttempts - c < MaxAttempts - b)
      BY <2>2, <2>3, <3>1
    <3> QED
      BY <2>0, <3>2, StoreAssumption DEF StoreAssumption
  <2>5. \A r \in Replacements(b) : r \in Attempts /\ r > b
    <3> SUFFICES ASSUME NEW k \in wanted[b], owner[k] # b
                 PROVE  owner[k] \in Attempts /\ owner[k] > b
      BY DEF Replacements
    <3>1. owner[k] \in Attempts
      BY <1>1 DEF Explained, TypedAndOrdered, StoreTypeOK
    <3>2. owner[k] >= b
      BY <1>1, <2>3 DEF Explained, Requested, OvertakenByNewer
    <3> QED
      BY <3>1, <3>2 DEF Attempts
  <2>6. ~Waiting(b)
    BY <2>4, <2>5 DEF Waiting, Attempts
  <2> QED
    BY <2>3, <2>6
<1> QED
  BY <1>1, AlwaysExplained, PTL

-----------------------------------------------------------------------------
(* The promise of PageView.                                                *)

\* A store step that takes keys over and starts no refresh is none to PageView.
LEMMA SettledUnseen ==
  ASSUME TypedAndOrdered, NEW keys, Taken(keys, "settled"), UNCHANGED <<wanted, asked>>
  PROVE  UNCHANGED <<[a \in Attempts |-> IF outcome[a] = "settled" THEN "unused" ELSE outcome[a]],
                     [a \in Attempts |-> IF outcome[a] = "running" THEN wanted[a] ELSE {}],
                     [k \in Keys \ Live |-> asked[k]]>>
<1> DEFINE next == lastAttempt + 1
<1>1. outcome[next] = "unused" /\ outcome'[next] = "settled"
  BY DEF Taken
<1>2. \A a \in Attempts : a # next => outcome'[a] = outcome[a]
  BY DEF Taken
<1>3. \A a \in Attempts :
        /\ (IF outcome'[a] = "settled" THEN "unused" ELSE outcome'[a])
             = (IF outcome[a] = "settled" THEN "unused" ELSE outcome[a])
        /\ (IF outcome'[a] = "running" THEN wanted'[a] ELSE {})
             = (IF outcome[a] = "running" THEN wanted[a] ELSE {})
  BY <1>1, <1>2
<1> QED
  BY <1>3

\* What the keys' health says of their readiness.
LEMMA ReadyMarks ==
  ASSUME NEW keys, SetHealth(keys, "ready")
  PROVE  View!Mark(keys, TRUE)
BY DEF SetHealth, View!Mark

LEMMA UnreadyMarks ==
  ASSUME NEW keys, NEW state \in {"refreshing", "unavailable"}, SetHealth(keys, state)
  PROVE  View!Mark(keys, FALSE)
BY DEF SetHealth, View!Mark

LEMMA ViewInitially ==
  ASSUME StoreInit
  PROVE  View!ViewInit
BY DEF StoreInit, View!ViewInit, View!ReadKeys

LEMMA ViewStep ==
  ASSUME Explained, Step
  PROVE  View!ViewNext \/ UNCHANGED View!viewVars
<1> USE DEF Explained, TypedAndOrdered
<1>1. CASE Commit
  <2>1. View!Commit
    BY <1>1 DEF Commit, View!Commit, shownVars, refreshVars, settledVars
  <2> QED
    BY <2>1 DEF View!ViewNext
<1>2. ASSUME NEW keys \in SUBSET Keys, Invalidate(keys)
      PROVE  View!ViewNext
  <2>1. Taken(keys, "settled")
    BY <1>2, TakeOverOrdered DEF Invalidate
  <2>2. View!Mark(keys, FALSE)
    BY <1>2, UnreadyMarks DEF Invalidate
  <2>3. UNCHANGED <<wanted, asked, committed, floor, snapshot>>
    BY <1>2 DEF Invalidate, refreshVars, settledVars
  <2>4. View!Distrust(keys, {})
    BY <2>1, <2>2, <2>3, SettledUnseen DEF View!Distrust, View!ReadKeys
  <2> QED
    BY <2>4 DEF View!ViewNext
<1>3. CASE Revoke
  <2>1. Taken(Keys, "settled")
    BY <1>3, TakeOverOrdered DEF Revoke
  <2>2. View!Mark(Keys, FALSE)
    BY <1>3, UnreadyMarks DEF Revoke
  <2>3. UNCHANGED <<wanted, asked, committed, floor>>
    BY <1>3 DEF Revoke, refreshVars, settledVars
  <2>4. \A k \in Keys : snapshot'[k] = IF k \in Revocable THEN {} ELSE snapshot[k]
    BY <1>3 DEF Revoke, Purge, Purged
  <2>5. View!Distrust(Keys, Revocable \ Live)
    BY <2>1, <2>2, <2>3, <2>4, SettledUnseen DEF View!Distrust, View!ReadKeys
  <2>6. Revocable \ Live \in SUBSET View!ReadKeys
    BY StoreAssumption DEF StoreAssumption, View!ReadKeys
  <2> QED
    BY <2>5, <2>6 DEF View!ViewNext
<1>4. ASSUME NEW keys \in SUBSET Keys, StartRefresh(keys)
      PROVE  View!ViewNext
  <2> DEFINE next == lastAttempt + 1
  <2>1. Taken(keys, "running")
    BY <1>4, TakeOverOrdered DEF StartRefresh
  <2>2. /\ next \in Attempts /\ outcome[next] = "unused" /\ outcome'[next] = "running"
        /\ \A a \in Attempts : a # next => outcome'[a] = outcome[a]
    BY <2>1 DEF Taken
  <2>3. View!Mark(keys, FALSE)
    BY <1>4, UnreadyMarks DEF StartRefresh
  <2>4. /\ wanted' = [wanted EXCEPT ![next] = keys]
        /\ floor' = [floor EXCEPT ![next] = committed]
        /\ asked' = [k \in Keys |-> IF k \in keys THEN committed ELSE asked[k]]
        /\ UNCHANGED <<committed, snapshot>>
    BY <1>4 DEF StartRefresh
  <2>5. [a \in Attempts |-> IF outcome[a] = "settled" THEN "unused" ELSE outcome[a]]'
          = [[a \in Attempts |-> IF outcome[a] = "settled" THEN "unused" ELSE outcome[a]]
               EXCEPT ![next] = "running"]
    BY <2>2
  <2>6. [a \in Attempts |-> IF outcome[a] = "running" THEN wanted[a] ELSE {}]'
          = [[a \in Attempts |-> IF outcome[a] = "running" THEN wanted[a] ELSE {}]
               EXCEPT ![next] = keys]
    BY <2>2, <2>4 DEF StoreTypeOK
  <2>7. [k \in Keys \ Live |-> asked[k]]'
          = [k \in Keys \ Live |-> IF k \in keys THEN committed
                                   ELSE [j \in Keys \ Live |-> asked[j]][k]]
    BY <2>4
  <2>8. View!Ask(next, keys)
    BY <2>2, <2>3, <2>4, <2>5, <2>6, <2>7 DEF View!Ask, View!ReadKeys
  <2> QED
    BY <2>2, <2>8 DEF View!ViewNext
<1>5. ASSUME NEW a \in Attempts, NEW k \in Keys, AnswerStep(a, k)
      PROVE  UNCHANGED View!viewVars
  <2>1. UNCHANGED <<committed, snapshot, health, asked, outcome, wanted, floor>>
    BY <1>5 DEF AnswerStep, AnswerValue, AnswerFailure, shownVars
  <2> QED
    BY <2>1 DEF View!viewVars
<1>6. ASSUME NEW a \in Attempts, NEW state \in {"ok", "failed"}, Running(a), Settle(a, state),
             UNCHANGED <<committed, snapshot, asked>>
      PROVE  View!Settle(a, state)
  <2>1. /\ outcome' = [outcome EXCEPT ![a] = state]
        /\ floor' = [floor EXCEPT ![a] = 0]
        /\ \A b \in Attempts : b # a => wanted'[b] = wanted[b]
    BY <1>6 DEF Settle, StoreTypeOK
  <2>2. [b \in Attempts |-> IF outcome[b] = "settled" THEN "unused" ELSE outcome[b]]'
          = [[b \in Attempts |-> IF outcome[b] = "settled" THEN "unused" ELSE outcome[b]]
               EXCEPT ![a] = state]
    BY <2>1 DEF StoreTypeOK
  <2>3. [b \in Attempts |-> IF outcome[b] = "running" THEN wanted[b] ELSE {}]'
          = [[b \in Attempts |-> IF outcome[b] = "running" THEN wanted[b] ELSE {}]
               EXCEPT ![a] = {}]
    BY <2>1 DEF StoreTypeOK
  <2> QED
    BY <1>6, <2>1, <2>2, <2>3 DEF View!Settle
<1>7. ASSUME NEW a \in Attempts, FailStep(a)
      PROVE  View!ViewNext
  <2>0. PICK own \in SUBSET Keys : own = Own(a) /\ own \subseteq wanted[a]
    BY DEF Own, StoreTypeOK
  <2>1. SetHealth(own, "unavailable")
    BY <1>7, <2>0 DEF FailStep, Fail, SetHealth
  <2>2. Running(a) /\ View!Settle(a, "failed") /\ View!Mark(own, FALSE)
    BY <1>6, <1>7, <2>1, UnreadyMarks DEF FailStep, Fail
  <2>3. View!Fail(a, own)
    BY <2>0, <2>2 DEF View!Fail, Running
  <2> QED
    BY <2>0, <2>3 DEF View!ViewNext
<1>8. ASSUME NEW a \in Attempts, Publish(a)
      PROVE  View!ViewNext
  <2>0. PICK own \in SUBSET Keys : own = Own(a)
    BY DEF Own, StoreTypeOK
  <2> DEFINE value == [k \in own \ Live |-> snapshot'[k]]
  <2>1. SetHealth(own, "ready")
    BY <1>8, <2>0 DEF Publish, SetHealth
  <2>2. ASSUME NEW k \in own \ Live
        PROVE  snapshot'[k] \in View!Contents /\ View!UpTo(snapshot'[k], asked[k])
    <3>1. Running(a) /\ answer[a][k] = "value" /\ snapshot'[k] = content[a][k]
      BY <1>8, <2>0 DEF Publish, MayComplete, Answered, Failing, Own, StoreTypeOK
    <3>2. snapshot'[k] \in View!Contents
      BY <3>1 DEF Requested, AnswersFresh, Purged, View!Contents
    <3>3. floor' = floor
      BY <1>8 DEF Publish
    <3>4. View!UpTo(snapshot'[k], asked[k])
      BY <1>8, <2>0, <3>3, PublishedIsFresh DEF ShowsUpTo, View!UpTo
    <3> QED
      BY <3>2, <3>4
  <2>3. View!Mark(own, TRUE)
    BY <2>1, ReadyMarks
  <2>4. \A k \in Keys : k \notin own => snapshot'[k] = snapshot[k]
    BY <1>8, <2>0 DEF Publish
  <2>5. UNCHANGED <<committed, asked, outcome, wanted, floor>>
    BY <1>8 DEF Publish
  <2>6. value \in [own \ Live -> View!Contents]
    BY <2>2
  <2>7. \A k \in own \ Live :
          View!UpTo(value[k], [j \in Keys \ Live |-> asked[j]][k])
    BY <2>2
  <2>8. [k \in Keys \ Live |-> snapshot[k]]'
          = [k \in Keys \ Live |-> IF k \in own THEN value[k]
                                   ELSE [j \in Keys \ Live |-> snapshot[j]][k]]
    BY <2>4
  <2>9. View!Show(own)
    BY <2>3, <2>5, <2>6, <2>7, <2>8 DEF View!Show, View!ReadKeys
  <2> QED
    BY <2>9 DEF View!ViewNext
<1>9. ASSUME NEW a \in Attempts, Return(a)
      PROVE  View!ViewNext
  <2>1. Running(a) /\ View!Settle(a, "ok") /\ UNCHANGED health
    BY <1>6, <1>9 DEF Return, MayComplete, shownVars
  <2>2. \A k \in wanted[a] \ Live : View!UpTo(snapshot[k], floor[a])
    BY <1>9, ReturnIsFresh DEF ShowsUpTo, View!UpTo
  <2>3. wanted[a] \subseteq Keys
    BY DEF StoreTypeOK
  <2>4. View!Return(a)
    BY <2>1, <2>2, <2>3 DEF View!Return, Running
  <2> QED
    BY <2>4 DEF View!ViewNext
<1>10. ASSUME NEW k \in Keys, NEW value \in Contents, ApplyStep(k, value)
       PROVE  View!ViewNext
  <2> DEFINE given == [j \in {k} \ Live |-> {}]
  <2>1. Taken({k}, "settled")
    BY <1>10, TakeOverOrdered DEF ApplyStep, Apply
  <2>2. UNCHANGED <<committed, asked, wanted, floor>>
    BY <1>10 DEF ApplyStep, Apply, refreshVars, settledVars
  <2>3. View!Mark({k}, TRUE)
    BY <1>10, ReadyMarks DEF ApplyStep, Apply
  <2>4. \A j \in Keys \ Live : snapshot'[j] = IF j \in {k} THEN {} ELSE snapshot[j]
    BY <1>10 DEF ApplyStep, Apply, Purged, StoreTypeOK
  <2>5. given \in [{k} \ Live -> View!Contents]
    BY DEF View!Contents
  <2>6. \A j \in {k} \ Live : View!UpTo(given[j], [i \in Keys \ Live |-> asked[i]][j])
    BY DEF View!UpTo
  <2>7. [j \in Keys \ Live |-> snapshot[j]]'
          = [j \in Keys \ Live |-> IF j \in {k} THEN given[j]
                                   ELSE [i \in Keys \ Live |-> snapshot[i]][j]]
    BY <2>4
  <2>8. View!Show({k})
    BY <2>1, <2>2, <2>3, <2>5, <2>6, <2>7, SettledUnseen DEF View!Show, View!ReadKeys
  <2> QED
    BY <2>8 DEF View!ViewNext
<1> QED
  BY <1>1, <1>2, <1>3, <1>4, <1>5, <1>7, <1>8, <1>9, <1>10 DEF Step

\* The store implements PageView: overlapping refreshes, live payloads,
\* revocations and failures never show a caller less than a page that refreshes
\* one request at a time would.
THEOREM StoreKeepsViewPromise == StoreSpec => KeepsViewPromise
<1>1. StoreInit => View!ViewInit
  BY ViewInitially
<1>2. Explained /\ [StoreNext]_storeVars => [View!ViewNext]_(View!viewVars)
  <2>1. ASSUME Explained, StoreNext
        PROVE  View!ViewNext \/ UNCHANGED View!viewVars
    BY <2>1, StepKinds, ViewStep DEF Explained, TypedAndOrdered
  <2>2. ASSUME UNCHANGED storeVars
        PROVE  UNCHANGED View!viewVars
    BY <2>2 DEF storeVars, shownVars, refreshVars, settledVars, View!viewVars
  <2> QED
    BY <2>1, <2>2
<1> QED
  BY <1>1, <1>2, AlwaysExplained, PTL DEF StoreSpec, KeepsViewPromise, View!ViewSafety
=============================================================================
