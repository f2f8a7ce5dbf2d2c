--------------------------- MODULE ProjectionStore ---------------------------
(***************************************************************************)
(* The browser's projection store: what a game page shows, by projection   *)
(* key, and whether it may be acted on.                                    *)
(*                                                                         *)
(* Refreshes overlap freely. Each takes a new attempt number, becomes the  *)
(* owner of its keys, reads all of them and publishes together those it    *)
(* still owns; for the others it follows the newer owners. Live payloads   *)
(* become owners too. Losing authority or trust in the connection starts a *)
(* new authority epoch, in which no refresh of an earlier one may publish. *)
(*                                                                         *)
(* The server is a counter of commits; what a key shows is the set of the  *)
(* commits it reflects, with 0 for the game itself. {} is a purged key.    *)
(***************************************************************************)
EXTENDS Naturals, FiniteSets

CONSTANTS
  Keys,          \* registered projection keys
  Live,          \* keys the live connection delivers payloads for
  Revocable,     \* keys with a revoke value: private data
  Normalized,    \* keys whose refused read is a value of its own
  Hydrated,      \* keys whose read makes further reads
  MaxCommits,    \* bound on the server's commits
  MaxAttempts,   \* bound on attempt numbers
  MaxEpoch       \* bound on authority epochs

ASSUME StoreAssumption ==
  /\ MaxCommits \in Nat /\ MaxAttempts \in Nat /\ MaxEpoch \in Nat
  /\ Live \subseteq Keys /\ Revocable \subseteq Keys
  /\ Normalized \subseteq Keys /\ Hydrated \subseteq Keys

VARIABLES
  committed,     \* the server's commits so far
  snapshot,      \* what every key shows
  health,        \* "ready", "refreshing" or "unavailable", by key
  epoch,         \* authorityEpoch
  lastAttempt,   \* refreshAttempt
  owner,         \* latestOwnerByKey: the attempt that may publish the key
  outcome,       \* of every attempt: "unused", "running", "ok" or "failed"; or
                 \* "settled", of an owner that is no refresh
  wanted,        \* the keys of a refresh; of a settled one, reads still out
  captured,      \* the epoch a refresh started in
  answer,        \* of every read: "pending", "value" or "failure"
  content,       \* the value of an answered read
  published,     \* has the refresh published?
  floor,         \* history: the commits when a running refresh started
  asked,         \* history: the commits when a key's last refresh started
  source,        \* history: the attempt whose content a key shows
  revokedAt      \* history: the attempt number of the last revocation

shownVars == <<snapshot, health, source>>
settledVars == <<wanted, answer, content, published, floor>>
refreshVars == <<settledVars, captured, asked>>
storeVars == <<committed, shownVars, epoch, lastAttempt, owner, outcome,
               refreshVars, revokedAt>>

Attempts == 0..MaxAttempts
Contents == SUBSET (0..MaxCommits)
Purged == {}

StoreInit ==
  /\ committed = 0
  /\ snapshot = [k \in Keys |-> {0}]
  /\ health = [k \in Keys |-> "ready"]
  /\ epoch = 0
  /\ lastAttempt = 0
  /\ owner = [k \in Keys |-> 0]
  /\ outcome = [a \in Attempts |-> IF a = 0 THEN "settled" ELSE "unused"]
  /\ wanted = [a \in Attempts |-> {}]
  /\ captured = [a \in Attempts |-> 0]
  /\ answer = [a \in Attempts |-> [k \in Keys |-> "pending"]]
  /\ content = [a \in Attempts |-> [k \in Keys |-> Purged]]
  /\ published = [a \in Attempts |-> FALSE]
  /\ floor = [a \in Attempts |-> 0]
  /\ asked = [k \in Keys |-> 0]
  /\ source = [k \in Keys |-> 0]
  /\ revokedAt = 0

-----------------------------------------------------------------------------
(* Ownership.                                                              *)

\* The next attempt takes the keys over.
TakeOver(keys, state) ==
  /\ lastAttempt < MaxAttempts
  /\ lastAttempt' = lastAttempt + 1
  /\ owner' = [k \in Keys |-> IF k \in keys THEN lastAttempt + 1 ELSE owner[k]]
  /\ outcome' = [outcome EXCEPT ![lastAttempt + 1] = state]

SetHealth(keys, state) ==
  health' = [k \in Keys |-> IF k \in keys THEN state ELSE health[k]]

Running(a) == outcome[a] = "running"

\* Mutant of Own: a refresh publishes everything it read.
OwnEverything(a) == wanted[a]

\* The keys of a refresh that no newer attempt took over.
Own(a) == {k \in wanted[a] : owner[k] = a}

Replacements(a) == {owner[k] : k \in wanted[a]} \ {a}

\* Mutant of Current: a refresh does not notice a new authority epoch.
AnyEpoch(a) == TRUE

Current(a) == captured[a] = epoch

Answered(a) == \A k \in wanted[a] : answer[a][k] # "pending"

\* Mutant of Failing: the failure of a newer owner is not the caller's.
OwnFailing(a) == \E k \in Own(a) : answer[a][k] = "failure"

Failing(a) ==
  \/ \E k \in Own(a) : answer[a][k] = "failure"
  \/ \E r \in Replacements(a) : outcome[r] = "failed"

\* Mutant of Waiting: every running refresh of a key is waited for.
WaitingForAll(a) ==
  \E r \in Attempts \ {a} : Running(r) /\ wanted[r] \cap wanted[a] # {}

Waiting(a) == \E r \in Replacements(a) : Running(r)

-----------------------------------------------------------------------------
(* Authority.                                                              *)

\* Every refresh of an earlier epoch is rejected, see RejectStale.
AdvanceEpoch == epoch < MaxEpoch /\ epoch' = epoch + 1

Invalidate(keys) ==
  /\ AdvanceEpoch
  /\ TakeOver(keys, "settled")
  /\ SetHealth(keys, "unavailable")
  /\ UNCHANGED <<committed, snapshot, source, refreshVars, revokedAt>>

\* Mutant of Purge: private data stays in the page.
PurgeNothing == snapshot

\* Mutant of Purge: the revoke value is not one the key may have.
PurgeUnvalidated ==
  [k \in Keys |-> IF k \in Revocable THEN {MaxCommits + 1} ELSE snapshot[k]]

Purge == [k \in Keys |-> IF k \in Revocable THEN Purged ELSE snapshot[k]]

Revoke ==
  /\ AdvanceEpoch
  /\ TakeOver(Keys, "settled")
  /\ SetHealth(Keys, "unavailable")
  /\ snapshot' = Purge
  /\ revokedAt' = lastAttempt + 1
  /\ UNCHANGED <<committed, source, refreshVars>>

-----------------------------------------------------------------------------
(* Refreshes.                                                              *)

StartRefresh(keys) ==
  /\ TakeOver(keys, "running")
  /\ SetHealth(keys, "refreshing")
  /\ wanted' = [wanted EXCEPT ![lastAttempt + 1] = keys]
  /\ captured' = [captured EXCEPT ![lastAttempt + 1] = epoch]
  /\ floor' = [floor EXCEPT ![lastAttempt + 1] = committed]
  /\ asked' = [k \in Keys |-> IF k \in keys THEN committed ELSE asked[k]]
  /\ UNCHANGED <<committed, snapshot, source, epoch, answer, content,
                 published, revokedAt>>

Pending(a, k) == k \in wanted[a] /\ answer[a][k] = "pending"

SetAnswer(a, k, kind) ==
  answer' = [answer EXCEPT ![a] = [answer[a] EXCEPT ![k] = kind]]

\* A read is fixed when the server answers it and used when all have arrived.
\* A key in Normalized makes a value of a refusal: one that shows no commit.
AnswerValue(a, k) ==
  /\ Running(a) /\ Pending(a, k)
  /\ SetAnswer(a, k, "value")
  /\ \E value \in {0..committed} \cup (IF k \in Normalized THEN {Purged} ELSE {}) :
       content' = [content EXCEPT ![a] = [content[a] EXCEPT ![k] = value]]
  /\ UNCHANGED <<committed, shownVars, epoch, lastAttempt, owner, outcome,
                 wanted, captured, published, floor, asked, revokedAt>>

AnswerFailure(a, k) ==
  /\ Running(a) /\ Pending(a, k)
  /\ SetAnswer(a, k, "failure")
  /\ UNCHANGED <<committed, shownVars, epoch, lastAttempt, owner, outcome,
                 wanted, captured, content, published, floor, asked, revokedAt>>

\* A 401 or 403 of a further read revokes authority when the read is still the
\* key's. It may arrive when its refresh is already over.
HydrationDenied(a, k) ==
  /\ k \in Hydrated /\ Pending(a, k)
  /\ Current(a) /\ owner[k] = a
  /\ Revoke

\* What a settled refresh has read is of no use; a further read may be out.
Settle(a, state) ==
  /\ outcome' = [outcome EXCEPT ![a] = state]
  /\ wanted' = [wanted EXCEPT ![a] = {k \in Hydrated : Pending(a, k)}]
  /\ answer' = [answer EXCEPT ![a] = [k \in Keys |-> "pending"]]
  /\ content' = [content EXCEPT ![a] = [k \in Keys |-> Purged]]
  /\ published' = [published EXCEPT ![a] = FALSE]
  /\ floor' = [floor EXCEPT ![a] = 0]

Fail(a) ==
  /\ Settle(a, "failed")
  /\ SetHealth(Own(a), "unavailable")
  /\ UNCHANGED <<committed, snapshot, source, epoch, lastAttempt, owner,
                 captured, asked, revokedAt>>

\* withinRefreshEpoch rejects a refresh of an earlier epoch wherever it waits.
RejectStale(a) == Running(a) /\ captured[a] # epoch /\ Fail(a)

\* Its signal: the deadline of the caller, or the end of its connection.
Abort(a) == Running(a) /\ Fail(a)

FailRefresh(a) == Running(a) /\ Current(a) /\ Answered(a) /\ Failing(a) /\ Fail(a)

MayComplete(a) ==
  Running(a) /\ Current(a) /\ Answered(a) /\ ~Failing(a) /\ ~Waiting(a)

\* All of its keys at once. Subscribers run before the refresh returns and may
\* start another one, which it then follows: returning is a step of its own.
Publish(a) ==
  /\ MayComplete(a) /\ ~published[a] /\ Own(a) # {}
  /\ snapshot' = [k \in Keys |-> IF k \in Own(a) THEN content[a][k] ELSE snapshot[k]]
  /\ source' = [k \in Keys |-> IF k \in Own(a) THEN a ELSE source[k]]
  /\ SetHealth(Own(a), "ready")
  /\ published' = [published EXCEPT ![a] = TRUE]
  /\ UNCHANGED <<committed, epoch, lastAttempt, owner, outcome,
                 wanted, captured, answer, content, floor, asked, revokedAt>>

Return(a) ==
  /\ MayComplete(a) /\ (published[a] \/ Own(a) = {})
  /\ Settle(a, "ok")
  /\ UNCHANGED <<committed, shownVars, epoch, lastAttempt, owner, captured,
                 asked, revokedAt>>

-----------------------------------------------------------------------------
(* Payloads applied without a read.                                        *)

Apply(k, value) ==
  /\ TakeOver({k}, "settled")
  /\ snapshot' = [snapshot EXCEPT ![k] = value]
  /\ source' = [source EXCEPT ![k] = lastAttempt + 1]
  /\ SetHealth({k}, "ready")
  /\ UNCHANGED <<committed, epoch, refreshVars, revokedAt>>

\* A payload the server assembled at some commit, or a patch about one.
LivePayload(k) ==
  \E n \in 0..committed : \E value \in {0..n, snapshot[k] \cup {n}} : Apply(k, value)

\* The state a page gives a slot it learns it has lost: it shows no commit.
Withdraw(k) == Apply(k, Purged)

\* The server, and whoever else commits.
Commit ==
  /\ committed < MaxCommits
  /\ committed' = committed + 1
  /\ UNCHANGED <<shownVars, epoch, lastAttempt, owner, outcome, refreshVars,
                 revokedAt>>

StoreNext ==
  \/ Commit
  \/ \E keys \in SUBSET Keys : Invalidate(keys)
  \/ Revoke
  \/ \E keys \in SUBSET Keys : StartRefresh(keys)
  \/ \E a \in Attempts, k \in Keys :
       AnswerValue(a, k) \/ AnswerFailure(a, k) \/ HydrationDenied(a, k)
  \/ \E a \in Attempts :
       RejectStale(a) \/ Abort(a) \/ FailRefresh(a) \/ Publish(a) \/ Return(a)
  \/ \E k \in Live : LivePayload(k)
  \/ \E k \in Normalized : Withdraw(k)

StoreSpec == StoreInit /\ [][StoreNext]_storeVars

-----------------------------------------------------------------------------
(* Correctness.                                                            *)

\* The types of the store.
StoreTypeOK ==
  /\ committed \in 0..MaxCommits
  /\ snapshot \in [Keys -> Contents]
  /\ health \in [Keys -> {"ready", "refreshing", "unavailable"}]
  /\ epoch \in 0..MaxEpoch
  /\ lastAttempt \in Attempts
  /\ owner \in [Keys -> Attempts]
  /\ outcome \in [Attempts -> {"unused", "running", "ok", "failed", "settled"}]
  /\ wanted \in [Attempts -> SUBSET Keys]
  /\ captured \in [Attempts -> 0..MaxEpoch]
  /\ answer \in [Attempts -> [Keys -> {"pending", "value", "failure"}]]
  /\ content \in [Attempts -> [Keys -> Contents]]
  /\ published \in [Attempts -> BOOLEAN]
  /\ floor \in [Attempts -> 0..MaxCommits]
  /\ asked \in [Keys -> 0..MaxCommits]
  /\ source \in [Keys -> Attempts]
  /\ revokedAt \in Attempts

\* What the store promises: PageView, of the keys' readiness and of what those
\* that only refreshes write show.
View == INSTANCE PageView WITH
  Asks <- Attempts,
  shown <- [k \in Keys \ Live |-> snapshot[k]],
  ready <- [k \in Keys |-> health[k] = "ready"],
  asked <- [k \in Keys \ Live |-> asked[k]],
  refresh <- [a \in Attempts |-> IF outcome[a] = "settled" THEN "unused" ELSE outcome[a]],
  keysOf <- [a \in Attempts |-> IF outcome[a] = "running" THEN wanted[a] ELSE {}]

\* Overlapping refreshes, live payloads, revocations and failures of the store
\* never show a caller less than PageView promises.
KeepsViewPromise == View!ViewSafety

\* Content that is purged, or shows every commit up to n.
ShowsUpTo(k, n) == snapshot[k] = {} \/ 0..n \subseteq snapshot[k]

\* A key that only refreshes write and that is called ready shows everything
\* committed before any refresh of it that ever started: not only before the
\* one whose answer it shows. Overlapping refreshes of projection-store.mjs
\* must not let an answer stand for a later request.
ReadyIsFresh ==
  \A k \in Keys \ Live : health[k] = "ready" => ShowsUpTo(k, asked[k])

\* Nothing a private key shows was requested, or received, before the last
\* revocation: a read in flight when authority is lost is never published.
RevokedStaysPurged ==
  \A k \in Revocable : snapshot[k] = {} \/ source[k] >= revokedAt

\* A refresh that returns has its keys show everything committed before it
\* started, whoever published them: the caller of a post-command refresh reads
\* its own write even when newer refreshes took some of its keys over.
ReturnedIsFresh ==
  [][\A a \in Attempts : Running(a) /\ outcome'[a] = "ok" =>
       \A k \in wanted[a] \ Live : ShowsUpTo(k, floor[a])]_storeVars

\* Old-generation responses never overwrite newer state: the attempt whose
\* content a key shows never goes back.
NeverOlder == [][\A k \in Keys : source'[k] >= source[k]]_storeVars

\* Refreshes that follow one another's owners never wait in a circle: while any
\* is running, one of them still waits for a read or can take its next step.
NoWaitingCircle ==
  (\E a \in Attempts : Running(a)) =>
    \E a \in Attempts :
      Running(a) /\ (~Current(a) \/ ~Answered(a) \/ Failing(a) \/ ~Waiting(a))
=============================================================================
