------------------------------ MODULE PageView ------------------------------
(***************************************************************************)
(* What a game page's projection store promises, without saying how.       *)
(*                                                                         *)
(* A refresh of some keys ends in success or failure. When it succeeds, or *)
(* when a key is called ready, the page shows everything that had been     *)
(* committed when the refresh was asked for. Content may be withdrawn and  *)
(* readiness lost at any time. Nothing is promised about what the keys the *)
(* live connection writes show.                                            *)
(***************************************************************************)
EXTENDS Naturals

CONSTANTS
  Keys,          \* registered projection keys
  Live,          \* keys the live connection delivers payloads for
  Asks,          \* refreshes that may be under way at once
  MaxCommits     \* bound on the server's commits

ASSUME ViewAssumption == MaxCommits \in Nat /\ Live \subseteq Keys

VARIABLES
  committed,     \* the server's commits so far
  shown,         \* the commits a key shows, with 0 for the game; {} is purged
  ready,         \* may a key be acted on?
  asked,         \* the commits when a key's last refresh was asked for
  refresh,       \* "unused", "running", "ok" or "failed"
  keysOf,        \* the keys of a running refresh
  floor          \* the commits when a running refresh was asked for

viewVars == <<committed, shown, ready, asked, refresh, keysOf, floor>>

ReadKeys == Keys \ Live

\* Everything committed so far, or at some time before; or nothing at all.
Contents == {{}} \cup {0..n : n \in 0..committed}

\* Purged, or showing every commit up to n.
UpTo(content, n) == content = {} \/ 0..n \subseteq content

Ready == \A k \in Keys : ready[k]

ViewInit ==
  /\ committed = 0
  /\ shown = [k \in ReadKeys |-> {0}]
  /\ ready = [k \in Keys |-> TRUE]
  /\ asked = [k \in ReadKeys |-> 0]
  /\ refresh = [r \in Asks |-> "unused"]
  /\ keysOf = [r \in Asks |-> {}]
  /\ floor = [r \in Asks |-> 0]

Mark(keys, value) ==
  ready' = [k \in Keys |-> IF k \in keys THEN value ELSE ready[k]]

Ask(r, keys) ==
  /\ refresh[r] # "running"
  /\ refresh' = [refresh EXCEPT ![r] = "running"]
  /\ keysOf' = [keysOf EXCEPT ![r] = keys]
  /\ floor' = [floor EXCEPT ![r] = committed]
  /\ asked' = [k \in ReadKeys |-> IF k \in keys THEN committed ELSE asked[k]]
  /\ Mark(keys, FALSE)
  /\ UNCHANGED <<committed, shown>>

Settle(r, state) ==
  /\ refresh' = [refresh EXCEPT ![r] = state]
  /\ keysOf' = [keysOf EXCEPT ![r] = {}]
  /\ floor' = [floor EXCEPT ![r] = 0]
  /\ UNCHANGED <<committed, shown, asked>>

Return(r) ==
  /\ refresh[r] = "running"
  /\ \A k \in keysOf[r] \ Live : UpTo(shown[k], floor[r])
  /\ Settle(r, "ok")
  /\ UNCHANGED ready

Fail(r, keys) ==
  /\ refresh[r] = "running" /\ keys \subseteq keysOf[r]
  /\ Settle(r, "failed")
  /\ Mark(keys, FALSE)

\* Readiness and content are lost.
Distrust(keys, purged) ==
  /\ Mark(keys, FALSE)
  /\ shown' = [k \in ReadKeys |-> IF k \in purged THEN {} ELSE shown[k]]
  /\ UNCHANGED <<committed, asked, refresh, keysOf, floor>>

\* Some keys get new content at once and are ready.
Show(keys) ==
  /\ \E value \in [keys \ Live -> Contents] :
       /\ \A k \in keys \ Live : UpTo(value[k], asked[k])
       /\ shown' = [k \in ReadKeys |-> IF k \in keys THEN value[k] ELSE shown[k]]
  /\ Mark(keys, TRUE)
  /\ UNCHANGED <<committed, asked, refresh, keysOf, floor>>

Commit ==
  /\ committed < MaxCommits
  /\ committed' = committed + 1
  /\ UNCHANGED <<shown, ready, asked, refresh, keysOf, floor>>

ViewNext ==
  \/ Commit
  \/ \E r \in Asks, keys \in SUBSET Keys : Ask(r, keys) \/ Fail(r, keys)
  \/ \E r \in Asks : Return(r)
  \/ \E keys \in SUBSET Keys : Show(keys)
  \/ \E keys \in SUBSET Keys, purged \in SUBSET ReadKeys : Distrust(keys, purged)

\* The safety of the promise; that every refresh is settled is the liveness.
ViewSafety == ViewInit /\ [][ViewNext]_viewVars
=============================================================================
