---------------------------- MODULE KekRetirement ----------------------------
(***************************************************************************)
(* The lifecycle of runtime key-encryption keys (KEKs) in the event store. *)
(*                                                                         *)
(* Every envelope in the database, a wrapped stream data key or a directly *)
(* sealed private column, names the KEK it is under. A registry row per    *)
(* KEK says whether it may still seal. Replicas seal and rewrap under the  *)
(* active key of their own keyring, while an operator retires a key: begin *)
(* fences it, batches move its envelopes to the target key, rehearse       *)
(* records that none is left, finalize turns the row into a tombstone.     *)
(*                                                                         *)
(* A transaction is the list of statements in its Program, one action      *)
(* each, and a commit. Locks are held until the transaction ends, and what *)
(* it wrote is visible from its commit on. A statement whose lock another  *)
(* transaction holds waits; one whose check fails leaves only the abort.   *)
(***************************************************************************)
EXTENDS Naturals, Sequences, FiniteSets

CONSTANTS
  None,
  Keys,          \* key ids (KIDs)
  Processes,     \* database sessions of replicas and of the admin tool
  StreamKeys,    \* the key epochs of one stream (rows of event_stream_keys)
  Directs,       \* columns that hold a direct envelope
  Rings,         \* the keyrings deployments configure
  BatchSize      \* LIMIT of a rewrap or reseal batch

Envelopes == StreamKeys \cup Directs

ASSUME KekAssumption ==
  /\ StreamKeys \cap Directs = {}
  /\ Rings \subseteq [active : Keys, held : SUBSET Keys]
  /\ \A r \in Rings : r.active \in r.held
  /\ BatchSize \in Nat \ {0}

\* The schema has columns that hold a direct envelope.
ASSUME DirectsAssumption == Directs # {}

VARIABLES
  ring,        \* the keyring of every session's process
  registry,    \* event_direct_key_sentinel by KID, None when never attested
  envelope,    \* the KID every envelope is under, None when there is no envelope
  tx           \* the open transaction of every session

kekVars == <<ring, registry, envelope, tx>>

Optional(S) == S \cup {None}

Row(life, target, rehearsed) ==
  [life |-> life, target |-> target, rehearsed |-> rehearsed]

Registered ==
  [life : {"writable", "retiring", "retired"}, target : Optional(Keys), rehearsed : BOOLEAN]

\* Operations that insert the registry row of their active key when missing,
\* those that move envelopes off a retiring key, and those of the operator.
Attesting == {"attest", "seal", "wrap"}
Migrations == {"batch", "reseal"}
Lifecycles == {"begin", "rehearse", "finalize"}
Ops == Attesting \cup {"rewrap"} \cup Migrations \cup Lifecycles

\* The statements of each transaction that lock or check, in their order.
Program(op) ==
  CASE op = "attest" -> <<"target">>
    [] op = "seal"   -> <<"target", "rows">>
    [] op = "wrap"   -> <<"stream", "target", "rows">>
    [] op = "rewrap" -> <<"stream", "rows", "target">>
    [] op = "batch"  -> <<"source", "target", "rows">>
    [] op = "reseal" -> <<"rows", "source", "target">>
    [] op = "begin"  -> <<"lifecycle", "target", "exclusive">>
    [] op \in {"rehearse", "finalize"}
                     -> <<"lifecycle", "exclusive", "target", "census">>

\* key: the retiring key, None for operations that have none. pc: the place in
\* the program. advisory: the advisory lock held; shares and exclusive: registry
\* rows; rows: envelopes.
Transactions ==
  [op : Ops, key : Optional(Keys), pc : 1..5,
   advisory : Optional({"stream", "lifecycle"}),
   shares : SUBSET Keys, exclusive : Optional(Keys), rows : SUBSET Envelopes]

ASSUME NoneAssumption ==
  /\ None \notin Keys \cup {"stream", "lifecycle"}
  /\ None \notin Registered \cup Transactions

Active(p) == ring[p].active
Held(p) == ring[p].held
Open(p) == tx[p] # None
Others(p) == {q \in Processes \ {p} : Open(q)}

Init ==
  /\ ring \in [Processes -> Rings]
  /\ registry = [k \in Keys |-> None]
  /\ envelope = [e \in Envelopes |-> None]
  /\ tx = [p \in Processes |-> None]

-----------------------------------------------------------------------------
(* Locks and checks.                                                       *)

\* Mutant of AdvisoryFree: no advisory lock is taken.
NoAdvisory(name, p) == TRUE

AdvisoryFree(name, p) == \A q \in Others(p) : tx[q].advisory # name

\* FOR SHARE of a registry row, and the wait of an insert for an uncommitted
\* insert of the same KID.
Shareable(k, p) == \A q \in Others(p) : tx[q].exclusive # k

\* Mutant of Lockable: sealers share the row with a lock that does not conflict.
LockableOverShares(k, p) == Shareable(k, p)

\* FOR UPDATE of a registry row.
Lockable(k, p) == Shareable(k, p) /\ \A q \in Others(p) : k \notin tx[q].shares

RowFree(e, p) == \A q \in Others(p) : e \notin tx[q].rows

Writable(k) == registry[k] # None /\ registry[k].life = "writable"

RetiringTo(k, target) ==
  registry[k] # None /\ registry[k].life = "retiring" /\ registry[k].target = target

\* Mutant of NoOtherRetiring: rotations may overlap.
AnyRetiring(k) == TRUE

NoOtherRetiring(k) ==
  \A j \in Keys \ {k} : registry[j] # None => registry[j].life # "retiring"

\* Mutant of Unreferenced: the census counts the stream keys only.
UnreferencedByStreams(k) == \A e \in StreamKeys : envelope[e] # k

Unreferenced(k) == \A e \in Envelopes : envelope[e] # k

\* Every key another row or a stream key needs is in the keyring.
CoversOthers(held, k) ==
  /\ \A j \in Keys \ {k} : registry[j] # None => registry[j].life = "retired" \/ j \in held
  /\ \A e \in StreamKeys : envelope[e] # None => envelope[e] \in held \ {k}

\* Mutant of RowAllows: finalize accepts a retiring key nobody rehearsed.
RowAllowsUnrehearsed(op, k, target) ==
  IF op = "begin" THEN registry[k] = None \/ Writable(k) \/ RetiringTo(k, target)
                  ELSE RetiringTo(k, target)

\* What the locked row of the retiring key must be. Begin is idempotent;
\* finalize needs the token of the recorded rehearsal.
RowAllows(op, k, target) ==
  IF op = "begin" THEN registry[k] = None \/ Writable(k) \/ RetiringTo(k, target)
                  ELSE RetiringTo(k, target) /\ (op = "finalize" => registry[k].rehearsed)

-----------------------------------------------------------------------------
(* Statements. Each takes the next one of its transaction's program.       *)

At(p, statement) ==
  /\ Open(p)
  /\ tx[p].pc \in 1..Len(Program(tx[p].op))
  /\ Program(tx[p].op)[tx[p].pc] = statement

\* The statement at pc is done and leaves the transaction t.
Proceed(p, t) ==
  /\ tx' = [tx EXCEPT ![p] = [t EXCEPT !.pc = tx[p].pc + 1]]
  /\ UNCHANGED <<ring, registry, envelope>>

\* A call starts: the checks made on the keyring before the transaction.
Start(p, op, key) ==
  /\ ~Open(p)
  /\ op \in Attesting \cup {"rewrap"} => key = None
  /\ op \in Migrations \cup {"begin"} => key \in Held(p) \ {Active(p)}
  /\ op \in {"rehearse", "finalize"} => key \in Keys \ Held(p)
  /\ tx' = [tx EXCEPT ![p] =
       [op |-> op, key |-> key, pc |-> 1, advisory |-> None,
        shares |-> {}, exclusive |-> None, rows |-> {}]]
  /\ UNCHANGED <<ring, registry, envelope>>

LockStream(p) ==
  /\ At(p, "stream")
  /\ AdvisoryFree("stream", p)
  /\ Proceed(p, [tx[p] EXCEPT !.advisory = "stream"])

\* The lifecycle lock, then the refusal of a second rotation.
LockLifecycle(p) ==
  /\ At(p, "lifecycle")
  /\ AdvisoryFree("lifecycle", p)
  /\ NoOtherRetiring(tx[p].key)
  /\ Proceed(p, [tx[p] EXCEPT !.advisory = "lifecycle"])

ShareSource(p) ==
  /\ At(p, "source")
  /\ Shareable(tx[p].key, p)
  /\ RetiringTo(tx[p].key, Active(p)) /\ ~registry[tx[p].key].rehearsed
  /\ Proceed(p, [tx[p] EXCEPT !.shares = tx[p].shares \cup {tx[p].key}])

\* The active key must be registered and writable.
ShareTarget(p) ==
  /\ At(p, "target")
  /\ Shareable(Active(p), p)
  /\ Writable(Active(p))
  /\ Proceed(p, [tx[p] EXCEPT !.shares = tx[p].shares \cup {Active(p)}])

\* An attesting operation inserts the missing row and owns it until it commits.
InsertTarget(p) ==
  /\ At(p, "target")
  /\ tx[p].op \in Attesting
  /\ registry[Active(p)] = None
  /\ Shareable(Active(p), p)
  /\ Proceed(p, [tx[p] EXCEPT !.exclusive = Active(p)])

LockRetiring(p) ==
  /\ At(p, "exclusive")
  /\ Lockable(tx[p].key, p)
  /\ RowAllows(tx[p].op, tx[p].key, Active(p))
  /\ Proceed(p, [tx[p] EXCEPT !.exclusive = tx[p].key])

\* Both reference counts, then the coverage check, which shares the other rows.
Census(p) ==
  /\ At(p, "census")
  /\ \A k \in Keys : registry[k] # None => Shareable(k, p)
  /\ Unreferenced(tx[p].key)
  /\ CoversOthers(Held(p), tx[p].key)
  /\ Proceed(p, [tx[p] EXCEPT !.shares = tx[p].shares \cup
       {k \in Keys \ {tx[p].key} : registry[k] # None /\ registry[k].life # "retired"}])

\* Rows a batch may claim: it skips those that are locked.
Claimable(p) ==
  {e \in IF tx[p].op = "batch" THEN StreamKeys ELSE Directs :
     envelope[e] = tx[p].key /\ RowFree(e, p)}

\* The envelopes the transaction is going to write: one direct column; a new
\* epoch of the stream; all its epochs; or a batch under the retiring key.
ClaimRows(p, claimed) ==
  /\ At(p, "rows")
  /\ \A e \in claimed : RowFree(e, p)
  /\ tx[p].op = "seal" => \E d \in Directs : claimed = {d}
  /\ tx[p].op = "wrap" => \E e \in StreamKeys : claimed = {e} /\ envelope[e] = None
  /\ tx[p].op = "rewrap" =>
       /\ claimed = {e \in StreamKeys : envelope[e] # None}
       /\ \A e \in claimed : envelope[e] \in Held(p)
  /\ tx[p].op \in Migrations =>
       /\ claimed \subseteq Claimable(p)
       /\ Cardinality(claimed) <= BatchSize
       /\ claimed # Claimable(p) => Cardinality(claimed) = BatchSize
       /\ tx[p].op = "reseal" => claimed # {}
  /\ Proceed(p, [tx[p] EXCEPT !.rows = claimed])

\* The row an operation leaves under the registry lock it holds.
Outcome(op, k, target) ==
  CASE op \in Attesting -> Row("writable", None, FALSE)
    [] op = "begin" -> IF RetiringTo(k, target) THEN registry[k]
                                                ELSE Row("retiring", target, FALSE)
    [] op = "rehearse" -> Row("retiring", target, TRUE)
    [] op = "finalize" -> Row("retired", target, registry[k].rehearsed)

Commit(p) ==
  /\ Open(p) /\ tx[p].pc > Len(Program(tx[p].op))
  /\ registry' = [k \in Keys |-> IF k = tx[p].exclusive THEN Outcome(tx[p].op, k, Active(p))
                                                        ELSE registry[k]]
  /\ envelope' = [e \in Envelopes |-> IF e \in tx[p].rows THEN Active(p) ELSE envelope[e]]
  /\ tx' = [tx EXCEPT ![p] = None]
  /\ UNCHANGED ring

\* A failed check, a lost connection, a crash.
Abort(p) ==
  /\ Open(p)
  /\ tx' = [tx EXCEPT ![p] = None]
  /\ UNCHANGED <<ring, registry, envelope>>

\* The process restarts with another keyring.
Configure(p, r) ==
  /\ ~Open(p)
  /\ ring' = [ring EXCEPT ![p] = r]
  /\ UNCHANGED <<registry, envelope, tx>>

Statement(p) ==
  \/ LockStream(p) \/ LockLifecycle(p)
  \/ ShareSource(p) \/ ShareTarget(p) \/ InsertTarget(p) \/ LockRetiring(p)
  \/ Census(p)
  \/ \E claimed \in SUBSET Envelopes : ClaimRows(p, claimed)

Next ==
  \E p \in Processes :
    \/ \E op \in Ops, key \in Optional(Keys) : Start(p, op, key)
    \/ Statement(p)
    \/ Commit(p)
    \/ Abort(p)
    \/ \E r \in Rings : Configure(p, r)

Spec == Init /\ [][Next]_kekVars

-----------------------------------------------------------------------------
(* Readiness, and waiting.                                                 *)

\* Mutant of Ready: keys that are retiring need not be configured.
ReadyWhileRetiring(r) ==
  /\ Writable(r.active)
  /\ \A k \in Keys : registry[k] # None =>
       /\ registry[k].life = "retired" => k \notin r.held
       /\ registry[k].life = "writable" => k \in r.held

\* What a replica's readiness probe accepts of the registry.
Ready(r) ==
  /\ Writable(r.active)
  /\ \A k \in Keys : registry[k] # None =>
       /\ registry[k].life = "retired" => k \notin r.held
       /\ registry[k].life = "writable" => k \in r.held
       /\ registry[k].life = "retiring" => registry[k].rehearsed \/ k \in r.held

\* The next statement is blocked on a lock of another transaction. A row that is
\* inserted but not committed counts, also where a select would not see it.
Waits(p) ==
  \/ At(p, "stream") /\ ~AdvisoryFree("stream", p)
  \/ At(p, "lifecycle") /\ ~AdvisoryFree("lifecycle", p)
  \/ At(p, "source") /\ ~Shareable(tx[p].key, p)
  \/ At(p, "target") /\ ~Shareable(Active(p), p)
  \/ At(p, "exclusive") /\ ~Lockable(tx[p].key, p)
  \/ At(p, "census") /\ \E k \in Keys : registry[k] # None /\ ~Shareable(k, p)
  \/ At(p, "rows") /\ tx[p].op = "seal" /\ \A d \in Directs : ~RowFree(d, p)
  \/ At(p, "rows") /\ tx[p].op = "rewrap" /\ \E e \in StreamKeys :
                        envelope[e] # None /\ ~RowFree(e, p)

-----------------------------------------------------------------------------
(* Properties.                                                             *)

\* Types, and the CHECK constraints of the registry: a target exactly when the
\* key left the writable state, and never itself; only a rehearsed key retires.
TypeOK ==
  /\ ring \in [Processes -> Rings]
  /\ registry \in [Keys -> Optional(Registered)]
  /\ envelope \in [Envelopes -> Optional(Keys)]
  /\ tx \in [Processes -> Optional(Transactions)]
  /\ \A k \in Keys : registry[k] # None =>
       /\ registry[k].life = "writable" <=> registry[k].target = None
       /\ registry[k].target # k
       /\ registry[k].rehearsed => registry[k].life # "writable"
       /\ registry[k].life = "retired" => registry[k].rehearsed

\* From the rehearsal on, for good, no envelope is under the key: no sealing,
\* rewrapping or reseal that was in flight at the census commits one later.
RehearsalHolds ==
  \A e \in Envelopes :
    envelope[e] # None /\ registry[envelope[e]] # None => ~registry[envelope[e]].rehearsed

\* The key a retirement migrates to can seal for as long as it is under way:
\* concurrent begins never retire each other's targets, so that every started
\* retirement can be completed.
TargetWritable ==
  \A k \in Keys :
    registry[k] # None /\ registry[k].life = "retiring" => Writable(registry[k].target)

\* A keyring the readiness probe accepts opens every envelope in the database,
\* although the probe reads the registry and none of the envelopes.
ReadyReads ==
  \A r \in Rings : Ready(r) =>
    \A e \in Envelopes : envelope[e] # None => envelope[e] \in r.held

\* The lock orders of the transactions fit: whatever is open, one of them does
\* not wait for another.
NoDeadlock ==
  (\E p \in Processes : Open(p)) => \E p \in Processes : Open(p) /\ ~Waits(p)

\* An envelope is only ever written under a key that is writable when the write
\* becomes visible, whatever was checked earlier in the transaction.
SealsAreFenced ==
  [][\A e \in Envelopes : envelope'[e] # envelope[e] => Writable(envelope[e])']_kekVars

=============================================================================
