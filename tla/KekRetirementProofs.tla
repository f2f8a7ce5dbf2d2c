------------------------ MODULE KekRetirementProofs ------------------------
(***************************************************************************)
(* The custody of envelopes is correct for any number of keys, sessions    *)
(* and envelopes and any keyrings: the invariants the run kek_retirement   *)
(* checks follow from an inductive invariant about what the open           *)
(* transactions hold, where they hold it, and what they have seen.         *)
(***************************************************************************)
EXTENDS KekRetirement, TLAPS

USE KekAssumption, NoneAssumption

\* Where a program names its active key and the row of its retiring key.
TargetPlace(op) ==
  IF op \in {"attest", "seal"} THEN 1
  ELSE IF op \in {"wrap", "batch", "begin"} THEN 2 ELSE 3

ExclusivePlace(op) == IF op = "begin" THEN 3 ELSE 2

\* The active key of a transaction past its target statement may seal: its row
\* is shared and writable, or is the transaction's own, not yet visible, insert.
TargetHeld(t, r) ==
  t.pc > TargetPlace(t.op) =>
    \/ r.active \in t.shares /\ Writable(r.active)
    \/ t.op \in Attesting /\ t.exclusive = r.active

\* What a transaction owns exclusively is still as its check found it.
ExclusiveHeld(t, r) ==
  /\ t.exclusive # None =>
       \/ t.op \in Attesting /\ t.exclusive = r.active /\ registry[t.exclusive] = None
       \/ t.op \in Lifecycles /\ t.exclusive = t.key /\ RowAllows(t.op, t.key, r.active)
  /\ t.op \in Lifecycles /\ t.pc > ExclusivePlace(t.op) => t.exclusive = t.key

\* An operation of the operator past its first statement is the only rotation.
Serial(t) ==
  t.op \in Lifecycles =>
    /\ t.rows = {}
    /\ t.pc > 1 => t.advisory = "lifecycle" /\ NoOtherRetiring(t.key)

\* What the census found is still so.
CensusHolds(t) == t.op \in {"rehearse", "finalize"} /\ t.pc > 4 => Unreferenced(t.key)

\* Operations name a retiring key other than their active one, and share rows
\* that exist.
Shape(t, r) ==
  /\ \A k \in t.shares : registry[k] # None
  /\ t.op \in Lifecycles => t.key \in Keys /\ t.key # r.active
  /\ t.op \in Migrations => t.key \in Keys

Sound(t, r) ==
  Shape(t, r) /\ TargetHeld(t, r) /\ ExclusiveHeld(t, r) /\ Serial(t) /\ CensusHolds(t)

\* No two transactions hold locks that exclude each other.
Compatible(t, u) ==
  /\ t.exclusive # None => t.exclusive # u.exclusive /\ t.exclusive \notin u.shares
  /\ ~(t.advisory = "lifecycle" /\ u.advisory = "lifecycle")

EnvelopesRegistered == \A e \in Envelopes : envelope[e] # None => registry[envelope[e]] # None

Transacting ==
  /\ \A p \in Processes : Open(p) => Sound(tx[p], ring[p])
  /\ \A p \in Processes : \A q \in Others(p) : Open(p) => Compatible(tx[p], tx[q])

CustodyInv ==
  TypeOK /\ Transacting /\ EnvelopesRegistered /\ RehearsalHolds /\ TargetWritable

-----------------------------------------------------------------------------
(* Programs, and the checks of the registry.                               *)

\* Every program is at most four statements long and names its target.
LEMMA ProgramLength ==
  ASSUME NEW op \in Ops
  PROVE  /\ Len(Program(op)) \in 1..4
         /\ TargetPlace(op) \in 1..Len(Program(op))
         /\ op \in Lifecycles => ExclusivePlace(op) < Len(Program(op)) + 1
         /\ op \in {"rehearse", "finalize"} => Len(Program(op)) = 4
<1>1. CASE op \in Attesting \cup {"rewrap"}
  BY <1>1 DEF Program, Attesting, Lifecycles, TargetPlace
<1>2. CASE op \in Migrations
  BY <1>2 DEF Program, Migrations, Lifecycles, TargetPlace
<1>3. CASE op \in Lifecycles
  BY <1>3 DEF Program, Lifecycles, TargetPlace, ExclusivePlace
<1> QED
  BY <1>1, <1>2, <1>3 DEF Ops

\* Where the statements stand in the programs.
LEMMA ProgramPlaces ==
  ASSUME NEW op \in Ops, NEW i \in 1..Len(Program(op))
  PROVE  /\ Program(op)[i] = "target" <=> i = TargetPlace(op)
         /\ op \in Lifecycles => (Program(op)[i] = "lifecycle" <=> i = 1)
         /\ op \in Lifecycles => (Program(op)[i] = "exclusive" <=> i = ExclusivePlace(op))
         /\ op \in Lifecycles => Program(op)[i] \notin {"rows", "stream"}
         /\ op \notin Lifecycles => Program(op)[i] \notin {"lifecycle", "exclusive", "census"}
         /\ Program(op)[i] = "source" => op \in Migrations
         /\ Program(op)[i] = "census" => i = 4 /\ op \in {"rehearse", "finalize"}
         /\ op \in {"rehearse", "finalize"} => (i = 4 => Program(op)[i] = "census")
<1>1. CASE op = "attest"
  BY <1>1 DEF Program, Attesting, Migrations, Lifecycles, TargetPlace
<1>2. CASE op = "seal"
  BY <1>2 DEF Program, Attesting, Migrations, Lifecycles, TargetPlace
<1>3. CASE op = "wrap"
  BY <1>3 DEF Program, Attesting, Migrations, Lifecycles, TargetPlace
<1>4. CASE op = "rewrap"
  BY <1>4 DEF Program, Attesting, Migrations, Lifecycles, TargetPlace
<1>5. CASE op = "batch"
  BY <1>5 DEF Program, Attesting, Migrations, Lifecycles, TargetPlace
<1>6. CASE op = "reseal"
  BY <1>6 DEF Program, Attesting, Migrations, Lifecycles, TargetPlace
<1>7. CASE op = "begin"
  BY <1>7 DEF Program, Attesting, Migrations, Lifecycles, TargetPlace, ExclusivePlace
<1>8. CASE op \in {"rehearse", "finalize"}
  BY <1>8 DEF Program, Attesting, Migrations, Lifecycles, TargetPlace, ExclusivePlace
<1> QED
  BY <1>1, <1>2, <1>3, <1>4, <1>5, <1>6, <1>7, <1>8 DEF Ops, Attesting, Migrations, Lifecycles

\* What each operation leaves of the registry row it owns.
LEMMA OutcomeOf ==
  ASSUME NEW op \in Ops, NEW k \in Keys, NEW target \in Keys
  PROVE  /\ op \in Attesting => Outcome(op, k, target) = Row("writable", None, FALSE)
         /\ op = "begin" /\ RetiringTo(k, target) => Outcome(op, k, target) = registry[k]
         /\ op = "begin" /\ ~RetiringTo(k, target) =>
              Outcome(op, k, target) = Row("retiring", target, FALSE)
         /\ op = "rehearse" => Outcome(op, k, target) = Row("retiring", target, TRUE)
         /\ op = "finalize" => Outcome(op, k, target) = Row("retired", target, registry[k].rehearsed)
<1>1. CASE op \in Attesting
  BY <1>1 DEF Outcome, Attesting
<1>2. CASE op \notin Attesting
  BY <1>2 DEF Outcome, Ops, Attesting, Migrations, Lifecycles
<1> QED
  BY <1>1, <1>2

-----------------------------------------------------------------------------
(* Steps that leave the registry and the envelopes alone.                  *)

\* One session's transaction becomes t: it is enough that t is sound and fits
\* what the others hold.
LEMMA LocalStep ==
  ASSUME CustodyInv, NEW p \in Processes, NEW t \in Optional(Transactions),
         tx' = [tx EXCEPT ![p] = t], UNCHANGED <<ring, registry, envelope>>,
         t # None => Sound(t, ring[p]),
         t # None => \A q \in Others(p) : Compatible(t, tx[q]) /\ Compatible(tx[q], t)
  PROVE  CustodyInv'
<1>1. TypeOK'
  BY DEF CustodyInv, TypeOK
<1>2. \A q \in Processes : Open(q)' => Sound(tx'[q], ring[q])
  BY DEF CustodyInv, TypeOK, Transacting, Open
<1>3. \A q \in Processes : Open(q)' => Sound(tx[q], ring[q])'
  BY <1>2 DEF Sound, Shape, TargetHeld, ExclusiveHeld, Serial, CensusHolds, Writable, RowAllows,
         RetiringTo, NoOtherRetiring, Unreferenced
<1>4. ASSUME NEW q \in Processes, NEW s \in Others(q)', Open(q)'
      PROVE Compatible(tx[q], tx[s])'
  BY <1>4 DEF CustodyInv, TypeOK, Transacting, Open, Others, Compatible
<1>5. (EnvelopesRegistered /\ RehearsalHolds /\ TargetWritable)'
  BY DEF CustodyInv, EnvelopesRegistered, RehearsalHolds, TargetWritable, Writable
<1> QED
  BY <1>1, <1>3, <1>4, <1>5 DEF CustodyInv, Transacting

\* What is known of a transaction at one of its statements.
LEMMA AtStatement ==
  ASSUME CustodyInv, NEW p \in Processes, NEW st, At(p, st)
  PROVE  /\ tx[p] \in Transactions /\ Open(p)
         /\ Sound(tx[p], ring[p])
         /\ \A q \in Others(p) : Compatible(tx[p], tx[q]) /\ Compatible(tx[q], tx[p])
         /\ ring[p] \in Rings /\ Active(p) \in Keys
         /\ tx[p].op \in Ops /\ tx[p].pc \in 1..4 /\ tx[p].pc \in 1..Len(Program(tx[p].op))
         /\ Program(tx[p].op)[tx[p].pc] = st
<1>1. tx[p] \in Transactions /\ Open(p)
  BY DEF CustodyInv, TypeOK, At, Open, Optional
<1>2. tx[p].op \in Ops
  BY <1>1 DEF Transactions
<1>3. Len(Program(tx[p].op)) \in 1..4
  BY <1>2, ProgramLength
<1>4. \A q \in Others(p) : Compatible(tx[p], tx[q]) /\ Compatible(tx[q], tx[p])
  BY <1>1 DEF CustodyInv, Transacting, Others
<1> QED
  BY <1>1, <1>2, <1>3, <1>4 DEF CustodyInv, TypeOK, Transacting, At, Active

LEMMA StartStep ==
  ASSUME CustodyInv, NEW p \in Processes, NEW op \in Ops, NEW key \in Optional(Keys), Start(p, op, key)
  PROVE  CustodyInv'
<1> DEFINE t == [op |-> op, key |-> key, pc |-> 1, advisory |-> None,
                 shares |-> {}, exclusive |-> None, rows |-> {}]
<1>1. t \in Transactions
  BY DEF Transactions, Optional
<1>2. TargetPlace(op) \in 1..3 /\ ExclusivePlace(op) \in 2..3
  BY DEF TargetPlace, ExclusivePlace
<1>3. ring[p] \in [active : Keys, held : SUBSET Keys] /\ ring[p].active \in ring[p].held
  BY DEF CustodyInv, TypeOK
<1>4. Shape(t, ring[p])
  <2>1. op \in Migrations \cup {"begin"} => key \in Keys /\ key # ring[p].active
    BY <1>3 DEF Start, Held, Active
  <2>2. op \in {"rehearse", "finalize"} => key \in Keys /\ key # ring[p].active
    BY <1>3 DEF Start, Held
  <2> QED
    BY <2>1, <2>2 DEF Shape, Lifecycles
<1>5. Sound(t, ring[p])
  BY <1>2, <1>4 DEF Sound, TargetHeld, ExclusiveHeld, Serial, CensusHolds
<1>6. \A q \in Others(p) : Compatible(t, tx[q]) /\ Compatible(tx[q], t)
  BY DEF Compatible
<1> QED
  BY <1>1, <1>5, <1>6, LocalStep DEF Start, Optional

\* The statement at pc is done: the transaction it leaves must be sound there.
LEMMA ProceedStep ==
  ASSUME CustodyInv, NEW p \in Processes, NEW st, At(p, st),
         NEW t \in Transactions, t.pc = tx[p].pc, Proceed(p, t),
         Sound([t EXCEPT !.pc = tx[p].pc + 1], ring[p]),
         \A q \in Others(p) : Compatible(t, tx[q]) /\ Compatible(tx[q], t)
  PROVE  CustodyInv'
<1> DEFINE u == [t EXCEPT !.pc = tx[p].pc + 1]
<1>1. tx[p].pc \in 1..4
  BY AtStatement
<1>2. u \in Transactions
  BY <1>1 DEF Transactions
<1>3. \A q \in Others(p) : Compatible(u, tx[q]) /\ Compatible(tx[q], u)
  BY DEF Compatible, Transactions
<1> QED
  BY <1>2, <1>3, LocalStep DEF Proceed, Optional

LEMMA LockStreamStep ==
  ASSUME CustodyInv, NEW p \in Processes, LockStream(p)
  PROVE  CustodyInv'
<1> DEFINE t == [tx[p] EXCEPT !.advisory = "stream"]
<1> DEFINE u == [t EXCEPT !.pc = tx[p].pc + 1]
<1>1. At(p, "stream")
  BY DEF LockStream
<1>2. tx[p] \in Transactions /\ tx[p].op \in Ops /\ tx[p].pc \in 1..4 /\ Sound(tx[p], ring[p])
  BY <1>1, AtStatement
<1>3. t \in Transactions /\ t.pc = tx[p].pc
  BY <1>2 DEF Transactions, Optional
<1>4. tx[p].op \notin Lifecycles /\ tx[p].pc # TargetPlace(tx[p].op)
  BY <1>1, AtStatement, ProgramPlaces
<1>5. Sound(u, ring[p])
  BY <1>2, <1>4
  DEF Sound, Shape, TargetHeld, ExclusiveHeld, Serial, CensusHolds, Lifecycles, TargetPlace, Transactions
<1>6. \A q \in Others(p) : Compatible(t, tx[q]) /\ Compatible(tx[q], t)
  BY <1>1, <1>2, AtStatement DEF Compatible, Transactions
<1> QED
  BY <1>1, <1>3, <1>5, <1>6, ProceedStep DEF LockStream

LEMMA LockLifecycleStep ==
  ASSUME CustodyInv, NEW p \in Processes, LockLifecycle(p)
  PROVE  CustodyInv'
<1> DEFINE t == [tx[p] EXCEPT !.advisory = "lifecycle"]
<1> DEFINE u == [t EXCEPT !.pc = tx[p].pc + 1]
<1>1. At(p, "lifecycle")
  BY DEF LockLifecycle
<1>2. tx[p] \in Transactions /\ tx[p].op \in Ops /\ tx[p].pc \in 1..4 /\ Sound(tx[p], ring[p])
  BY <1>1, AtStatement
<1>3. t \in Transactions /\ t.pc = tx[p].pc
  BY <1>2 DEF Transactions, Optional
<1>4. tx[p].op \in Lifecycles /\ tx[p].pc = 1
  BY <1>1, AtStatement, ProgramPlaces
<1>5. Sound(u, ring[p])
  BY <1>2, <1>4
  DEF LockLifecycle, Sound, Shape, TargetHeld, ExclusiveHeld, Serial, CensusHolds, Lifecycles,
      Migrations, Attesting, TargetPlace, ExclusivePlace, Transactions
<1>6. \A q \in Others(p) : Compatible(t, tx[q]) /\ Compatible(tx[q], t)
  BY <1>1, <1>2, AtStatement DEF Compatible, Transactions, LockLifecycle, AdvisoryFree
<1> QED
  BY <1>1, <1>3, <1>5, <1>6, ProceedStep DEF LockLifecycle

LEMMA ShareSourceStep ==
  ASSUME CustodyInv, NEW p \in Processes, ShareSource(p)
  PROVE  CustodyInv'
<1> DEFINE t == [tx[p] EXCEPT !.shares = tx[p].shares \cup {tx[p].key}]
<1> DEFINE u == [t EXCEPT !.pc = tx[p].pc + 1]
<1>1. At(p, "source")
  BY DEF ShareSource
<1>2. tx[p] \in Transactions /\ tx[p].op \in Ops /\ tx[p].pc \in 1..4 /\ Sound(tx[p], ring[p])
  BY <1>1, AtStatement
<1>3. tx[p].op \in Migrations /\ tx[p].pc # TargetPlace(tx[p].op)
  BY <1>1, AtStatement, ProgramPlaces
<1>4. t \in Transactions /\ t.pc = tx[p].pc
  <2>1. tx[p].key \in Keys
    BY <1>2, <1>3 DEF Sound, Shape
  <2> QED
    BY <1>2, <2>1 DEF Transactions, Optional
<1>5. Sound(u, ring[p])
  BY <1>2, <1>3
  DEF ShareSource, Sound, Shape, TargetHeld, ExclusiveHeld, Serial, CensusHolds, Migrations, Lifecycles, TargetPlace, RetiringTo, Transactions
<1>6. \A q \in Others(p) : Compatible(t, tx[q]) /\ Compatible(tx[q], t)
  BY <1>1, <1>2, AtStatement DEF Compatible, Transactions, ShareSource, Shareable
<1> QED
  BY <1>1, <1>4, <1>5, <1>6, ProceedStep DEF ShareSource

LEMMA ShareTargetStep ==
  ASSUME CustodyInv, NEW p \in Processes, ShareTarget(p)
  PROVE  CustodyInv'
<1> DEFINE t == [tx[p] EXCEPT !.shares = tx[p].shares \cup {Active(p)}]
<1> DEFINE u == [t EXCEPT !.pc = tx[p].pc + 1]
<1>1. At(p, "target")
  BY DEF ShareTarget
<1>2. tx[p] \in Transactions /\ tx[p].op \in Ops /\ tx[p].pc \in 1..4 /\ Sound(tx[p], ring[p])
  BY <1>1, AtStatement
<1>3. t \in Transactions /\ t.pc = tx[p].pc
  <2>1. Active(p) \in Keys
    BY <1>1, AtStatement
  <2> QED
    BY <1>2, <2>1 DEF ShareTarget, Transactions, Optional, Sound, Shape
<1>4. tx[p].pc = TargetPlace(tx[p].op)
  BY <1>1, AtStatement, ProgramPlaces
<1>5. Sound(u, ring[p])
  BY <1>2, <1>4
  DEF ShareTarget, Sound, Shape, TargetHeld, ExclusiveHeld, Serial, CensusHolds, Lifecycles, TargetPlace, ExclusivePlace, Active, Writable, Transactions
<1>6. \A q \in Others(p) : Compatible(t, tx[q]) /\ Compatible(tx[q], t)
  BY <1>1, <1>2, AtStatement DEF Compatible, Transactions, ShareTarget, Shareable
<1> QED
  BY <1>1, <1>3, <1>5, <1>6, ProceedStep DEF ShareTarget

LEMMA InsertTargetStep ==
  ASSUME CustodyInv, NEW p \in Processes, InsertTarget(p)
  PROVE  CustodyInv'
<1> DEFINE t == [tx[p] EXCEPT !.exclusive = Active(p)]
<1> DEFINE u == [t EXCEPT !.pc = tx[p].pc + 1]
<1>1. At(p, "target")
  BY DEF InsertTarget
<1>2. tx[p] \in Transactions /\ tx[p].op \in Ops /\ tx[p].pc \in 1..4 /\ Sound(tx[p], ring[p])
  BY <1>1, AtStatement
<1>3. t \in Transactions /\ t.pc = tx[p].pc
  <2>1. Active(p) \in Keys
    BY <1>1, AtStatement
  <2> QED
    BY <1>2, <2>1 DEF InsertTarget, Transactions, Optional, Sound, Shape
<1>4. tx[p].pc = TargetPlace(tx[p].op)
  BY <1>1, AtStatement, ProgramPlaces
<1>5. Sound(u, ring[p])
  BY <1>2, <1>4
  DEF InsertTarget, Sound, Shape, TargetHeld, ExclusiveHeld, Serial, CensusHolds, Attesting, Lifecycles, TargetPlace, Active, Transactions
<1>6. \A q \in Others(p) : Compatible(t, tx[q]) /\ Compatible(tx[q], t)
  <2>1. \A q \in Others(p) : q \in Processes /\ Open(q) /\ Sound(tx[q], ring[q])
    BY DEF CustodyInv, Transacting, Others
  <2>2. \A q \in Others(p) : Active(p) \notin tx[q].shares
    BY <2>1 DEF Sound, Shape, InsertTarget
  <2>3. \A q \in Others(p) : Compatible(tx[p], tx[q]) /\ Compatible(tx[q], tx[p])
    BY <1>1, AtStatement
  <2>4. registry[Active(p)] = None /\ \A q \in Others(p) : tx[q].exclusive # Active(p)
    BY DEF InsertTarget, Shareable
  <2> QED
    BY <1>2, <2>1, <2>2, <2>3, <2>4 DEF Compatible, Transactions
<1> QED
  BY <1>1, <1>3, <1>5, <1>6, ProceedStep DEF InsertTarget

LEMMA LockRetiringStep ==
  ASSUME CustodyInv, NEW p \in Processes, LockRetiring(p)
  PROVE  CustodyInv'
<1> DEFINE t == [tx[p] EXCEPT !.exclusive = tx[p].key]
<1> DEFINE u == [t EXCEPT !.pc = tx[p].pc + 1]
<1>1. At(p, "exclusive")
  BY DEF LockRetiring
<1>2. tx[p] \in Transactions /\ tx[p].op \in Ops /\ tx[p].pc \in 1..4 /\ Sound(tx[p], ring[p])
  BY <1>1, AtStatement
<1>3. t \in Transactions /\ t.pc = tx[p].pc
  <2>1. Active(p) \in Keys
    BY <1>1, AtStatement
  <2> QED
    BY <1>2, <2>1 DEF LockRetiring, Transactions, Optional, Sound, Shape
<1>4. tx[p].op \in Lifecycles /\ tx[p].pc = ExclusivePlace(tx[p].op)
  BY <1>1, AtStatement, ProgramPlaces
<1>5. Sound(u, ring[p])
  BY <1>2, <1>4
  DEF LockRetiring, Sound, Shape, TargetHeld, ExclusiveHeld, Serial, CensusHolds, Lifecycles, Migrations, Attesting, TargetPlace, ExclusivePlace, Active, Transactions
<1>6. \A q \in Others(p) : Compatible(t, tx[q]) /\ Compatible(tx[q], t)
  BY <1>1, <1>2, AtStatement DEF Compatible, Transactions, LockRetiring, Lockable, Shareable
<1> QED
  BY <1>1, <1>3, <1>5, <1>6, ProceedStep DEF LockRetiring

LEMMA CensusStep ==
  ASSUME CustodyInv, NEW p \in Processes, Census(p)
  PROVE  CustodyInv'
<1> DEFINE others ==
      {k \in Keys \ {tx[p].key} : registry[k] # None /\ registry[k].life # "retired"}
<1> DEFINE t == [tx[p] EXCEPT !.shares = tx[p].shares \cup others]
<1> DEFINE u == [t EXCEPT !.pc = tx[p].pc + 1]
<1>1. At(p, "census")
  BY DEF Census
<1>2. tx[p] \in Transactions /\ tx[p].op \in Ops /\ tx[p].pc \in 1..4 /\ Sound(tx[p], ring[p])
  BY <1>1, AtStatement
<1>3. t \in Transactions /\ t.pc = tx[p].pc
  BY <1>2 DEF Transactions, Optional
<1>4. tx[p].op \in {"rehearse", "finalize"} /\ tx[p].pc = 4 /\ tx[p].op \in Lifecycles
  BY <1>1, AtStatement, ProgramPlaces DEF Lifecycles
<1>5. Sound(u, ring[p])
  BY <1>2, <1>4
  DEF Census, Sound, Shape, TargetHeld, ExclusiveHeld, Serial, CensusHolds, Migrations, Attesting,
      TargetPlace, ExclusivePlace, Transactions
<1>6. \A q \in Others(p) : Compatible(t, tx[q]) /\ Compatible(tx[q], t)
  <2>1. \A q \in Others(p) : Compatible(tx[p], tx[q]) /\ Compatible(tx[q], tx[p])
    BY <1>1, AtStatement
  <2>2. \A q \in Others(p), k \in others : tx[q].exclusive # k
    BY DEF Census, Shareable
  <2> QED
    BY <1>2, <2>1, <2>2 DEF Compatible, Transactions
<1> QED
  BY <1>1, <1>3, <1>5, <1>6, ProceedStep DEF Census

LEMMA ClaimRowsStep ==
  ASSUME CustodyInv, NEW p \in Processes, NEW claimed \in SUBSET Envelopes, ClaimRows(p, claimed)
  PROVE  CustodyInv'
<1> DEFINE t == [tx[p] EXCEPT !.rows = claimed]
<1> DEFINE u == [t EXCEPT !.pc = tx[p].pc + 1]
<1>1. At(p, "rows")
  BY DEF ClaimRows
<1>2. tx[p] \in Transactions /\ tx[p].op \in Ops /\ tx[p].pc \in 1..4 /\ Sound(tx[p], ring[p])
  BY <1>1, AtStatement
<1>3. t \in Transactions /\ t.pc = tx[p].pc
  BY <1>2 DEF Transactions, Optional
<1>4. tx[p].op \notin Lifecycles /\ tx[p].pc # TargetPlace(tx[p].op)
  BY <1>1, AtStatement, ProgramPlaces
<1>5. Sound(u, ring[p])
  BY <1>2, <1>4
  DEF Sound, Shape, TargetHeld, ExclusiveHeld, Serial, CensusHolds, Lifecycles, TargetPlace, Transactions
<1>6. \A q \in Others(p) : Compatible(t, tx[q]) /\ Compatible(tx[q], t)
  BY <1>1, <1>2, AtStatement DEF Compatible, Transactions
<1> QED
  BY <1>1, <1>3, <1>5, <1>6, ProceedStep DEF ClaimRows

LEMMA AbortStep ==
  ASSUME CustodyInv, NEW p \in Processes, Abort(p)
  PROVE  CustodyInv'
  BY LocalStep DEF Abort, Optional

LEMMA ConfigureStep ==
  ASSUME CustodyInv, NEW p \in Processes, NEW r \in Rings, Configure(p, r)
  PROVE  CustodyInv'
<1>1. TypeOK'
  BY DEF CustodyInv, TypeOK, Configure
<1>2. \A q \in Processes : Open(q) => ring'[q] = ring[q]
  BY DEF CustodyInv, TypeOK, Configure
<1>3. Transacting'
  BY <1>2
  DEF CustodyInv, Transacting, Configure, Open, Others, Compatible, Sound, Shape, TargetHeld,
      ExclusiveHeld, Serial, CensusHolds, Writable, RowAllows, RetiringTo, NoOtherRetiring, Unreferenced
<1>4. (EnvelopesRegistered /\ RehearsalHolds /\ TargetWritable)'
  BY DEF CustodyInv, Configure, EnvelopesRegistered, RehearsalHolds, TargetWritable, Writable
<1> QED
  BY <1>1, <1>3, <1>4 DEF CustodyInv

-----------------------------------------------------------------------------
(* Commits.                                                                *)

\* What is known of a transaction that has done all its statements.
LEMMA AtCommit ==
  ASSUME CustodyInv, NEW p \in Processes, Commit(p)
  PROVE  /\ tx[p] \in Transactions /\ Open(p) /\ Sound(tx[p], ring[p])
         /\ tx[p].op \in Ops /\ Active(p) \in Keys
         /\ \A q \in Others(p) : Compatible(tx[p], tx[q]) /\ Compatible(tx[q], tx[p])
         /\ \/ Active(p) \in tx[p].shares /\ Writable(Active(p))
            \/ tx[p].op \in Attesting /\ tx[p].exclusive = Active(p)
         /\ tx[p].op \in Lifecycles =>
              /\ tx[p].exclusive = tx[p].key /\ tx[p].rows = {}
              /\ tx[p].advisory = "lifecycle" /\ NoOtherRetiring(tx[p].key)
         /\ tx[p].op \in {"rehearse", "finalize"} => Unreferenced(tx[p].key)
<1>1. tx[p] \in Transactions /\ Open(p)
  BY DEF CustodyInv, TypeOK, Commit, Open, Optional
<1>2. tx[p].op \in Ops /\ tx[p].pc \in 1..5 /\ Sound(tx[p], ring[p])
  BY <1>1 DEF Transactions, CustodyInv, Transacting
<1>3. \A q \in Others(p) : Compatible(tx[p], tx[q]) /\ Compatible(tx[q], tx[p])
  BY <1>1 DEF CustodyInv, Transacting, Others
<1>4. ring[p] \in Rings /\ Active(p) \in Keys
  BY DEF CustodyInv, TypeOK, Active
<1>5. /\ tx[p].pc > TargetPlace(tx[p].op)
      /\ tx[p].op \in Lifecycles => tx[p].pc > ExclusivePlace(tx[p].op) /\ tx[p].pc > 1
      /\ tx[p].op \in {"rehearse", "finalize"} => tx[p].pc > 4
  <2>1. tx[p].pc > Len(Program(tx[p].op))
    BY DEF Commit
  <2>2. ExclusivePlace(tx[p].op) \in 2..3 /\ TargetPlace(tx[p].op) \in 1..3
    BY DEF ExclusivePlace, TargetPlace
  <2>3. /\ Len(Program(tx[p].op)) \in 1..4
        /\ TargetPlace(tx[p].op) \in 1..Len(Program(tx[p].op))
        /\ tx[p].op \in Lifecycles => ExclusivePlace(tx[p].op) < Len(Program(tx[p].op)) + 1
        /\ tx[p].op \in {"rehearse", "finalize"} => Len(Program(tx[p].op)) = 4
    BY <1>2, ProgramLength
  <2>4. tx[p].pc > TargetPlace(tx[p].op) /\ tx[p].pc > 1
    BY <1>2, <2>1, <2>2, <2>3
  <2>5. tx[p].op \in Lifecycles => tx[p].pc > ExclusivePlace(tx[p].op)
    BY <1>2, <2>1, <2>2, <2>3
  <2>6. tx[p].op \in {"rehearse", "finalize"} => tx[p].pc > 4
    BY <1>2, <2>1, <2>3
  <2> QED
    BY <2>4, <2>5, <2>6
<1> QED
  BY <1>1, <1>2, <1>3, <1>4, <1>5 DEF Sound, TargetHeld, ExclusiveHeld, Serial, CensusHolds, Active

\* A commit changes the registry in the row it owns only: from missing to
\* writable, or forward on the way to its target.
LEMMA CommitRegistry ==
  ASSUME CustodyInv, NEW p \in Processes, Commit(p)
  PROVE  /\ \A k \in Keys : k # tx[p].exclusive => registry'[k] = registry[k]
         /\ tx[p].op \in Attesting /\ tx[p].exclusive # None =>
              /\ tx[p].exclusive = Active(p) /\ registry[Active(p)] = None
              /\ registry'[Active(p)] = Row("writable", None, FALSE)
         /\ tx[p].op \in Lifecycles =>
              /\ tx[p].exclusive = tx[p].key /\ tx[p].key \in Keys \ {Active(p)}
              /\ registry'[tx[p].key] \in Registered
              /\ registry'[tx[p].key].target = Active(p)
              /\ registry'[tx[p].key].life \in {"retiring", "retired"}
              /\ registry'[tx[p].key].life = "retired" => registry'[tx[p].key].rehearsed
              /\ registry'[tx[p].key].rehearsed =>
                   Unreferenced(tx[p].key) \/ (registry[tx[p].key] # None /\ registry[tx[p].key].rehearsed)
         /\ tx[p].op \notin Attesting \cup Lifecycles => tx[p].exclusive = None
<1> DEFINE op == tx[p].op
<1> DEFINE k == tx[p].key
<1>1. op \in Ops /\ Sound(tx[p], ring[p]) /\ Active(p) \in Keys
  BY AtCommit
<1>2. \A j \in Keys : j # tx[p].exclusive => registry'[j] = registry[j]
  BY DEF Commit
<1>3. ASSUME op \in Attesting, tx[p].exclusive # None
      PROVE  /\ tx[p].exclusive = Active(p) /\ registry[Active(p)] = None
             /\ registry'[Active(p)] = Row("writable", None, FALSE)
  <2>1. tx[p].exclusive = Active(p) /\ registry[Active(p)] = None
    BY <1>1, <1>3 DEF Sound, ExclusiveHeld, Attesting, Lifecycles, Active
  <2>2. registry'[Active(p)] = Outcome(op, Active(p), Active(p))
    BY <1>1, <2>1 DEF Commit
  <2>3. Outcome(op, Active(p), Active(p)) = Row("writable", None, FALSE)
    BY <1>1, <1>3, OutcomeOf
  <2> QED
    BY <2>1, <2>2, <2>3
<1>4. ASSUME op \in Lifecycles
      PROVE  /\ tx[p].exclusive = k /\ k \in Keys \ {Active(p)}
             /\ registry'[k] \in Registered
             /\ registry'[k].target = Active(p)
             /\ registry'[k].life \in {"retiring", "retired"}
             /\ registry'[k].life = "retired" => registry'[k].rehearsed
             /\ registry'[k].rehearsed =>
                  Unreferenced(k) \/ (registry[k] # None /\ registry[k].rehearsed)
  <2>1. tx[p].exclusive = k /\ k \in Keys \ {Active(p)}
    BY <1>1, <1>4, AtCommit DEF Sound, Shape, Active
  <2>2. RowAllows(op, k, Active(p))
    BY <1>1, <1>4, <2>1 DEF Sound, ExclusiveHeld, Attesting, Lifecycles, Active
  <2>3. registry'[k] = Outcome(op, k, Active(p))
    BY <2>1 DEF Commit
  <2>4. registry[k] \in Optional(Registered)
    BY <2>1 DEF CustodyInv, TypeOK
  <2>5. CASE op = "begin" /\ RetiringTo(k, Active(p))
    BY <1>1, <2>1, <2>3, <2>4, <2>5, OutcomeOf DEF RetiringTo, Optional, Registered
  <2>6. CASE op = "begin" /\ ~RetiringTo(k, Active(p))
    <3>1. registry'[k] = Row("retiring", Active(p), FALSE)
      BY <1>1, <2>1, <2>3, <2>6, OutcomeOf DEF Row
    <3> QED
      BY <1>1, <2>1, <3>1 DEF Row, Registered, Optional
  <2>7. CASE op = "rehearse"
    <3>1. RetiringTo(k, Active(p)) /\ Unreferenced(k)
      BY <2>2, <2>7, AtCommit DEF RowAllows
    <3>2. registry[k] \in Registered
      BY <2>4, <3>1 DEF RetiringTo, Optional
    <3>3. registry'[k] = Row("retiring", Active(p), TRUE)
      <4>1. op = "rehearse" => Outcome(op, k, Active(p)) = Row("retiring", Active(p), TRUE)
        BY <1>1, <2>1, OutcomeOf
      <4> QED
        BY <2>3, <2>7, <4>1
    <3> QED
      BY <1>1, <2>1, <3>1, <3>2, <3>3 DEF Row, Registered, Optional
  <2>8. CASE op = "finalize"
    <3>1. RetiringTo(k, Active(p)) /\ registry[k].rehearsed
      BY <2>2, <2>8 DEF RowAllows
    <3>2. registry[k] \in Registered
      BY <2>4, <3>1 DEF RetiringTo, Optional
    <3>3. registry'[k] = Row("retired", Active(p), registry[k].rehearsed)
      BY <1>1, <2>1, <2>3, <2>8, OutcomeOf
    <3> QED
      BY <1>1, <2>1, <3>1, <3>2, <3>3 DEF Row, Registered, Optional
  <2> QED
    BY <1>4, <2>5, <2>6, <2>7, <2>8 DEF Lifecycles
<1>5. op \notin Attesting \cup Lifecycles => tx[p].exclusive = None
  BY <1>1 DEF Sound, ExclusiveHeld
<1> QED
  BY <1>2, <1>3, <1>4, <1>5

\* Whatever writes envelopes finds its active key writable when it commits.
LEMMA CommitWritable ==
  ASSUME CustodyInv, NEW p \in Processes, Commit(p), tx[p].op \notin Lifecycles
  PROVE  registry'[Active(p)] # None /\ registry'[Active(p)].life = "writable"
<1>1. CASE tx[p].exclusive = None
  <2>1. Active(p) \in Keys /\ tx[p].exclusive # Active(p)
    BY <1>1, AtCommit
  <2> QED
    BY <2>1, AtCommit, CommitRegistry DEF Writable
<1>2. CASE tx[p].exclusive # None
  <2>1. Row("writable", None, FALSE) \in Registered
    BY DEF Row, Registered, Optional
  <2>2. tx[p].op \in Attesting
    BY <1>2, CommitRegistry
  <2> QED
    <3>1. registry'[Active(p)] = Row("writable", None, FALSE)
      BY <1>2, <2>2, CommitRegistry
    <3>2. registry'[Active(p)] # None
      BY <2>1, <3>1
    <3>3. Row("writable", None, FALSE).life = "writable"
      BY DEF Row
    <3> QED
      BY <3>1, <3>2, <3>3
<1> QED
  BY <1>1, <1>2

LEMMA CommitType ==
  ASSUME CustodyInv, NEW p \in Processes, Commit(p)
  PROVE  TypeOK'
<1>1. envelope' \in [Envelopes -> Optional(Keys)]
  BY AtCommit DEF Commit, CustodyInv, TypeOK, Optional
<1>2. ring' \in [Processes -> Rings] /\ tx' \in [Processes -> Optional(Transactions)]
  BY DEF Commit, CustodyInv, TypeOK, Optional
<1>3. ASSUME NEW k \in Keys
      PROVE /\ registry'[k] \in Optional(Registered)
            /\ registry'[k] # None =>
                 /\ registry'[k].life = "writable" <=> registry'[k].target = None
                 /\ registry'[k].target # k
                 /\ registry'[k].rehearsed => registry'[k].life # "writable"
                 /\ registry'[k].life = "retired" => registry'[k].rehearsed
  <2>1. CASE k # tx[p].exclusive
    <3>1. registry'[k] = registry[k]
      BY <2>1, CommitRegistry
    <3> QED
      BY <3>1 DEF CustodyInv, TypeOK
  <2>2. CASE k = tx[p].exclusive /\ tx[p].op \in Attesting
    <3>1. registry'[k] = Row("writable", None, FALSE)
      BY <2>2, CommitRegistry
    <3> QED
      BY <3>1 DEF Row, Registered, Optional
  <2>3. CASE k = tx[p].exclusive /\ tx[p].op \in Lifecycles
    <3>1. Active(p) \in Keys
      BY AtCommit
    <3>2. /\ k = tx[p].key /\ k # Active(p) /\ registry'[k] \in Registered
          /\ registry'[k].target = Active(p)
          /\ registry'[k].life \in {"retiring", "retired"}
          /\ registry'[k].life = "retired" => registry'[k].rehearsed
      BY <2>3, CommitRegistry
    <3> QED
      BY <3>1, <3>2 DEF Optional
  <2> QED
    BY <2>1, <2>2, <2>3, CommitRegistry
<1>4. registry' = [k \in Keys |-> registry'[k]]
  BY DEF Commit
<1>5. registry' \in [Keys -> Optional(Registered)]
  BY <1>3, <1>4
<1> QED
  BY <1>1, <1>2, <1>3, <1>5 DEF TypeOK

\* A commit disturbs nothing another transaction has locked or seen.
LEMMA CommitOthers ==
  ASSUME CustodyInv, NEW p \in Processes, Commit(p), NEW q \in Others(p)
  PROVE  Sound(tx[q], ring[q])'
<1>1. q \in Processes /\ Open(q) /\ tx[q] \in Transactions /\ Sound(tx[q], ring[q])
  BY DEF CustodyInv, TypeOK, Transacting, Others, Open, Optional
<1>2. tx'[q] = tx[q] /\ ring' = ring /\ q # p /\ tx[q].op \in Ops
  BY <1>1 DEF Commit, Others, CustodyInv, TypeOK, Transactions
<1>3. Compatible(tx[p], tx[q]) /\ Compatible(tx[q], tx[p])
  BY AtCommit
<1>4. \A k \in tx[q].shares \cup {tx[q].exclusive} : k \in Keys => registry'[k] = registry[k]
  <2>1. \A k \in tx[q].shares \cup {tx[q].exclusive} : k \in Keys => k # tx[p].exclusive
    BY <1>3 DEF Compatible
  <2> QED
    BY <2>1, CommitRegistry
<1>5. Active(q) \in Keys /\ tx[q].shares \subseteq Keys /\ ring[q].active = Active(q)
  BY <1>1 DEF CustodyInv, TypeOK, Active, Transactions
<1>6. Shape(tx[q], ring[q])'
  BY <1>1, <1>2, <1>4, <1>5 DEF Sound, Shape
<1>7. TargetHeld(tx[q], ring[q])'
  BY <1>1, <1>2, <1>4, <1>5 DEF Sound, TargetHeld, Writable
<1>8. ExclusiveHeld(tx[q], ring[q])'
  BY <1>1, <1>2, <1>4, <1>5
  DEF Sound, Shape, ExclusiveHeld, RowAllows, Writable, RetiringTo
<1>9. Serial(tx[q])'
  <2>1. CASE tx[q].op \notin Lifecycles \/ ~(tx[q].pc > 1)
    BY <1>1, <1>2, <2>1 DEF Sound, Serial
  <2>2. CASE tx[q].op \in Lifecycles /\ tx[q].pc > 1
    <3>1. tx[q].advisory = "lifecycle" /\ NoOtherRetiring(tx[q].key) /\ tx[q].rows = {}
      BY <1>1, <2>2 DEF Sound, Serial
    <3>2. tx[p].op \notin Lifecycles
      BY <1>3, <3>1, AtCommit DEF Compatible
    <3>3. \A j \in Keys : registry'[j] = registry[j] \/ registry'[j] = Row("writable", None, FALSE)
      BY <3>2, CommitRegistry
    <3>4. NoOtherRetiring(tx[q].key)'
      BY <1>2, <3>1, <3>3 DEF NoOtherRetiring, Row
    <3> QED
      BY <1>2, <3>1, <3>4 DEF Serial
  <2> QED
    BY <2>1, <2>2
<1>10. CensusHolds(tx[q])'
  <2>1. SUFFICES ASSUME tx[q].op \in {"rehearse", "finalize"}, tx[q].pc > 4
                 PROVE  Unreferenced(tx[q].key)'
    BY <1>2 DEF CensusHolds
  <2>2. Unreferenced(tx[q].key) /\ tx[q].op \in Lifecycles
    BY <1>1, <2>1 DEF Sound, CensusHolds, Lifecycles
  <2>3. tx[q].pc > ExclusivePlace(tx[q].op) /\ tx[q].pc > 1
    BY <1>1, <2>1 DEF ExclusivePlace, Transactions
  <2>4. tx[q].exclusive = tx[q].key /\ tx[q].key \in Keys /\ RetiringTo(tx[q].key, Active(q))
    BY <1>1, <2>1, <2>2, <2>3, <1>5 DEF Sound, Shape, ExclusiveHeld, RowAllows, Attesting, Lifecycles
  <2>5. tx[q].advisory = "lifecycle"
    BY <1>1, <2>2, <2>3 DEF Sound, Serial
  <2>6. tx[p].op \notin Lifecycles
    BY <1>3, <2>5, AtCommit DEF Compatible
  <2>7. registry'[tx[q].key] = registry[tx[q].key]
    BY <1>4, <2>4
  <2>8. Active(p) # tx[q].key
    BY <2>4, <2>6, <2>7, CommitWritable DEF RetiringTo
  <2>9. \A e \in Envelopes : envelope'[e] = envelope[e] \/ envelope'[e] = Active(p)
    BY DEF Commit
  <2> QED
    BY <1>2, <2>2, <2>8, <2>9 DEF Unreferenced
<1> QED
  BY <1>6, <1>7, <1>8, <1>9, <1>10 DEF Sound

LEMMA CommitTransacting ==
  ASSUME CustodyInv, NEW p \in Processes, Commit(p)
  PROVE  Transacting'
<1>1. \A q \in Processes : tx'[q] = IF q = p THEN None ELSE tx[q]
  BY DEF Commit, CustodyInv, TypeOK
<1>2. ASSUME NEW q \in Processes, Open(q)' PROVE Sound(tx[q], ring[q])'
  <2>1. q \in Others(p)
    BY <1>1, <1>2 DEF Open, Others
  <2> QED
    BY <2>1, CommitOthers
<1>3. ASSUME NEW q \in Processes, NEW s \in Others(q)', Open(q)'
      PROVE Compatible(tx[q], tx[s])'
  <2>1. s \in Others(q) /\ Open(q) /\ tx'[q] = tx[q] /\ tx'[s] = tx[s]
    BY <1>1, <1>3 DEF Open, Others
  <2> QED
    BY <2>1 DEF CustodyInv, Transacting, Compatible
<1> QED
  BY <1>2, <1>3 DEF Transacting

\* The registry never loses a row, and never takes back a rehearsal.
LEMMA CommitCustody ==
  ASSUME CustodyInv, NEW p \in Processes, Commit(p)
  PROVE  (EnvelopesRegistered /\ RehearsalHolds)'
<1>1. CASE tx[p].op \in Lifecycles
  <2>1. envelope' = envelope
    BY <1>1, AtCommit DEF Commit, CustodyInv, TypeOK
  <2>2. /\ tx[p].key \in Keys /\ registry'[tx[p].key] \in Registered
        /\ registry'[tx[p].key].rehearsed => Unreferenced(tx[p].key)
             \/ (registry[tx[p].key] # None /\ registry[tx[p].key].rehearsed)
        /\ \A k \in Keys : k # tx[p].key => registry'[k] = registry[k]
    BY <1>1, CommitRegistry
  <2>3. \A e \in Envelopes : envelope[e] # None => envelope[e] \in Keys
    BY DEF CustodyInv, TypeOK, Optional
  <2>4. EnvelopesRegistered'
    BY <2>1, <2>2, <2>3 DEF CustodyInv, EnvelopesRegistered
  <2>5. RehearsalHolds'
    BY <2>1, <2>2, <2>3 DEF CustodyInv, RehearsalHolds, Unreferenced
  <2> QED
    BY <2>4, <2>5
<1>2. CASE tx[p].op \notin Lifecycles
  <2>1. \A k \in Keys : registry'[k] = registry[k] \/ registry'[k] = Row("writable", None, FALSE)
    BY <1>2, CommitRegistry
  <2>2. Active(p) \in Keys /\ registry'[Active(p)] # None /\ ~registry'[Active(p)].rehearsed
    <3>1. Active(p) \in Keys /\ registry'[Active(p)] # None /\ registry'[Active(p)].life = "writable"
      BY <1>2, AtCommit, CommitWritable
    <3>2. TypeOK'
      BY CommitType
    <3> QED
      BY <3>1, <3>2 DEF TypeOK
  <2>3. \A e \in Envelopes : envelope'[e] = envelope[e] \/ envelope'[e] = Active(p)
    BY DEF Commit
  <2>4. \A e \in Envelopes : envelope[e] # None => envelope[e] \in Keys
    BY DEF CustodyInv, TypeOK, Optional
  <2>5. Row("writable", None, FALSE) # None /\ ~Row("writable", None, FALSE).rehearsed
    <3>1. Row("writable", None, FALSE) \in Registered
      BY DEF Row, Registered, Optional
    <3> QED
      BY <3>1 DEF Row
  <2> DEFINE fresh == Row("writable", None, FALSE)
  <2>6. fresh # None /\ ~fresh.rehearsed
    BY <2>5
  <2>7. \A k \in Keys : registry'[k] = registry[k] \/ registry'[k] = fresh
    BY <2>1
  <2> HIDE DEF fresh
  <2>8. EnvelopesRegistered'
    BY <2>2, <2>3, <2>4, <2>6, <2>7 DEF CustodyInv, EnvelopesRegistered
  <2>9. RehearsalHolds'
    BY <2>2, <2>3, <2>4, <2>6, <2>7 DEF CustodyInv, RehearsalHolds, EnvelopesRegistered
  <2> QED
    BY <2>8, <2>9
<1> QED
  BY <1>1, <1>2

\* A rotation starts while no other is under way, so that its target stays.
LEMMA CommitTarget ==
  ASSUME CustodyInv, NEW p \in Processes, Commit(p)
  PROVE  TargetWritable'
<1> SUFFICES ASSUME NEW k \in Keys, registry'[k] # None, registry'[k].life = "retiring"
             PROVE  Writable(registry[k].target)'
  BY DEF TargetWritable
<1>1. CASE tx[p].op \in Lifecycles
  <2>1. /\ tx[p].key \in Keys /\ tx[p].key # Active(p) /\ registry'[tx[p].key].target = Active(p)
        /\ \A j \in Keys : j # tx[p].key => registry'[j] = registry[j]
    BY <1>1, CommitRegistry
  <2>2. NoOtherRetiring(tx[p].key) /\ tx[p].op \notin Attesting /\ Active(p) \in Keys
    BY <1>1, AtCommit DEF Lifecycles, Attesting
  <2>3. Writable(Active(p))
    BY <2>2, AtCommit
  <2>4. k = tx[p].key
    BY <2>1, <2>2 DEF NoOtherRetiring
  <2> QED
    BY <2>1, <2>2, <2>3, <2>4 DEF Writable
<1>2. CASE tx[p].op \notin Lifecycles
  <2>1. ASSUME NEW j \in Keys
        PROVE  \/ registry'[j] = registry[j]
               \/ registry[j] = None /\ registry'[j] = Row("writable", None, FALSE)
    <3>1. CASE j # tx[p].exclusive
      BY <3>1, CommitRegistry
    <3>2. CASE j = tx[p].exclusive
      <4>1. tx[p].op \in Attesting /\ tx[p].exclusive # None
        BY <1>2, <3>2, CommitRegistry
      <4> QED
        BY <3>2, <4>1, CommitRegistry
    <3> QED
      BY <3>1, <3>2
  <2>2. registry'[k] = registry[k]
    BY <2>1 DEF Row
  <2>3. Writable(registry[k].target)
    BY <2>2 DEF CustodyInv, TargetWritable
  <2>4. registry[k].target \in Keys
    BY <2>2 DEF CustodyInv, TypeOK, Optional, Registered
  <2>5. registry'[registry[k].target] = registry[registry[k].target]
    BY <2>1, <2>3, <2>4 DEF Writable
  <2> QED
    BY <2>2, <2>3, <2>5 DEF Writable
<1> QED
  BY <1>1, <1>2

LEMMA CommitStep ==
  ASSUME CustodyInv, NEW p \in Processes, Commit(p)
  PROVE  CustodyInv'
  BY CommitType, CommitTransacting, CommitCustody, CommitTarget DEF CustodyInv

-----------------------------------------------------------------------------
(* Waiting. A lock is held because a statement took it, so the place of a  *)
(* transaction in its program bounds what it can hold while it waits; and  *)
(* a rotation or reseal under way waits for no insert of its target.       *)

\* The statement st of t's program is done.
Performed(t, st) == \E i \in 1..Len(Program(t.op)) : i < t.pc /\ Program(t.op)[i] = st

\* Which statement took which lock, and which rows an operation writes.
LocksTaken(t) ==
  /\ t.advisory # None => Performed(t, t.advisory)
  /\ t.shares # {} => \E st \in {"source", "target", "census"} : Performed(t, st)
  /\ t.exclusive # None => Performed(t, IF t.op \in Lifecycles THEN "exclusive" ELSE "target")
  /\ t.rows # {} => Performed(t, "rows")
  /\ t.rows \subseteq IF t.op \in {"seal", "reseal"} THEN Directs ELSE StreamKeys

\* A migration's retiring key is registered, and past the source statement it
\* still retires to the active key.
ChecksHold(t, r) ==
  /\ Performed(t, "source") => t.key \in t.shares /\ RetiringTo(t.key, r.active)
  /\ t.op = "reseal" /\ Performed(t, "rows") => registry[t.key] # None

InOrder == \A p \in Processes : Open(p) => LocksTaken(tx[p]) /\ ChecksHold(tx[p], ring[p])

WaitingInv == CustodyInv /\ InOrder

\* Which statements come after which, and in whose programs.
LEMMA ProgramOrder ==
  ASSUME NEW op \in Ops, NEW i \in 1..Len(Program(op)), NEW j \in 1..Len(Program(op)), i < j
  PROVE  /\ Program(op)[i] = "stream" => Program(op)[j] \in {"target", "rows"}
         /\ Program(op)[i] = "lifecycle" => Program(op)[j] \in {"exclusive", "target", "census"}
         /\ Program(op)[i] = "source" => op \in Migrations /\ Program(op)[j] \in {"target", "rows"}
         /\ Program(op)[i] = "target" =>
              \/ op \in {"seal", "wrap", "batch"} /\ Program(op)[j] = "rows"
              \/ op \in Lifecycles
         /\ Program(op)[i] = "exclusive" =>
              op \in {"rehearse", "finalize"} /\ Program(op)[j] \in {"target", "census"}
         /\ Program(op)[i] # "census"
         /\ Program(op)[i] = "rows" =>
              \/ op = "rewrap" /\ Program(op)[j] = "target"
              \/ op = "reseal" /\ Program(op)[j] \in {"source", "target"}
<1>1. CASE op = "attest"
  BY <1>1 DEF Program, Attesting, Migrations, Lifecycles
<1>7. CASE op = "seal"
  BY <1>7 DEF Program, Attesting, Migrations, Lifecycles
<1>8. CASE op = "wrap"
  BY <1>8 DEF Program, Attesting, Migrations, Lifecycles
<1>2. CASE op = "rewrap"
  BY <1>2 DEF Program, Attesting, Migrations, Lifecycles
<1>3. CASE op = "batch"
  BY <1>3 DEF Program, Attesting, Migrations, Lifecycles
<1>4. CASE op = "reseal"
  BY <1>4 DEF Program, Attesting, Migrations, Lifecycles
<1>5. CASE op = "begin"
  BY <1>5 DEF Program, Attesting, Migrations, Lifecycles
<1>6. CASE op \in {"rehearse", "finalize"}
  BY <1>6 DEF Program, Attesting, Migrations, Lifecycles
<1> QED
  BY <1>1, <1>2, <1>3, <1>4, <1>5, <1>6, <1>7, <1>8 DEF Ops, Attesting, Migrations, Lifecycles

\* Doing a statement adds it to what was performed, and nothing else.
LEMMA PerformedNext ==
  ASSUME NEW t \in Transactions, NEW u \in Transactions, u.op = t.op, u.pc = t.pc + 1,
         t.pc \in 1..Len(Program(t.op)), NEW st
  PROVE  Performed(u, st) <=> (Performed(t, st) \/ st = Program(t.op)[t.pc])
<1>1. t.op \in Ops /\ t.pc \in 1..5
  BY DEF Transactions
<1>2. Len(Program(t.op)) \in 1..4
  BY <1>1, ProgramLength
<1> QED
  BY <1>1, <1>2 DEF Performed

\* A statement leaves a transaction in order when what it adds is in order.
LEMMA ProceedInOrder ==
  ASSUME WaitingInv, NEW p \in Processes, NEW st, At(p, st),
         NEW t \in Transactions, t.pc = tx[p].pc, t.op = tx[p].op, Proceed(p, t),
         LocksTaken([t EXCEPT !.pc = tx[p].pc + 1]),
         ChecksHold([t EXCEPT !.pc = tx[p].pc + 1], ring[p])
  PROVE  InOrder'
<1> DEFINE u == [t EXCEPT !.pc = tx[p].pc + 1]
<1>1. tx' = [tx EXCEPT ![p] = u] /\ UNCHANGED <<ring, registry, envelope>>
  BY DEF Proceed
<1>2. tx \in [Processes -> Optional(Transactions)]
  BY DEF WaitingInv, CustodyInv, TypeOK
<1>3. \A q \in Processes : q # p => tx'[q] = tx[q]
  BY <1>1, <1>2
<1>4. tx'[p] = u
  BY <1>1, <1>2
<1> HIDE DEF u
<1>5. ASSUME NEW q \in Processes, Open(q)' PROVE LocksTaken(tx'[q]) /\ ChecksHold(tx'[q], ring[q])
  <2>1. CASE q = p
    BY <1>4, <2>1 DEF u
  <2>2. CASE q # p
    BY <1>3, <1>5, <2>2 DEF WaitingInv, InOrder, Open
  <2> QED
    BY <2>1, <2>2
<1>6. ASSUME NEW s, NEW r, ChecksHold(s, r) PROVE ChecksHold(s, r)'
  BY <1>1, <1>6 DEF ChecksHold, RetiringTo, Performed
<1> QED
  BY <1>1, <1>5, <1>6 DEF InOrder, LocksTaken, ChecksHold, RetiringTo, Performed

\* A statement keeps the order when it takes the lock it is named for.
LEMMA TakenInOrder ==
  ASSUME WaitingInv, NEW p \in Processes, NEW st, At(p, st),
         NEW t \in Transactions, t.pc = tx[p].pc, t.op = tx[p].op, t.key = tx[p].key,
         t.advisory # tx[p].advisory => t.advisory = st,
         tx[p].shares \subseteq t.shares,
         t.shares # tx[p].shares => st \in {"source", "target", "census"},
         t.exclusive # tx[p].exclusive => st = IF t.op \in Lifecycles THEN "exclusive" ELSE "target",
         t.rows # tx[p].rows =>
           st = "rows" /\ t.rows \subseteq IF t.op \in {"seal", "reseal"} THEN Directs ELSE StreamKeys,
         st = "source" => t.key \in t.shares /\ RetiringTo(t.key, Active(p)),
         st = "rows" /\ t.op = "reseal" => registry[t.key] # None,
         Proceed(p, t)
  PROVE  InOrder'
<1> DEFINE u == [t EXCEPT !.pc = tx[p].pc + 1]
<1>1. /\ tx[p] \in Transactions /\ Open(p) /\ tx[p].pc \in 1..4
      /\ tx[p].pc \in 1..Len(Program(tx[p].op)) /\ Program(tx[p].op)[tx[p].pc] = st
  BY AtStatement DEF WaitingInv
<1>2. /\ u \in Transactions /\ u.op = tx[p].op /\ u.pc = tx[p].pc + 1 /\ u.key = t.key
      /\ u.advisory = t.advisory /\ u.shares = t.shares /\ u.exclusive = t.exclusive /\ u.rows = t.rows
  BY <1>1 DEF Transactions
<1>3. LocksTaken(tx[p]) /\ ChecksHold(tx[p], ring[p])
  BY <1>1 DEF WaitingInv, InOrder
<1> HIDE DEF u
<1>4. \A s : Performed(u, s) <=> (Performed(tx[p], s) \/ s = st)
  BY <1>1, <1>2, PerformedNext
<1>5. LocksTaken(u)
  <2>1. u.advisory # None => Performed(u, u.advisory)
    BY <1>2, <1>3, <1>4 DEF LocksTaken
  <2>2. u.shares # {} => \E s \in {"source", "target", "census"} : Performed(u, s)
    BY <1>2, <1>3, <1>4 DEF LocksTaken
  <2>3. u.exclusive # None => Performed(u, IF u.op \in Lifecycles THEN "exclusive" ELSE "target")
    BY <1>2, <1>3, <1>4 DEF LocksTaken
  <2>4. /\ u.rows # {} => Performed(u, "rows")
        /\ u.rows \subseteq IF u.op \in {"seal", "reseal"} THEN Directs ELSE StreamKeys
    BY <1>2, <1>3, <1>4 DEF LocksTaken
  <2> QED
    BY <2>1, <2>2, <2>3, <2>4 DEF LocksTaken
<1>6. ChecksHold(u, ring[p])
  BY <1>2, <1>3, <1>4 DEF ChecksHold, Active
<1> QED
  BY <1>5, <1>6, ProceedInOrder DEF u

LEMMA LocksInOrder ==
  ASSUME WaitingInv, NEW p \in Processes,
         LockStream(p) \/ LockLifecycle(p) \/ LockRetiring(p)
  PROVE  InOrder'
<1>1. CASE LockStream(p)
  <2> DEFINE t == [tx[p] EXCEPT !.advisory = "stream"]
  <2>1. At(p, "stream") /\ tx[p] \in Transactions
    BY <1>1, AtStatement DEF LockStream, WaitingInv
  <2>2. /\ t \in Transactions /\ t.pc = tx[p].pc /\ t.op = tx[p].op /\ t.key = tx[p].key
        /\ t.advisory = "stream" /\ t.shares = tx[p].shares
        /\ t.exclusive = tx[p].exclusive /\ t.rows = tx[p].rows
    BY <2>1 DEF Transactions, Optional
  <2>3. Proceed(p, t)
    BY <1>1 DEF LockStream
  <2> HIDE DEF t
  <2> QED
    BY <2>1, <2>2, <2>3, TakenInOrder
<1>2. CASE LockLifecycle(p)
  <2> DEFINE t == [tx[p] EXCEPT !.advisory = "lifecycle"]
  <2>1. At(p, "lifecycle") /\ tx[p] \in Transactions
    BY <1>2, AtStatement DEF LockLifecycle, WaitingInv
  <2>2. /\ t \in Transactions /\ t.pc = tx[p].pc /\ t.op = tx[p].op /\ t.key = tx[p].key
        /\ t.advisory = "lifecycle" /\ t.shares = tx[p].shares
        /\ t.exclusive = tx[p].exclusive /\ t.rows = tx[p].rows
    BY <2>1 DEF Transactions, Optional
  <2>3. Proceed(p, t)
    BY <1>2 DEF LockLifecycle
  <2> HIDE DEF t
  <2> QED
    BY <2>1, <2>2, <2>3, TakenInOrder
<1>3. CASE LockRetiring(p)
  <2> DEFINE t == [tx[p] EXCEPT !.exclusive = tx[p].key]
  <2>1. /\ At(p, "exclusive") /\ tx[p] \in Transactions /\ tx[p].op \in Lifecycles
        /\ tx[p].key \in Optional(Keys)
    <3>1. At(p, "exclusive")
      BY <1>3 DEF LockRetiring
    <3>2. tx[p] \in Transactions /\ tx[p].op \in Lifecycles
      BY <3>1, AtStatement, ProgramPlaces DEF WaitingInv
    <3> QED
      BY <3>1, <3>2 DEF Transactions
  <2>2. /\ t \in Transactions /\ t.pc = tx[p].pc /\ t.op = tx[p].op /\ t.key = tx[p].key
        /\ t.advisory = tx[p].advisory /\ t.shares = tx[p].shares /\ t.rows = tx[p].rows
    BY <2>1 DEF Transactions
  <2>3. Proceed(p, t)
    BY <1>3 DEF LockRetiring
  <2> HIDE DEF t
  <2> QED
    BY <2>1, <2>2, <2>3, TakenInOrder
<1> QED
  BY <1>1, <1>2, <1>3

LEMMA SharesInOrder ==
  ASSUME WaitingInv, NEW p \in Processes,
         ShareSource(p) \/ ShareTarget(p) \/ InsertTarget(p) \/ Census(p)
  PROVE  InOrder'
<1>1. CASE ShareSource(p)
  <2> DEFINE t == [tx[p] EXCEPT !.shares = tx[p].shares \cup {tx[p].key}]
  <2>1. At(p, "source") /\ tx[p] \in Transactions /\ tx[p].key \in Keys
    <3>1. At(p, "source")
      BY <1>1 DEF ShareSource
    <3>2. tx[p] \in Transactions /\ tx[p].op \in Migrations /\ Sound(tx[p], ring[p])
      BY <3>1, AtStatement, ProgramPlaces DEF WaitingInv
    <3> QED
      BY <3>1, <3>2 DEF Sound, Shape
  <2>2. /\ t \in Transactions /\ t.pc = tx[p].pc /\ t.op = tx[p].op /\ t.key = tx[p].key
        /\ t.advisory = tx[p].advisory /\ t.shares = tx[p].shares \cup {tx[p].key}
        /\ t.exclusive = tx[p].exclusive /\ t.rows = tx[p].rows
    BY <2>1 DEF Transactions
  <2>3. Proceed(p, t) /\ RetiringTo(tx[p].key, Active(p))
    BY <1>1 DEF ShareSource
  <2> HIDE DEF t
  <2> QED
    BY <2>1, <2>2, <2>3, TakenInOrder
<1>2. CASE ShareTarget(p)
  <2> DEFINE t == [tx[p] EXCEPT !.shares = tx[p].shares \cup {Active(p)}]
  <2>1. At(p, "target") /\ tx[p] \in Transactions /\ Active(p) \in Keys
    BY <1>2, AtStatement DEF ShareTarget, WaitingInv
  <2>2. /\ t \in Transactions /\ t.pc = tx[p].pc /\ t.op = tx[p].op /\ t.key = tx[p].key
        /\ t.advisory = tx[p].advisory /\ tx[p].shares \subseteq t.shares
        /\ t.exclusive = tx[p].exclusive /\ t.rows = tx[p].rows
    BY <2>1 DEF Transactions
  <2>3. Proceed(p, t)
    BY <1>2 DEF ShareTarget
  <2> HIDE DEF t
  <2> QED
    BY <2>1, <2>2, <2>3, TakenInOrder
<1>3. CASE InsertTarget(p)
  <2> DEFINE t == [tx[p] EXCEPT !.exclusive = Active(p)]
  <2>1. At(p, "target") /\ tx[p] \in Transactions /\ Active(p) \in Keys /\ tx[p].op \in Attesting
    BY <1>3, AtStatement DEF InsertTarget, WaitingInv
  <2>2. /\ t \in Transactions /\ t.pc = tx[p].pc /\ t.op = tx[p].op /\ t.key = tx[p].key
        /\ t.advisory = tx[p].advisory /\ t.shares = tx[p].shares /\ t.rows = tx[p].rows
    BY <2>1 DEF Transactions, Optional
  <2>3. Proceed(p, t) /\ tx[p].op \notin Lifecycles
    BY <1>3, <2>1 DEF InsertTarget, Attesting, Lifecycles
  <2> HIDE DEF t
  <2> QED
    BY <2>1, <2>2, <2>3, TakenInOrder
<1>4. CASE Census(p)
  <2> DEFINE others == {k \in Keys \ {tx[p].key} : registry[k] # None /\ registry[k].life # "retired"}
  <2> DEFINE t == [tx[p] EXCEPT !.shares = tx[p].shares \cup others]
  <2>1. At(p, "census") /\ tx[p] \in Transactions
    BY <1>4, AtStatement DEF Census, WaitingInv
  <2>2. /\ t \in Transactions /\ t.pc = tx[p].pc /\ t.op = tx[p].op /\ t.key = tx[p].key
        /\ t.advisory = tx[p].advisory /\ tx[p].shares \subseteq t.shares
        /\ t.exclusive = tx[p].exclusive /\ t.rows = tx[p].rows
    BY <2>1 DEF Transactions
  <2>3. Proceed(p, t)
    BY <1>4 DEF Census
  <2> HIDE DEF t
  <2> QED
    BY <2>1, <2>2, <2>3, TakenInOrder
<1> QED
  BY <1>1, <1>2, <1>3, <1>4

\* The rows an operation claims are of its kind; a reseal finds some under its
\* retiring key, which is therefore registered.
LEMMA RowsInOrder ==
  ASSUME WaitingInv, NEW p \in Processes, NEW claimed \in SUBSET Envelopes, ClaimRows(p, claimed)
  PROVE  InOrder'
<1> DEFINE t == [tx[p] EXCEPT !.rows = claimed]
<1>1. At(p, "rows")
  BY DEF ClaimRows
<1>2. tx[p] \in Transactions /\ tx[p].op \in Ops \ Lifecycles /\ tx[p].op # "attest"
  <2>1. CustodyInv
    BY DEF WaitingInv
  <2>2. tx[p] \in Transactions /\ tx[p].op \in Ops \ Lifecycles
    BY <1>1, <2>1, AtStatement, ProgramPlaces
  <2>3. tx[p].op # "attest"
    BY <1>1 DEF At, Program
  <2> QED
    BY <2>2, <2>3
<1>3. /\ t \in Transactions /\ t.pc = tx[p].pc /\ t.op = tx[p].op /\ t.key = tx[p].key
      /\ t.advisory = tx[p].advisory /\ t.shares = tx[p].shares
      /\ t.exclusive = tx[p].exclusive /\ t.rows = claimed
  BY <1>2 DEF Transactions
<1>4. Proceed(p, t)
  BY DEF ClaimRows
<1>5. claimed \subseteq IF t.op \in {"seal", "reseal"} THEN Directs ELSE StreamKeys
  <2>1. tx[p].op \in {"seal", "wrap", "rewrap", "batch", "reseal"}
    BY <1>2 DEF Ops, Attesting, Migrations, Lifecycles
  <2>2. CASE tx[p].op \in {"seal", "wrap", "rewrap"}
    BY <1>3, <2>2 DEF ClaimRows
  <2>3. CASE tx[p].op \in Migrations
    BY <1>3, <2>3 DEF ClaimRows, Claimable, Migrations
  <2> QED
    BY <2>1, <2>2, <2>3 DEF Migrations
<1>6. t.op = "reseal" => registry[t.key] # None
  <2> SUFFICES ASSUME tx[p].op = "reseal" PROVE registry[tx[p].key] # None
    BY <1>3
  <2>1. PICK e \in claimed : envelope[e] = tx[p].key
    BY DEF ClaimRows, Claimable, Migrations
  <2>2. tx[p].key \in Keys
    BY <1>1, AtStatement DEF Sound, Shape, Migrations, WaitingInv
  <2> QED
    BY <2>1, <2>2 DEF WaitingInv, CustodyInv, EnvelopesRegistered
<1> HIDE DEF t
<1> QED
  BY <1>1, <1>3, <1>4, <1>5, <1>6, TakenInOrder

\* A transaction that starts has performed nothing and holds nothing.
LEMMA StartInOrder ==
  ASSUME WaitingInv, NEW p \in Processes, NEW op \in Ops, NEW key \in Optional(Keys), Start(p, op, key)
  PROVE  InOrder'
<1> DEFINE t == [op |-> op, key |-> key, pc |-> 1, advisory |-> None,
                 shares |-> {}, exclusive |-> None, rows |-> {}]
<1>1. tx' = [tx EXCEPT ![p] = t] /\ UNCHANGED <<ring, registry, envelope>>
  BY DEF Start
<1>2. \A st : ~Performed(t, st)
  BY DEF Performed
<1>3. LocksTaken(t) /\ ChecksHold(t, ring[p])
  BY <1>2 DEF LocksTaken, ChecksHold
<1>4. tx'[p] = t /\ \A q \in Processes : q # p => tx'[q] = tx[q]
  BY <1>1 DEF WaitingInv, CustodyInv, TypeOK
<1> HIDE DEF t
<1>5. ASSUME NEW q \in Processes, Open(q)' PROVE LocksTaken(tx'[q]) /\ ChecksHold(tx'[q], ring[q])
  BY <1>3, <1>4, <1>5 DEF WaitingInv, InOrder, Open
<1> QED
  BY <1>1, <1>5 DEF InOrder, LocksTaken, ChecksHold, RetiringTo, Performed

\* A commit or an abort takes nothing from the others: the rows they share stay
\* and no registry row disappears.
LEMMA EndInOrder ==
  ASSUME WaitingInv, NEW p \in Processes, Commit(p) \/ Abort(p)
  PROVE  InOrder'
<1>1. /\ UNCHANGED ring /\ tx'[p] = None
      /\ \A q \in Processes : q # p => tx'[q] = tx[q]
  BY DEF WaitingInv, CustodyInv, TypeOK, Commit, Abort
<1>2. ASSUME NEW q \in Processes, Open(q)'
      PROVE  /\ q \in Others(p) /\ tx'[q] = tx[q] /\ tx[q] \in Transactions
             /\ LocksTaken(tx[q]) /\ ChecksHold(tx[q], ring[q])
             /\ Sound(tx[q], ring[q])
  BY <1>1, <1>2 DEF WaitingInv, InOrder, Open, Others, CustodyInv, TypeOK, Optional, Transacting
<1>3. \A k \in Keys : registry[k] # None => registry'[k] # None
  <2>1. CASE Abort(p)
    BY <2>1 DEF Abort
  <2>2. CASE Commit(p)
    <3> SUFFICES ASSUME NEW k \in Keys, registry[k] # None PROVE registry'[k] # None
      OBVIOUS
    <3>1. CASE k # tx[p].exclusive
      BY <2>2, <3>1, CommitRegistry DEF WaitingInv
    <3>2. CASE k = tx[p].exclusive
      <4>1. tx[p].op \in Lifecycles
        BY <2>2, <3>2, CommitRegistry DEF WaitingInv
      <4>2. registry'[k] \in Registered
        BY <2>2, <3>2, <4>1, CommitRegistry DEF WaitingInv
      <4> QED
        BY <4>2
    <3> QED
      BY <3>1, <3>2
  <2> QED
    BY <2>1, <2>2
<1>4. ASSUME NEW q \in Others(p), NEW k \in tx[q].shares, k \in Keys PROVE registry'[k] = registry[k]
  <2>1. CASE Abort(p)
    BY <2>1 DEF Abort
  <2>2. CASE Commit(p)
    <3>1. k # tx[p].exclusive
      BY <1>4, <2>2, AtCommit DEF WaitingInv, Compatible
    <3> QED
      BY <1>4, <2>2, <3>1, CommitRegistry DEF WaitingInv
  <2> QED
    BY <2>1, <2>2
<1>5. ASSUME NEW q \in Processes, Open(q)' PROVE ChecksHold(tx[q], ring[q])'
  <2>1. Performed(tx[q], "source") => tx[q].key \in tx[q].shares /\ RetiringTo(tx[q].key, ring[q].active)'
    BY <1>1, <1>2, <1>4, <1>5 DEF ChecksHold, RetiringTo, Transactions
  <2>2. tx[q].op = "reseal" => tx[q].key \in Keys
    BY <1>2, <1>5 DEF Sound, Shape, Migrations
  <2> QED
    BY <1>1, <1>2, <1>3, <1>5, <2>1, <2>2 DEF ChecksHold, Performed, RetiringTo
<1>6. ASSUME NEW q \in Processes, Open(q)' PROVE LocksTaken(tx[q])'
  BY <1>2, <1>6 DEF LocksTaken, Performed
<1> QED
  BY <1>5, <1>6 DEF InOrder

LEMMA ConfigureInOrder ==
  ASSUME WaitingInv, NEW p \in Processes, NEW r \in Rings, Configure(p, r)
  PROVE  InOrder'
<1>1. \A q \in Processes : Open(q) => ring'[q] = ring[q]
  BY DEF WaitingInv, CustodyInv, TypeOK, Configure
<1> QED
  BY <1>1 DEF WaitingInv, InOrder, Configure, Open, LocksTaken, ChecksHold, Performed, RetiringTo

-----------------------------------------------------------------------------
(* Nobody waits forever: if everything open waited, no statement could be  *)
(* the one anything waits at, taken in the order in which locks are held.  *)

\* What an open transaction that waits is at, holds and has seen.
LEMMA WaitingAt ==
  ASSUME WaitingInv, NEW p \in Processes, Waits(p)
  PROVE  /\ tx[p] \in Transactions /\ Open(p) /\ tx[p].op \in Ops
         /\ Sound(tx[p], ring[p]) /\ LocksTaken(tx[p]) /\ ChecksHold(tx[p], ring[p])
         /\ \A q \in Others(p) : Compatible(tx[p], tx[q]) /\ Compatible(tx[q], tx[p])
         /\ Active(p) \in Keys
         /\ \E st \in {"stream", "lifecycle", "source", "target", "exclusive", "census", "rows"} :
              At(p, st) /\ (st = "rows" => tx[p].op \in {"seal", "rewrap"})
<1>1. \E st \in {"stream", "lifecycle", "source", "target", "exclusive", "census", "rows"} :
         At(p, st) /\ (st = "rows" => tx[p].op \in {"seal", "rewrap"})
  BY DEF Waits
<1> QED
  BY <1>1, AtStatement DEF WaitingInv, InOrder

\* Where a waiting transaction can be that has taken a lock at statement st.
LEMMA WaitingAfter ==
  ASSUME WaitingInv, NEW q \in Processes, Waits(q)
  PROVE  /\ Performed(tx[q], "stream") => At(q, "target") \/ At(q, "rows")
         /\ Performed(tx[q], "lifecycle") => At(q, "exclusive") \/ At(q, "target") \/ At(q, "census")
         /\ Performed(tx[q], "source") => At(q, "target")
         /\ Performed(tx[q], "target") =>
              (At(q, "rows") /\ tx[q].op = "seal") \/ tx[q].op \in Lifecycles
         /\ Performed(tx[q], "exclusive") =>
              tx[q].op \in {"rehearse", "finalize"} /\ (At(q, "target") \/ At(q, "census"))
         /\ ~Performed(tx[q], "census")
         /\ Performed(tx[q], "rows") =>
              \/ tx[q].op = "rewrap" /\ At(q, "target")
              \/ tx[q].op = "reseal" /\ (At(q, "source") \/ At(q, "target"))
<1> DEFINE op == tx[q].op
           j == tx[q].pc
<1>1. PICK st : At(q, st) /\ (st = "rows" => op \in {"seal", "rewrap"})
  BY WaitingAt
<1>2. op \in Ops /\ j \in 1..Len(Program(op)) /\ Program(op)[j] = st /\ Open(q)
  BY <1>1, WaitingAt DEF At
<1>3. \A s : At(q, s) <=> s = st
  BY <1>2 DEF At
<1>4. ASSUME NEW s, Performed(tx[q], s)
      PROVE  \E i \in 1..Len(Program(op)) : i < j /\ Program(op)[i] = s
  BY <1>4 DEF Performed
<1>5. op \in Migrations => op \notin {"seal", "rewrap"}
  BY DEF Migrations
<1>6. /\ Performed(tx[q], "stream") => st \in {"target", "rows"}
      /\ Performed(tx[q], "lifecycle") => st \in {"exclusive", "target", "census"}
  BY <1>2, <1>4, ProgramOrder
<1>7. Performed(tx[q], "source") => op \in Migrations /\ st \in {"target", "rows"}
  BY <1>2, <1>4, ProgramOrder
<1>8. Performed(tx[q], "target") => (op \in {"seal", "wrap", "batch"} /\ st = "rows") \/ op \in Lifecycles
  BY <1>2, <1>4, ProgramOrder
<1>9. /\ Performed(tx[q], "exclusive") => op \in {"rehearse", "finalize"} /\ st \in {"target", "census"}
      /\ ~Performed(tx[q], "census")
  BY <1>2, <1>4, ProgramOrder
<1>10. Performed(tx[q], "rows") =>
         \/ op = "rewrap" /\ st = "target"
         \/ op = "reseal" /\ st \in {"source", "target"}
  BY <1>2, <1>4, ProgramOrder
<1> QED
  BY <1>1, <1>3, <1>5, <1>6, <1>7, <1>8, <1>9, <1>10

\* Who owns a registered row is an operation of the operator past its lock of
\* it: an insert owns a row that is not registered yet.
LEMMA OwnerOfRegistered ==
  ASSUME WaitingInv, NEW q \in Processes, Open(q), NEW k \in Keys,
         tx[q].exclusive = k, registry[k] # None
  PROVE  /\ tx[q].op \in Lifecycles /\ Performed(tx[q], "exclusive")
         /\ tx[q].pc > 1 /\ tx[q].advisory = "lifecycle"
<1>1. /\ tx[q] \in Transactions /\ tx[q].op \in Ops /\ tx[q].pc \in 1..5
      /\ Sound(tx[q], ring[q]) /\ LocksTaken(tx[q])
  BY DEF WaitingInv, InOrder, CustodyInv, TypeOK, Transacting, Transactions, Open, Optional
<1>2. tx[q].op \in Lifecycles /\ Performed(tx[q], "exclusive")
  BY <1>1 DEF Sound, ExclusiveHeld, LocksTaken
<1>3. tx[q].pc > 1
  BY <1>1, <1>2, ProgramLength DEF Performed
<1> QED
  BY <1>1, <1>2, <1>3 DEF Sound, Serial

\* A rotation that has locked its key's row waits for nobody: its target is
\* registered, so nobody inserts it, and there is no other rotation.
LEMMA RotationRuns ==
  ASSUME WaitingInv, NEW p \in Processes, Performed(tx[p], "exclusive")
  PROVE  ~Waits(p)
<1> SUFFICES ASSUME Waits(p) PROVE FALSE
  OBVIOUS
<1>1. tx[p].op \in {"rehearse", "finalize"} /\ (At(p, "target") \/ At(p, "census"))
  BY WaitingAfter
<1>2. /\ tx[p] \in Transactions /\ tx[p].op \in Ops /\ tx[p].op \in Lifecycles
      /\ Sound(tx[p], ring[p]) /\ Active(p) \in Keys /\ tx[p].pc \in 1..5
      /\ \A q \in Others(p) : Compatible(tx[p], tx[q])
  BY <1>1, WaitingAt DEF Lifecycles, Transactions
<1>3. tx[p].pc > ExclusivePlace(tx[p].op) /\ tx[p].pc > 1
  BY <1>2, ProgramPlaces, ProgramLength DEF Performed
<1>4. /\ tx[p].advisory = "lifecycle" /\ tx[p].key \in Keys /\ tx[p].exclusive = tx[p].key
      /\ RowAllows(tx[p].op, tx[p].key, Active(p))
  BY <1>2, <1>3 DEF Sound, Shape, Serial, ExclusiveHeld, Attesting, Lifecycles, Active
<1>5. Writable(Active(p))
  BY <1>1, <1>4 DEF RowAllows, RetiringTo, WaitingInv, CustodyInv, TargetWritable
<1>6. ASSUME NEW k \in Keys, registry[k] # None PROVE Shareable(k, p)
  <2> SUFFICES ASSUME NEW q \in Others(p), tx[q].exclusive = k PROVE FALSE
    BY DEF Shareable
  <2>1. tx[q].advisory = "lifecycle"
    BY <1>6, OwnerOfRegistered DEF Others
  <2> QED
    BY <1>2, <1>4, <2>1 DEF Compatible
<1>7. Shareable(Active(p), p)
  BY <1>2, <1>5, <1>6 DEF Writable
<1> QED
  BY <1>1, <1>6, <1>7 DEF Waits, At

\* If everything open waits: no reseal is open, because the key it moves rows
\* off and the key it moves them to are registered.
LEMMA NoReseal ==
  ASSUME WaitingInv, \A q \in Processes : Open(q) => Waits(q),
         NEW p \in Processes, Open(p)
  PROVE  tx[p].op # "reseal"
<1> SUFFICES ASSUME tx[p].op = "reseal" PROVE FALSE
  OBVIOUS
<1>1. ASSUME NEW k \in Keys, registry[k] # None PROVE Shareable(k, p)
  BY <1>1, OwnerOfRegistered, RotationRuns DEF Shareable, Others
<1>2. /\ tx[p] \in Transactions /\ tx[p].op \in Ops /\ tx[p].pc \in 1..5
      /\ Sound(tx[p], ring[p]) /\ ChecksHold(tx[p], ring[p]) /\ Active(p) \in Keys
  BY WaitingAt DEF Transactions
<1>3. tx[p].key \in Keys
  BY <1>2 DEF Sound, Shape, Migrations
<1>4. Program(tx[p].op) = <<"rows", "source", "target">>
  BY DEF Program
<1>5. PICK st : At(p, st) /\ st \in {"source", "target"}
  <2>1. Program("reseal") = <<"rows", "source", "target">>
    BY DEF Program
  <2> QED
    BY <2>1, WaitingAt DEF At
<1>6. CASE st = "source"
  <2>1. Performed(tx[p], "rows")
    BY <1>2, <1>4, <1>5, <1>6 DEF At, Performed
  <2>2. Shareable(tx[p].key, p)
    BY <1>1, <1>2, <1>3, <2>1 DEF ChecksHold
  <2> QED
    BY <1>5, <1>6, <2>2 DEF Waits, At
<1>7. CASE st = "target"
  <2>1. Performed(tx[p], "source")
    BY <1>2, <1>4, <1>5, <1>7 DEF At, Performed
  <2>2. Writable(Active(p))
    BY <1>2, <1>3, <2>1 DEF ChecksHold, RetiringTo, Active, WaitingInv, CustodyInv, TargetWritable
  <2>3. Shareable(Active(p), p)
    BY <1>1, <1>2, <2>2 DEF Writable
  <2> QED
    BY <1>5, <1>7, <2>3 DEF Waits, At
<1> QED
  BY <1>5, <1>6, <1>7

\* ... no seal waits for a column, which only a reseal can keep waiting, and so
\* nobody who waits owns a registry row.
LEMMA NoOwner ==
  ASSUME WaitingInv, \A q \in Processes : Open(q) => Waits(q),
         NEW p \in Processes, Open(p)
  PROVE  /\ At(p, "rows") => tx[p].op # "seal"
         /\ tx[p].exclusive = None
<1>1. ASSUME NEW q \in Processes, At(q, "rows"), tx[q].op = "seal" PROVE FALSE
  <2>1. Open(q) /\ Waits(q)
    BY <1>1 DEF At
  <2>2. \A d \in Directs : ~RowFree(d, q)
    BY <1>1, <2>1 DEF Waits, At
  <2>3. PICK d \in Directs : TRUE
    BY DirectsAssumption
  <2>4. PICK s \in Others(q) : d \in tx[s].rows
    BY <2>2, <2>3 DEF RowFree
  <2>5. s \in Processes /\ Open(s) /\ Waits(s) /\ LocksTaken(tx[s])
    BY <2>4, WaitingAt DEF Others
  <2>6. Performed(tx[s], "rows")
    BY <2>4, <2>5 DEF LocksTaken
  <2>7. tx[s].op = "rewrap"
    BY <2>5, <2>6, WaitingAfter, NoReseal
  <2> QED
    BY <2>3, <2>4, <2>5, <2>7 DEF LocksTaken
<1>2. tx[p].exclusive = None
  <2> SUFFICES ASSUME tx[p].exclusive # None PROVE FALSE
    OBVIOUS
  <2>1. Waits(p) /\ LocksTaken(tx[p])
    BY WaitingAt
  <2>2. CASE tx[p].op \in Lifecycles
    BY <2>1, <2>2, RotationRuns DEF LocksTaken
  <2>3. CASE tx[p].op \notin Lifecycles
    BY <1>1, <2>1, <2>3, WaitingAfter DEF LocksTaken
  <2> QED
    BY <2>2, <2>3
<1> QED
  BY <1>1, <1>2

\* ... so that nobody waits to share a row,
LEMMA NoSharer ==
  ASSUME WaitingInv, \A q \in Processes : Open(q) => Waits(q),
         NEW p \in Processes, Open(p)
  PROVE  ~At(p, "source") /\ ~At(p, "target") /\ ~At(p, "census")
<1>1. ASSUME NEW k \in Keys PROVE Shareable(k, p)
  BY NoOwner DEF Shareable, Others
<1>2. Waits(p) /\ Active(p) \in Keys /\ Sound(tx[p], ring[p]) /\ tx[p].op \in Ops
  BY WaitingAt
<1>3. At(p, "source") => tx[p].key \in Keys
  BY <1>2, ProgramPlaces DEF At, Sound, Shape
<1> QED
  BY <1>1, <1>2, <1>3 DEF Waits, At

\* ... nobody to lock one or for the envelopes of the stream,
LEMMA NoLocker ==
  ASSUME WaitingInv, \A q \in Processes : Open(q) => Waits(q),
         NEW p \in Processes, Open(p)
  PROVE  ~At(p, "exclusive") /\ ~At(p, "rows")
<1>1. /\ Waits(p) /\ Sound(tx[p], ring[p]) /\ tx[p].op \in Ops /\ tx[p].pc \in 1..5
      /\ \A q \in Others(p) : Compatible(tx[p], tx[q])
  BY WaitingAt DEF Transactions
<1>2. ASSUME NEW q \in Others(p)
      PROVE  /\ q \in Processes /\ Open(q) /\ Waits(q) /\ LocksTaken(tx[q])
             /\ Sound(tx[q], ring[q]) /\ tx[q].op \in Ops /\ tx[q].pc \in 1..5
  BY <1>2, WaitingAt DEF Others, Transactions
<1>3. ~At(p, "exclusive")
  <2> SUFFICES ASSUME At(p, "exclusive") PROVE FALSE
    OBVIOUS
  <2>1. ~Lockable(tx[p].key, p)
    BY <1>1 DEF Waits, At
  <2>2. tx[p].op \in Lifecycles /\ tx[p].pc > 1 /\ tx[p].key \in Keys
    <3>1. tx[p].op \in Lifecycles /\ tx[p].pc = ExclusivePlace(tx[p].op)
      BY <1>1, ProgramPlaces DEF At
    <3> QED
      BY <1>1, <3>1 DEF ExclusivePlace, Sound, Shape
  <2>3. tx[p].advisory = "lifecycle"
    BY <1>1, <2>2 DEF Sound, Serial
  <2>4. PICK q \in Others(p) : tx[p].key \in tx[q].shares
    BY <1>2, <2>1, <2>2, NoOwner DEF Lockable, Shareable
  <2>5. PICK st \in {"source", "target", "census"} : Performed(tx[q], st)
    BY <1>2, <2>4 DEF LocksTaken
  <2>6. tx[q].op \in Lifecycles
    BY <1>2, <2>5, WaitingAfter, NoSharer, NoOwner
  <2>7. tx[q].pc > 1
    BY <1>2, <2>5, ProgramLength DEF Performed
  <2>8. tx[q].advisory = "lifecycle"
    BY <1>2, <2>6, <2>7 DEF Sound, Serial
  <2> QED
    BY <1>1, <2>3, <2>4, <2>8 DEF Compatible
<1>4. ASSUME NEW q \in Others(p) PROVE tx[q].rows = {}
  BY <1>2, <1>4, WaitingAfter, NoSharer DEF LocksTaken
<1>5. ~At(p, "rows")
  <2>1. \A e \in StreamKeys : RowFree(e, p)
    BY <1>4 DEF RowFree
  <2> QED
    BY <1>1, <2>1, NoOwner DEF Waits, At
<1> QED
  BY <1>3, <1>5

\* ... and nobody for an advisory lock either. Nothing is open.
LEMMA NobodyOpen ==
  ASSUME WaitingInv, \A q \in Processes : Open(q) => Waits(q)
  PROVE  \A p \in Processes : ~Open(p)
<1> SUFFICES ASSUME NEW p \in Processes, Open(p) PROVE FALSE
  OBVIOUS
<1>1. At(p, "stream") \/ At(p, "lifecycle")
  BY WaitingAt, NoSharer, NoLocker
<1>2. PICK name \in {"stream", "lifecycle"} : At(p, name) /\ ~AdvisoryFree(name, p)
  <2>1. Waits(p)
    OBVIOUS
  <2>2. CASE At(p, "stream")
    BY <2>1, <2>2 DEF Waits, At
  <2>3. CASE At(p, "lifecycle")
    BY <2>1, <2>3 DEF Waits, At
  <2> QED
    BY <1>1, <2>2, <2>3
<1>3. PICK q \in Others(p) : tx[q].advisory = name
  BY <1>2 DEF AdvisoryFree
<1>4. q \in Processes /\ Open(q) /\ Waits(q) /\ LocksTaken(tx[q])
  BY WaitingAt DEF Others
<1>5. Performed(tx[q], name)
  BY <1>3, <1>4 DEF LocksTaken
<1> QED
  BY <1>4, <1>5, WaitingAfter, NoSharer, NoLocker

-----------------------------------------------------------------------------
(* The invariant and what follows from it.                                 *)

LEMMA InitCustody == Init => CustodyInv
<1> SUFFICES ASSUME Init PROVE CustodyInv
  OBVIOUS
<1>1. TypeOK
  BY DEF Init, TypeOK, Optional
<1>2. Transacting
  BY DEF Init, Transacting, Open, Others
<1>3. EnvelopesRegistered /\ RehearsalHolds /\ TargetWritable
  BY DEF Init, EnvelopesRegistered, RehearsalHolds, TargetWritable
<1> QED
  BY <1>1, <1>2, <1>3 DEF CustodyInv

LEMMA StepCustody == CustodyInv /\ [Next]_kekVars => CustodyInv'
<1> SUFFICES ASSUME CustodyInv, [Next]_kekVars PROVE CustodyInv'
  OBVIOUS
<1>1. ASSUME NEW p \in Processes, NEW op \in Ops, NEW key \in Optional(Keys), Start(p, op, key)
      PROVE CustodyInv'
  BY <1>1, StartStep
<1>2. ASSUME NEW p \in Processes, Statement(p) PROVE CustodyInv'
  BY <1>2, LockStreamStep, LockLifecycleStep, ShareSourceStep, ShareTargetStep, InsertTargetStep,
     LockRetiringStep, CensusStep, ClaimRowsStep DEF Statement
<1>3. ASSUME NEW p \in Processes, Commit(p) PROVE CustodyInv'
  BY <1>3, CommitStep
<1>4. ASSUME NEW p \in Processes, Abort(p) PROVE CustodyInv'
  BY <1>4, AbortStep
<1>5. ASSUME NEW p \in Processes, NEW r \in Rings, Configure(p, r) PROVE CustodyInv'
  BY <1>5, ConfigureStep
<1>6. CASE UNCHANGED kekVars
  <2>1. TypeOK' /\ (EnvelopesRegistered /\ RehearsalHolds /\ TargetWritable)'
    BY <1>6 DEF kekVars, CustodyInv, TypeOK, EnvelopesRegistered, RehearsalHolds, TargetWritable, Writable
  <2>2. Transacting'
    BY <1>6 DEF kekVars, CustodyInv, Transacting, Open, Others, Compatible, Sound, Shape, TargetHeld,
      ExclusiveHeld, Serial, CensusHolds, Writable, RowAllows, RetiringTo, NoOtherRetiring, Unreferenced
  <2> QED
    BY <2>1, <2>2 DEF CustodyInv
<1> QED
  BY <1>1, <1>2, <1>3, <1>4, <1>5, <1>6 DEF Next

\* In every reachable state the open transactions hold what their programs lock,
\* see what they checked, and no envelope is under an unknown or rehearsed key.
THEOREM Custody == Spec => []CustodyInv
  BY InitCustody, StepCustody, PTL DEF Spec

\* Every state of the registry and of the transactions is well formed.
THEOREM TypeCorrect == Spec => []TypeOK
<1>1. CustodyInv => TypeOK
  BY DEF CustodyInv
<1> QED
  BY <1>1, Custody, PTL

\* No envelope is under a key from its rehearsal on, whatever was in flight.
THEOREM RehearsalIsFinal == Spec => []RehearsalHolds
<1>1. CustodyInv => RehearsalHolds
  BY DEF CustodyInv
<1> QED
  BY <1>1, Custody, PTL

\* The target of a rotation under way is never retired by another.
THEOREM TargetStays == Spec => []TargetWritable
<1>1. CustodyInv => TargetWritable
  BY DEF CustodyInv
<1> QED
  BY <1>1, Custody, PTL

\* A keyring the readiness probe accepts opens every envelope.
THEOREM ReadinessSuffices == Spec => []ReadyReads
<1>1. CustodyInv => ReadyReads
  <2> SUFFICES ASSUME CustodyInv, NEW r \in Rings, Ready(r), NEW e \in Envelopes, envelope[e] # None
               PROVE  envelope[e] \in r.held
    BY DEF ReadyReads
  <2>1. envelope[e] \in Keys /\ registry[envelope[e]] # None
    BY DEF CustodyInv, TypeOK, EnvelopesRegistered, Optional
  <2>2. ~registry[envelope[e]].rehearsed
    BY <2>1 DEF CustodyInv, RehearsalHolds
  <2>3. registry[envelope[e]].life \in {"writable", "retiring"}
    BY <2>1, <2>2 DEF CustodyInv, TypeOK, Optional, Registered
  <2> QED
    BY <2>1, <2>2, <2>3 DEF Ready
<1> QED
  BY <1>1, Custody, PTL

\* No step writes an envelope under a key that is not writable after it.
THEOREM FencedSeals == Spec => SealsAreFenced
<1> DEFINE Fenced == \A e \in Envelopes : envelope'[e] # envelope[e] => Writable(envelope[e])'
<1>1. CustodyInv /\ [Next]_kekVars => [Fenced]_kekVars
  <2> SUFFICES ASSUME CustodyInv, Next PROVE Fenced
    OBVIOUS
  <2>1. ASSUME NEW p \in Processes, Commit(p) PROVE Fenced
    <3>1. CASE tx[p].op \in Lifecycles
      BY <2>1, <3>1, AtCommit DEF Commit
    <3>2. CASE tx[p].op \notin Lifecycles
      BY <2>1, <3>2, CommitWritable DEF Commit, Writable
    <3> QED
      BY <3>1, <3>2
  <2>2. Fenced \/ \E p \in Processes : Commit(p)
    BY DEF Next, Start, Statement, LockStream, LockLifecycle, ShareSource, ShareTarget, InsertTarget,
       LockRetiring, Census, ClaimRows, Proceed, Abort, Configure
  <2> QED
    BY <2>1, <2>2
<1> QED
  BY <1>1, Custody, PTL DEF Spec, SealsAreFenced

LEMMA StepInOrder == WaitingInv /\ [Next]_kekVars => InOrder'
<1> SUFFICES ASSUME WaitingInv, [Next]_kekVars PROVE InOrder'
  OBVIOUS
<1>1. ASSUME NEW p \in Processes, NEW op \in Ops, NEW key \in Optional(Keys), Start(p, op, key)
      PROVE InOrder'
  BY <1>1, StartInOrder
<1>2. ASSUME NEW p \in Processes, Statement(p) PROVE InOrder'
  BY <1>2, LocksInOrder, SharesInOrder, RowsInOrder DEF Statement
<1>3. ASSUME NEW p \in Processes, Commit(p) \/ Abort(p) PROVE InOrder'
  BY <1>3, EndInOrder
<1>4. ASSUME NEW p \in Processes, NEW r \in Rings, Configure(p, r) PROVE InOrder'
  BY <1>4, ConfigureInOrder
<1>5. CASE UNCHANGED kekVars
  BY <1>5 DEF kekVars, WaitingInv, InOrder, Open, LocksTaken, ChecksHold, Performed, RetiringTo
<1> QED
  BY <1>1, <1>2, <1>3, <1>4, <1>5 DEF Next

\* Every lock is held by a transaction past the statement that takes it, and a
\* migration's source stays what it was found to be.
THEOREM LockOrder == Spec => []InOrder
<1>1. Init => InOrder
  BY DEF Init, InOrder, Open
<1>2. CustodyInv /\ InOrder /\ [Next]_kekVars => InOrder'
  BY StepInOrder DEF WaitingInv
<1> QED
  BY <1>1, <1>2, Custody, PTL DEF Spec

\* However many sessions seal, wrap, rewrap, migrate and rotate at once, one of
\* the open transactions does not wait for another. Nor do some of them wait in a
\* circle: any other transaction may abort, and would leave the circle alone.
THEOREM DeadlockFree == Spec => []NoDeadlock
<1>1. CustodyInv /\ InOrder => NoDeadlock
  <2> SUFFICES ASSUME CustodyInv, InOrder, \A q \in Processes : Open(q) => Waits(q)
               PROVE  \A p \in Processes : ~Open(p)
    BY DEF NoDeadlock
  <2>1. WaitingInv
    BY DEF WaitingInv
  <2> QED
    BY <2>1, NobodyOpen
<1> QED
  BY <1>1, Custody, LockOrder, PTL

=============================================================================
