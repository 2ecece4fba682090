------------------------------- MODULE TxPool -------------------------------
(***************************************************************************)
(* The memory pool as the chain code uses it (txmempool.cpp: accept,       *)
(* addUnchecked, remove, removeConflicts).  A pool is the key set of       *)
(* mapTx.  mapNextTx, the map from an outpoint to the pool transaction     *)
(* that spends it, is determined by the pool: addUnchecked and remove      *)
(* change both under one lock and accept admits no second spender.         *)
(***************************************************************************)
EXTENDS TxIndex, Functions

CONSTANT Nonstandard  \* transactions valid in a block that accept() refuses for what
                      \* they are: IsStandard fails, or the lock time is past 2038

ASSUME PoolAssumption == Nonstandard \subseteq Tx

\* The outpoints t spends.
Prevouts(t) == {vin[t][i] : i \in DOMAIN vin[t]}

\* Two different transactions that spend a common outpoint.
Conflict(t, u) == t # u /\ Prevouts(t) \cap Prevouts(u) # {}

\* mapNextTx holds one of t's outpoints.
HasConflict(pool, t) == \E u \in pool : Prevouts(t) \cap Prevouts(u) # {}

(***************************************************************************)
(* The tests of accept() that the chain state decides when fCheckInputs is *)
(* set: not in the database, and every input is an unspent output of an    *)
(* indexed transaction or an output of a pool transaction.                 *)
(***************************************************************************)
InputsAvailable(pool, db, t) ==
  /\ t \notin DOMAIN db
  /\ \A o \in Prevouts(t) :
       IF o[1] \in DOMAIN db
       THEN o[2] \in DOMAIN db[o[1]].vSpent /\ db[o[1]].vSpent[o[2]] = Null
       ELSE o[1] \in pool /\ o[2] \in 1..nOut[o[1]]

\* accept() without input checks: the pool after offering it t.
Accept(pool, t) ==
  IF t \in Generated \cup Nonstandard \/ t \in pool \/ HasConflict(pool, t)
  THEN pool
  ELSE pool \cup {t}

\* The pool transactions that spend an output of t.
Spenders(pool, t) == {u \in pool : \E o \in Prevouts(u) : o[1] = t}

\* The least subset of pool that holds S and all spenders of its members:
\* what remove(tx, true) takes out for every tx of S.
WithDescendants(pool, S) ==
  {t \in pool : \A D \in SUBSET pool :
                  (S \subseteq D /\ \A u \in D : Spenders(pool, u) \subseteq D)
                     => t \in D}

\* removeConflicts(tx): its pool conflicts and all that depends on them.
RemoveConflicts(pool, t) ==
  pool \ WithDescendants(pool, {u \in pool : Conflict(t, u)})

\* Reorganize, disconnecting: the transactions of a block in block order,
\* the coinbase and the coinstake left out.
Resurrected(s) ==
  LET step[i \in 0..Len(s)] ==
        IF i = 0 THEN <<>>
        ELSE IF s[i] \in Generated THEN step[i - 1]
        ELSE Append(step[i - 1], s[i])
  IN  step[Len(s)]

\* Fault: the transactions of the disconnected blocks are dropped.
ResurrectNone(pool, s) == pool

\* Reorganize, resurrecting: each transaction of s is offered to the pool.
ResurrectAll(pool, s) ==
  LET step[i \in 0..Len(s)] == IF i = 0 THEN pool ELSE Accept(step[i - 1], s[i])
  IN  step[Len(s)]

\* Fault: conflicting transactions stay in the pool.
DeleteOneOnly(pool, t) == pool \ {t}

\* Reorganize, deleting: remove(tx), not recursive, then removeConflicts(tx).
DeleteOne(pool, t) == RemoveConflicts(pool \ {t}, t)

DeleteAll(pool, s) ==
  LET step[i \in 0..Len(s)] == IF i = 0 THEN pool ELSE DeleteOne(step[i - 1], s[i])
  IN  step[Len(s)]
=============================================================================
