------------------------------ MODULE OrphanTx ------------------------------
(***************************************************************************)
(* The tx message (main.cpp, ProcessMessage) and the transactions whose    *)
(* inputs are not known yet: mapOrphanTransactions, indexed by the missing *)
(* transactions in mapOrphanTransactionsByPrev.  A transaction that gets   *)
(* into the memory pool releases the orphans that spend it, and these      *)
(* theirs.                                                                 *)
(*                                                                         *)
(* The orphans belong to the message handler alone.  The pool and the      *)
(* transaction index do not: a wallet or RPC command adds transactions, a  *)
(* block adds and removes them, at any moment of the handler's run, which  *)
(* takes no lock.  accept() is therefore two steps for the handler: its    *)
(* tests, and addUnchecked.  An entry of mapOrphanTransactionsByPrev that  *)
(* is empty is the same as none here.                                      *)
(***************************************************************************)
EXTENDS TxPool, FiniteSets

CONSTANTS Flawed,                  \* transactions whose fee or signature is found
                                   \* bad once their inputs are known
          Large,                   \* transactions of more than 5000 bytes
          MAX_ORPHAN_TRANSACTIONS,
          Coins                    \* the transactions of the genesis state

ASSUME OrphanTxAssumption ==
  /\ MAX_ORPHAN_TRANSACTIONS \in Nat
  /\ IsFiniteSet(Tx) /\ Null \notin Tx
  /\ Flawed \subseteq Tx /\ Large \subseteq Tx /\ Coins \subseteq Tx

VARIABLES mapTx,                 \* the memory pool
          index,                 \* the transaction index of the best chain
          mapOrphanTransactions,
          mapOrphanTransactionsByPrev,
          tx,                    \* the transaction of the message, or Null
          offered,               \* the transaction in accept(), or Null
          verdict,               \* how its tests ended
          vWorkQueue,
          i,                     \* the entry of vWorkQueue in work
          candidates,            \* its orphans not tried yet
          vEraseQueue,
          told,                  \* the transactions wallets were told of
          late                   \* what other threads supplied meanwhile

pool    == <<mapTx, index, told>>
orphans == <<mapOrphanTransactions, mapOrphanTransactionsByPrev>>
loop    == <<vWorkQueue, i, candidates, vEraseQueue>>
vars    == <<pool, orphans, loop, tx, offered, verdict, late>>

\* The transactions whose outputs t spends.
PrevTxs(t) == {o[1] : o \in Prevouts(t)}

Known == mapTx \cup DOMAIN index

\* accept() up to addUnchecked.  A conflict is found before a missing input.
Verdict(t) ==
  IF \/ t \in Generated \cup Nonstandard \cup Known
     \/ HasConflict(mapTx, t)
  THEN "invalid"
  ELSE IF ~(PrevTxs(t) \subseteq Known) THEN "missing"
  ELSE IF InputsAvailable(mapTx, index, t) /\ t \notin Flawed THEN "accept"
  ELSE "invalid"

-----------------------------------------------------------------------------
(* The orphan maps.                                                        *)

AddOrphanTx(byPrev, t) ==
  [p \in Tx |-> IF p \in PrevTxs(t) THEN byPrev[p] \cup {t} ELSE byPrev[p]]

\* Fault: the entry under the first input only is erased.
EraseOrphanTxFirst(byPrev, S) ==
  [p \in Tx |-> {t \in byPrev[p] : ~(t \in S /\ p = vin[t][1][1])}]

\* EraseOrphanTx for every transaction of S.
EraseOrphanTx(byPrev, S) == [p \in Tx |-> byPrev[p] \ S]

\* Fault: the limit is not enforced.
LimitOrphanTxSizeNever(S) == {S}

\* LimitOrphanTxSize: what may be left of the orphans S.
LimitOrphanTxSize(S) ==
  IF Cardinality(S) <= MAX_ORPHAN_TRANSACTIONS THEN {S}
  ELSE {R \in SUBSET S : Cardinality(R) = MAX_ORPHAN_TRANSACTIONS}

StoreOrphan(t) ==
  /\ t \notin Large
  /\ t \notin mapOrphanTransactions
  /\ \E kept \in LimitOrphanTxSize(mapOrphanTransactions \cup {t}) :
       /\ mapOrphanTransactions' = kept
       /\ mapOrphanTransactionsByPrev' =
            EraseOrphanTx(AddOrphanTx(mapOrphanTransactionsByPrev, t),
                          (mapOrphanTransactions \cup {t}) \ kept)

-----------------------------------------------------------------------------
Init ==
  /\ mapTx = {}
  /\ index = [t \in Coins |-> NewEntry(t, CHOOSE b \in Block : TRUE)]
  /\ mapOrphanTransactions = {}
  /\ mapOrphanTransactionsByPrev = [p \in Tx |-> {}]
  /\ tx = Null
  /\ offered = Null
  /\ verdict = Null
  /\ vWorkQueue = <<>>
  /\ i = 0
  /\ candidates = {}
  /\ vEraseQueue = {}
  /\ told = Coins
  /\ late = {}

Offer(t) == offered' = t /\ verdict' = Verdict(t)

\* A tx message.
ReceiveTx(t) ==
  /\ tx = Null
  /\ tx' = t
  /\ Offer(t)
  /\ UNCHANGED <<pool, orphans, loop, late>>

\* The message is done with.
Return ==
  /\ tx' = Null
  /\ offered' = Null
  /\ verdict' = Null
  /\ late' = {}

\* The transaction is stored in the pool and takes its place in the queue.
AcceptTx ==
  /\ tx # Null /\ offered = tx /\ vWorkQueue = <<>> /\ verdict = "accept"
  /\ mapTx' = mapTx \cup {tx}
  /\ told' = told \cup {tx}
  /\ vWorkQueue' = <<tx>>
  /\ i' = 1
  /\ candidates' = mapOrphanTransactionsByPrev[tx]
  /\ vEraseQueue' = {tx}
  /\ offered' = Null /\ verdict' = Null
  /\ UNCHANGED <<index, orphans, tx, late>>

\* An input is missing: it becomes an orphan, if it may.
KeepTx ==
  /\ tx # Null /\ offered = tx /\ vWorkQueue = <<>> /\ verdict = "missing"
  /\ \/ StoreOrphan(tx)
     \/ tx \in Large \cup mapOrphanTransactions /\ UNCHANGED orphans
  /\ Return
  /\ UNCHANGED <<pool, loop>>

RejectTx ==
  /\ tx # Null /\ offered = tx /\ vWorkQueue = <<>> /\ verdict = "invalid"
  /\ Return
  /\ UNCHANGED <<pool, orphans, loop>>

\* The next orphan that spends vWorkQueue[i].
TryOrphan(t) ==
  /\ tx # Null /\ offered = Null
  /\ t \in candidates
  /\ candidates' = candidates \ {t}
  /\ Offer(t)
  /\ UNCHANGED <<pool, orphans, vWorkQueue, i, vEraseQueue, tx, late>>

\* Fault: an orphan that is accepted does not release its own orphans.
QueueOrphanNot(t) == UNCHANGED vWorkQueue

QueueOrphan(t) == vWorkQueue' = Append(vWorkQueue, t)

\* The orphan is accepted; the wallets are told of the message's transaction.
AcceptOrphan ==
  /\ offered # Null /\ vWorkQueue # <<>> /\ verdict = "accept"
  /\ mapTx' = mapTx \cup {offered}
  /\ told' = told \cup {tx}
  /\ QueueOrphan(offered)
  /\ vEraseQueue' = vEraseQueue \cup {offered}
  /\ offered' = Null /\ verdict' = Null
  /\ UNCHANGED <<index, orphans, i, candidates, tx, late>>

\* It is not; it is kept while an input is missing.
PassOver ==
  /\ offered # Null /\ vWorkQueue # <<>> /\ verdict # "accept"
  /\ vEraseQueue' = IF verdict = "missing" THEN vEraseQueue
                    ELSE vEraseQueue \cup {offered}
  /\ offered' = Null /\ verdict' = Null
  /\ UNCHANGED <<pool, orphans, vWorkQueue, i, candidates, tx, late>>

NextInWorkQueue ==
  /\ tx # Null /\ offered = Null /\ candidates = {} /\ i < Len(vWorkQueue)
  /\ i' = i + 1
  /\ candidates' = mapOrphanTransactionsByPrev[vWorkQueue[i + 1]]
  /\ UNCHANGED <<pool, orphans, vWorkQueue, vEraseQueue, tx, offered, verdict, late>>

\* The queue is worked off: the orphans of vEraseQueue are erased.
EraseOrphans ==
  /\ tx # Null /\ offered = Null /\ candidates = {} /\ i = Len(vWorkQueue)
  /\ mapOrphanTransactions' = mapOrphanTransactions \ vEraseQueue
  /\ mapOrphanTransactionsByPrev' =
       EraseOrphanTx(mapOrphanTransactionsByPrev, vEraseQueue)
  /\ vWorkQueue' = <<>>
  /\ i' = 0
  /\ vEraseQueue' = {}
  /\ Return
  /\ UNCHANGED <<pool, candidates>>

\* Another thread supplies t while the handler may be at work.
Supply(t) == late' = IF tx = Null THEN late ELSE late \cup {t}

\* CommitTransaction or sendrawtransaction, under cs_main.
SendTx(t) ==
  /\ Verdict(t) = "accept"
  /\ mapTx' = mapTx \cup {t}
  /\ told' = told \cup {t}
  /\ Supply(t)
  /\ UNCHANGED <<index, orphans, loop, tx, offered, verdict>>

\* A block with t is connected.
ConfirmTx(t, b) ==
  /\ t \notin Generated \cup Flawed \cup DOMAIN index
  /\ FetchInputs(index, t, {}) /\ UsedInputs(index, t) = {}
  /\ index' = WithEntry(MarkSpent(index, MarkedInputs(index, t), b), t, NewEntry(t, b))
  /\ mapTx' = mapTx \ {t}
  /\ told' = told \cup {t}
  /\ Supply(t)
  /\ UNCHANGED <<orphans, loop, tx, offered, verdict>>

Next ==
  \/ \E t \in Tx : ReceiveTx(t) \/ TryOrphan(t) \/ SendTx(t)
  \/ \E t \in Tx, b \in Block : ConfirmTx(t, b)
  \/ AcceptTx
  \/ KeepTx
  \/ RejectTx
  \/ AcceptOrphan
  \/ PassOver
  \/ NextInWorkQueue
  \/ EraseOrphans

Spec == Init /\ [][Next]_vars

-----------------------------------------------------------------------------
\* Type invariant; the orphans never exceed their limit, and the inner loop
\* has nothing to do while the queue is empty.
OrphanTxTypeOK ==
  /\ mapTx \subseteq Tx
  /\ DOMAIN index \subseteq Tx
  /\ mapOrphanTransactions \subseteq Tx \ Large
  /\ Cardinality(mapOrphanTransactions) <= MAX_ORPHAN_TRANSACTIONS
  /\ mapOrphanTransactionsByPrev \in [Tx -> SUBSET Tx]
  /\ tx \in Tx \cup {Null} /\ offered \in Tx \cup {Null}
  /\ verdict \in {"accept", "missing", "invalid", Null}
  /\ vWorkQueue \in Seq(Tx) /\ i \in 0..Len(vWorkQueue)
  /\ candidates \subseteq Tx /\ vEraseQueue \subseteq Tx
  /\ vWorkQueue = <<>> => candidates = {}

\* The index of the orphans names every orphan under each of its inputs and
\* nothing else, through additions, evictions and releases: the handler
\* never looks up an orphan that is gone.
OrphanIndexExact ==
  /\ \A p \in Tx : mapOrphanTransactionsByPrev[p] =
                     {t \in mapOrphanTransactions : p \in PrevTxs(t)}
  /\ candidates \subseteq mapOrphanTransactions

\* When the handler is done with a transaction, an orphan that spends it, or
\* spends an orphan released with it, is kept only for an input that was not
\* known when the handler came by.
ReleaseIsComplete ==
  [][tx # Null /\ tx' = Null =>
       \A t \in mapOrphanTransactions' :
         PrevTxs(t) \cap (vEraseQueue \cap Known) # {} =>
           PrevTxs(t) \ Known # {} \/ PrevTxs(t) \cap late # {}]_vars

\* The wallets know every transaction of the pool.
\* The code does not keep this: README, section 7.
WalletsToldOfPool == tx = Null => mapTx \subseteq told

\* No two transactions of the pool spend the same output.
\* The code does not keep this: README, section 7.
PoolHasNoConflict == \A t, u \in mapTx : ~Conflict(t, u)
=============================================================================
