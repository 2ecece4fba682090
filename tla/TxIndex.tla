------------------------------ MODULE TxIndex ------------------------------
(***************************************************************************)
(* The transaction index of txdb and what connecting or disconnecting one  *)
(* block does to it (main.cpp: FetchInputs, ConnectInputs,                 *)
(* CalculateBlockAmounts, DisconnectInputs, DisconnectBlock).              *)
(*                                                                         *)
(* An index is a function from the indexed transactions to their CTxIndex  *)
(* entry: the block that holds the transaction (pos) and, for each output, *)
(* the block that holds its spender (vSpent), Null while it is unspent.    *)
(* Signatures, amounts, fees and maturity depend on the block and its      *)
(* ancestors only; their verdict is the constant set Valid of module       *)
(* BestChain.                                                              *)
(***************************************************************************)
EXTENDS Integers, Sequences

CONSTANTS Block,     \* every block a peer may ever deliver, and the genesis
          Tx,        \* every transaction in those blocks or on the network
          vtx,       \* vtx[b]: the transactions of block b, in block order
          vin,       \* vin[t]: the outpoints <<transaction, n>> t spends
          nOut,      \* nOut[t]: how many outputs t has
          Generated, \* the coinbase and coinstake transactions
          Null       \* a null pointer, hash or disk position

ASSUME TxAssumption ==
  /\ vtx \in [Block -> Seq(Tx)]
  /\ vin \in [Tx -> Seq(Tx \X Nat)]
  /\ nOut \in [Tx -> Nat]
  /\ Generated \subseteq Tx
  /\ Null \notin Block

\* A freshly written entry: no output spent (CTxIndex(posThisTx, vout.size())).
NewEntry(t, b) == [pos |-> b, vSpent |-> [n \in 1..nOut[t] |-> Null]]

\* The index with entry e stored for transaction t (UpdateTxIndex).
WithEntry(view, t, e) ==
  [u \in DOMAIN view \cup {t} |-> IF u = t THEN e ELSE view[u]]

\* The index with every outpoint of S given the spender position p.
MarkSpent(view, S, p) ==
  [u \in DOMAIN view |->
    [view[u] EXCEPT !.vSpent =
       [n \in DOMAIN view[u].vSpent |->
          IF <<u, n>> \in S THEN p ELSE view[u].vSpent[n]]]]

\* The positions in vin[t] whose outpoint already has a spender.
UsedInputs(view, t) ==
  {i \in DOMAIN vin[t] : view[vin[t][i][1]].vSpent[vin[t][i][2]] # Null}

\* Fault: the last input of a transaction is not marked.
MarkedInputsButLast(view, t) ==
  {vin[t][i] : i \in {j \in DOMAIN vin[t] :
                        /\ j < Len(vin[t])
                        /\ \A k \in UsedInputs(view, t) : j < k}}

\* The inputs ConnectInputs marks before it returns: all of them, or those
\* in front of the first one that is already spent.
MarkedInputs(view, t) ==
  {vin[t][i] : i \in {j \in DOMAIN vin[t] :
                        \A k \in UsedInputs(view, t) : j < k}}

(***************************************************************************)
(* FetchInputs for a block: every previous transaction is in the index     *)
(* (queued changes first) and has the output.  fresh holds the             *)
(* transactions of the same block met so far when fJustCheck is set: their *)
(* position is nTxPos = 1, where ReadFromDisk finds no such transaction.   *)
(***************************************************************************)
FetchInputs(view, t, fresh) ==
  \A i \in DOMAIN vin[t] :
    LET prev == vin[t][i] IN
      /\ prev[1] \in DOMAIN view
      /\ prev[1] \notin fresh
      /\ prev[2] \in DOMAIN view[prev[1]].vSpent

\* BIP30: t is indexed in the database with an output still unspent.
Overwrites(db, t) ==
  /\ t \in DOMAIN db
  /\ \E n \in DOMAIN db[t].vSpent : db[t].vSpent[n] = Null

(***************************************************************************)
(* One iteration of the loop of CalculateBlockAmounts: s is the pair of    *)
(* the verdict so far and the index with the queued changes applied.       *)
(***************************************************************************)
CalculateTx(db, b, i, fJustCheck, skipTxCheck, s) ==
  LET t     == vtx[b][i]
      fresh == IF fJustCheck THEN {vtx[b][j] : j \in 1..(i - 1)} ELSE {}
      used  == UsedInputs(s.view, t) # {}
  IN  IF \/ ~s.ok
         \/ ~skipTxCheck /\ Overwrites(db, t)
         \/ ~FetchInputs(s.view, t, fresh)
         \/ ~skipTxCheck /\ used
      THEN [ok |-> FALSE, view |-> s.view]
      ELSE [ok |-> TRUE,
            view |-> WithEntry(MarkSpent(s.view, MarkedInputs(s.view, t), b),
                               t, NewEntry(t, b))]

\* The loop over the block: the verdict and the index after all queued changes.
CalculateBlockAmounts(db, b, fJustCheck, skipTxCheck) ==
  LET step[i \in 0..Len(vtx[b])] ==
        IF i = 0 THEN [ok |-> TRUE, view |-> db]
        ELSE CalculateTx(db, b, i, fJustCheck, skipTxCheck, step[i - 1])
  IN  step[Len(vtx[b])]

\* Fault: the entry of the transaction itself is not erased.
DisconnectInputsKeepsEntry(t, s) ==
  IF ~s.ok \/ ~FetchInputs(s.view, t, {})
  THEN [ok |-> FALSE, view |-> s.view]
  ELSE [ok |-> TRUE,
        view |-> MarkSpent(s.view, {vin[t][i] : i \in DOMAIN vin[t]}, Null)]

\* DisconnectInputs: release the outpoints t spends, then erase its entry.
DisconnectInputs(t, s) ==
  IF ~s.ok \/ ~FetchInputs(s.view, t, {})
  THEN [ok |-> FALSE, view |-> s.view]
  ELSE LET freed == MarkSpent(s.view, {vin[t][i] : i \in DOMAIN vin[t]}, Null)
       IN  [ok |-> TRUE, view |-> [u \in DOMAIN freed \ {t} |-> freed[u]]]

\* DisconnectBlock on the index: the transactions in reverse order.
DisconnectTxs(db, b) ==
  LET step[i \in 0..Len(vtx[b])] ==
        IF i = 0 THEN [ok |-> TRUE, view |-> db]
        ELSE DisconnectInputs(vtx[b][Len(vtx[b]) + 1 - i], step[i - 1])
  IN  step[Len(vtx[b])]
=============================================================================
