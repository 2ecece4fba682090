--------------------------- MODULE OrphanTxProofs ---------------------------
(***************************************************************************)
(* The two maps of orphan transactions agree and stay within their limit,  *)
(* for every set of transactions and every interleaving with other         *)
(* threads.  That invariant is inductive as it stands: the index is exact  *)
(* after every addition, eviction and release, and the candidates of the   *)
(* inner loop are orphans because nothing is erased before the loop ends.  *)
(*                                                                         *)
(* That a release reaches every orphan it can needs more (Release): where  *)
(* the loop stands (Cursor), that what is known has known inputs (Closed), *)
(* what a verdict is still worth after other threads were at work          *)
(* (Judged), and that an orphan which spends a queued transaction is       *)
(* either still to be tried or misses an input (Progress).                 *)
(***************************************************************************)
EXTENDS OrphanTx, FiniteSetTheorems, TLAPS

Inv == OrphanTxTypeOK /\ OrphanIndexExact

USE OrphanTxAssumption

\* What LimitOrphanTxSize leaves is part of the orphans and within the limit.
LEMMA LimitLemma ==
  ASSUME NEW S, NEW kept \in LimitOrphanTxSize(S)
  PROVE  kept \subseteq S /\ Cardinality(kept) <= MAX_ORPHAN_TRANSACTIONS
<1>1. CASE Cardinality(S) <= MAX_ORPHAN_TRANSACTIONS
  BY <1>1 DEF LimitOrphanTxSize
<1>2. CASE ~(Cardinality(S) <= MAX_ORPHAN_TRANSACTIONS)
  BY <1>2 DEF LimitOrphanTxSize
<1> QED BY <1>1, <1>2

\* A transaction that is added and the evictions that follow keep the two
\* maps in agreement.
LEMMA StoreLemma ==
  ASSUME Inv, StoreOrphan(tx), tx \in Tx
  PROVE  /\ mapOrphanTransactions' \subseteq Tx \ Large
         /\ Cardinality(mapOrphanTransactions') <= MAX_ORPHAN_TRANSACTIONS
         /\ mapOrphanTransactionsByPrev' \in [Tx -> SUBSET Tx]
         /\ \A p \in Tx : mapOrphanTransactionsByPrev'[p] =
                            {t \in mapOrphanTransactions' : p \in PrevTxs(t)}
<1> DEFINE all == mapOrphanTransactions \cup {tx}
<1>1. PICK kept \in LimitOrphanTxSize(all) :
        /\ mapOrphanTransactions' = kept
        /\ mapOrphanTransactionsByPrev' =
             EraseOrphanTx(AddOrphanTx(mapOrphanTransactionsByPrev, tx), all \ kept)
  BY DEF StoreOrphan
<1>2. kept \subseteq all /\ Cardinality(kept) <= MAX_ORPHAN_TRANSACTIONS
  BY LimitLemma
<1>3. tx \notin Large /\ mapOrphanTransactions \subseteq Tx \ Large
  BY DEF StoreOrphan, Inv, OrphanTxTypeOK
<1>4. ASSUME NEW p \in Tx
      PROVE  mapOrphanTransactionsByPrev'[p] = {t \in kept : p \in PrevTxs(t)}
  <2>1. mapOrphanTransactionsByPrev[p] =
          {t \in mapOrphanTransactions : p \in PrevTxs(t)}
    BY DEF Inv, OrphanIndexExact
  <2>2. mapOrphanTransactionsByPrev'[p] =
          (IF p \in PrevTxs(tx) THEN mapOrphanTransactionsByPrev[p] \cup {tx}
           ELSE mapOrphanTransactionsByPrev[p]) \ (all \ kept)
    BY <1>1 DEF EraseOrphanTx, AddOrphanTx
  <2> QED BY <2>1, <2>2, <1>2
<1>5. mapOrphanTransactionsByPrev' \in [Tx -> SUBSET Tx]
  <2>1. mapOrphanTransactionsByPrev' = [p \in Tx |->
          AddOrphanTx(mapOrphanTransactionsByPrev, tx)[p] \ (all \ kept)]
    BY <1>1 DEF EraseOrphanTx
  <2>2. \A p \in Tx : mapOrphanTransactionsByPrev'[p] \subseteq Tx
    BY <1>4, <1>3, <1>2
  <2> QED BY <2>1, <2>2
<1> QED BY <1>1, <1>2, <1>3, <1>4, <1>5

\* Erasing the queue keeps them in agreement.
LEMMA EraseLemma ==
  ASSUME Inv, EraseOrphans
  PROVE  Inv'
<1> USE DEF EraseOrphans, Return
<1>1. OrphanTxTypeOK BY DEF Inv
<1>2. mapOrphanTransactions' = mapOrphanTransactions \ vEraseQueue
  OBVIOUS
<1>3. Cardinality(mapOrphanTransactions') <= MAX_ORPHAN_TRANSACTIONS
  <2>1. IsFiniteSet(mapOrphanTransactions)
    BY <1>1, FS_Subset DEF OrphanTxTypeOK
  <2>2. Cardinality(mapOrphanTransactions') <= Cardinality(mapOrphanTransactions)
    BY <1>2, <2>1, FS_Subset
  <2>3. Cardinality(mapOrphanTransactions) \in Nat
    BY <2>1, FS_CardinalityType
  <2>4. Cardinality(mapOrphanTransactions') \in Nat
    BY <1>2, <2>1, FS_Subset, FS_CardinalityType
  <2>5. Cardinality(mapOrphanTransactions) <= MAX_ORPHAN_TRANSACTIONS
    BY <1>1 DEF OrphanTxTypeOK
  <2> QED BY <2>2, <2>3, <2>4, <2>5
<1>4. \A p \in Tx : mapOrphanTransactionsByPrev'[p] =
                      {t \in mapOrphanTransactions' : p \in PrevTxs(t)}
  BY <1>2 DEF EraseOrphanTx, Inv, OrphanIndexExact
<1>5. mapOrphanTransactionsByPrev' \in [Tx -> SUBSET Tx]
  BY <1>1 DEF EraseOrphanTx, OrphanTxTypeOK
<1>6. vWorkQueue' \in Seq(Tx) /\ i' \in 0..Len(vWorkQueue')
  <2>1. vWorkQueue' = <<>> /\ i' = 0
    OBVIOUS
  <2>2. ASSUME NEW S PROVE <<>> \in Seq(S)
    OBVIOUS
  <2> QED BY <2>1, <2>2
<1>7. OrphanTxTypeOK'
  BY <1>1, <1>2, <1>3, <1>5, <1>6 DEF OrphanTxTypeOK, pool
<1>8. (OrphanIndexExact)'
  <2>1. candidates' = {}
    OBVIOUS
  <2>2. \A t : PrevTxs(t)' = PrevTxs(t)
    BY DEF PrevTxs, Prevouts
  <2> QED BY <1>4, <2>1, <2>2 DEF OrphanIndexExact
<1> QED BY <1>7, <1>8 DEF Inv

\* Every step keeps the invariant.
LEMMA InvStep == Inv /\ [Next]_vars => Inv'
<1> SUFFICES ASSUME Inv, [Next]_vars PROVE Inv'
  OBVIOUS
<1>0. \A t : PrevTxs(t)' = PrevTxs(t)
  BY DEF PrevTxs, Prevouts
<1> USE DEF Inv
<1>1. ASSUME NEW t \in Tx, ReceiveTx(t) PROVE Inv'
  <2>1. offered' \in Tx /\ tx' \in Tx /\ verdict' \in {"accept", "missing", "invalid"}
    BY <1>1 DEF ReceiveTx, Offer, Verdict
  <2> QED BY <1>0, <1>1, <2>1 DEF ReceiveTx, OrphanTxTypeOK, OrphanIndexExact, pool, orphans, loop
<1>2. ASSUME NEW t \in Tx, TryOrphan(t) PROVE Inv'
  <2>1. offered' \in Tx /\ verdict' \in {"accept", "missing", "invalid"}
    BY <1>2 DEF TryOrphan, Offer, Verdict
  <2>2. candidates' \subseteq candidates
    BY <1>2 DEF TryOrphan
  <2> QED BY <1>0, <1>2, <2>1, <2>2 DEF TryOrphan, OrphanTxTypeOK, OrphanIndexExact, pool, orphans
<1>3. ASSUME NEW t \in Tx, SendTx(t) PROVE Inv'
  BY <1>0, <1>3 DEF SendTx, OrphanTxTypeOK, OrphanIndexExact, orphans, loop
<1>4. ASSUME NEW t \in Tx, NEW b \in Block, ConfirmTx(t, b) PROVE Inv'
  <2>1. DOMAIN index' = DOMAIN index \cup {t}
    BY <1>4 DEF ConfirmTx, WithEntry, MarkSpent
  <2> QED BY <1>0, <1>4, <2>1 DEF ConfirmTx, OrphanTxTypeOK, OrphanIndexExact, orphans, loop
<1>5. CASE AcceptTx
  <2>1. tx \in Tx
    BY <1>5 DEF AcceptTx, OrphanTxTypeOK
  <2>2. vWorkQueue' \in Seq(Tx) /\ i' \in 0..Len(vWorkQueue') /\ vWorkQueue' # <<>>
    BY <1>5, <2>1 DEF AcceptTx
  <2>3. candidates' \subseteq mapOrphanTransactions /\ candidates' \subseteq Tx
    BY <1>5, <2>1 DEF AcceptTx, OrphanTxTypeOK, OrphanIndexExact
  <2> QED BY <1>0, <1>5, <2>1, <2>2, <2>3
          DEF AcceptTx, OrphanTxTypeOK, OrphanIndexExact, orphans
<1>6. CASE KeepTx
  <2>1. tx \in Tx /\ candidates = {} /\ candidates' = {}
    BY <1>6 DEF KeepTx, OrphanTxTypeOK, loop
  <2>2. CASE StoreOrphan(tx)
    <3>1. /\ mapOrphanTransactions' \subseteq Tx \ Large
          /\ Cardinality(mapOrphanTransactions') <= MAX_ORPHAN_TRANSACTIONS
          /\ mapOrphanTransactionsByPrev' \in [Tx -> SUBSET Tx]
          /\ \A p \in Tx : mapOrphanTransactionsByPrev'[p] =
                             {t \in mapOrphanTransactions' : p \in PrevTxs(t)}
      BY <2>1, <2>2, StoreLemma
    <3>2. OrphanTxTypeOK'
      BY <1>6, <3>1 DEF KeepTx, Return, OrphanTxTypeOK, pool, loop
    <3>3. (OrphanIndexExact)'
      BY <1>0, <2>1, <3>1 DEF OrphanIndexExact
    <3> QED BY <3>2, <3>3
  <2>3. CASE UNCHANGED orphans
    BY <1>0, <1>6, <2>3 DEF KeepTx, Return, OrphanTxTypeOK, OrphanIndexExact, pool, loop, orphans
  <2> QED BY <1>6, <2>2, <2>3 DEF KeepTx
<1>7. CASE RejectTx
  BY <1>0, <1>7 DEF RejectTx, Return, OrphanTxTypeOK, OrphanIndexExact, pool, loop, orphans
<1>8. CASE AcceptOrphan
  <2>1. offered \in Tx /\ tx \in Tx \cup {Null}
    BY <1>8 DEF AcceptOrphan, OrphanTxTypeOK
  <2>2. vWorkQueue \in Seq(Tx) /\ i \in 0..Len(vWorkQueue)
    BY DEF OrphanTxTypeOK
  <2>3. /\ vWorkQueue' \in Seq(Tx) /\ vWorkQueue' # <<>>
        /\ Len(vWorkQueue') = Len(vWorkQueue) + 1
    BY <1>8, <2>1, <2>2 DEF AcceptOrphan, QueueOrphan
  <2>4. i' \in 0..Len(vWorkQueue')
    BY <1>8, <2>2, <2>3 DEF AcceptOrphan
  <2> QED BY <1>0, <1>8, <2>1, <2>3, <2>4
          DEF AcceptOrphan, OrphanTxTypeOK, OrphanIndexExact, orphans
<1>9. CASE PassOver
  BY <1>0, <1>9 DEF PassOver, OrphanTxTypeOK, OrphanIndexExact, pool, orphans
<1>10. CASE NextInWorkQueue
  <2>1. vWorkQueue \in Seq(Tx) /\ i \in 0..Len(vWorkQueue) /\ i < Len(vWorkQueue)
    BY <1>10 DEF NextInWorkQueue, OrphanTxTypeOK
  <2>2. vWorkQueue[i + 1] \in Tx /\ i' \in 0..Len(vWorkQueue) /\ vWorkQueue # <<>>
    BY <1>10, <2>1 DEF NextInWorkQueue
  <2>3. candidates' \subseteq mapOrphanTransactions /\ candidates' \subseteq Tx
    BY <1>10, <2>2 DEF NextInWorkQueue, OrphanTxTypeOK, OrphanIndexExact
  <2> QED BY <1>0, <1>10, <2>1, <2>2, <2>3
          DEF NextInWorkQueue, OrphanTxTypeOK, OrphanIndexExact, pool, orphans
<1>11. CASE EraseOrphans
  BY <1>11, EraseLemma
<1>12. CASE UNCHANGED vars
  BY <1>0, <1>12 DEF vars, pool, orphans, loop, OrphanTxTypeOK, OrphanIndexExact
<1> QED
  BY <1>1, <1>2, <1>3, <1>4, <1>5, <1>6, <1>7, <1>8, <1>9, <1>10, <1>11, <1>12
     DEF Next

\* The first state satisfies it.
LEMMA InvInit == Init => Inv
<1> SUFFICES ASSUME Init PROVE Inv
  OBVIOUS
<1>1. Cardinality({}) = 0
  BY FS_EmptySet
<1>2. ASSUME NEW S PROVE <<>> \in Seq(S) /\ 0 \in 0..Len(<<>>)
  OBVIOUS
<1>3. vWorkQueue \in Seq(Tx) /\ i \in 0..Len(vWorkQueue)
  BY <1>2 DEF Init
<1>4. OrphanTxTypeOK
  <2>1. DOMAIN index \subseteq Tx
    BY DEF Init
  <2>2. mapOrphanTransactionsByPrev \in [Tx -> SUBSET Tx]
    BY DEF Init
  <2>3. Cardinality(mapOrphanTransactions) <= MAX_ORPHAN_TRANSACTIONS
    <3>1. Cardinality(mapOrphanTransactions) = 0
      BY <1>1, Zenon DEF Init
    <3>2. MAX_ORPHAN_TRANSACTIONS \in Nat
      OBVIOUS
    <3> QED BY <3>1, <3>2
  <2> QED BY <1>3, <2>1, <2>2, <2>3, Zenon DEF Init, OrphanTxTypeOK
<1> QED BY <1>4 DEF Init, Inv, OrphanIndexExact

\* The orphan transactions of mapOrphanTransactions stay within
\* MAX_ORPHAN_TRANSACTIONS (LimitOrphanTxSize), and all state is well formed.
THEOREM OrphanTxTypeCorrect == Spec => []OrphanTxTypeOK
<1>1. Inv => OrphanTxTypeOK
  BY DEF Inv
<1> QED BY <1>1, InvInit, InvStep, PTL DEF Spec

\* mapOrphanTransactionsByPrev names exactly the orphans, under exactly their
\* inputs, and the handler looks up no orphan that is gone.
THEOREM OrphanIndexHolds == Spec => []OrphanIndexExact
<1>1. Inv => OrphanIndexExact
  BY DEF Inv
<1> QED BY <1>1, InvInit, InvStep, PTL DEF Spec

-----------------------------------------------------------------------------
(* Releasing orphans.                                                      *)

\* The transactions that await their turn in accept().
Awaiting == candidates \cup ({offered} \ {Null})

\* The variables of the loop belong together.
Cursor ==
  /\ tx = Null => vWorkQueue = <<>> /\ offered = Null
  /\ vWorkQueue = <<>> => vEraseQueue = {} /\ i = 0
  /\ vWorkQueue # <<>> =>
       /\ i # 0
       /\ \A t \in Awaiting : t \in mapOrphanTransactions /\ vWorkQueue[i] \in PrevTxs(t)

\* What is known has known inputs, the coins of the genesis aside.
Closed ==
  /\ Coins \subseteq Known /\ mapOrphanTransactions \cap Coins = {}
  /\ \A x \in Known \ Coins : PrevTxs(x) \subseteq Known

\* What the verdict on the transaction in accept() still says when it is used.
Judged ==
  offered # Null =>
    /\ verdict \in {"accept", "missing"} => offered \in Tx \ Coins
    /\ verdict = "accept" =>
         /\ PrevTxs(offered) \subseteq Known
         /\ \A x \in Known \ Coins : offered \in PrevTxs(x) => x \in late
    /\ verdict = "missing" => PrevTxs(offered) \ Known # {} \/ PrevTxs(offered) \cap late # {}

Queue == Range(vWorkQueue)

\* What the loop has still to do for t.
Pending(t) == t \in Awaiting \/ \E k \in (i + 1)..Len(vWorkQueue) : vWorkQueue[k] \in PrevTxs(t)

Progress ==
  /\ vEraseQueue \cap Known \subseteq Queue \cup late
  /\ \A x \in Known \ Coins : PrevTxs(x) \cap Queue # {} => x \in Queue \cup late
  /\ \A t \in mapOrphanTransactions \ vEraseQueue :
       PrevTxs(t) \cap Queue # {} =>
         Pending(t) \/ PrevTxs(t) \ Known # {} \/ PrevTxs(t) \cap late # {}

Release == Cursor /\ Closed /\ Judged /\ Progress

LEMMA QueueFacts ==
  ASSUME Inv
  PROVE  /\ Len(vWorkQueue) \in Nat /\ i \in Nat /\ i <= Len(vWorkQueue)
         /\ vWorkQueue \in Seq(Tx) /\ DOMAIN vWorkQueue = 1..Len(vWorkQueue)
         /\ \A k \in 1..Len(vWorkQueue) : vWorkQueue[k] \in Tx
         /\ Queue = {vWorkQueue[k] : k \in 1..Len(vWorkQueue)}
         /\ vWorkQueue = <<>> => Queue = {}
         /\ vWorkQueue # <<>> /\ i # 0 => vWorkQueue[i] \in Queue
<1>1. vWorkQueue \in Seq(Tx) /\ i \in 0..Len(vWorkQueue)
  BY DEF Inv, OrphanTxTypeOK
<1>2. Len(<<>>) = 0 /\ 1..0 = {}
  OBVIOUS
<1> QED BY <1>1, <1>2 DEF Queue, Range

\* The verdict on a transaction, when it is given.
LEMMA OfferIs ==
  ASSUME Closed, NEW t \in Tx, Offer(t), UNCHANGED <<mapTx, index, late>>
  PROVE  /\ offered' = t /\ offered' # Null
         /\ Judged'
<1>1. offered' = t /\ verdict' = Verdict(t)
  BY DEF Offer
<1>2. Known' = Known
  BY DEF Known
<1>3. \A x : PrevTxs(x)' = PrevTxs(x)
  BY DEF PrevTxs, Prevouts
<1>4. CASE verdict' = "accept"
  <2>1. t \notin Known /\ PrevTxs(t) \subseteq Known
    BY <1>1, <1>4 DEF Verdict
  <2>2. \A x \in Known \ Coins : t \notin PrevTxs(x)
    BY <2>1 DEF Closed
  <2> QED BY <1>1, <1>2, <1>3, <1>4, <2>1, <2>2 DEF Judged, Closed
<1>5. CASE verdict' = "missing"
  <2>1. t \notin Known /\ ~(PrevTxs(t) \subseteq Known)
    BY <1>1, <1>5 DEF Verdict
  <2> QED BY <1>1, <1>2, <1>3, <1>5, <2>1 DEF Judged, Closed
<1>6. CASE verdict' \notin {"accept", "missing"}
  <2>1. verdict' # "accept" /\ verdict' # "missing"
    BY <1>6
  <2>2. Judged'
    BY <1>6, <2>1, Zenon DEF Judged
  <2> QED BY <1>1, <2>2
<1> QED BY <1>1, <1>4, <1>5, <1>6

\* Another thread makes t known: all that the loop relies on is kept, since t
\* is late.
LEMMA SupplyKeeps ==
  ASSUME Inv, Release, NEW t \in Tx, Known' = Known \cup {t},
         PrevTxs(t) \subseteq Known, Supply(t),
         UNCHANGED <<orphans, loop, tx, offered, verdict>>
  PROVE  Release'
<1>1. \A x : PrevTxs(x)' = PrevTxs(x)
  BY DEF PrevTxs, Prevouts
<1>2. /\ late \subseteq late' /\ late' \subseteq late \cup {t}
      /\ tx # Null => t \in late'
  BY DEF Supply
<1>3. tx = Null => vWorkQueue = <<>> /\ offered = Null /\ Queue = {} /\ vEraseQueue = {}
  BY QueueFacts DEF Release, Cursor
<1>4. Cursor'
  BY <1>1 DEF Release, Cursor, Awaiting, orphans, loop
<1>5. Closed'
  BY <1>1 DEF Release, Closed, orphans
<1>6. Judged'
  <2>1. CASE tx = Null
    <3>1. offered' = Null
      BY <1>3, <2>1
    <3> QED BY <3>1, Zenon DEF Judged
  <2>2. CASE tx # Null
    BY <1>1, <1>2, <2>2 DEF Release, Judged
  <2> QED BY <2>1, <2>2
<1>7. Progress'
  <2>1. Queue' = Queue
    BY DEF Queue, loop
  <2>2. \A x \in mapOrphanTransactions : Pending(x)' <=> Pending(x)
    BY <1>1 DEF Pending, Awaiting, loop
  <2>3. CASE tx = Null
    BY <1>3, <2>1, <2>3 DEF Progress, loop
  <2>4. CASE tx # Null
    BY <1>1, <1>2, <2>1, <2>2, <2>4 DEF Release, Progress, loop, orphans
  <2> QED BY <2>3, <2>4
<1> QED BY <1>4, <1>5, <1>6, <1>7 DEF Release

LEMMA AcceptTxKeeps ==
  ASSUME Inv, Release, AcceptTx
  PROVE  Release'
<1>1. \A x : PrevTxs(x)' = PrevTxs(x)
  BY DEF PrevTxs, Prevouts
<1>2. /\ tx \in Tx /\ offered = tx /\ verdict = "accept" /\ vWorkQueue = <<>>
      /\ vWorkQueue' = <<tx>> /\ i' = 1 /\ vEraseQueue' = {tx} /\ offered' = Null
      /\ verdict' = Null /\ tx' = tx
      /\ candidates' = {t \in mapOrphanTransactions : tx \in PrevTxs(t)}
      /\ UNCHANGED <<late, orphans>>
  BY DEF AcceptTx, Inv, OrphanTxTypeOK, OrphanIndexExact
<1>3. Known' = Known \cup {tx} /\ Queue' = {tx} /\ Len(vWorkQueue') = 1 /\ vWorkQueue'[1] = tx
  BY <1>2 DEF AcceptTx, Known, Queue, Range
<1>4. /\ tx \notin Coins /\ PrevTxs(tx) \subseteq Known
      /\ \A x \in Known \ Coins : tx \in PrevTxs(x) => x \in late
  BY <1>2 DEF Release, Judged
<1>5. Cursor'
  <2>1. vWorkQueue' # <<>> /\ Awaiting' = candidates'
    BY <1>2, <1>3 DEF Awaiting
  <2> QED BY <1>1, <1>2, <1>3, <2>1 DEF Cursor, orphans
<1>6. Closed'
  BY <1>1, <1>2, <1>3, <1>4 DEF Release, Closed, orphans
<1>7. Judged'
  BY <1>2, Zenon DEF Judged
<1>8. Progress'
  <2>1. \A t \in mapOrphanTransactions : tx \in PrevTxs(t) => Pending(t)'
    BY <1>2 DEF Pending, Awaiting
  <2> QED BY <1>1, <1>2, <1>3, <1>4, <2>1 DEF Progress, orphans
<1> QED BY <1>5, <1>6, <1>7, <1>8 DEF Release

LEMMA AcceptOrphanKeeps ==
  ASSUME Inv, Release, AcceptOrphan
  PROVE  Release'
<1>1. \A x : PrevTxs(x)' = PrevTxs(x)
  BY DEF PrevTxs, Prevouts
<1> DEFINE n == Len(vWorkQueue)
<1>2. /\ offered \in Tx /\ offered # Null /\ verdict = "accept" /\ vWorkQueue # <<>>
      /\ vWorkQueue' = Append(vWorkQueue, offered)
      /\ vEraseQueue' = vEraseQueue \cup {offered} /\ offered' = Null
      /\ verdict' = Null
      /\ UNCHANGED <<i, candidates, tx, late, orphans>>
  BY DEF AcceptOrphan, QueueOrphan, Inv, OrphanTxTypeOK
<1>3. /\ n \in Nat /\ i \in Nat /\ i <= n /\ vWorkQueue \in Seq(Tx)
      /\ Queue = {vWorkQueue[k] : k \in 1..n}
  BY QueueFacts
<1>4. /\ vWorkQueue' # <<>> /\ Len(vWorkQueue') = n + 1 /\ vWorkQueue'[n + 1] = offered
      /\ DOMAIN vWorkQueue' = 1..(n + 1)
      /\ \A k \in 1..n : vWorkQueue'[k] = vWorkQueue[k]
  BY <1>2, <1>3
<1> HIDE DEF n
<1>5. Known' = Known \cup {offered}
  BY <1>2 DEF AcceptOrphan, Known
<1>6. Queue' = Queue \cup {offered}
  <2>1. 1..(n + 1) = 1..n \cup {n + 1}
    BY <1>3
  <2>2. Queue' = {vWorkQueue'[k] : k \in 1..(n + 1)}
    BY <1>4 DEF Queue, Range
  <2> QED BY <1>3, <1>4, <2>1, <2>2
<1>7. /\ offered \notin Coins /\ PrevTxs(offered) \subseteq Known
      /\ \A x \in Known \ Coins : offered \in PrevTxs(x) => x \in late
  BY <1>2 DEF Release, Judged
<1>8. Awaiting = candidates \cup {offered} /\ Awaiting' = candidates
  BY <1>2 DEF Awaiting
<1>9. tx # Null /\ i # 0 /\ \A t \in Awaiting : t \in mapOrphanTransactions /\ vWorkQueue[i] \in PrevTxs(t)
  BY <1>2 DEF Release, Cursor
<1>10. Cursor'
  <2>1. vWorkQueue'[i] = vWorkQueue[i]
    BY <1>3, <1>4, <1>9
  <2> QED BY <1>1, <1>2, <1>4, <1>8, <1>9, <2>1 DEF Cursor, orphans
<1>11. Closed'
  BY <1>1, <1>2, <1>5, <1>7 DEF Release, Closed, orphans
<1>12. Judged'
  BY <1>2, Zenon DEF Judged
<1>13. ASSUME NEW t \in mapOrphanTransactions, t # offered, Pending(t) PROVE Pending(t)'
  <2>1. CASE t \in Awaiting
    BY <1>8, <1>13, <2>1 DEF Pending
  <2>2. CASE \E k \in (i + 1)..n : vWorkQueue[k] \in PrevTxs(t)
    <3>1. PICK k \in (i + 1)..n : vWorkQueue[k] \in PrevTxs(t)
      BY <2>2
    <3>2. k \in (i + 1)..(n + 1) /\ vWorkQueue'[k] = vWorkQueue[k]
      BY <1>3, <1>4
    <3> QED BY <1>1, <1>2, <1>4, <3>1, <3>2 DEF Pending
  <2> QED BY <1>13, <2>1, <2>2 DEF Pending, n
<1>14. ASSUME NEW t, offered \in PrevTxs(t) PROVE Pending(t)'
  <2>1. n + 1 \in (i + 1)..(n + 1)
    BY <1>3
  <2> QED BY <1>1, <1>2, <1>4, <1>14, <2>1 DEF Pending
<1>15. Progress'
  <2>1. vEraseQueue' \cap Known' \subseteq Queue' \cup late'
    BY <1>2, <1>5, <1>6 DEF Release, Progress
  <2>2. \A x \in Known' \ Coins : PrevTxs(x)' \cap Queue' # {} => x \in Queue' \cup late'
    BY <1>1, <1>2, <1>5, <1>6, <1>7 DEF Release, Progress
  <2>3. ASSUME NEW t \in mapOrphanTransactions \ vEraseQueue', PrevTxs(t) \cap Queue' # {}
        PROVE  Pending(t)' \/ PrevTxs(t) \ Known' # {} \/ PrevTxs(t) \cap late' # {}
    <3>1. CASE offered \in PrevTxs(t)
      BY <1>14, <3>1
    <3>2. CASE offered \notin PrevTxs(t)
      <4>1. PrevTxs(t) \cap Queue # {} /\ t # offered /\ t \notin vEraseQueue
        BY <1>2, <1>6, <2>3, <3>2
      <4>2. Pending(t) \/ PrevTxs(t) \ Known # {} \/ PrevTxs(t) \cap late # {}
        BY <4>1 DEF Release, Progress
      <4> QED BY <1>2, <1>5, <1>13, <3>2, <4>1, <4>2
    <3> QED BY <3>1, <3>2
  <2> QED BY <1>1, <1>2, <2>1, <2>2, <2>3 DEF Progress, orphans
<1> QED BY <1>10, <1>11, <1>12, <1>15 DEF Release

LEMMA PassOverKeeps ==
  ASSUME Inv, Release, PassOver
  PROVE  Release'
<1>1. \A x : PrevTxs(x)' = PrevTxs(x)
  BY DEF PrevTxs, Prevouts
<1>2. /\ offered \in Tx /\ offered # Null /\ vWorkQueue # <<>>
      /\ vEraseQueue' = IF verdict = "missing" THEN vEraseQueue ELSE vEraseQueue \cup {offered}
      /\ offered' = Null
      /\ UNCHANGED <<mapTx, index, vWorkQueue, i, candidates, tx, late, orphans>>
  BY DEF PassOver, pool, Inv, OrphanTxTypeOK
<1>3. Known' = Known /\ Queue' = Queue
  BY <1>2 DEF Known, Queue
<1>4. Awaiting = candidates \cup {offered} /\ Awaiting' = candidates
  BY <1>2 DEF Awaiting
<1>5. /\ tx # Null /\ i # 0
      /\ \A t \in Awaiting : t \in mapOrphanTransactions /\ vWorkQueue[i] \in PrevTxs(t)
  BY <1>2 DEF Release, Cursor
<1>6. Cursor'
  BY <1>1, <1>2, <1>4, <1>5 DEF Cursor, orphans
<1>7. Closed'
  BY <1>1, <1>2, <1>3 DEF Release, Closed, orphans
<1>8. Judged'
  BY <1>2, Zenon DEF Judged
<1>9. Progress'
  <2>1. offered \in Known => offered \in Queue \cup late
    <3>1. offered \notin Coins /\ vWorkQueue[i] \in PrevTxs(offered) \cap Queue
      BY <1>2, <1>4, <1>5, QueueFacts DEF Release, Closed
    <3> QED BY <3>1 DEF Release, Progress
  <2>2. vEraseQueue' \cap Known' \subseteq Queue' \cup late'
    BY <1>2, <1>3, <2>1 DEF Release, Progress
  <2>3. \A x \in Known' \ Coins : PrevTxs(x)' \cap Queue' # {} => x \in Queue' \cup late'
    BY <1>1, <1>2, <1>3 DEF Release, Progress
  <2>4. ASSUME NEW t \in mapOrphanTransactions \ vEraseQueue', PrevTxs(t) \cap Queue' # {}
        PROVE  Pending(t)' \/ PrevTxs(t) \ Known' # {} \/ PrevTxs(t) \cap late' # {}
    <3>1. t \notin vEraseQueue /\ PrevTxs(t) \cap Queue # {}
      BY <1>2, <1>3, <2>4
    <3>2. Pending(t) \/ PrevTxs(t) \ Known # {} \/ PrevTxs(t) \cap late # {}
      BY <3>1 DEF Release, Progress
    <3>3. CASE t = offered
      <4>1. verdict = "missing"
        BY <1>2, <2>4, <3>3
      <4> QED BY <1>2, <1>3, <3>3, <4>1 DEF Release, Judged
    <3>4. CASE t # offered
      <4>1. Pending(t) => Pending(t)'
        BY <1>1, <1>2, <1>4, <3>4 DEF Pending
      <4> QED BY <1>2, <1>3, <3>2, <4>1
    <3> QED BY <3>3, <3>4
  <2> QED BY <1>1, <1>2, <2>2, <2>3, <2>4 DEF Progress, orphans
<1> QED BY <1>6, <1>7, <1>8, <1>9 DEF Release

LEMMA TryOrphanKeeps ==
  ASSUME Inv, Release, NEW t \in Tx, TryOrphan(t)
  PROVE  Release'
<1>1. \A x : PrevTxs(x)' = PrevTxs(x)
  BY DEF PrevTxs, Prevouts
<1>2. /\ offered = Null /\ t \in candidates /\ candidates' = candidates \ {t} /\ offered' = t
      /\ t # Null /\ Offer(t)
      /\ UNCHANGED <<mapTx, index, vWorkQueue, i, vEraseQueue, tx, late, orphans>>
  BY DEF TryOrphan, Offer, pool
<1>3. Known' = Known /\ Queue' = Queue /\ Awaiting' = Awaiting
  BY <1>2 DEF Known, Queue, Awaiting
<1>4. vWorkQueue # <<>> /\ tx # Null
  BY <1>2 DEF Inv, OrphanTxTypeOK, Release, Cursor
<1>5. Cursor'
  BY <1>1, <1>2, <1>3, <1>4 DEF Release, Cursor, orphans
<1>6. Closed'
  BY <1>1, <1>2, <1>3 DEF Release, Closed, orphans
<1>7. Judged'
  BY <1>2, OfferIs DEF Release
<1>8. Progress'
  <2>1. \A x : Pending(x)' <=> Pending(x)
    BY <1>1, <1>2, <1>3 DEF Pending
  <2> QED BY <1>1, <1>2, <1>3, <2>1 DEF Release, Progress, orphans
<1> QED BY <1>5, <1>6, <1>7, <1>8 DEF Release

LEMMA NextInWorkQueueKeeps ==
  ASSUME Inv, Release, NextInWorkQueue
  PROVE  Release'
<1>1. \A x : PrevTxs(x)' = PrevTxs(x)
  BY DEF PrevTxs, Prevouts
<1> DEFINE n == Len(vWorkQueue)
<1>2. /\ tx # Null /\ offered = Null /\ candidates = {} /\ i < n /\ i' = i + 1
      /\ candidates' = mapOrphanTransactionsByPrev[vWorkQueue[i + 1]]
      /\ UNCHANGED <<mapTx, index, vWorkQueue, vEraseQueue, tx, offered, verdict, late, orphans>>
  BY DEF NextInWorkQueue, pool
<1>3. /\ n \in Nat /\ i \in Nat /\ i <= n
      /\ \A k \in 1..n : vWorkQueue[k] \in Tx
  BY QueueFacts
<1>4. i + 1 \in 1..n /\ i' # 0
  BY <1>2, <1>3
<1> HIDE DEF n
<1>5. candidates' = {t \in mapOrphanTransactions : vWorkQueue[i + 1] \in PrevTxs(t)}
  BY <1>2, <1>3, <1>4 DEF Inv, OrphanIndexExact
<1>6. Known' = Known /\ Queue' = Queue /\ Awaiting = {} /\ Awaiting' = candidates'
  BY <1>2 DEF Known, Queue, Awaiting
<1>7. Cursor'
  <2>1. vWorkQueue # <<>>
    BY <1>2, <1>3, <1>4 DEF n
  <2> QED BY <1>1, <1>2, <1>4, <1>5, <1>6, <2>1 DEF Cursor, orphans
<1>8. Closed'
  BY <1>1, <1>2, <1>6 DEF Release, Closed, orphans
<1>9. Judged'
  BY <1>2, Zenon DEF Judged
<1>10. ASSUME NEW t \in mapOrphanTransactions, Pending(t) PROVE Pending(t)'
  <2>1. PICK k \in (i + 1)..n : vWorkQueue[k] \in PrevTxs(t)
    BY <1>6, <1>10 DEF Pending, n
  <2>2. CASE k = i + 1
    BY <1>5, <1>6, <2>1, <2>2 DEF Pending
  <2>3. CASE k # i + 1
    <3>1. k \in (i' + 1)..n
      BY <1>2, <1>3, <2>3
    <3> QED BY <1>1, <1>2, <2>1, <3>1 DEF Pending, n
  <2> QED BY <2>2, <2>3
<1>11. Progress'
  BY <1>1, <1>2, <1>6, <1>10 DEF Release, Progress, orphans
<1> QED BY <1>7, <1>8, <1>9, <1>11 DEF Release

\* The message is done with: nothing is left in the loop.
LEMMA ReturnKeeps ==
  ASSUME Inv, Release, Return, UNCHANGED pool, vWorkQueue' = <<>>, vEraseQueue' = {}, i' = 0,
         mapOrphanTransactions' \cap Coins = {}
  PROVE  Release'
<1>1. \A x : PrevTxs(x)' = PrevTxs(x)
  BY DEF PrevTxs, Prevouts
<1>2. Known' = Known /\ offered' = Null
  BY DEF Known, Return, pool
<1>3. Queue' = {}
  <2>1. DOMAIN <<>> = {}
    OBVIOUS
  <2> QED BY <2>1 DEF Queue, Range
<1>4. Cursor'
  BY <1>2 DEF Cursor
<1>5. Closed'
  BY <1>1, <1>2 DEF Release, Closed
<1>6. Judged'
  BY <1>2, Zenon DEF Judged
<1>7. Progress'
  BY <1>3 DEF Progress
<1> QED BY <1>4, <1>5, <1>6, <1>7 DEF Release

\* Every step keeps the invariant.
LEMMA ReleaseStep == Inv /\ Release /\ [Next]_vars => Release'
<1> SUFFICES ASSUME Inv, Release, [Next]_vars PROVE Release'
  OBVIOUS
<1>0. \A x : PrevTxs(x)' = PrevTxs(x)
  BY DEF PrevTxs, Prevouts
<1>1. ASSUME NEW t \in Tx, ReceiveTx(t) PROVE Release'
  <2>1. /\ tx = Null /\ tx' # Null /\ Offer(t)
        /\ UNCHANGED <<mapTx, index, orphans, loop, late>>
    BY <1>1 DEF ReceiveTx, pool
  <2>2. vWorkQueue = <<>> /\ vEraseQueue = {} /\ i = 0 /\ Queue = {}
    BY <2>1, QueueFacts DEF Release, Cursor
  <2>3. Known' = Known /\ Queue' = {}
    BY <2>1, <2>2 DEF Known, Queue, loop
  <2>4. Cursor'
    BY <2>1, <2>2 DEF Cursor, loop
  <2>5. Closed'
    BY <1>0, <2>1, <2>3 DEF Release, Closed, orphans
  <2>6. Judged'
    BY <2>1, OfferIs DEF Release
  <2>7. Progress'
    BY <2>1, <2>2, <2>3 DEF Progress, loop
  <2> QED BY <2>4, <2>5, <2>6, <2>7 DEF Release
<1>2. ASSUME NEW t \in Tx, TryOrphan(t) PROVE Release'
  BY <1>2, TryOrphanKeeps
<1>3. ASSUME NEW t \in Tx, SendTx(t) PROVE Release'
  <2>1. PrevTxs(t) \subseteq Known
    BY <1>3 DEF SendTx, Verdict
  <2>2. Known' = Known \cup {t} /\ Supply(t) /\ UNCHANGED <<orphans, loop, tx, offered, verdict>>
    BY <1>3 DEF SendTx, Known
  <2> QED BY <2>1, <2>2, SupplyKeeps
<1>4. ASSUME NEW t \in Tx, NEW b \in Block, ConfirmTx(t, b) PROVE Release'
  <2>1. DOMAIN index' = DOMAIN index \cup {t} /\ mapTx' = mapTx \ {t}
    BY <1>4 DEF ConfirmTx, WithEntry, MarkSpent
  <2>2. PrevTxs(t) \subseteq Known
    BY <1>4 DEF ConfirmTx, FetchInputs, PrevTxs, Prevouts, Known
  <2>3. Known' = Known \cup {t}
    BY <2>1 DEF Known
  <2>4. Supply(t) /\ UNCHANGED <<orphans, loop, tx, offered, verdict>>
    BY <1>4 DEF ConfirmTx
  <2> QED BY <2>2, <2>3, <2>4, SupplyKeeps
<1>5. CASE AcceptTx
  BY <1>5, AcceptTxKeeps
<1>6. CASE KeepTx
  <2>1. /\ tx # Null /\ offered = tx /\ vWorkQueue = <<>> /\ verdict = "missing"
        /\ Return /\ UNCHANGED <<pool, loop>>
    BY <1>6 DEF KeepTx
  <2>2. tx \notin Coins /\ vEraseQueue = {} /\ i = 0
    BY <2>1 DEF Release, Judged, Cursor
  <2>3. mapOrphanTransactions' \subseteq mapOrphanTransactions \cup {tx}
    BY <1>6, LimitLemma DEF KeepTx, StoreOrphan, orphans
  <2>4. mapOrphanTransactions' \cap Coins = {}
    BY <2>2, <2>3 DEF Release, Closed
  <2> QED BY <2>1, <2>2, <2>4, ReturnKeeps DEF loop
<1>7. CASE RejectTx
  <2>1. vWorkQueue = <<>> /\ Return /\ UNCHANGED <<pool, loop, orphans>>
    BY <1>7 DEF RejectTx
  <2>2. /\ vEraseQueue = {} /\ i = 0 /\ mapOrphanTransactions' \cap Coins = {}
    BY <2>1 DEF Release, Cursor, Closed, orphans
  <2> QED BY <2>1, <2>2, ReturnKeeps DEF loop
<1>8. CASE AcceptOrphan
  BY <1>8, AcceptOrphanKeeps
<1>9. CASE PassOver
  BY <1>9, PassOverKeeps
<1>10. CASE NextInWorkQueue
  BY <1>10, NextInWorkQueueKeeps
<1>11. CASE EraseOrphans
  <2>1. /\ Return /\ UNCHANGED pool /\ vWorkQueue' = <<>> /\ vEraseQueue' = {} /\ i' = 0
        /\ mapOrphanTransactions' \subseteq mapOrphanTransactions
    BY <1>11 DEF EraseOrphans
  <2> QED BY <2>1, ReturnKeeps DEF Release, Closed
<1>12. CASE UNCHANGED vars
  <2>1. /\ UNCHANGED <<mapTx, index, orphans, loop, tx, offered, verdict, late>>
    BY <1>12 DEF vars, pool
  <2>2. Known' = Known /\ Queue' = Queue /\ Awaiting' = Awaiting
    BY <2>1 DEF Known, Queue, Awaiting, loop
  <2>3. \A x : Pending(x)' <=> Pending(x)
    BY <1>0, <2>1, <2>2 DEF Pending, loop
  <2>4. Cursor' /\ Closed' /\ Judged'
    BY <1>0, <2>1, <2>2 DEF Release, Cursor, Closed, Judged, loop, orphans
  <2>5. Progress'
    BY <1>0, <2>1, <2>2, <2>3 DEF Release, Progress, loop, orphans
  <2> QED BY <2>4, <2>5 DEF Release
<1> QED
  BY <1>1, <1>2, <1>3, <1>4, <1>5, <1>6, <1>7, <1>8, <1>9, <1>10, <1>11, <1>12
     DEF Next

LEMMA ReleaseInit == Init => Release
<1> SUFFICES ASSUME Init PROVE Release
  OBVIOUS
<1>1. Known = Coins
  BY DEF Init, Known
<1>2. Queue = {}
  <2>1. DOMAIN <<>> = {}
    OBVIOUS
  <2> QED BY <2>1 DEF Init, Queue, Range
<1>3. Cursor /\ Closed /\ Judged
  BY <1>1 DEF Init, Cursor, Closed, Judged
<1>4. Progress
  BY <1>2 DEF Init, Progress
<1> QED BY <1>3, <1>4 DEF Release

\* The release loop of the tx message leaves no orphan behind that it could have
\* taken: whatever other threads add to the pool or the chain meanwhile, an
\* orphan that spends a released transaction is kept only for an input that is
\* not known, or came from another thread during the call.
THEOREM ReleaseHolds == Spec => ReleaseIsComplete
<1> DEFINE Complete ==
      tx # Null /\ tx' = Null =>
        \A t \in mapOrphanTransactions' :
          PrevTxs(t) \cap (vEraseQueue \cap Known) # {} =>
            PrevTxs(t) \ Known # {} \/ PrevTxs(t) \cap late # {}
<1>1. Inv /\ Release /\ [Next]_vars => [Complete]_vars
  <2> SUFFICES ASSUME Inv, Release, Next, tx # Null, tx' = Null,
                      NEW t \in mapOrphanTransactions',
                      PrevTxs(t) \cap (vEraseQueue \cap Known) # {}
               PROVE  PrevTxs(t) \ Known # {} \/ PrevTxs(t) \cap late # {}
    OBVIOUS
  <2>1. vWorkQueue # <<>>
    BY DEF Release, Cursor
  <2>2. EraseOrphans
    BY <2>1 DEF Next, ReceiveTx, TryOrphan, SendTx, ConfirmTx, AcceptTx, KeepTx, RejectTx,
                AcceptOrphan, PassOver, NextInWorkQueue
  <2>3. /\ t \in mapOrphanTransactions \ vEraseQueue /\ offered = Null /\ candidates = {}
        /\ i = Len(vWorkQueue)
    BY <2>2 DEF EraseOrphans
  <2>4. ~Pending(t)
    <3>1. (i + 1)..Len(vWorkQueue) = {}
      BY <2>3, QueueFacts
    <3> QED BY <2>3, <3>1 DEF Pending, Awaiting
  <2>5. PICK p \in PrevTxs(t) : p \in vEraseQueue \cap Known
    OBVIOUS
  <2>6. p \in Queue \cup late
    BY <2>5 DEF Release, Progress
  <2> QED BY <2>3, <2>4, <2>5, <2>6 DEF Release, Progress
<1>2. Spec => []Inv
  BY InvInit, InvStep, PTL DEF Spec
<1>3. Spec => []Release
  BY <1>2, ReleaseInit, ReleaseStep, PTL DEF Spec
<1> QED BY <1>1, <1>2, <1>3, PTL DEF Spec, ReleaseIsComplete
=============================================================================
