----------------------------- MODULE BestChain -----------------------------
(***************************************************************************)
(* The best-chain state machine of main.cpp: AddToBlockIndex puts a block  *)
(* in the block tree, and when the block has more chain trust than the     *)
(* best one, SetBestChain moves the best chain to it: by connecting one    *)
(* block, or by Reorganize and then one commit for each postponed block.   *)
(* A checkpoint makes the same call for a known block of any trust.        *)
(*                                                                         *)
(* One call runs at a time here, as when every caller holds cs_main; what  *)
(* happens when the message handler, which does not, overlaps another      *)
(* caller is the subject of module SharedTip.  A call is still several     *)
(* steps, because the process can stop between any two of them and restart *)
(* from what the database holds (LoadBlockIndex).                          *)
(*                                                                         *)
(* txdb is the LevelDB database; batch is its open WriteBatch, whose reads *)
(* see the staged writes first (ScanBatch), so it is the whole database as *)
(* the transaction sees it.  Both hold the fields of blockindex records    *)
(* that change after the block is stored (hashNext), the key hashBestChain *)
(* and the transaction index (tx).                                         *)
(***************************************************************************)
EXTENDS TxPool

CONSTANTS Genesis,        \* hashGenesisBlock
          hashPrevBlock,  \* the parent of every block but the genesis
          Branch,         \* Branch[b]: b and all its ancestors
          GetBlockTrust,  \* the trust one block adds to its chain
          Valid,          \* the blocks whose contents pass every contextual
                          \* check of ConnectBlock but the payee of the
                          \* masternode payment
          Suspect,        \* the blocks a later version may find bad
          Checkpoint,     \* the blocks a signed or hardened checkpoint names
          Spork12         \* value of SPORK_12_PAYMENT_ENFORCEMENT_THRESHOLD

ASSUME TreeAssumption ==
  /\ Genesis \in Block
  /\ hashPrevBlock \in [Block \ {Genesis} -> Block]
  /\ Branch \in [Block -> SUBSET Block]
  /\ Branch[Genesis] = {Genesis}
  /\ \A b \in Block \ {Genesis} :
       /\ Branch[b] = Branch[hashPrevBlock[b]] \cup {b}
       /\ b \notin Branch[hashPrevBlock[b]]

ASSUME TrustAssumption ==
  /\ GetBlockTrust \in [Block -> Nat \ {0}]
  /\ Suspect \subseteq Block \ {Genesis}
  /\ Checkpoint \subseteq Block
  /\ Spork12 \in Int

VARIABLES
  nHeight,           \* height of every block in mapBlockIndex
  nChainTrust,       \* trust of the chain that ends in the block
  pnext,             \* the successor on the best chain, or Null
  pindexBest,        \* the end of the best chain in memory
  hashBestChain,     \* its hash, kept in a variable of its own
  nBestChainTrust,
  nBestInvalidTrust,
  mapTx,             \* the memory pool
  badBlocks,         \* the blocks this version's CheckBlock rejects
  txdb,              \* the database: hashNext, hashBestChain, tx
  batch,             \* the open database transaction, or NoBatch
  pc,                \* where SetBestChain is, "idle" between calls
  hash,              \* the block SetBestChain was called for
  pindexIntermediate,\* the block Reorganize moves to
  pindex,            \* the last block disconnected from or connected to
  vResurrect,        \* transactions of the disconnected blocks
  vDelete            \* transactions of the connected blocks

memory == <<nHeight, nChainTrust>>
best   == <<pindexBest, hashBestChain, nBestChainTrust>>
call   == <<hash, pindexIntermediate, pindex, vResurrect, vDelete>>
vars   == <<nHeight, nChainTrust, pnext, pindexBest, hashBestChain,
            nBestChainTrust, nBestInvalidTrust, mapTx, badBlocks, txdb,
            batch, pc, hash, pindexIntermediate, pindex, vResurrect, vDelete>>

\* The blocks in mapBlockIndex; the map holds an entry for each of them.
mapBlockIndex == DOMAIN nChainTrust

\* A database: its blockindex links, its best-chain key and its tx index.
Database(links, tip, index) ==
  [hashNext |-> links, hashBestChain |-> tip, tx |-> index]

NoBatch == Database(<<>>, Null, <<>>)

\* A call frame that is not in use.
NoCall ==
  /\ hash' = Null
  /\ pindexIntermediate' = Null
  /\ pindex' = Null
  /\ vResurrect' = <<>>
  /\ vDelete' = <<>>

\* postponedBlocks: how many blocks SetBestChain connects after Reorganize,
\* -1 when there are none.
postponedBlocks ==
  IF pindexIntermediate = hash THEN -1
  ELSE nHeight[hash] - nHeight[pindexIntermediate]

-----------------------------------------------------------------------------
(* What one block does to the database.                                    *)

(***************************************************************************)
(* The payee of the masternode payment is compared with the local payment  *)
(* list, which differs from node to node and moment to moment: payeeOk is  *)
(* the outcome.  A wrong payee is let through when enough blocks were      *)
(* postponed.  CheckBlock is repeated; its verdict is badBlocks.           *)
(***************************************************************************)
Checks(b, postponed, payeeOk) ==
  /\ b \notin badBlocks
  /\ b \in Valid
  /\ payeeOk \/ postponed >= Spork12

(***************************************************************************)
(* ConnectBlock(txdb, pindex, fJustCheck, reorganize, postponedBlocks) on  *)
(* the database view db: [ok, db].  The block's own record is written with *)
(* the pnext in memory; the rest only when fJustCheck is not set.          *)
(***************************************************************************)
ConnectBlock(db, b, fJustCheck, skipTxCheck, postponed, payeeOk) ==
  LET amounts == CalculateBlockAmounts(db.tx, b, fJustCheck, skipTxCheck)
      own     == [db.hashNext EXCEPT ![b] = pnext[b]]
  IN  IF ~Checks(b, postponed, payeeOk) \/ ~amounts.ok
      THEN [ok |-> FALSE, db |-> db]
      ELSE [ok |-> TRUE,
            db |-> IF fJustCheck
                   THEN Database(own, db.hashBestChain, db.tx)
                   ELSE Database([own EXCEPT ![hashPrevBlock[b]] = b],
                                 db.hashBestChain, amounts.view)]

\* Fault: the link from the parent is left in the database.
DisconnectBlockKeepsLink(db, b) ==
  LET txs == DisconnectTxs(db.tx, b)
  IN  [ok |-> txs.ok, db |-> Database(db.hashNext, db.hashBestChain, txs.view)]

\* DisconnectBlock on the database view db: [ok, db].
DisconnectBlock(db, b) ==
  LET txs == DisconnectTxs(db.tx, b)
  IN  [ok |-> txs.ok,
       db |-> Database([db.hashNext EXCEPT ![hashPrevBlock[b]] = Null],
                       db.hashBestChain, txs.view)]

\* Fault: WriteHashBestChain is forgotten.
SetBestChainInnerKeepsTip(db, b, reorganize, payeeOk) ==
  ConnectBlock(db, b, reorganize, TRUE, -1, payeeOk)

(***************************************************************************)
(* SetBestChainInner(txdb, pindexNew, reorganize, postponedBlocks = -1).   *)
(* Its call of ConnectBlock passes reorganize where fJustCheck is declared *)
(* and postponedBlocks where the Boolean reorganize is: fJustCheck is its  *)
(* reorganize argument, skipTxCheck is always TRUE (-1 and every positive  *)
(* count convert to true), and postponedBlocks keeps its default -1.       *)
(***************************************************************************)
SetBestChainInner(db, b, reorganize, payeeOk) ==
  LET r == ConnectBlock(db, b, reorganize, TRUE, -1, payeeOk)
  IN  [ok |-> r.ok, db |-> Database(r.db.hashNext, b, r.db.tx)]

\* InvalidChainFound(pindexNew); the value goes straight to the database.
InvalidChainFound(b) ==
  nBestInvalidTrust' = IF nChainTrust[b] > nBestInvalidTrust
                       THEN nChainTrust[b] ELSE nBestInvalidTrust

-----------------------------------------------------------------------------
(* The actions.                                                            *)

\* A database that LoadBlockIndex has just initialised with the genesis.
Init ==
  /\ nHeight = [b \in {Genesis} |-> 0]
  /\ nChainTrust = [b \in {Genesis} |-> GetBlockTrust[b]]
  /\ pnext = [b \in {Genesis} |-> Null]
  /\ pindexBest = Genesis
  /\ hashBestChain = Genesis
  /\ nBestChainTrust = GetBlockTrust[Genesis]
  /\ nBestInvalidTrust = 0
  /\ mapTx = {}
  /\ badBlocks = {}
  /\ txdb = Database([b \in {Genesis} |-> Null], Genesis, <<>>)
  /\ batch = NoBatch
  /\ pc = "idle"
  /\ hash = Null
  /\ pindexIntermediate = Null
  /\ pindex = Null
  /\ vResurrect = <<>>
  /\ vDelete = <<>>

\* Fault: the record of the new block is not written.
WriteBlockIndexSkipped(db, b) == db

\* The blockindex record of a new block, with no successor.
WriteBlockIndex(db, b) ==
  Database([x \in DOMAIN db.hashNext \cup {b} |->
              IF x = b THEN Null ELSE db.hashNext[x]],
           db.hashBestChain, db.tx)

\* Fault: a chain of equal trust replaces the first one seen.
HasAsMuchTrust(trust) == trust >= nBestChainTrust

\* The test for a new best chain.
HasMoreTrust(trust) == trust > nBestChainTrust

(***************************************************************************)
(* AcceptBlock and AddToBlockIndex: block b, not known, with a known       *)
(* parent, is given its height and trust and stored.  SetBestChain is      *)
(* called when its trust exceeds nBestChainTrust.                          *)
(***************************************************************************)
AddToBlockIndex(b) ==
  LET trust == nChainTrust[hashPrevBlock[b]] + GetBlockTrust[b]
      known == mapBlockIndex \cup {b}
  IN  /\ pc = "idle"
      /\ b \notin mapBlockIndex
      /\ b \notin badBlocks
      /\ hashPrevBlock[b] \in mapBlockIndex
      /\ nHeight' = [x \in known |-> IF x = b THEN nHeight[hashPrevBlock[b]] + 1
                                     ELSE nHeight[x]]
      /\ nChainTrust' = [x \in known |-> IF x = b THEN trust
                                         ELSE nChainTrust[x]]
      /\ pnext' = [x \in known |-> IF x = b THEN Null ELSE pnext[x]]
      /\ txdb' = WriteBlockIndex(txdb, b)
      /\ IF HasMoreTrust(trust)
         THEN pc' = "setbest" /\ hash' = b
         ELSE pc' = "idle" /\ hash' = Null
      /\ UNCHANGED <<best, nBestInvalidTrust, mapTx, badBlocks, batch,
                     pindexIntermediate, pindex, vResurrect, vDelete>>

\* CBlockIndex::IsInMainChain.
IsInMainChain(b) == pnext[b] # Null \/ b = pindexBest

(***************************************************************************)
(* ProcessSyncCheckpoint, AcceptPendingSyncCheckpoint or                   *)
(* ResetSyncCheckpoint: a checkpointed block that is known and not in the  *)
(* main chain becomes the best one, whatever its trust.  Which checkpoints *)
(* these functions admit, and what they do after the call, is left to the  *)
(* checkpoint code: here any known one may be enforced at any time.        *)
(***************************************************************************)
EnforceCheckpoint(b) ==
  /\ pc = "idle"
  /\ b \in Checkpoint \cap mapBlockIndex
  /\ ~IsInMainChain(b)
  /\ pc' = "setbest"
  /\ hash' = b
  /\ UNCHANGED <<memory, pnext, best, nBestInvalidTrust, mapTx, badBlocks, txdb,
                 batch, pindexIntermediate, pindex, vResurrect, vDelete>>

\* accept() for a transaction from the network or the wallet.
AcceptToMemoryPool(t) ==
  /\ pc = "idle"
  /\ InputsAvailable(mapTx, txdb.tx, t)
  /\ Accept(mapTx, t) # mapTx
  /\ mapTx' = Accept(mapTx, t)
  /\ UNCHANGED <<memory, pnext, best, nBestInvalidTrust, badBlocks, txdb,
                 batch, pc, call>>

\* SetBestChain, hashPrevBlock == hashBestChain, SetBestChainInner succeeds.
ConnectTip ==
  \E payeeOk \in BOOLEAN :
    LET r == SetBestChainInner(txdb, hash, FALSE, payeeOk) IN
      /\ pc = "setbest"
      /\ hash # Genesis /\ hashPrevBlock[hash] = hashBestChain
      /\ r.ok
      /\ txdb' = r.db
      /\ pnext' = [pnext EXCEPT ![hashPrevBlock[hash]] = hash]
      /\ mapTx' = mapTx \ {vtx[hash][i] : i \in DOMAIN vtx[hash]}
      /\ pc' = "newbest"
      /\ pindex' = hash
      /\ UNCHANGED <<memory, best, nBestInvalidTrust, badBlocks, batch, hash,
                     pindexIntermediate, vResurrect, vDelete>>

\* ... SetBestChainInner fails: TxnAbort, InvalidChainFound, error return.
ConnectTipFailed ==
  /\ pc = "setbest"
  /\ hash # Genesis /\ hashPrevBlock[hash] = hashBestChain
  /\ \E payeeOk \in BOOLEAN : ~SetBestChainInner(txdb, hash, FALSE, payeeOk).ok
  /\ InvalidChainFound(hash)
  /\ pc' = "idle"
  /\ NoCall
  /\ UNCHANGED <<memory, pnext, best, mapTx, badBlocks, txdb, batch>>

\* x is where the search for pindexIntermediate stops: all blocks above it
\* have a parent with more trust than the best chain, x has not.
IsIntermediate(x) ==
  /\ x \in Branch[hash]
  /\ x # Genesis => nChainTrust[hashPrevBlock[x]] <= nChainTrust[pindexBest]
  /\ \A y \in Branch[hash] :
       nHeight[y] > nHeight[x] =>
         nChainTrust[hashPrevBlock[y]] > nChainTrust[pindexBest]

\* SetBestChain, otherwise: TxnBegin, find pindexIntermediate, Reorganize.
BeginReorganize ==
  /\ pc = "setbest"
  /\ hash # Genesis => hashPrevBlock[hash] # hashBestChain
  /\ \E x \in mapBlockIndex :
       /\ IsIntermediate(x)
       /\ pindexIntermediate' = x
  /\ batch' = txdb
  /\ pindex' = pindexBest
  /\ pc' = "disconnect"
  /\ UNCHANGED <<memory, pnext, best, nBestInvalidTrust, mapTx, badBlocks,
                 txdb, hash, vResurrect, vDelete>>

\* Reorganize: disconnect the end of the old branch, down to the fork.
DisconnectTip ==
  LET r == DisconnectBlock(batch, pindex) IN
    /\ pc = "disconnect"
    /\ pindex \notin Branch[pindexIntermediate]
    /\ r.ok
    /\ batch' = r.db
    /\ pindex' = hashPrevBlock[pindex]
    /\ vResurrect' = vResurrect \o Resurrected(vtx[pindex])
    /\ UNCHANGED <<memory, pnext, best, nBestInvalidTrust, mapTx, badBlocks,
                   txdb, pc, hash, pindexIntermediate, vDelete>>

\* Reorganize: pindex is the fork; from here on blocks are connected.
ReachFork ==
  /\ pc = "disconnect"
  /\ pindex \in Branch[pindexIntermediate]
  /\ pc' = "connect"
  /\ UNCHANGED <<memory, pnext, best, nBestInvalidTrust, mapTx, badBlocks,
                 txdb, batch, call>>

\* The block after pindex on the way to target.
IsNext(x, target) ==
  /\ x \in Branch[target]
  /\ x # Genesis
  /\ hashPrevBlock[x] = pindex

\* Reorganize: connect the next block of the new branch.
ConnectNext ==
  \E x \in mapBlockIndex, payeeOk \in BOOLEAN :
    LET r == ConnectBlock(batch, x, FALSE, TRUE, postponedBlocks, payeeOk) IN
      /\ pc = "connect"
      /\ pindex # pindexIntermediate
      /\ IsNext(x, pindexIntermediate)
      /\ r.ok
      /\ batch' = r.db
      /\ pindex' = x
      /\ vDelete' = vDelete \o vtx[x]
      /\ UNCHANGED <<memory, pnext, best, nBestInvalidTrust, mapTx, badBlocks,
                     txdb, pc, hash, pindexIntermediate, vResurrect>>

\* Reorganize returns false: a block of the old branch does not disconnect,
\* or one of the new branch does not connect.
ReorganizeFails ==
  \/ /\ pc = "disconnect"
     /\ pindex \notin Branch[pindexIntermediate]
     /\ ~DisconnectBlock(batch, pindex).ok
  \/ /\ pc = "connect"
     /\ pindex # pindexIntermediate
     /\ \E x \in mapBlockIndex, payeeOk \in BOOLEAN :
          /\ IsNext(x, pindexIntermediate)
          /\ ~ConnectBlock(batch, x, FALSE, TRUE, postponedBlocks, payeeOk).ok

\* SetBestChain: TxnAbort, InvalidChainFound(pindexNew), error return.
ReorganizeFailed ==
  /\ ReorganizeFails
  /\ InvalidChainFound(hash)
  /\ batch' = NoBatch
  /\ pc' = "idle"
  /\ NoCall
  /\ UNCHANGED <<memory, pnext, best, mapTx, badBlocks, txdb>>

\* pnext of every block on the path from the fork: the links of the blocks
\* disconnected are cut, those of the blocks connected are set.
RelinkedBranch ==
  [b \in mapBlockIndex |->
     IF \E x \in Branch[pindexIntermediate] \ Branch[pindexBest] :
          hashPrevBlock[x] = b
     THEN CHOOSE x \in Branch[pindexIntermediate] \ Branch[pindexBest] :
            hashPrevBlock[x] = b
     ELSE IF \E x \in Branch[pindexBest] \ Branch[pindexIntermediate] :
               hashPrevBlock[x] = b
          THEN Null
          ELSE pnext[b]]

\* Reorganize, all blocks connected: WriteHashBestChain, TxnCommit, then the
\* links and the pool in memory.
CommitReorganize ==
  /\ pc = "connect"
  /\ pindex = pindexIntermediate
  /\ txdb' = Database(batch.hashNext, pindexIntermediate, batch.tx)
  /\ batch' = NoBatch
  /\ pnext' = RelinkedBranch
  /\ mapTx' = DeleteAll(ResurrectAll(mapTx, vResurrect), vDelete)
  /\ pc' = "secondary"
  /\ UNCHANGED <<memory, best, nBestInvalidTrust, badBlocks, call>>

\* SetBestChain: connect one postponed block, in a transaction of its own.
ConnectSecondary ==
  \E x \in mapBlockIndex, payeeOk \in BOOLEAN :
    LET r == SetBestChainInner(txdb, x, TRUE, payeeOk) IN
      /\ pc = "secondary"
      /\ pindex # hash
      /\ IsNext(x, hash)
      /\ r.ok
      /\ txdb' = r.db
      /\ pnext' = [pnext EXCEPT ![pindex] = x]
      /\ mapTx' = mapTx \ {vtx[x][i] : i \in DOMAIN vtx[x]}
      /\ pindex' = x
      /\ UNCHANGED <<memory, best, nBestInvalidTrust, badBlocks, batch, pc,
                     hash, pindexIntermediate, vResurrect, vDelete>>

\* ... one that fails ends the loop, and pindexNew = pindex->pprev.
SecondaryFailed ==
  /\ pc = "secondary"
  /\ pindex # hash
  /\ \E x \in mapBlockIndex, payeeOk \in BOOLEAN :
       /\ IsNext(x, hash)
       /\ ~SetBestChainInner(txdb, x, TRUE, payeeOk).ok
       /\ InvalidChainFound(x)
  /\ pc' = "newbest"
  /\ UNCHANGED <<memory, pnext, best, mapTx, badBlocks, txdb, batch, call>>

\* No postponed block is left.
SecondaryDone ==
  /\ pc = "secondary"
  /\ pindex = hash
  /\ pc' = "newbest"
  /\ UNCHANGED <<memory, pnext, best, nBestInvalidTrust, mapTx, badBlocks,
                 txdb, batch, call>>

\* Fault: the tip in memory is the block the call was made for, even when a
\* postponed block before it failed.
NewBestIgnoresFailure ==
  /\ pc = "newbest"
  /\ hashBestChain' = hash
  /\ pindexBest' = hash
  /\ pnext' = [pnext EXCEPT ![hash] = Null]
  /\ nBestChainTrust' = nChainTrust[hash]
  /\ pc' = "idle"
  /\ NoCall
  /\ UNCHANGED <<memory, nBestInvalidTrust, mapTx, badBlocks, txdb, batch>>

\* The end of SetBestChain.  hashBestChain is the hash of the block the call
\* was made for, pindexBest the last block that was connected.
NewBest ==
  /\ pc = "newbest"
  /\ hashBestChain' = hash
  /\ pindexBest' = pindex
  /\ pnext' = [pnext EXCEPT ![pindex] = Null]
  /\ nBestChainTrust' = nChainTrust[pindex]
  /\ pc' = "idle"
  /\ NoCall
  /\ UNCHANGED <<memory, nBestInvalidTrust, mapTx, badBlocks, txdb, batch>>

\* The block the check of the best chain in LoadBlockIndex rewinds to: the
\* parent of the lowest block of the chain that CheckBlock rejects.
IsRewind(x, bad) ==
  /\ x \in Branch[txdb.hashBestChain]
  /\ Branch[x] \cap bad = {}
  /\ \E y \in Branch[txdb.hashBestChain] \cap bad :
       y # Genesis /\ hashPrevBlock[y] = x

(***************************************************************************)
(* The process stops, at any step, and starts again: CTxDB::LoadBlockIndex *)
(* builds the tree and the best chain from the database.  The version that *)
(* starts may reject a block an earlier one let in; SetBestChain then      *)
(* moves the best chain back to before it.                                 *)
(***************************************************************************)
Restart ==
  \E bad \in {badBlocks} \cup {badBlocks \cup {x} : x \in Suspect} :
    /\ badBlocks' = bad
    /\ pnext' = txdb.hashNext
    /\ pindexBest' = txdb.hashBestChain
    /\ hashBestChain' = txdb.hashBestChain
    /\ nBestChainTrust' = nChainTrust[txdb.hashBestChain]
    /\ mapTx' = {}
    /\ batch' = NoBatch
    /\ pindexIntermediate' = Null
    /\ pindex' = Null
    /\ vResurrect' = <<>>
    /\ vDelete' = <<>>
    /\ IF Branch[txdb.hashBestChain] \cap bad = {}
       THEN pc' = "idle" /\ hash' = Null
       ELSE pc' = "setbest" /\ \E x \in Block : IsRewind(x, bad) /\ hash' = x
    /\ UNCHANGED <<memory, nBestInvalidTrust, txdb>>

Next ==
  \/ \E b \in Block \ {Genesis} : AddToBlockIndex(b)
  \/ \E b \in Block : EnforceCheckpoint(b)
  \/ \E t \in Tx : AcceptToMemoryPool(t)
  \/ ConnectTip
  \/ ConnectTipFailed
  \/ BeginReorganize
  \/ DisconnectTip
  \/ ReachFork
  \/ ConnectNext
  \/ ReorganizeFailed
  \/ CommitReorganize
  \/ ConnectSecondary
  \/ SecondaryFailed
  \/ SecondaryDone
  \/ NewBest
  \/ Restart

Spec == Init /\ [][Next]_vars

-----------------------------------------------------------------------------
(* Properties.                                                             *)

\* Type invariant: every pointer kept in memory or in the database is a
\* block of mapBlockIndex, and the call frame is in use exactly during calls.
TypeOK ==
  /\ mapBlockIndex \subseteq Block
  /\ nHeight \in [mapBlockIndex -> Nat]
  /\ nChainTrust \in [mapBlockIndex -> Nat]
  /\ pnext \in [mapBlockIndex -> mapBlockIndex \cup {Null}]
  /\ pindexBest \in mapBlockIndex
  /\ hashBestChain \in mapBlockIndex
  /\ nBestChainTrust \in Nat
  /\ nBestInvalidTrust \in Nat
  /\ badBlocks \subseteq Suspect
  /\ txdb.hashNext \in [mapBlockIndex -> mapBlockIndex \cup {Null}]
  /\ txdb.hashBestChain \in mapBlockIndex
  /\ pc \in {"idle", "setbest", "disconnect", "connect", "secondary", "newbest"}
  /\ hash \in IF pc = "idle" THEN {Null} ELSE mapBlockIndex
  /\ pindex \in IF pc \in {"idle", "setbest"} THEN {Null} ELSE mapBlockIndex

\* What LoadBlockIndex would find is what memory holds: outside Reorganize's
\* commit and the end of SetBestChain the stored tip is pindexBest, between
\* them it is the block connected last; nBestChainTrust is its trust.
DurableTip ==
  /\ txdb.hashBestChain = IF pc \in {"secondary", "newbest"} THEN pindex
                          ELSE pindexBest
  /\ nBestChainTrust = nChainTrust[pindexBest]

\* The stored tip only moves to a block with more chain trust (the test in
\* AddToBlockIndex, kept by every commit of SetBestChain, those before a
\* failed postponed block included), to a checkpointed block, or back to an
\* ancestor because the chain holds a block that CheckBlock rejects.
TipGainsTrust ==
  [][LET old == txdb.hashBestChain
         new == txdb'.hashBestChain
     IN  new # old => \/ nChainTrust[new] > nChainTrust[old]
                      \/ new \in Checkpoint
                      \/ new \in Branch[old] /\ Branch[old] \cap badBlocks # {}]_vars

\* pnext (IsInMainChain) and the stored hashNext link a block to a child on
\* the best chain only, whatever was cut short by a failure or a restart.
LinksOnBestChain ==
  \A b \in mapBlockIndex :
    /\ txdb.hashNext[b] # Null =>
         /\ hashPrevBlock[txdb.hashNext[b]] = b
         /\ txdb.hashNext[b] \in Branch[txdb.hashBestChain]
    /\ pnext[b] # Null =>
         /\ hashPrevBlock[pnext[b]] = b
         /\ pnext[b] \in Branch[txdb.hashBestChain]

\* No entry of the transaction index and no spent mark in it refers to a
\* block off the stored best chain: what a disconnected block wrote is gone.
IndexOnBestChain ==
  \A t \in DOMAIN txdb.tx :
    LET e == txdb.tx[t] IN
      /\ e.pos \in Branch[txdb.hashBestChain]
      /\ t \in Range(vtx[e.pos])
      /\ \A n \in DOMAIN e.vSpent :
           e.vSpent[n] # Null =>
             /\ e.vSpent[n] \in Branch[txdb.hashBestChain]
             /\ \E u \in Range(vtx[e.vSpent[n]]) : <<t, n>> \in Prevouts(u)

\* The transactions on the way to block b, by block and position in it.
Places(b) == UNION {{x} \X DOMAIN vtx[x] : x \in Branch[b]}

TxAt(p) == vtx[p[1]][p[2]]

\* No chain that ends in a block of B has a transaction or spends an output
\* twice: what the test that SetBestChainInner skips would enforce.
HonestBlocks(B) ==
  \A b \in B : \A p, q \in Places(b) :
    p # q => TxAt(p) # TxAt(q) /\ ~Conflict(TxAt(p), TxAt(q))

\* Every output that an indexed transaction spends is marked with the block
\* of that transaction, so that no later block or pool transaction can take
\* it again.
SpendsAreMarked ==
  \A t \in DOMAIN txdb.tx : \A o \in Prevouts(t) :
    /\ o[1] \in DOMAIN txdb.tx
    /\ txdb.tx[o[1]].vSpent[o[2]] = txdb.tx[t].pos

\* After Reorganize the pool holds no transaction of the connected blocks
\* and none that spends an output they spend.
PoolFitsNewBranch ==
  [][pc = "connect" /\ pc' = "secondary" =>
       \A t \in mapTx' : \A u \in Range(vDelete) : t # u /\ ~Conflict(t, u)]_vars

\* Reorganize loses no payment that accept() takes: a transaction of a disconnected
\* block is in the pool, or in the new branch, or excluded by a conflict of its own
\* or of a transaction it depends on.  What it depends on may be nonstandard and lost:
\* the inputs are not looked at.
ReorganizeKeepsPayments ==
  [][pc = "connect" /\ pc' = "secondary" =>
       LET gone == Range(vResurrect)
           all  == gone \cup mapTx
           hit  == {x \in all : \E u \in Range(vDelete) : Conflict(x, u)}
       IN  \A t \in gone \ Nonstandard : \/ t \in mapTx'
                                         \/ t \in Range(vDelete)
                                         \/ t \in WithDescendants(all, hit)
                                         \/ \E u \in mapTx : Conflict(t, u)]_vars

\* The same of every transaction of a disconnected block, the nonstandard ones included.
\* The code does not keep this: README, section 7.
EveryPaymentKept ==
  [][pc = "connect" /\ pc' = "secondary" =>
       LET all == Range(vResurrect) \cup mapTx
           hit == {x \in all : \E u \in Range(vDelete) : Conflict(x, u)}
       IN  \A t \in Range(vResurrect) : \/ t \in mapTx' \cup Range(vDelete)
                                        \/ t \in WithDescendants(all, hit)
                                        \/ \E u \in mapTx : Conflict(t, u)]_vars

Abstract == INSTANCE ChainTip WITH trust <- nChainTrust, tip <- pindexBest,
                                   stored <- txdb.hashBestChain,
                                   flawed <- badBlocks

\* The best-chain code implements ChainTip: whatever fails, is postponed or
\* is cut short by a restart, the stored tip moves by one commit at a time,
\* upwards in trust, to a checkpoint or down from a flawed block, and the tip
\* in memory is only ever set to the stored one.
ImplementsChainTip == Abstract!Spec

\* Between calls hashBestChain is the hash of pindexBest.
\* The code does not keep this: README, section 7.
TipPointersAgree == pc = "idle" => hashBestChain = pindexBest

\* No two blocks of the best chain spend the same output.
NoDoubleSpend ==
  \A b1, b2 \in Branch[txdb.hashBestChain] :
    \A i \in DOMAIN vtx[b1], j \in DOMAIN vtx[b2] :
      Prevouts(vtx[b1][i]) \cap Prevouts(vtx[b2][j]) # {} => b1 = b2 /\ i = j
=============================================================================
