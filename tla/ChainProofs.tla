---------------------------- MODULE ChainProofs ----------------------------
(***************************************************************************)
(* Proofs about BestChain for every block tree, every set of transactions  *)
(* and every verdict of the checks on a block, and about BlockIntake,      *)
(* which composes it with orphan blocks and synchronized checkpoints.      *)
(*                                                                         *)
(* The tree assumption says nothing about heights or trust: that these     *)
(* increase along a branch is an invariant of AddToBlockIndex (Tree), from *)
(* which the argument for Reorganize follows.  The rest of the inductive   *)
(* invariant says where the call in progress stands (Frame) and what the   *)
(* links in memory, in the database and in the open batch may point to     *)
(* (Links).                                                                *)
(*                                                                         *)
(* The transaction index and the pool are what loops over the transactions *)
(* of a block make of them.  An induction over the steps of a loop, with   *)
(* the states that are right after i steps as a set (LoopKeeps), shows     *)
(* what the whole loop does; Index carries that through the steps of a     *)
(* reorganisation, Spends adds which output is marked by whom.             *)
(*                                                                         *)
(* Every step of BlockIntake is a step of BestChain or leaves the best     *)
(* chain alone, so that all of this carries over (last part).  Two things  *)
(* are added there: the checkpoint only advances and the best chain never  *)
(* leaves it, and an orphan is left behind only by a failed SetBestChain.  *)
(***************************************************************************)
EXTENDS BlockIntake, WellFoundedInduction, TLAPS

\* Every link of f leads from a block to a child of it on the branch of tip.
OnBranch(f, tip) ==
  \A b \in DOMAIN f :
    f[b] # Null => /\ f[b] \in Branch[tip]
                   /\ f[b] # Genesis
                   /\ hashPrevBlock[f[b]] = b

\* The block tree: complete downwards, ordered by height and trust, with a
\* next block towards every descendant.
Tree ==
  /\ Genesis \in mapBlockIndex
  /\ \A b \in mapBlockIndex : Branch[b] \subseteq mapBlockIndex /\ Genesis \in Branch[b]
  /\ \A b \in mapBlockIndex : \A a \in Branch[b] :
       /\ Branch[a] \subseteq Branch[b]
       /\ a # b => /\ nHeight[a] < nHeight[b]
                   /\ nChainTrust[a] < nChainTrust[b]
                   /\ \E y \in Branch[b] : y # Genesis /\ hashPrevBlock[y] = a

\* The reason SetBestChain(x) may replace the tip old.
MayReplace(x, old) ==
  \/ nChainTrust[x] > nChainTrust[old]
  \/ x \in Checkpoint
  \/ x \in Branch[old] /\ Branch[old] \cap badBlocks # {}

\* Where the call in progress stands.
Frame ==
  /\ pindexBest \in Branch[hashBestChain]
  /\ pc = "setbest" => MayReplace(hash, pindexBest)
  /\ pc \in {"disconnect", "connect"} =>
       /\ pindexIntermediate \in Branch[hash]
       /\ MayReplace(pindexIntermediate, pindexBest)
       /\ Branch[pindexBest] \cap Branch[pindexIntermediate] \subseteq Branch[pindex]
  /\ pc = "disconnect" => pindex \in Branch[pindexBest]
  /\ pc = "connect" => pindex \in Branch[pindexIntermediate]
  /\ pc \in {"secondary", "newbest"} => pindex \in Branch[hash]

Links ==
  /\ OnBranch(txdb.hashNext, txdb.hashBestChain)
  /\ OnBranch(pnext, txdb.hashBestChain)
  /\ pc \in {"disconnect", "connect"} =>
       /\ batch.hashNext \in [mapBlockIndex -> mapBlockIndex \cup {Null}]
       /\ OnBranch(batch.hashNext, pindex)

IInv == TypeOK /\ Tree /\ DurableTip /\ Frame /\ Links
-----------------------------------------------------------------------------
(* The tree and the links, apart from any step.                            *)

\* A block is on its own branch, and its branch is its parent's and itself.
LEMMA BranchFacts ==
  ASSUME NEW b \in Block
  PROVE  /\ b \in Branch[b]
         /\ Branch[b] \subseteq Block
         /\ b # Genesis => /\ hashPrevBlock[b] \in Block
                           /\ Branch[b] = Branch[hashPrevBlock[b]] \cup {b}
                           /\ hashPrevBlock[b] \in Branch[b]
                           /\ b \notin Branch[hashPrevBlock[b]]
  BY TreeAssumption

\* The parent of a known block is known, lower and less trusted.
LEMMA ParentFacts ==
  ASSUME TypeOK, Tree, NEW b \in mapBlockIndex, b # Genesis
  PROVE  /\ hashPrevBlock[b] \in mapBlockIndex
         /\ nHeight[hashPrevBlock[b]] < nHeight[b]
         /\ nChainTrust[hashPrevBlock[b]] < nChainTrust[b]
         /\ hashPrevBlock[b] # b
  BY BranchFacts DEF TypeOK, Tree

\* A chain of links stays on the branch when the branch grows.
LEMMA OnBranchGrows ==
  ASSUME NEW f, NEW t, NEW u, OnBranch(f, t), Branch[t] \subseteq Branch[u]
  PROVE  OnBranch(f, u)
  BY DEF OnBranch

\* Cutting the link to x leaves links on the branch of x's parent.
LEMMA OnBranchCut ==
  ASSUME NEW f, NEW x \in Block \ {Genesis}, OnBranch(f, x)
  PROVE  OnBranch([f EXCEPT ![hashPrevBlock[x]] = Null], hashPrevBlock[x])
  BY BranchFacts DEF OnBranch

\* Linking the tip to a child leaves links on the branch of the child.
LEMMA OnBranchExtend ==
  ASSUME NEW f, NEW x \in Block \ {Genesis}, OnBranch(f, hashPrevBlock[x])
  PROVE  OnBranch([f EXCEPT ![hashPrevBlock[x]] = x], x)
  BY BranchFacts DEF OnBranch

\* Removing a link removes nothing else.
LEMMA OnBranchClear ==
  ASSUME NEW f, NEW x, NEW t, OnBranch(f, t)
  PROVE  OnBranch([f EXCEPT ![x] = Null], t)
  BY DEF OnBranch

\* A known block off the branch of the stored tip has no link in memory.
LEMMA NoLinkOffBranch ==
  ASSUME IInv, NEW x \in mapBlockIndex, x \notin Branch[txdb.hashBestChain]
  PROVE  pnext[x] = Null
  <1>1. SUFFICES ASSUME pnext[x] # Null PROVE FALSE
    OBVIOUS
  <1>2. /\ pnext[x] \in mapBlockIndex
        /\ pnext[x] \in Branch[txdb.hashBestChain]
        /\ pnext[x] # Genesis
        /\ hashPrevBlock[pnext[x]] = x
    BY <1>1 DEF IInv, TypeOK, Links, OnBranch
  <1>3. x \in Branch[pnext[x]]
    BY <1>2, BranchFacts DEF IInv, TypeOK
  <1>4. Branch[pnext[x]] \subseteq Branch[txdb.hashBestChain]
    BY <1>2 DEF IInv, TypeOK, Tree
  <1>5. QED
    BY <1>3, <1>4

\* Tree is about the block tree only.
LEMMA TreeStable ==
  ASSUME Tree, UNCHANGED memory
  PROVE  Tree'
  BY DEF Tree, memory, mapBlockIndex
-----------------------------------------------------------------------------
(* The initial state, and one lemma for each action.                       *)

LEMMA InitIInv == Init => IInv
  <1> SUFFICES ASSUME Init PROVE IInv
    OBVIOUS
  <1>1. TypeOK
    BY TreeAssumption, TrustAssumption DEF Init, TypeOK, mapBlockIndex, Database
  <1>2. Tree
    BY TreeAssumption DEF Init, Tree, mapBlockIndex
  <1>3. DurableTip
    BY DEF Init, DurableTip, Database
  <1>4. Frame
    BY BranchFacts, TreeAssumption DEF Init, Frame
  <1>5. Links
    BY DEF Init, Links, OnBranch, Database
  <1>6. QED
    BY <1>1, <1>2, <1>3, <1>4, <1>5 DEF IInv

LEMMA AcceptToMemoryPoolKeeps ==
  ASSUME IInv, NEW t \in Tx, AcceptToMemoryPool(t)
  PROVE  IInv'
  <1> USE DEF AcceptToMemoryPool, memory, best, call
  <1>1. TypeOK'
    BY DEF IInv, TypeOK, mapBlockIndex
  <1>2. Tree'
    BY TreeStable DEF IInv
  <1>3. DurableTip' /\ Frame' /\ Links'
    BY DEF IInv, DurableTip, Frame, MayReplace, Links, OnBranch, mapBlockIndex
  <1>4. QED
    BY <1>1, <1>2, <1>3 DEF IInv

LEMMA EnforceCheckpointKeeps ==
  ASSUME IInv, NEW b \in Block, EnforceCheckpoint(b)
  PROVE  IInv'
  <1> USE DEF EnforceCheckpoint, memory, best
  <1>1. TypeOK'
    BY DEF IInv, TypeOK, mapBlockIndex
  <1>2. Tree'
    BY TreeStable DEF IInv
  <1>3. DurableTip' /\ Frame' /\ Links'
    BY DEF IInv, DurableTip, Frame, MayReplace, Links, OnBranch, mapBlockIndex
  <1>4. QED
    BY <1>1, <1>2, <1>3 DEF IInv

LEMMA ConnectTipFailedKeeps ==
  ASSUME IInv, ConnectTipFailed
  PROVE  IInv'
  <1> USE DEF ConnectTipFailed, InvalidChainFound, NoCall, memory, best
  <1>1. TypeOK'
    BY DEF IInv, TypeOK, mapBlockIndex
  <1>2. Tree'
    BY TreeStable DEF IInv
  <1>3. DurableTip' /\ Frame' /\ Links'
    BY DEF IInv, DurableTip, Frame, MayReplace, Links, OnBranch, mapBlockIndex
  <1>4. QED
    BY <1>1, <1>2, <1>3 DEF IInv

LEMMA ReorganizeFailedKeeps ==
  ASSUME IInv, ReorganizeFailed
  PROVE  IInv'
  <1>1. pc \in {"disconnect", "connect"}
    BY DEF ReorganizeFailed, ReorganizeFails
  <1> USE DEF ReorganizeFailed, InvalidChainFound, NoCall, memory, best
  <1>2. TypeOK'
    BY <1>1 DEF IInv, TypeOK, mapBlockIndex
  <1>3. Tree'
    BY TreeStable DEF IInv
  <1>4. DurableTip' /\ Frame' /\ Links'
    BY <1>1 DEF IInv, DurableTip, Frame, MayReplace, Links, OnBranch, mapBlockIndex
  <1>5. QED
    BY <1>2, <1>3, <1>4 DEF IInv

LEMMA ReachForkKeeps ==
  ASSUME IInv, ReachFork
  PROVE  IInv'
  <1> USE DEF ReachFork, memory, best, call
  <1>1. TypeOK'
    BY DEF IInv, TypeOK, mapBlockIndex
  <1>2. Tree'
    BY TreeStable DEF IInv
  <1>3. DurableTip' /\ Frame' /\ Links'
    BY DEF IInv, DurableTip, Frame, MayReplace, Links, OnBranch, mapBlockIndex
  <1>4. QED
    BY <1>1, <1>2, <1>3 DEF IInv

LEMMA SecondaryEndsKeeps ==
  ASSUME IInv, SecondaryFailed \/ SecondaryDone
  PROVE  IInv'
  <1>1. /\ pc = "secondary" /\ pc' = "newbest"
        /\ UNCHANGED <<memory, pnext, best, mapTx, badBlocks, txdb, batch, call>>
        /\ nBestInvalidTrust' \in Nat
    BY DEF SecondaryFailed, SecondaryDone, InvalidChainFound, IInv, TypeOK
  <1> USE <1>1 DEF memory, best, call
  <1>2. TypeOK'
    BY DEF IInv, TypeOK, mapBlockIndex
  <1>3. Tree'
    BY TreeStable DEF IInv
  <1>4. DurableTip' /\ Frame' /\ Links'
    BY DEF IInv, DurableTip, Frame, MayReplace, Links, OnBranch, mapBlockIndex
  <1>5. QED
    BY <1>2, <1>3, <1>4 DEF IInv

LEMMA NewBestKeeps ==
  ASSUME IInv, NewBest
  PROVE  IInv'
  <1> USE DEF NewBest, NoCall, memory
  <1>1. TypeOK'
    BY DEF IInv, TypeOK, mapBlockIndex
  <1>2. Tree'
    BY TreeStable DEF IInv
  <1>3. DurableTip'
    BY DEF IInv, TypeOK, DurableTip
  <1>4. Frame'
    BY DEF IInv, Frame
  <1>5. OnBranch(pnext', txdb'.hashBestChain)
    BY OnBranchClear DEF IInv, Links
  <1>6. Links'
    BY <1>5 DEF IInv, Links, OnBranch
  <1>7. QED
    BY <1>1, <1>2, <1>3, <1>4, <1>6 DEF IInv

LEMMA RestartKeeps ==
  ASSUME IInv, Restart
  PROVE  IInv'
  <1>1. PICK bad \in {badBlocks} \cup {badBlocks \cup {x} : x \in Suspect} :
          /\ badBlocks' = bad
          /\ IF Branch[txdb.hashBestChain] \cap bad = {}
             THEN pc' = "idle" /\ hash' = Null
             ELSE pc' = "setbest" /\ \E x \in Block : IsRewind(x, bad) /\ hash' = x
    BY DEF Restart
  <1>2. /\ pnext' = txdb.hashNext
        /\ pindexBest' = txdb.hashBestChain
        /\ hashBestChain' = txdb.hashBestChain
        /\ nBestChainTrust' = nChainTrust[txdb.hashBestChain]
        /\ pindex' = Null
        /\ UNCHANGED <<nHeight, nChainTrust, nBestInvalidTrust, txdb>>
    BY DEF Restart, memory
  <1>3. badBlocks' \subseteq Suspect
    BY <1>1 DEF IInv, TypeOK
  <1>4. \/ pc' = "idle" /\ hash' = Null
        \/ /\ pc' = "setbest"
           /\ hash' \in Branch[txdb.hashBestChain]
           /\ Branch[txdb.hashBestChain] \cap badBlocks' # {}
    BY <1>1 DEF IsRewind
  <1>5. Branch[txdb.hashBestChain] \subseteq mapBlockIndex
    BY DEF IInv, TypeOK, Tree
  <1>6. TypeOK'
    BY <1>2, <1>3, <1>4, <1>5 DEF IInv, TypeOK, mapBlockIndex
  <1>7. Tree'
    BY <1>2, TreeStable DEF IInv, memory
  <1>8. DurableTip'
    BY <1>2, <1>4 DEF DurableTip
  <1>9. Frame'
    BY <1>2, <1>4, BranchFacts DEF IInv, TypeOK, Frame, MayReplace
  <1>10. Links'
    BY <1>2, <1>4 DEF IInv, Links, OnBranch
  <1>11. QED
    BY <1>6, <1>7, <1>8, <1>9, <1>10 DEF IInv

LEMMA AddToBlockIndexKeeps ==
  ASSUME IInv, NEW b \in Block \ {Genesis}, AddToBlockIndex(b)
  PROVE  IInv'
  <1> DEFINE p == hashPrevBlock[b]
  <1> USE DEF mapBlockIndex
  <1>1. /\ p \in mapBlockIndex
        /\ b \notin mapBlockIndex
        /\ mapBlockIndex' = mapBlockIndex \cup {b}
        /\ \A x \in mapBlockIndex : /\ nHeight'[x] = nHeight[x]
                                    /\ nChainTrust'[x] = nChainTrust[x]
        /\ nHeight'[b] = nHeight[p] + 1
        /\ nChainTrust'[b] = nChainTrust[p] + GetBlockTrust[b]
        /\ Genesis \in mapBlockIndex
        /\ Branch[b] = Branch[p] \cup {b}
        /\ p \in Branch[p]
    BY BranchFacts DEF AddToBlockIndex, IInv, TypeOK, Tree
  <1>2. /\ pnext' = [x \in mapBlockIndex \cup {b} |-> IF x = b THEN Null ELSE pnext[x]]
        /\ txdb'.hashNext =
             [x \in DOMAIN txdb.hashNext \cup {b} |->
                IF x = b THEN Null ELSE txdb.hashNext[x]]
        /\ txdb'.hashBestChain = txdb.hashBestChain
        /\ UNCHANGED <<best, nBestInvalidTrust, badBlocks, pindex>>
        /\ pc = "idle"
        /\ \/ pc' = "idle" /\ hash' = Null
           \/ /\ pc' = "setbest" /\ hash' = b
              /\ nChainTrust'[b] > nBestChainTrust
    BY <1>1 DEF AddToBlockIndex, WriteBlockIndex, Database, HasMoreTrust
  <1>3. TypeOK'
    <2>1. nHeight' \in [mapBlockIndex' -> Nat]
      BY <1>1 DEF AddToBlockIndex, IInv, TypeOK
    <2>2. nChainTrust' \in [mapBlockIndex' -> Nat]
      BY <1>1, TrustAssumption DEF AddToBlockIndex, IInv, TypeOK
    <2>3. QED
      BY <1>1, <1>2, <2>1, <2>2 DEF IInv, TypeOK, best
  <1>4. Tree'
    <2>1. /\ Genesis \in mapBlockIndex'
          /\ \A x \in mapBlockIndex' : /\ Branch[x] \subseteq mapBlockIndex'
                                        /\ Genesis \in Branch[x]
      BY <1>1 DEF IInv, Tree
    <2>2. ASSUME NEW x \in mapBlockIndex', NEW a \in Branch[x]
          PROVE  /\ Branch[a] \subseteq Branch[x]
                 /\ a # x => /\ nHeight'[a] < nHeight'[x]
                             /\ nChainTrust'[a] < nChainTrust'[x]
                             /\ \E y \in Branch[x] : y # Genesis /\ hashPrevBlock[y] = a
      <3>1. CASE x \in mapBlockIndex
        BY <1>1, <3>1 DEF IInv, Tree
      <3>2. CASE x = b /\ a = b
        BY <3>2
      <3>3. CASE x = b /\ a # b
        <4>1. a \in Branch[p] /\ a \in mapBlockIndex
          BY <1>1, <3>3 DEF IInv, Tree
        <4>2. /\ Branch[a] \subseteq Branch[p]
              /\ nHeight[a] <= nHeight[p]
              /\ nChainTrust[a] <= nChainTrust[p]
          BY <1>1, <4>1 DEF IInv, Tree, TypeOK
        <4>3. nHeight'[a] < nHeight'[b]
          BY <1>1, <4>1, <4>2 DEF IInv, TypeOK
        <4>4. nChainTrust'[a] < nChainTrust'[b]
          BY <1>1, <4>1, <4>2, TrustAssumption DEF IInv, TypeOK
        <4>5. \E y \in Branch[b] : y # Genesis /\ hashPrevBlock[y] = a
          BY <1>1, <4>1 DEF IInv, Tree
        <4>6. QED
          BY <1>1, <3>3, <4>2, <4>3, <4>4, <4>5
      <3>4. QED
        BY <1>1, <3>1, <3>2, <3>3
    <2>3. QED
      BY <2>1, <2>2 DEF Tree
  <1>5. DurableTip'
    BY <1>1, <1>2 DEF IInv, TypeOK, DurableTip, best
  <1>6. Frame'
    BY <1>1, <1>2 DEF IInv, TypeOK, DurableTip, Frame, MayReplace, best
  <1>7. Links'
    BY <1>1, <1>2 DEF IInv, TypeOK, Links, OnBranch
  <1>8. QED
    BY <1>3, <1>4, <1>5, <1>6, <1>7 DEF IInv

LEMMA ConnectTipKeeps ==
  ASSUME IInv, ConnectTip
  PROVE  IInv'
  <1> DEFINE own == [txdb.hashNext EXCEPT ![hash] = pnext[hash]]
             p   == hashPrevBlock[hash]
  <1>1. PICK payeeOk \in BOOLEAN :
          /\ SetBestChainInner(txdb, hash, FALSE, payeeOk).ok
          /\ txdb' = SetBestChainInner(txdb, hash, FALSE, payeeOk).db
    BY DEF ConnectTip
  <1>2. /\ txdb'.hashBestChain = hash
        /\ txdb'.hashNext = [own EXCEPT ![p] = hash]
    BY <1>1 DEF SetBestChainInner, ConnectBlock, Database
  <1>3. /\ pc = "setbest" /\ pc' = "newbest"
        /\ hash # Genesis /\ p = hashBestChain
        /\ pnext' = [pnext EXCEPT ![p] = hash]
        /\ pindex' = hash
        /\ UNCHANGED <<memory, best, nBestInvalidTrust, badBlocks, hash>>
    BY DEF ConnectTip
  <1>4. /\ hash \in mapBlockIndex /\ hash \in Block \ {Genesis}
        /\ p \in mapBlockIndex /\ txdb.hashBestChain = pindexBest
        /\ nHeight[p] < nHeight[hash]
    BY <1>3, ParentFacts DEF IInv, TypeOK, DurableTip
  <1>5. Branch[pindexBest] \subseteq Branch[p]
    BY <1>3, <1>4 DEF IInv, Frame, Tree
  <1>6. hash \notin Branch[pindexBest]
    BY <1>4, <1>5, BranchFacts
  <1>7. pnext[hash] = Null
    BY <1>4, <1>6, NoLinkOffBranch
  <1>8. OnBranch(txdb.hashNext, p) /\ OnBranch(pnext, p)
    BY <1>4, <1>5, OnBranchGrows DEF IInv, Links
  <1>9. OnBranch(own, p)
    BY <1>7, <1>8, OnBranchClear
  <1>10. OnBranch(txdb'.hashNext, hash) /\ OnBranch(pnext', hash)
    <2> HIDE DEF own
    <2>1. OnBranch([own EXCEPT ![p] = hash], hash)
      BY <1>4, <1>9, OnBranchExtend
    <2>2. OnBranch([pnext EXCEPT ![p] = hash], hash)
      BY <1>4, <1>8, OnBranchExtend
    <2>3. QED
      BY <1>2, <1>3, <2>1, <2>2
  <1>11. TypeOK'
    BY <1>2, <1>3, <1>4, <1>7 DEF IInv, TypeOK, memory, best, mapBlockIndex
  <1>12. Tree'
    BY <1>3, TreeStable DEF IInv
  <1>13. DurableTip' /\ Frame' /\ Links'
    BY <1>2, <1>3, <1>4, <1>10, BranchFacts
       DEF IInv, DurableTip, Frame, Links, memory, best
  <1>14. QED
    BY <1>11, <1>12, <1>13 DEF IInv

LEMMA BeginReorganizeKeeps ==
  ASSUME IInv, BeginReorganize
  PROVE  IInv'
  <1>1. PICK x \in mapBlockIndex : IsIntermediate(x) /\ pindexIntermediate' = x
    BY DEF BeginReorganize
  <1>2. /\ pc = "setbest" /\ pc' = "disconnect"
        /\ batch' = txdb /\ pindex' = pindexBest
        /\ UNCHANGED <<memory, pnext, best, nBestInvalidTrust, badBlocks, txdb, hash>>
    BY DEF BeginReorganize
  <1>3. /\ hash \in mapBlockIndex /\ x \in Branch[hash]
        /\ txdb.hashBestChain = pindexBest
        /\ pindexBest \in mapBlockIndex /\ pindexBest \in Branch[pindexBest]
    BY <1>1, <1>2, BranchFacts DEF IInv, TypeOK, DurableTip, IsIntermediate
  <1>4. MayReplace(x, pindexBest)
    <2>1. CASE x = hash
      BY <1>2, <2>1 DEF IInv, Frame
    <2>2. CASE x # hash
      <3>1. PICK y \in Branch[hash] : y # Genesis /\ hashPrevBlock[y] = x
        BY <1>3, <2>2 DEF IInv, Tree
      <3>2. nHeight[y] > nHeight[x]
        BY <1>3, <3>1, ParentFacts DEF IInv, TypeOK, Tree
      <3>3. nChainTrust[x] > nChainTrust[pindexBest]
        BY <1>1, <3>1, <3>2 DEF IsIntermediate
      <3>4. QED
        BY <3>3 DEF MayReplace
    <2>3. QED
      BY <2>1, <2>2
  <1>5. TypeOK'
    BY <1>2, <1>3 DEF IInv, TypeOK, memory, best, mapBlockIndex
  <1>6. Tree'
    BY <1>2, TreeStable DEF IInv
  <1>7. DurableTip' /\ Frame' /\ Links'
    BY <1>1, <1>2, <1>3, <1>4
       DEF IInv, TypeOK, DurableTip, Frame, MayReplace, Links, OnBranch,
           memory, best, mapBlockIndex
  <1>8. QED
    BY <1>5, <1>6, <1>7 DEF IInv

LEMMA DisconnectTipKeeps ==
  ASSUME IInv, DisconnectTip
  PROVE  IInv'
  <1> DEFINE p == hashPrevBlock[pindex]
  <1>1. /\ pc = "disconnect" /\ pc' = "disconnect"
        /\ pindex \notin Branch[pindexIntermediate]
        /\ batch'.hashNext = [batch.hashNext EXCEPT ![p] = Null]
        /\ pindex' = p
        /\ UNCHANGED <<memory, pnext, best, nBestInvalidTrust, badBlocks, txdb,
                       hash, pindexIntermediate>>
    BY DEF DisconnectTip, DisconnectBlock, Database
  <1>2. /\ pindex \in mapBlockIndex /\ hash \in mapBlockIndex
        /\ pindexBest \in mapBlockIndex
        /\ pindexIntermediate \in mapBlockIndex
    BY <1>1 DEF IInv, TypeOK, Frame, Tree
  <1>3. pindex # Genesis
    BY <1>1, <1>2 DEF IInv, Tree
  <1>4. /\ p \in mapBlockIndex /\ p \in Branch[pindex]
        /\ Branch[pindex] = Branch[p] \cup {pindex}
    BY <1>2, <1>3, BranchFacts, ParentFacts DEF IInv, TypeOK
  <1>5. OnBranch(batch'.hashNext, p)
    <2>1. pindex \in Block \ {Genesis} /\ OnBranch(batch.hashNext, pindex)
      BY <1>1, <1>2, <1>3 DEF IInv, TypeOK, Links
    <2>2. QED
      BY <1>1, <2>1, OnBranchCut
  <1>6. batch'.hashNext \in [mapBlockIndex -> mapBlockIndex \cup {Null}]
    BY <1>1 DEF IInv, Links
  <1>7. TypeOK'
    BY <1>1, <1>4 DEF IInv, TypeOK, memory, best, mapBlockIndex
  <1>8. Tree'
    BY <1>1, TreeStable DEF IInv
  <1>9. p \in Branch[pindexBest]
    BY <1>1, <1>2, <1>4 DEF IInv, Frame, Tree
  <1>10. DurableTip' /\ Frame' /\ Links'
    BY <1>1, <1>4, <1>5, <1>6, <1>9
       DEF IInv, DurableTip, Frame, MayReplace, Links, memory, best, mapBlockIndex
  <1>11. QED
    BY <1>7, <1>8, <1>10 DEF IInv

LEMMA ConnectNextKeeps ==
  ASSUME IInv, ConnectNext
  PROVE  IInv'
  <1>1. PICK x \in mapBlockIndex, payeeOk \in BOOLEAN :
          LET r == ConnectBlock(batch, x, FALSE, TRUE, postponedBlocks, payeeOk)
          IN  IsNext(x, pindexIntermediate) /\ r.ok /\ batch' = r.db /\ pindex' = x
    BY DEF ConnectNext
  <1> DEFINE own == [batch.hashNext EXCEPT ![x] = pnext[x]]
  <1>2. batch'.hashNext = [own EXCEPT ![hashPrevBlock[x]] = x]
    BY <1>1 DEF ConnectBlock, Database
  <1>3. /\ x \in Branch[pindexIntermediate] /\ x # Genesis
        /\ hashPrevBlock[x] = pindex
        /\ pindex' = x
    BY <1>1 DEF IsNext
  <1>4. /\ pc = "connect" /\ pc' = "connect"
        /\ UNCHANGED <<memory, pnext, best, nBestInvalidTrust, badBlocks, txdb,
                       hash, pindexIntermediate>>
    BY DEF ConnectNext
  <1>5. /\ pindex \in mapBlockIndex
        /\ Branch[x] = Branch[pindex] \cup {x}
        /\ x \in Block \ {Genesis}
        /\ x \notin Branch[pindex]
    BY <1>3, <1>4, BranchFacts DEF IInv, TypeOK
  <1>6. x \notin Branch[pindexBest]
    BY <1>3, <1>4, <1>5 DEF IInv, Frame
  <1>7. pnext[x] = Null
    BY <1>4, <1>6, NoLinkOffBranch DEF IInv, DurableTip
  <1>8. OnBranch(own, pindex)
    BY <1>4, <1>7, OnBranchClear DEF IInv, Links
  <1>9. OnBranch(batch'.hashNext, x)
    <2> HIDE DEF own
    <2>1. OnBranch([own EXCEPT ![hashPrevBlock[x]] = x], x)
      BY <1>3, <1>5, <1>8, OnBranchExtend
    <2>2. QED
      BY <1>2, <2>1
  <1>10. batch'.hashNext \in [mapBlockIndex -> mapBlockIndex \cup {Null}]
    BY <1>2, <1>4, <1>7 DEF IInv, Links
  <1>11. TypeOK'
    BY <1>3, <1>4 DEF IInv, TypeOK, memory, best, mapBlockIndex
  <1>12. Tree'
    BY <1>4, TreeStable DEF IInv
  <1>13. DurableTip' /\ Frame' /\ Links'
    BY <1>3, <1>4, <1>5, <1>9, <1>10
       DEF IInv, DurableTip, Frame, MayReplace, Links, memory, best, mapBlockIndex
  <1>14. QED
    BY <1>11, <1>12, <1>13 DEF IInv

LEMMA CommitReorganizeKeeps ==
  ASSUME IInv, CommitReorganize
  PROVE  IInv'
  <1> DEFINE new == pindexIntermediate
             up  == Branch[new] \ Branch[pindexBest]
             down == Branch[pindexBest] \ Branch[new]
  <1>1. /\ pc = "connect" /\ pc' = "secondary"
        /\ pindex = new
        /\ txdb'.hashNext = batch.hashNext
        /\ txdb'.hashBestChain = new
        /\ pnext' = RelinkedBranch
        /\ UNCHANGED <<memory, best, nBestInvalidTrust, badBlocks, call>>
    BY DEF CommitReorganize, Database
  <1>2. /\ new \in mapBlockIndex /\ pindexBest \in mapBlockIndex
        /\ txdb.hashBestChain = pindexBest
        /\ Branch[new] \subseteq mapBlockIndex
        /\ Genesis \in Branch[pindexBest]
        /\ new \in Branch[hash]
    BY <1>1, TreeAssumption DEF IInv, TypeOK, DurableTip, Frame, Tree
  <1>3. ASSUME NEW b \in mapBlockIndex
        PROVE  /\ pnext'[b] \in mapBlockIndex \cup {Null}
               /\ pnext'[b] # Null => /\ pnext'[b] \in Branch[new]
                                      /\ pnext'[b] # Genesis
                                      /\ hashPrevBlock[pnext'[b]] = b
    <2>1. CASE \E x \in up : hashPrevBlock[x] = b
      BY <1>1, <1>2, <2>1 DEF RelinkedBranch
    <2>2. CASE /\ ~\E x \in up : hashPrevBlock[x] = b
               /\ \E x \in down : hashPrevBlock[x] = b
      BY <1>1, <2>2 DEF RelinkedBranch
    <2>3. CASE ~\E x \in up \cup down : hashPrevBlock[x] = b
      <3>1. pnext'[b] = pnext[b]
        BY <1>1, <2>3 DEF RelinkedBranch
      <3>2. /\ pnext[b] \in mapBlockIndex \cup {Null}
            /\ pnext[b] # Null => /\ pnext[b] \in Branch[pindexBest]
                                  /\ pnext[b] # Genesis
                                  /\ hashPrevBlock[pnext[b]] = b
        BY <1>2 DEF IInv, TypeOK, Links, OnBranch
      <3>3. QED
        BY <2>3, <3>1, <3>2
    <2>4. QED
      BY <2>1, <2>2, <2>3
  <1>4. pnext' = [b \in mapBlockIndex |-> pnext'[b]]
    BY <1>1 DEF RelinkedBranch
  <1>5. pnext' \in [mapBlockIndex -> mapBlockIndex \cup {Null}]
    BY <1>3, <1>4
  <1>6. OnBranch(pnext', new)
    BY <1>3, <1>5 DEF OnBranch
  <1>7. TypeOK'
    BY <1>1, <1>2, <1>5 DEF IInv, TypeOK, Links, memory, best, call, mapBlockIndex
  <1>8. Tree'
    BY <1>1, TreeStable DEF IInv
  <1>9. DurableTip' /\ Frame' /\ Links'
    BY <1>1, <1>2, <1>6 DEF IInv, DurableTip, Frame, Links, memory, best, call
  <1>10. QED
    BY <1>7, <1>8, <1>9 DEF IInv

LEMMA ConnectSecondaryKeeps ==
  ASSUME IInv, ConnectSecondary
  PROVE  IInv'
  <1>1. PICK x \in mapBlockIndex, payeeOk \in BOOLEAN :
          LET r == SetBestChainInner(txdb, x, TRUE, payeeOk)
          IN  /\ IsNext(x, hash) /\ r.ok /\ txdb' = r.db /\ pindex' = x
              /\ pnext' = [pnext EXCEPT ![pindex] = x]
    BY DEF ConnectSecondary
  <1>2. /\ txdb'.hashBestChain = x
        /\ txdb'.hashNext = [txdb.hashNext EXCEPT ![x] = pnext[x]]
    BY <1>1 DEF SetBestChainInner, ConnectBlock, Database
  <1>3. /\ x \in Branch[hash] /\ x # Genesis
        /\ hashPrevBlock[x] = pindex
        /\ pindex' = x
        /\ pnext' = [pnext EXCEPT ![hashPrevBlock[x]] = x]
    BY <1>1 DEF IsNext
  <1>4. /\ pc = "secondary" /\ pc' = "secondary"
        /\ UNCHANGED <<memory, best, nBestInvalidTrust, badBlocks, hash>>
    BY DEF ConnectSecondary
  <1>5. /\ txdb.hashBestChain = pindex
        /\ Branch[x] = Branch[pindex] \cup {x}
        /\ x \in Block \ {Genesis}
        /\ x \notin Branch[pindex]
    BY <1>3, <1>4, BranchFacts DEF IInv, TypeOK, DurableTip
  <1>6. pnext[x] = Null
    BY <1>5, NoLinkOffBranch
  <1>7. OnBranch(pnext', x)
    BY <1>3, <1>5, OnBranchExtend DEF IInv, Links
  <1>8. OnBranch(txdb'.hashNext, x)
    <2>1. OnBranch(txdb'.hashNext, pindex)
      BY <1>2, <1>5, <1>6, OnBranchClear DEF IInv, Links
    <2>2. QED
      BY <1>5, <2>1, OnBranchGrows
  <1>9. TypeOK'
    BY <1>2, <1>3, <1>4, <1>6 DEF IInv, TypeOK, memory, best, mapBlockIndex
  <1>10. Tree'
    BY <1>4, TreeStable DEF IInv
  <1>11. DurableTip' /\ Frame' /\ Links'
    BY <1>2, <1>3, <1>4, <1>7, <1>8
       DEF IInv, DurableTip, Frame, Links, memory, best
  <1>12. QED
    BY <1>9, <1>10, <1>11 DEF IInv
-----------------------------------------------------------------------------
(* The invariants.                                                         *)

\* Every step keeps the inductive invariant.
LEMMA StepIInv == IInv /\ [Next]_vars => IInv'
  <1> SUFFICES ASSUME IInv, [Next]_vars PROVE IInv'
    OBVIOUS
  <1>1. CASE \E b \in Block \ {Genesis} : AddToBlockIndex(b)
    BY <1>1, AddToBlockIndexKeeps
  <1>2. CASE \E t \in Tx : AcceptToMemoryPool(t)
    BY <1>2, AcceptToMemoryPoolKeeps
  <1>3. CASE ConnectTip
    BY <1>3, ConnectTipKeeps
  <1>4. CASE ConnectTipFailed
    BY <1>4, ConnectTipFailedKeeps
  <1>5. CASE BeginReorganize
    BY <1>5, BeginReorganizeKeeps
  <1>6. CASE DisconnectTip
    BY <1>6, DisconnectTipKeeps
  <1>7. CASE ReachFork
    BY <1>7, ReachForkKeeps
  <1>8. CASE ConnectNext
    BY <1>8, ConnectNextKeeps
  <1>9. CASE ReorganizeFailed
    BY <1>9, ReorganizeFailedKeeps
  <1>10. CASE CommitReorganize
    BY <1>10, CommitReorganizeKeeps
  <1>11. CASE ConnectSecondary
    BY <1>11, ConnectSecondaryKeeps
  <1>12. CASE SecondaryFailed \/ SecondaryDone
    BY <1>12, SecondaryEndsKeeps
  <1>13. CASE NewBest
    BY <1>13, NewBestKeeps
  <1>14. CASE Restart
    BY <1>14, RestartKeeps
  <1>15. CASE UNCHANGED vars
    <2> USE <1>15 DEF vars
    <2>1. TypeOK'
      BY DEF IInv, TypeOK, mapBlockIndex
    <2>2. Tree'
      BY TreeStable DEF IInv, memory
    <2>3. DurableTip' /\ Frame' /\ Links'
      BY DEF IInv, DurableTip, Frame, MayReplace, Links, OnBranch, mapBlockIndex
    <2>4. QED
      BY <2>1, <2>2, <2>3 DEF IInv
  <1>16. CASE \E b \in Block : EnforceCheckpoint(b)
    BY <1>16, EnforceCheckpointKeeps
  <1>17. QED
    BY <1>1, <1>2, <1>3, <1>4, <1>5, <1>6, <1>7, <1>8, <1>9, <1>10, <1>11,
       <1>12, <1>13, <1>14, <1>15, <1>16 DEF Next

LEMMA SpecIInv == Spec => []IInv
  BY InitIInv, StepIInv, PTL DEF Spec

\* The state of memory, of the database and of the call is well formed
\* after any sequence of blocks, failures and restarts.
THEOREM TypeCorrect == Spec => []TypeOK
  <1>1. IInv => TypeOK
    BY DEF IInv
  <1>2. QED
    BY <1>1, SpecIInv, PTL

\* LoadBlockIndex finds the tip that memory holds, or during the last part
\* of SetBestChain the block connected last.
THEOREM DurableTipHolds == Spec => []DurableTip
  <1>1. IInv => DurableTip
    BY DEF IInv
  <1>2. QED
    BY <1>1, SpecIInv, PTL

\* pnext and hashNext never lead off the best chain.
THEOREM LinksHold == Spec => []LinksOnBestChain
  <1>1. IInv => LinksOnBestChain
    BY DEF IInv, TypeOK, Links, OnBranch, LinksOnBestChain
  <1>2. QED
    BY <1>1, SpecIInv, PTL

-----------------------------------------------------------------------------
(* The stored tip, step by step, and the abstract specification.           *)

\* A step that moves the stored tip moves it to a block of the tree that
\* may replace it, and changes neither the tree nor the tip in memory.
LEMMA StoredTipStep ==
  ASSUME IInv, Next
  PROVE  \/ txdb'.hashBestChain = txdb.hashBestChain
         \/ /\ txdb'.hashBestChain \in mapBlockIndex
            /\ MayReplace(txdb'.hashBestChain, txdb.hashBestChain)
            /\ UNCHANGED <<nChainTrust, pindexBest, badBlocks>>
  <1>1. CASE ConnectTip
    <2>1. txdb'.hashBestChain = hash
      BY <1>1 DEF ConnectTip, SetBestChainInner, Database
    <2>2. pc = "setbest" /\ UNCHANGED <<nChainTrust, pindexBest, badBlocks>>
      BY <1>1 DEF ConnectTip, memory, best
    <2>3. QED
      BY <2>1, <2>2 DEF IInv, TypeOK, DurableTip, Frame
  <1>2. CASE CommitReorganize
    BY <1>2 DEF CommitReorganize, Database, memory, best, IInv, TypeOK,
                DurableTip, Frame, Tree
  <1>3. CASE ConnectSecondary
    <2>1. PICK x \in mapBlockIndex :
            IsNext(x, hash) /\ txdb'.hashBestChain = x
      BY <1>3 DEF ConnectSecondary, SetBestChainInner, Database
    <2>2. pc = "secondary" /\ UNCHANGED <<nChainTrust, pindexBest, badBlocks>>
      BY <1>3 DEF ConnectSecondary, memory, best
    <2>3. nChainTrust[x] > nChainTrust[txdb.hashBestChain]
      BY <2>1, <2>2, ParentFacts DEF IInv, TypeOK, DurableTip, IsNext
    <2>4. QED
      BY <2>1, <2>2, <2>3 DEF MayReplace
  <1>4. CASE ~(ConnectTip \/ CommitReorganize \/ ConnectSecondary)
    <2>1. CASE \E b \in Block \ {Genesis} : AddToBlockIndex(b)
      BY <2>1 DEF AddToBlockIndex, WriteBlockIndex, Database
    <2>2. CASE ~\E b \in Block \ {Genesis} : AddToBlockIndex(b)
      BY <1>4, <2>2 DEF Next, EnforceCheckpoint, AcceptToMemoryPool, ConnectTipFailed,
         BeginReorganize, DisconnectTip, ReachFork, ConnectNext,
         ReorganizeFailed, SecondaryFailed, SecondaryDone, NewBest, Restart
    <2>3. QED
      BY <2>1, <2>2
  <1>5. QED
    BY <1>1, <1>2, <1>3, <1>4

\* The stored tip only gains trust, or moves to a checkpoint or back below a
\* flawed block.
THEOREM TipGainsTrustHolds == Spec => TipGainsTrust
  <1>1. IInv /\ [Next]_vars =>
          [LET old == txdb.hashBestChain
               new == txdb'.hashBestChain
           IN  new # old => \/ nChainTrust[new] > nChainTrust[old]
                            \/ new \in Checkpoint
                            \/ new \in Branch[old] /\ Branch[old] \cap badBlocks # {}]_vars
    BY StoredTipStep DEF MayReplace
  <1>2. QED
    BY <1>1, SpecIInv, PTL DEF Spec, TipGainsTrust

\* The best-chain code implements the abstract specification ChainTip.
THEOREM Refinement == Spec => ImplementsChainTip
  <1>1. Init => Abstract!Init
    BY TrustAssumption, TreeAssumption DEF Init, Abstract!Init, Abstract!known, Database
  <1>2. IInv /\ [Next]_vars => [Abstract!Next]_(Abstract!vars)
    <2> SUFFICES ASSUME IInv, Next PROVE Abstract!Next \/ UNCHANGED Abstract!vars
      BY DEF vars, Abstract!vars
    <2>1. CASE \E b \in Block \ {Genesis} : AddToBlockIndex(b)
      <3>1. PICK b \in Block \ {Genesis} : AddToBlockIndex(b)
        BY <2>1
      <3>2. IInv'
        BY <3>1, AddToBlockIndexKeeps
      <3>3. /\ b \notin DOMAIN nChainTrust
            /\ DOMAIN nChainTrust' = DOMAIN nChainTrust \cup {b}
            /\ \A x \in DOMAIN nChainTrust : nChainTrust'[x] = nChainTrust[x]
            /\ UNCHANGED <<pindexBest, badBlocks, txdb.hashBestChain>>
        BY <3>1 DEF AddToBlockIndex, WriteBlockIndex, Database, mapBlockIndex, best
      <3>4. /\ Branch[b] \ {b} \subseteq DOMAIN nChainTrust
            /\ \A a \in Branch[b] \ {b} : nChainTrust'[b] > nChainTrust'[a]
        BY <3>2, <3>3 DEF IInv, TypeOK, Tree, mapBlockIndex
      <3>5. Abstract!Learn(b)
        BY <3>3, <3>4 DEF Abstract!Learn, Abstract!known
      <3>6. QED
        BY <3>5 DEF Abstract!Next
    <2>2. CASE NewBest \/ Restart
      <3>1. /\ pindexBest' = txdb.hashBestChain
            /\ badBlocks \subseteq badBlocks'
            /\ UNCHANGED <<nChainTrust, txdb>>
        BY <2>2 DEF NewBest, Restart, memory, IInv, DurableTip
      <3>2. QED
        BY <3>1 DEF Abstract!Next, Abstract!Show
    <2>3. CASE txdb'.hashBestChain # txdb.hashBestChain
      BY <2>3, StoredTipStep
         DEF Abstract!Next, Abstract!Store, Abstract!known, MayReplace,
             mapBlockIndex, IInv, TypeOK
    <2>4. CASE /\ ~\E b \in Block \ {Genesis} : AddToBlockIndex(b)
               /\ ~(NewBest \/ Restart)
               /\ txdb'.hashBestChain = txdb.hashBestChain
      BY <2>4 DEF Next, EnforceCheckpoint, AcceptToMemoryPool, ConnectTip, ConnectTipFailed,
         BeginReorganize, DisconnectTip, ReachFork, ConnectNext,
         ReorganizeFailed, CommitReorganize, ConnectSecondary,
         SecondaryFailed, SecondaryDone, memory, best, Abstract!vars
    <2>5. QED
      BY <2>1, <2>2, <2>3, <2>4
  <1>3. QED
    BY <1>1, <1>2, SpecIInv, PTL DEF Spec, ImplementsChainTip, Abstract!Spec

-----------------------------------------------------------------------------
(* Functions defined by recursion over the steps of a loop.                *)

\* A set of natural numbers has a least element.
LEMMA NatMin ==
  ASSUME NEW T \in SUBSET Nat, T # {}
  PROVE  \E x \in T : \A y \in T : x <= y
  <1>1. PICK x \in T : \A y \in T : ~(<<y, x>> \in OpToRel(<, Nat))
    BY NatLessThanWellFounded, WFMin
  <1>2. ASSUME NEW y \in T PROVE x <= y
    <2>1. y < x => <<y, x>> \in OpToRel(<, Nat)
      BY DEF OpToRel
    <2>2. ~(y < x)
      BY <2>1, <1>1
    <2>3. QED
      BY <2>2
  <1>3. QED
    BY <1>2

\* f holds the n + 1 states of a loop that starts with s0 and whose step i is F.
Loop(f, F, s0, n) == f = [i \in 0..n |-> IF i = 0 THEN s0 ELSE F[<<i, f[i - 1]>>]]

\* A loop over the states S has such a function.
LEMMA LoopExists ==
  ASSUME NEW S, NEW s0 \in S, NEW n \in Nat, NEW F,
         \A i \in 1..n : \A s \in S : F[<<i, s>>] \in S
  PROVE  \E f \in [0..n -> S] : Loop(f, F, s0, n)
  <1> DEFINE B == {k \in 0..n : ~\E f \in [0..k -> S] : Loop(f, F, s0, k)}
  <1>1. B = {} => n \notin B
    OBVIOUS
  <1> SUFFICES ASSUME B # {} PROVE FALSE
    BY <1>1
  <1>2. B \in SUBSET Nat
    OBVIOUS
  <1>3. PICK k \in B : \A j \in B : k <= j
    BY <1>2, NatMin
  <1>4. k # 0
    <2> DEFINE f == [i \in 0..0 |-> s0]
    <2>1. f \in [0..0 -> S] /\ f = [i \in 0..0 |-> IF i = 0 THEN s0 ELSE F[<<i, f[i - 1]>>]]
      OBVIOUS
    <2>2. QED
      BY <2>1 DEF Loop
  <1>5. k \in 1..n /\ k - 1 \in 0..n /\ k - 1 \notin B
    BY <1>3, <1>4
  <1>6. PICK g \in [0..(k - 1) -> S] : Loop(g, F, s0, k - 1)
    BY <1>5
  <1> DEFINE f == [i \in 0..k |-> IF i = k THEN F[<<k, g[k - 1]>>] ELSE g[i]]
  <1>7. ASSUME NEW i \in 0..k
        PROVE  /\ f[i] \in S
               /\ f[i] = IF i = 0 THEN s0 ELSE F[<<i, f[i - 1]>>]
    <2>1. CASE i = k
      <3>1. i # 0 /\ i - 1 \in 0..k /\ i - 1 # k /\ k - 1 \in 0..(k - 1)
        BY <1>5, <2>1
      <3>2. f[i] = F[<<k, g[k - 1]>>] /\ f[i - 1] = g[k - 1] /\ g[k - 1] \in S
        BY <2>1, <3>1
      <3>3. QED
        BY <1>5, <2>1, <3>1, <3>2
    <2>2. CASE i # k
      <3>1. i \in 0..(k - 1) /\ f[i] = g[i]
        BY <1>5, <2>2
      <3>2. g[i] = IF i = 0 THEN s0 ELSE F[<<i, g[i - 1]>>]
        BY <1>6, <3>1 DEF Loop
      <3>3. i # 0 => i - 1 \in 0..k /\ i - 1 # k
        BY <1>5, <3>1
      <3>4. QED
        BY <3>1, <3>2, <3>3
    <2>3. QED
      BY <2>1, <2>2
  <1>8. f \in [0..k -> S] /\ Loop(f, F, s0, k)
    <2>1. [i \in 0..k |-> f[i]] =
            [i \in 0..k |-> IF i = 0 THEN s0 ELSE F[<<i, f[i - 1]>>]]
      BY <1>7
    <2>2. QED
      BY <1>7, <2>1 DEF Loop
  <1>9. QED
    BY <1>3, <1>8

\* What every step keeps holds of every state: G[i] are the states that are
\* right after i steps.
LEMMA LoopKeeps ==
  ASSUME NEW n \in Nat, NEW f, NEW G, f[0] \in G[0],
         \A i \in 1..n : f[i - 1] \in G[i - 1] => f[i] \in G[i]
  PROVE  \A i \in 0..n : f[i] \in G[i]
  <1> DEFINE B == {k \in 0..n : f[k] \notin G[k]}
  <1> SUFFICES ASSUME B # {} PROVE FALSE
    OBVIOUS
  <1>1. B \in SUBSET Nat
    OBVIOUS
  <1>2. PICK k \in B : \A j \in B : k <= j
    BY <1>1, NatMin
  <1>3. k # 0
    BY <1>2
  <1>4. k \in 1..n /\ k - 1 \in 0..n /\ ~(k <= k - 1)
    BY <1>2, <1>3
  <1>5. f[k - 1] \in G[k - 1]
    BY <1>2, <1>4
  <1>6. QED
    BY <1>2, <1>4, <1>5

-----------------------------------------------------------------------------
(* The transaction index.                                                  *)

Marks   == UNION {[1..k -> Block \cup {Null}] : k \in Nat}
Entries == [pos : Block, vSpent : Marks]
Indices == UNION {[D -> Entries] : D \in SUBSET Tx}

\* The entries of view and the marks in them are those of blocks of B.
OnChain(view, B) ==
  \A t \in DOMAIN view :
    /\ view[t].pos \in B /\ t \in Range(vtx[view[t].pos])
    /\ \A n \in DOMAIN view[t].vSpent :
         view[t].vSpent[n] # Null =>
           /\ view[t].vSpent[n] \in B
           /\ \E u \in Range(vtx[view[t].vSpent[n]]) : <<t, n>> \in Prevouts(u)

LEMMA IndexFacts ==
  ASSUME NEW view \in Indices
  PROVE  /\ DOMAIN view \subseteq Tx
         /\ view = [t \in DOMAIN view |-> view[t]]
         /\ \A t \in DOMAIN view : view[t] \in Entries
  BY DEF Indices

LEMMA IsIndex ==
  ASSUME NEW D \in SUBSET Tx, NEW view, view \in [D -> Entries]
  PROVE  view \in Indices
  BY DEF Indices

LEMMA MarksFacts ==
  ASSUME NEW m \in Marks, NEW S, NEW p \in Block \cup {Null}
  PROVE  [n \in DOMAIN m |-> IF n \in S THEN p ELSE m[n]] \in Marks
  <1>1. PICK k \in Nat : m \in [1..k -> Block \cup {Null}]
    BY DEF Marks
  <1>2. [n \in DOMAIN m |-> IF n \in S THEN p ELSE m[n]] \in [1..k -> Block \cup {Null}]
    BY <1>1
  <1>3. QED
    BY <1>2 DEF Marks

\* What MarkSpent makes of an index.
LEMMA MarkSpentIs ==
  ASSUME NEW view \in Indices, NEW S, NEW p \in Block \cup {Null}
  PROVE  LET m == MarkSpent(view, S, p) IN
           /\ m \in Indices /\ DOMAIN m = DOMAIN view
           /\ \A u \in DOMAIN view :
                /\ m[u].pos = view[u].pos
                /\ DOMAIN m[u].vSpent = DOMAIN view[u].vSpent
                /\ \A n \in DOMAIN view[u].vSpent :
                     m[u].vSpent[n] = IF <<u, n>> \in S THEN p ELSE view[u].vSpent[n]
  <1> DEFINE m == MarkSpent(view, S, p)
             new(u) == [n \in DOMAIN view[u].vSpent |->
                          IF <<u, n>> \in S THEN p ELSE view[u].vSpent[n]]
  <1>1. ASSUME NEW u \in DOMAIN view
        PROVE  /\ m[u] \in Entries /\ m[u].pos = view[u].pos /\ m[u].vSpent = new(u)
    <2>1. view[u] \in Entries
      BY IndexFacts
    <2>2. new(u) \in Marks
      <3>1. new(u) = [n \in DOMAIN view[u].vSpent |->
                        IF n \in {k \in DOMAIN view[u].vSpent : <<u, k>> \in S}
                        THEN p ELSE view[u].vSpent[n]]
        OBVIOUS
      <3>2. view[u].vSpent \in Marks
        BY <2>1 DEF Entries
      <3>3. QED
        BY <3>1, <3>2, MarksFacts
    <2>3. m[u] = [view[u] EXCEPT !.vSpent = new(u)]
      BY DEF MarkSpent
    <2> HIDE DEF new, m
    <2>4. QED
      BY <2>1, <2>2, <2>3 DEF Entries
  <1>2. DOMAIN m = DOMAIN view /\ m = [u \in DOMAIN view |-> m[u]]
    BY DEF MarkSpent
  <1>3. m \in [DOMAIN view -> Entries]
    <2> HIDE DEF m
    <2>1. QED
      BY <1>1, <1>2
  <1>4. m \in Indices
    <2> HIDE DEF m
    <2>1. QED
      BY <1>3, IndexFacts, IsIndex
  <1>5. QED
    <2> HIDE DEF m
    <2>1. QED
      BY <1>1, <1>2, <1>4 DEF m

LEMMA WithEntryIs ==
  ASSUME NEW view \in Indices, NEW t \in Tx, NEW e \in Entries
  PROVE  LET w == WithEntry(view, t, e) IN
           /\ w \in Indices /\ DOMAIN w = DOMAIN view \cup {t} /\ w[t] = e
           /\ \A u \in DOMAIN view \ {t} : w[u] = view[u]
  <1> DEFINE w == WithEntry(view, t, e)
             D == DOMAIN view \cup {t}
  <1>1. D \in SUBSET Tx /\ w \in [D -> Entries]
    BY IndexFacts DEF WithEntry
  <1>2. w \in Indices
    BY <1>1, IsIndex
  <1>3. QED
    BY <1>2 DEF WithEntry

LEMMA ErasedIs ==
  ASSUME NEW view \in Indices, NEW t
  PROVE  LET w == [u \in DOMAIN view \ {t} |-> view[u]] IN
           /\ w \in Indices /\ DOMAIN w = DOMAIN view \ {t}
           /\ \A u \in DOMAIN w : w[u] = view[u]
  <1> DEFINE w == [u \in DOMAIN view \ {t} |-> view[u]]
             D == DOMAIN view \ {t}
  <1>1. D \in SUBSET Tx /\ w \in [D -> Entries]
    BY IndexFacts
  <1>2. w \in Indices
    BY <1>1, IsIndex
  <1>3. QED
    BY <1>2

LEMMA NewEntryIs ==
  ASSUME NEW t \in Tx, NEW b \in Block
  PROVE  /\ NewEntry(t, b) \in Entries /\ NewEntry(t, b).pos = b
         /\ \A n \in DOMAIN NewEntry(t, b).vSpent : NewEntry(t, b).vSpent[n] = Null
  <1>1. nOut[t] \in Nat
    BY TxAssumption
  <1>2. [n \in 1..nOut[t] |-> Null] \in Marks
    <2>1. [n \in 1..nOut[t] |-> Null] \in [1..nOut[t] -> Block \cup {Null}]
      OBVIOUS
    <2>2. QED
      BY <1>1, <2>1 DEF Marks
  <1>3. QED
    BY <1>2 DEF NewEntry, Entries

-----------------------------------------------------------------------------
(* Connecting and disconnecting the transactions of a block.               *)

States == [ok : BOOLEAN, view : Indices]

LEMMA BlockTx ==
  ASSUME NEW b \in Block
  PROVE  /\ Len(vtx[b]) \in Nat /\ DOMAIN vtx[b] = 1..Len(vtx[b])
         /\ \A i \in 1..Len(vtx[b]) : vtx[b][i] \in Tx
         /\ Range(vtx[b]) = {vtx[b][i] : i \in 1..Len(vtx[b])}
  <1>1. vtx[b] \in Seq(Tx)
    BY TxAssumption
  <1>2. QED
    BY <1>1 DEF Range

\* Connecting one transaction of b keeps the index on a chain that holds b.
LEMMA CalculateTxKeeps ==
  ASSUME NEW db, NEW b \in Block, NEW i \in 1..Len(vtx[b]),
         NEW fJustCheck \in BOOLEAN, NEW skipTxCheck \in BOOLEAN, NEW s \in States
  PROVE  LET r == CalculateTx(db, b, i, fJustCheck, skipTxCheck, s) IN
           /\ r \in States
           /\ \A B : b \in B /\ OnChain(s.view, B) => OnChain(r.view, B)
  <1> DEFINE r == CalculateTx(db, b, i, fJustCheck, skipTxCheck, s)
             t == vtx[b][i]
             S == MarkedInputs(s.view, t)
             m == MarkSpent(s.view, S, b)
             w == WithEntry(m, t, NewEntry(t, b))
  <1>1. s.view \in Indices /\ t \in Tx /\ t \in Range(vtx[b])
    BY BlockTx DEF States
  <1>2. S \subseteq Prevouts(t)
    BY DEF MarkedInputs, Prevouts
  <1>3. r = [ok |-> FALSE, view |-> s.view] \/ r = [ok |-> TRUE, view |-> w]
    BY DEF CalculateTx
  <1> HIDE DEF r, t, S
  <1>4. /\ m \in Indices /\ DOMAIN m = DOMAIN s.view
        /\ \A u \in DOMAIN s.view :
             /\ m[u].pos = s.view[u].pos
             /\ DOMAIN m[u].vSpent = DOMAIN s.view[u].vSpent
             /\ \A n \in DOMAIN s.view[u].vSpent :
                  m[u].vSpent[n] = IF <<u, n>> \in S THEN b ELSE s.view[u].vSpent[n]
    BY <1>1, MarkSpentIs
  <1> HIDE DEF m
  <1>5. /\ NewEntry(t, b) \in Entries /\ NewEntry(t, b).pos = b
        /\ \A n \in DOMAIN NewEntry(t, b).vSpent : NewEntry(t, b).vSpent[n] = Null
    BY <1>1, NewEntryIs
  <1>6. /\ w \in Indices /\ DOMAIN w = DOMAIN m \cup {t} /\ w[t] = NewEntry(t, b)
        /\ \A u \in DOMAIN m \ {t} : w[u] = m[u]
    <2>1. m \in Indices /\ t \in Tx /\ NewEntry(t, b) \in Entries
      BY <1>1, <1>4, <1>5
    <2>2. QED
      BY <2>1, WithEntryIs
  <1> HIDE DEF w
  <1>7. r \in States
    <2>1. CASE r = [ok |-> FALSE, view |-> s.view]
      BY <1>1, <2>1 DEF States
    <2>2. CASE r = [ok |-> TRUE, view |-> w]
      BY <1>6, <2>2 DEF States
    <2>3. QED
      BY <1>3, <2>1, <2>2
  <1>8. ASSUME NEW B, b \in B, OnChain(s.view, B) PROVE OnChain(w, B)
    <2> SUFFICES ASSUME NEW u \in DOMAIN w
                 PROVE  /\ w[u].pos \in B /\ u \in Range(vtx[w[u].pos])
                        /\ \A n \in DOMAIN w[u].vSpent :
                             w[u].vSpent[n] # Null =>
                               /\ w[u].vSpent[n] \in B
                               /\ \E x \in Range(vtx[w[u].vSpent[n]]) : <<u, n>> \in Prevouts(x)
      BY DEF OnChain
    <2>1. CASE u = t
      BY <1>1, <1>5, <1>6, <1>8, <2>1
    <2>2. CASE u # t
      <3>1. u \in DOMAIN s.view /\ w[u] = m[u]
        BY <1>4, <1>6, <2>2
      <3>2. QED
        BY <1>1, <1>2, <1>4, <1>8, <3>1 DEF OnChain
    <2>3. QED
      BY <2>1, <2>2
  <1>9. ASSUME NEW B, b \in B, OnChain(s.view, B) PROVE OnChain(r.view, B)
    BY <1>3, <1>8, <1>9
  <1>10. QED
    BY <1>7, <1>9 DEF r

\* CalculateBlockAmounts is a loop over the transactions of the block.
LEMMA CalculateLoop ==
  ASSUME NEW db \in Indices, NEW b \in Block,
         NEW fJustCheck \in BOOLEAN, NEW skipTxCheck \in BOOLEAN
  PROVE  \E f \in [0..Len(vtx[b]) -> States] :
           /\ f[0] = [ok |-> TRUE, view |-> db]
           /\ \A i \in 1..Len(vtx[b]) :
                f[i] = CalculateTx(db, b, i, fJustCheck, skipTxCheck, f[i - 1])
           /\ CalculateBlockAmounts(db, b, fJustCheck, skipTxCheck) = f[Len(vtx[b])]
  <1> DEFINE n == Len(vtx[b])
             s0 == [ok |-> TRUE, view |-> db]
             Step(i, s) == CalculateTx(db, b, i, fJustCheck, skipTxCheck, s)
             F == [p \in (1..n) \X States |-> Step(p[1], p[2])]
             Is(h) == h = [i \in 0..n |-> IF i = 0 THEN s0 ELSE Step(i, h[i - 1])]
             f == CHOOSE h : Is(h)
  <1>1. n \in Nat /\ s0 \in States
    BY BlockTx DEF States
  <1>2. ASSUME NEW i \in 1..n, NEW s \in States
        PROVE  F[<<i, s>>] = Step(i, s) /\ Step(i, s) \in States
    BY CalculateTxKeeps
  <1>3. CalculateBlockAmounts(db, b, fJustCheck, skipTxCheck) = f[n]
    BY DEF CalculateBlockAmounts
  <1> HIDE DEF n, s0, Step, F
  <1>4. PICK h \in [0..n -> States] : Loop(h, F, s0, n)
    <2>1. \A i \in 1..n : \A s \in States : F[<<i, s>>] \in States
      BY <1>2
    <2>2. QED
      BY <1>1, <2>1, LoopExists
  <1>5. \A i \in 0..n : i # 0 => i \in 1..n /\ i - 1 \in 0..n
    BY <1>1
  <1>6. Is(h)
    <2>1. \A i \in 0..n : h[i] = IF i = 0 THEN s0 ELSE Step(i, h[i - 1])
      BY <1>2, <1>4, <1>5 DEF Loop
    <2>2. h = [i \in 0..n |-> h[i]]
      BY <1>4
    <2>3. QED
      BY <2>1, <2>2
  <1>7. Is(f)
    BY <1>6
  <1> HIDE DEF f
  <1> DEFINE G == [i \in 0..n |-> States]
  <1>8. f[0] = s0 /\ \A i \in 1..n : f[i] = Step(i, f[i - 1])
    BY <1>1, <1>7
  <1>9. \A i \in 0..n : f[i] \in States
    <2>1. f[0] \in G[0]
      BY <1>1, <1>8
    <2>2. \A i \in 1..n : f[i - 1] \in G[i - 1] => f[i] \in G[i]
      <3> SUFFICES ASSUME NEW i \in 1..n, f[i - 1] \in G[i - 1] PROVE f[i] \in G[i]
        OBVIOUS
      <3>1. i \in 0..n /\ i - 1 \in 0..n
        BY <1>1
      <3>2. f[i - 1] \in States
        BY <3>1
      <3>3. QED
        BY <1>2, <1>8, <3>1, <3>2
    <2>3. \A i \in 0..n : G[i] = States
      OBVIOUS
    <2> HIDE DEF G
    <2>4. \A i \in 0..n : f[i] \in G[i]
      BY <1>1, <2>1, <2>2, LoopKeeps
    <2>5. QED
      BY <2>3, <2>4
  <1>10. f \in [0..n -> States]
    BY <1>7, <1>9
  <1>11. QED
    BY <1>3, <1>8, <1>10 DEF n, s0, Step

\* Connecting all of them does.
LEMMA CalculateKeeps ==
  ASSUME NEW db \in Indices, NEW b \in Block,
         NEW fJustCheck \in BOOLEAN, NEW skipTxCheck \in BOOLEAN,
         NEW B, b \in B, OnChain(db, B)
  PROVE  LET r == CalculateBlockAmounts(db, b, fJustCheck, skipTxCheck) IN
           r \in States /\ OnChain(r.view, B)
  <1> DEFINE n == Len(vtx[b])
             G == [i \in 0..n |-> {s \in States : OnChain(s.view, B)}]
             Step(i, s) == CalculateTx(db, b, i, fJustCheck, skipTxCheck, s)
  <1>1. n \in Nat /\ n \in 0..n
    BY BlockTx
  <1>2. PICK f \in [0..n -> States] :
          /\ f[0] = [ok |-> TRUE, view |-> db]
          /\ \A i \in 1..n : f[i] = Step(i, f[i - 1])
          /\ CalculateBlockAmounts(db, b, fJustCheck, skipTxCheck) = f[n]
    BY CalculateLoop, Z3T(30)
  <1>3. f[0] \in G[0]
    BY <1>1, <1>2
  <1>4. ASSUME NEW i \in 1..n, f[i - 1] \in G[i - 1] PROVE f[i] \in G[i]
    <2>1. i \in 0..n /\ i - 1 \in 0..n
      BY <1>1
    <2>2. f[i - 1] \in States /\ OnChain(f[i - 1].view, B)
      BY <1>4, <2>1
    <2>3. OnChain(Step(i, f[i - 1]).view, B)
      BY <2>2, CalculateTxKeeps
    <2> HIDE DEF Step
    <2>4. QED
      BY <1>2, <2>1, <2>3
  <1>5. f[n] \in G[n]
    <2> HIDE DEF G
    <2>1. \A i \in 1..n : f[i - 1] \in G[i - 1] => f[i] \in G[i]
      BY <1>4
    <2>2. \A i \in 0..n : f[i] \in G[i]
      BY <1>1, <1>3, <2>1, LoopKeeps
    <2>3. QED
      BY <1>1, <2>2
  <1>6. QED
    BY <1>1, <1>2, <1>5

\* Nothing in view comes from t.
Gone(view, t) ==
  /\ t \notin DOMAIN view
  /\ \A u \in DOMAIN view : \A n \in DOMAIN view[u].vSpent :
       <<u, n>> \in Prevouts(t) => view[u].vSpent[n] = Null

\* Disconnecting a transaction removes all that comes from it and adds nothing.
LEMMA DisconnectInputsIs ==
  ASSUME NEW t, NEW s \in States
  PROVE  LET r == DisconnectInputs(t, s) IN
           /\ r \in States
           /\ r.ok => /\ s.ok /\ Gone(r.view, t)
                      /\ \A u : Gone(s.view, u) => Gone(r.view, u)
                      /\ \A B : OnChain(s.view, B) => OnChain(r.view, B)
  <1> DEFINE r == DisconnectInputs(t, s)
             S == {vin[t][i] : i \in DOMAIN vin[t]}
             m == MarkSpent(s.view, S, Null)
             w == [u \in DOMAIN m \ {t} |-> m[u]]
  <1>1. s.view \in Indices /\ s.ok \in BOOLEAN
    BY DEF States
  <1>2. S = Prevouts(t)
    BY DEF Prevouts
  <1>3. r = [ok |-> FALSE, view |-> s.view] \/ (s.ok /\ r = [ok |-> TRUE, view |-> w])
    <2>1. CASE ~s.ok \/ ~FetchInputs(s.view, t, {})
      <3>1. r = [ok |-> FALSE, view |-> s.view]
        BY <2>1, Zenon DEF DisconnectInputs
      <3>2. QED
        BY <3>1
    <2>2. CASE ~(~s.ok \/ ~FetchInputs(s.view, t, {}))
      BY <2>2 DEF DisconnectInputs
    <2>3. QED
      BY <2>1, <2>2
  <1> HIDE DEF r, S
  <1>4. /\ m \in Indices /\ DOMAIN m = DOMAIN s.view
        /\ \A u \in DOMAIN s.view :
             /\ m[u].pos = s.view[u].pos
             /\ DOMAIN m[u].vSpent = DOMAIN s.view[u].vSpent
             /\ \A n \in DOMAIN s.view[u].vSpent :
                  m[u].vSpent[n] = IF <<u, n>> \in S THEN Null ELSE s.view[u].vSpent[n]
    BY <1>1, MarkSpentIs
  <1> HIDE DEF m
  <1>5. w \in Indices /\ DOMAIN w = DOMAIN m \ {t} /\ \A u \in DOMAIN w : w[u] = m[u]
    BY <1>4, ErasedIs
  <1> HIDE DEF w
  <1>6. r \in States
    <2>1. CASE r = [ok |-> FALSE, view |-> s.view]
      BY <1>1, <2>1 DEF States
    <2>2. CASE r = [ok |-> TRUE, view |-> w]
      BY <1>5, <2>2 DEF States
    <2>3. QED
      BY <1>3, <2>1, <2>2
  <1>7. Gone(w, t)
    BY <1>2, <1>4, <1>5 DEF Gone
  <1>8. ASSUME NEW u, Gone(s.view, u) PROVE Gone(w, u)
    BY <1>4, <1>5, <1>8 DEF Gone
  <1>9. ASSUME NEW B, OnChain(s.view, B) PROVE OnChain(w, B)
    BY <1>4, <1>5, <1>9 DEF OnChain
  <1>10. QED
    <2>1. CASE r.ok
      <3>1. s.ok /\ r.view = w
        BY <1>3, <2>1
      <3>2. QED
        BY <1>6, <1>7, <1>8, <1>9, <3>1 DEF r
    <2>2. CASE ~r.ok
      BY <1>6, <2>2 DEF r
    <2>3. QED
      BY <2>1, <2>2

\* DisconnectTxs is a loop over the transactions of the block, the last one first.
LEMMA DisconnectLoop ==
  ASSUME NEW db \in Indices, NEW b \in Block
  PROVE  \E f \in [0..Len(vtx[b]) -> States] :
           /\ f[0] = [ok |-> TRUE, view |-> db]
           /\ \A i \in 1..Len(vtx[b]) :
                f[i] = DisconnectInputs(vtx[b][Len(vtx[b]) + 1 - i], f[i - 1])
           /\ DisconnectTxs(db, b) = f[Len(vtx[b])]
  <1> DEFINE n == Len(vtx[b])
             s0 == [ok |-> TRUE, view |-> db]
             Step(i, s) == DisconnectInputs(vtx[b][n + 1 - i], s)
             F == [p \in (1..n) \X States |-> Step(p[1], p[2])]
             Is(h) == h = [i \in 0..n |-> IF i = 0 THEN s0 ELSE Step(i, h[i - 1])]
             f == CHOOSE h : Is(h)
  <1>1. n \in Nat /\ s0 \in States
    BY BlockTx DEF States
  <1>2. ASSUME NEW i \in 1..n, NEW s \in States
        PROVE  F[<<i, s>>] = Step(i, s) /\ Step(i, s) \in States
    BY DisconnectInputsIs
  <1>3. DisconnectTxs(db, b) = f[n]
    BY DEF DisconnectTxs
  <1> HIDE DEF n, s0, Step, F
  <1>4. PICK h \in [0..n -> States] : Loop(h, F, s0, n)
    <2>1. \A i \in 1..n : \A s \in States : F[<<i, s>>] \in States
      BY <1>2
    <2>2. QED
      BY <1>1, <2>1, LoopExists
  <1>5. \A i \in 0..n : i # 0 => i \in 1..n /\ i - 1 \in 0..n
    BY <1>1
  <1>6. Is(h)
    <2>1. \A i \in 0..n : h[i] = IF i = 0 THEN s0 ELSE Step(i, h[i - 1])
      BY <1>2, <1>4, <1>5 DEF Loop
    <2>2. h = [i \in 0..n |-> h[i]]
      BY <1>4
    <2>3. QED
      BY <2>1, <2>2
  <1>7. Is(f)
    BY <1>6
  <1> HIDE DEF f
  <1> DEFINE G == [i \in 0..n |-> States]
  <1>8. f[0] = s0 /\ \A i \in 1..n : f[i] = Step(i, f[i - 1])
    BY <1>1, <1>7
  <1>9. \A i \in 0..n : f[i] \in States
    <2>1. f[0] \in G[0]
      BY <1>1, <1>8
    <2>2. \A i \in 1..n : f[i - 1] \in G[i - 1] => f[i] \in G[i]
      <3> SUFFICES ASSUME NEW i \in 1..n, f[i - 1] \in G[i - 1] PROVE f[i] \in G[i]
        OBVIOUS
      <3>1. i \in 0..n /\ i - 1 \in 0..n
        BY <1>1
      <3>2. f[i - 1] \in States
        BY <3>1
      <3>3. QED
        BY <1>2, <1>8, <3>1, <3>2
    <2>3. \A i \in 0..n : G[i] = States
      OBVIOUS
    <2> HIDE DEF G
    <2>4. \A i \in 0..n : f[i] \in G[i]
      BY <1>1, <2>1, <2>2, LoopKeeps
    <2>5. QED
      BY <2>3, <2>4
  <1>10. f \in [0..n -> States]
    BY <1>7, <1>9
  <1>11. QED
    BY <1>3, <1>8, <1>10 DEF n, s0, Step

\* Disconnecting a whole block leaves the index on the chain below it.
LEMMA DisconnectKeeps ==
  ASSUME NEW db \in Indices, NEW b \in Block, NEW B, OnChain(db, B),
         DisconnectTxs(db, b).ok
  PROVE  /\ DisconnectTxs(db, b).view \in Indices
         /\ OnChain(DisconnectTxs(db, b).view, B \ {b})
  <1> DEFINE n == Len(vtx[b])
             at(i) == vtx[b][n + 1 - i]
             Step(i, s) == DisconnectInputs(at(i), s)
             Done(i, s) == OnChain(s.view, B) /\ \A j \in 1..i : Gone(s.view, at(j))
             G == [i \in 0..n |-> {s \in States : s.ok => Done(i, s)}]
  <1>1. n \in Nat /\ n \in 0..n
    BY BlockTx
  <1>2. ASSUME NEW i \in 1..n, NEW s \in States
        PROVE  /\ Step(i, s) \in States
               /\ Step(i, s).ok =>
                    /\ s.ok /\ Gone(Step(i, s).view, at(i))
                    /\ \A u : Gone(s.view, u) => Gone(Step(i, s).view, u)
                    /\ OnChain(s.view, B) => OnChain(Step(i, s).view, B)
    BY DisconnectInputsIs
  <1>3. PICK f \in [0..n -> States] :
          /\ f[0] = [ok |-> TRUE, view |-> db]
          /\ \A i \in 1..n : f[i] = Step(i, f[i - 1])
          /\ DisconnectTxs(db, b) = f[n]
    BY DisconnectLoop
  <1>4. \A t \in Range(vtx[b]) : \E j \in 1..n : t = at(j)
    <2> SUFFICES ASSUME NEW k \in 1..n PROVE \E j \in 1..n : vtx[b][k] = at(j)
      BY BlockTx
    <2>1. n + 1 - k \in 1..n /\ n + 1 - (n + 1 - k) = k
      BY <1>1
    <2>2. QED
      BY <2>1
  <1> HIDE DEF n, at, Step
  <1>5. f[0] \in G[0]
    <2>1. 0 \in 0..n /\ 1..0 = {}
      BY <1>1
    <2>2. Done(0, f[0])
      BY <1>3, <2>1
    <2> HIDE DEF Done
    <2>3. QED
      BY <1>3, <2>1, <2>2
  <1>6. ASSUME NEW i \in 1..n, f[i - 1] \in G[i - 1] PROVE f[i] \in G[i]
    <2>1. i \in 0..n /\ i # 0 /\ i - 1 \in 0..n
      BY <1>1
    <2>2. f[i] = Step(i, f[i - 1])
      BY <1>3
    <2>3. f[i - 1] \in States /\ (f[i - 1].ok => Done(i - 1, f[i - 1]))
      BY <1>6, <2>1
    <2> DEFINE s == f[i - 1]
               r == Step(i, s)
    <2>4. /\ r \in States
          /\ r.ok => /\ s.ok /\ Gone(r.view, at(i))
                     /\ \A u : Gone(s.view, u) => Gone(r.view, u)
                     /\ OnChain(s.view, B) => OnChain(r.view, B)
      <3> HIDE DEF s
      <3>1. s \in States
        BY <2>3 DEF s
      <3>2. QED
        BY <1>2, <3>1
    <2>5. ASSUME r.ok PROVE Done(i, r)
      <3> HIDE DEF r, s
      <3>1. Done(i - 1, s)
        BY <2>3, <2>4, <2>5 DEF s
      <3>2. \A j \in 1..i : j = i \/ j \in 1..(i - 1)
        BY <1>1
      <3>3. QED
        BY <2>4, <2>5, <3>1, <3>2
    <2> HIDE DEF Done, r, s
    <2>6. f[i] = r
      BY <2>2 DEF r, s
    <2>7. QED
      BY <2>1, <2>4, <2>5, <2>6
  <1>7. f[n] \in G[n]
    <2> HIDE DEF G
    <2>1. \A i \in 1..n : f[i - 1] \in G[i - 1] => f[i] \in G[i]
      BY <1>6
    <2>2. \A i \in 0..n : f[i] \in G[i]
      BY <1>1, <1>5, <2>1, LoopKeeps
    <2>3. QED
      BY <1>1, <2>2
  <1> DEFINE v == DisconnectTxs(db, b).view
  <1>8. f[n] \in States /\ Done(n, f[n]) /\ v = f[n].view
    <2> HIDE DEF Done
    <2>1. QED
      BY <1>1, <1>3, <1>7
  <1>9. v \in Indices /\ OnChain(v, B) /\ \A t \in Range(vtx[b]) : Gone(v, t)
    BY <1>4, <1>8 DEF States
  <1> HIDE DEF v
  <1>10. OnChain(v, B \ {b})
    <2> SUFFICES ASSUME NEW t \in DOMAIN v
                 PROVE  /\ v[t].pos \in B \ {b} /\ t \in Range(vtx[v[t].pos])
                        /\ \A k \in DOMAIN v[t].vSpent :
                             v[t].vSpent[k] # Null =>
                               /\ v[t].vSpent[k] \in B \ {b}
                               /\ \E u \in Range(vtx[v[t].vSpent[k]]) : <<t, k>> \in Prevouts(u)
      BY DEF OnChain
    <2>1. v[t].pos # b
      BY <1>9 DEF OnChain, Gone
    <2>2. ASSUME NEW k \in DOMAIN v[t].vSpent, v[t].vSpent[k] # Null
          PROVE  v[t].vSpent[k] # b
      <3>1. PICK u \in Range(vtx[v[t].vSpent[k]]) : <<t, k>> \in Prevouts(u)
        BY <1>9, <2>2 DEF OnChain
      <3>2. SUFFICES ASSUME v[t].vSpent[k] = b PROVE FALSE
        OBVIOUS
      <3>3. Gone(v, u)
        BY <1>9, <3>1, <3>2
      <3>4. QED
        BY <2>2, <3>1, <3>2, <3>3 DEF Gone
    <2>3. QED
      BY <1>9, <2>1, <2>2 DEF OnChain
  <1>11. QED
    BY <1>9, <1>10 DEF v

-----------------------------------------------------------------------------
(* The index is right at every step.                                       *)

\* What the database holds is on its chain; so is, in Reorganize, what the
\* batch holds, for the chain that ends in pindex.
Index ==
  /\ txdb.tx \in Indices /\ OnChain(txdb.tx, Branch[txdb.hashBestChain])
  /\ pc \in {"disconnect", "connect"} =>
       batch.tx \in Indices /\ OnChain(batch.tx, Branch[pindex])

LEMMA OnChainGrows ==
  ASSUME NEW view, NEW B, NEW C, B \subseteq C, OnChain(view, B)
  PROVE  OnChain(view, C)
  BY DEF OnChain

LEMMA InitIndex == Init => Index
  <1> SUFFICES ASSUME Init PROVE Index
    OBVIOUS
  <1>1. txdb.tx = <<>> /\ pc = "idle"
    BY DEF Init, Database
  <1>2. DOMAIN <<>> = {}
    OBVIOUS
  <1>3. <<>> \in [{} -> Entries]
    OBVIOUS
  <1>4. <<>> \in Indices
    BY <1>3, IsIndex
  <1>5. QED
    BY <1>1, <1>2, <1>4 DEF Index, OnChain

\* A database that is connected one block: its index is what it was, or what
\* the block makes of it.
LEMMA ConnectedIndex ==
  ASSUME NEW db, NEW b \in Block, NEW fJustCheck \in BOOLEAN, NEW skipTxCheck \in BOOLEAN,
         NEW postponed, NEW payeeOk, NEW B, b \in B,
         db.tx \in Indices, OnChain(db.tx, B)
  PROVE  LET r == ConnectBlock(db, b, fJustCheck, skipTxCheck, postponed, payeeOk) IN
           r.db.tx \in Indices /\ OnChain(r.db.tx, B)
  <1> DEFINE r == ConnectBlock(db, b, fJustCheck, skipTxCheck, postponed, payeeOk)
             a == CalculateBlockAmounts(db.tx, b, fJustCheck, skipTxCheck)
  <1>1. r.db.tx = db.tx \/ r.db.tx = a.view
    BY DEF ConnectBlock, Database
  <1>2. a \in States /\ OnChain(a.view, B)
    BY CalculateKeeps
  <1>3. a.view \in Indices
    BY <1>2 DEF States
  <1> HIDE DEF r, a
  <1>4. QED
    BY <1>1, <1>2, <1>3 DEF r

\* Steps that leave the index alone.
LEMMA IndexStable ==
  ASSUME Index, txdb'.tx = txdb.tx, txdb'.hashBestChain = txdb.hashBestChain,
         pc' \in {"disconnect", "connect"} =>
           pc \in {"disconnect", "connect"} /\ UNCHANGED <<batch, pindex>>
  PROVE  Index'
  BY DEF Index, OnChain

LEMMA IndexStep == IInv /\ Index /\ [Next]_vars => Index'
  <1> SUFFICES ASSUME IInv, Index, [Next]_vars PROVE Index'
    OBVIOUS
  <1>1. CASE \E b \in Block \ {Genesis} : AddToBlockIndex(b)
    <2>1. /\ txdb'.tx = txdb.tx /\ txdb'.hashBestChain = txdb.hashBestChain
          /\ pc' \in {"setbest", "idle"}
      BY <1>1 DEF AddToBlockIndex, WriteBlockIndex, Database
    <2>2. QED
      BY <2>1, IndexStable
  <1>2. CASE \/ \E b \in Block : EnforceCheckpoint(b)
             \/ \E t \in Tx : AcceptToMemoryPool(t)
             \/ ConnectTipFailed \/ ReachFork \/ ReorganizeFailed
             \/ SecondaryFailed \/ SecondaryDone \/ NewBest
             \/ UNCHANGED vars
    <2>1. /\ txdb' = txdb
          /\ pc' \in {"disconnect", "connect"} =>
               pc \in {"disconnect", "connect"} /\ UNCHANGED <<batch, pindex>>
      BY <1>2 DEF EnforceCheckpoint, AcceptToMemoryPool, ConnectTipFailed, ReachFork,
                  ReorganizeFailed, SecondaryFailed, SecondaryDone, NewBest, vars, call
    <2>2. QED
      BY <2>1, IndexStable
  <1>3. CASE Restart
    <2>1. txdb' = txdb /\ pc' \in {"idle", "setbest"}
      BY <1>3 DEF Restart
    <2>2. QED
      BY <2>1, IndexStable
  <1>4. CASE ConnectTip
    <2>1. PICK payeeOk \in BOOLEAN :
            txdb' = SetBestChainInner(txdb, hash, FALSE, payeeOk).db
      BY <1>4 DEF ConnectTip
    <2> DEFINE r == ConnectBlock(txdb, hash, FALSE, TRUE, -1, payeeOk)
    <2>2. txdb'.tx = r.db.tx /\ txdb'.hashBestChain = hash
      BY <2>1 DEF SetBestChainInner, Database
    <2>3. /\ pc = "setbest" /\ pc' = "newbest"
          /\ hash # Genesis /\ hashPrevBlock[hash] = hashBestChain
      BY <1>4 DEF ConnectTip
    <2>4. /\ hash \in Block /\ hash \in Branch[hash]
          /\ Branch[hashBestChain] \subseteq Branch[hash]
      BY <2>3, BranchFacts DEF IInv, TypeOK
    <2>5. Branch[txdb.hashBestChain] \subseteq Branch[hash]
      BY <2>3, <2>4 DEF IInv, TypeOK, DurableTip, Frame, Tree
    <2>6. OnChain(txdb.tx, Branch[hash]) /\ txdb.tx \in Indices
      BY <2>5, OnChainGrows DEF Index
    <2>7. r.db.tx \in Indices /\ OnChain(r.db.tx, Branch[hash])
      BY <2>4, <2>6, ConnectedIndex
    <2> HIDE DEF r
    <2>8. QED
      BY <2>2, <2>3, <2>7 DEF Index
  <1>5. CASE BeginReorganize
    <2>1. /\ pc = "setbest" /\ batch' = txdb /\ txdb' = txdb /\ pindex' = pindexBest
          /\ txdb.hashBestChain = pindexBest
      BY <1>5 DEF BeginReorganize, IInv, DurableTip
    <2>2. QED
      BY <2>1 DEF Index, OnChain
  <1>6. CASE DisconnectTip
    <2> DEFINE d == DisconnectTxs(batch.tx, pindex)
    <2>1. /\ pc = "disconnect" /\ pc' = "disconnect" /\ txdb' = txdb
          /\ pindex \notin Branch[pindexIntermediate]
          /\ pindex' = hashPrevBlock[pindex]
          /\ d.ok /\ batch'.tx = d.view
      BY <1>6 DEF DisconnectTip, DisconnectBlock, Database
    <2>2. pindex \in mapBlockIndex /\ pindexIntermediate \in mapBlockIndex
      BY <2>1 DEF IInv, TypeOK, Frame, Tree
    <2>3. pindex # Genesis /\ pindex \in Block
      BY <2>1, <2>2 DEF IInv, TypeOK, Tree
    <2>4. Branch[hashPrevBlock[pindex]] = Branch[pindex] \ {pindex}
      BY <2>3, BranchFacts
    <2>5. batch.tx \in Indices /\ OnChain(batch.tx, Branch[pindex])
      BY <2>1 DEF Index
    <2>6. d.view \in Indices /\ OnChain(d.view, Branch[pindex] \ {pindex})
      BY <2>1, <2>3, <2>5, DisconnectKeeps
    <2> HIDE DEF d
    <2>7. QED
      BY <2>1, <2>4, <2>6 DEF Index
  <1>7. CASE ConnectNext
    <2>1. PICK x \in mapBlockIndex, payeeOk \in BOOLEAN :
            LET r == ConnectBlock(batch, x, FALSE, TRUE, postponedBlocks, payeeOk)
            IN  IsNext(x, pindexIntermediate) /\ batch' = r.db /\ pindex' = x
      BY <1>7 DEF ConnectNext
    <2> DEFINE r == ConnectBlock(batch, x, FALSE, TRUE, postponedBlocks, payeeOk)
    <2>2. /\ pc = "connect" /\ pc' = "connect" /\ txdb' = txdb
      BY <1>7 DEF ConnectNext
    <2>3. /\ x \in Block /\ x \in Branch[x] /\ Branch[pindex] \subseteq Branch[x]
      BY <2>1, BranchFacts DEF IInv, TypeOK, IsNext
    <2>4. batch.tx \in Indices /\ OnChain(batch.tx, Branch[x])
      BY <2>2, <2>3, OnChainGrows DEF Index
    <2>5. r.db.tx \in Indices /\ OnChain(r.db.tx, Branch[x])
      BY <2>3, <2>4, ConnectedIndex
    <2>6. batch' = r.db /\ pindex' = x
      BY <2>1
    <2> HIDE DEF r
    <2>7. QED
      BY <2>2, <2>5, <2>6 DEF Index
  <1>8. CASE CommitReorganize
    <2>1. /\ pc = "connect" /\ pc' = "secondary" /\ pindex = pindexIntermediate
          /\ txdb'.tx = batch.tx /\ txdb'.hashBestChain = pindexIntermediate
      BY <1>8 DEF CommitReorganize, Database
    <2>2. QED
      BY <2>1 DEF Index
  <1>9. CASE ConnectSecondary
    <2>1. PICK x \in mapBlockIndex, payeeOk \in BOOLEAN :
            /\ IsNext(x, hash)
            /\ txdb' = SetBestChainInner(txdb, x, TRUE, payeeOk).db
      BY <1>9 DEF ConnectSecondary
    <2> DEFINE r == ConnectBlock(txdb, x, TRUE, TRUE, -1, payeeOk)
    <2>2. txdb'.tx = r.db.tx /\ txdb'.hashBestChain = x
      BY <2>1 DEF SetBestChainInner, Database
    <2>3. pc = "secondary" /\ pc' = "secondary"
      BY <1>9 DEF ConnectSecondary
    <2>4. /\ x \in Block /\ x \in Branch[x]
          /\ Branch[txdb.hashBestChain] \subseteq Branch[x]
      BY <2>1, <2>3, BranchFacts DEF IInv, TypeOK, DurableTip, IsNext
    <2>5. OnChain(txdb.tx, Branch[x]) /\ txdb.tx \in Indices
      BY <2>4, OnChainGrows DEF Index
    <2>6. r.db.tx \in Indices /\ OnChain(r.db.tx, Branch[x])
      BY <2>4, <2>5, ConnectedIndex
    <2> HIDE DEF r
    <2>7. QED
      BY <2>2, <2>3, <2>6 DEF Index
  <1>10. QED
    BY <1>1, <1>2, <1>3, <1>4, <1>5, <1>6, <1>7, <1>8, <1>9 DEF Next

\* Whatever was connected, disconnected, postponed, failed or cut short by a
\* restart: the transaction index refers to no block off the stored chain.
THEOREM IndexHolds == Spec => []IndexOnBestChain
  <1>1. Index => IndexOnBestChain
    BY DEF Index, OnChain, IndexOnBestChain
  <1>2. Spec => []Index
    BY InitIndex, IndexStep, SpecIInv, PTL DEF Spec
  <1>3. QED
    BY <1>1, <1>2, PTL

-----------------------------------------------------------------------------
(* Every spend is marked, while no chain spends an output twice.           *)

\* Place p comes before place q on every chain that has both.
Before(p, q) == p[1] \in Branch[q[1]] /\ (p[1] = q[1] => p[2] < q[2])

\* Every entry of view is that of a place of P; what it spends comes before
\* and is marked with its block.
Entered(view, P) ==
  \A t \in DOMAIN view : \E p \in P :
    /\ p[1] = view[t].pos /\ TxAt(p) = t
    /\ \A o \in Prevouts(t) :
         /\ \E q \in P : Before(q, p) /\ TxAt(q) = o[1]
         /\ o[1] \in DOMAIN view /\ o[2] \in DOMAIN view[o[1]].vSpent
         /\ view[o[1]].vSpent[o[2]] = view[t].pos

\* Every mark in view is that of a transaction at a place of P.
Backed(view, P) ==
  \A t \in DOMAIN view : \A n \in DOMAIN view[t].vSpent :
    view[t].vSpent[n] # Null => \E p \in P : <<t, n>> \in Prevouts(TxAt(p))

Sound(view, P) == Entered(view, P) /\ Backed(view, P)

\* The transactions at the places of P are different and without conflict.
Apart(P) ==
  \A p, q \in P : p # q => TxAt(p) # TxAt(q) /\ ~Conflict(TxAt(p), TxAt(q))

\* The index of the database is sound for the stored chain, that of the batch
\* for the chain that ends in pindex.
Spends ==
  HonestBlocks(mapBlockIndex) =>
    /\ Sound(txdb.tx, Places(txdb.hashBestChain))
    /\ pc \in {"disconnect", "connect"} => Sound(batch.tx, Places(pindex))

\* The outpoints of a transaction are pairs.
LEMMA OutpointFacts ==
  ASSUME NEW t \in Tx, NEW o \in Prevouts(t)
  PROVE  o = <<o[1], o[2]>> /\ o[1] \in Tx
  <1>1. PICK i \in DOMAIN vin[t] : o = vin[t][i]
    BY DEF Prevouts
  <1>2. vin[t] \in Seq(Tx \X Nat)
    BY TxAssumption
  <1>3. vin[t][i] \in Tx \X Nat
    BY <1>1, <1>2
  <1>4. QED
    BY <1>1, <1>3

\* A longer chain takes nothing away.
LEMMA SoundGrows ==
  ASSUME NEW view, NEW P, NEW Q, P \subseteq Q, Sound(view, P)
  PROVE  Sound(view, Q)
  <1>1. ASSUME NEW t \in DOMAIN view
        PROVE  \E p \in Q :
                 /\ p[1] = view[t].pos /\ TxAt(p) = t
                 /\ \A o \in Prevouts(t) :
                      /\ \E q \in Q : Before(q, p) /\ TxAt(q) = o[1]
                      /\ o[1] \in DOMAIN view /\ o[2] \in DOMAIN view[o[1]].vSpent
                      /\ view[o[1]].vSpent[o[2]] = view[t].pos
    <2>1. PICK p \in P :
                 /\ p[1] = view[t].pos /\ TxAt(p) = t
                 /\ \A o \in Prevouts(t) :
                      /\ \E q \in P : Before(q, p) /\ TxAt(q) = o[1]
                      /\ o[1] \in DOMAIN view /\ o[2] \in DOMAIN view[o[1]].vSpent
                      /\ view[o[1]].vSpent[o[2]] = view[t].pos
      BY DEF Sound, Entered
    <2>2. QED
      BY <2>1
  <1>2. Backed(view, Q)
    BY DEF Sound, Backed
  <1>3. QED
    BY <1>1, <1>2 DEF Sound, Entered

\* The transaction at a new last place has all its inputs marked, and no mark
\* and no entry is lost.
LEMMA ConnectTxSound ==
  ASSUME NEW view \in Indices, NEW P, NEW p, p \notin P, p[1] \in Block, TxAt(p) \in Tx,
         Apart(P \cup {p}), \A q \in P : Before(q, p) /\ TxAt(q) \in Tx,
         Sound(view, P), FetchInputs(view, TxAt(p), {})
  PROVE  Sound(WithEntry(MarkSpent(view, MarkedInputs(view, TxAt(p)), p[1]),
                         TxAt(p), NewEntry(TxAt(p), p[1])), P \cup {p})
  <1> DEFINE t == TxAt(p)
             b == p[1]
             S == MarkedInputs(view, t)
             m == MarkSpent(view, S, b)
             w == WithEntry(m, t, NewEntry(t, b))
  <1>1. t \notin DOMAIN view
    BY DEF Sound, Entered, Apart
  <1>2. ASSUME NEW o \in Prevouts(t)
        PROVE  /\ o[1] \in DOMAIN view /\ o[2] \in DOMAIN view[o[1]].vSpent
               /\ view[o[1]].vSpent[o[2]] = Null
    <2>1. o[1] \in DOMAIN view /\ o[2] \in DOMAIN view[o[1]].vSpent
      BY DEF FetchInputs, Prevouts
    <2>2. ASSUME view[o[1]].vSpent[o[2]] # Null PROVE FALSE
      <3>1. PICK q \in P : <<o[1], o[2]>> \in Prevouts(TxAt(q))
        BY <2>1, <2>2 DEF Sound, Backed
      <3>2. o \in Prevouts(TxAt(q))
        BY <3>1, OutpointFacts
      <3>3. TxAt(q) # t /\ ~Conflict(TxAt(q), t)
        BY DEF Apart
      <3>4. QED
        BY <3>2, <3>3 DEF Conflict
    <2>3. QED
      BY <2>1, <2>2
  <1>3. UsedInputs(view, t) = {}
    BY <1>2 DEF UsedInputs, Prevouts
  <1>4. S = Prevouts(t)
    BY <1>3 DEF MarkedInputs, Prevouts
  <1> HIDE DEF t, b, S
  <1>5. t \in Tx /\ b \in Block
    BY DEF t, b
  <1>6. /\ m \in Indices /\ DOMAIN m = DOMAIN view
        /\ \A u \in DOMAIN view :
             /\ m[u].pos = view[u].pos
             /\ DOMAIN m[u].vSpent = DOMAIN view[u].vSpent
             /\ \A n \in DOMAIN view[u].vSpent :
                  m[u].vSpent[n] = IF <<u, n>> \in S THEN b ELSE view[u].vSpent[n]
    BY <1>5, MarkSpentIs
  <1> HIDE DEF m
  <1>7. /\ NewEntry(t, b) \in Entries /\ NewEntry(t, b).pos = b
        /\ \A n \in DOMAIN NewEntry(t, b).vSpent : NewEntry(t, b).vSpent[n] = Null
    BY <1>5, NewEntryIs
  <1>8. /\ w \in Indices /\ DOMAIN w = DOMAIN m \cup {t} /\ w[t] = NewEntry(t, b)
        /\ \A u \in DOMAIN m \ {t} : w[u] = m[u]
    <2>1. m \in Indices
      BY <1>6
    <2>2. NewEntry(t, b) \in Entries
      BY <1>7
    <2>3. QED
      BY <1>5, <2>1, <2>2, WithEntryIs
  <1> HIDE DEF w
  <1>9. /\ DOMAIN w = DOMAIN view \cup {t} /\ w[t].pos = b
        /\ \A u \in DOMAIN view :
             /\ w[u].pos = view[u].pos
             /\ DOMAIN w[u].vSpent = DOMAIN view[u].vSpent
             /\ \A n \in DOMAIN view[u].vSpent :
                  w[u].vSpent[n] = IF <<u, n>> \in Prevouts(t) THEN b ELSE view[u].vSpent[n]
    BY <1>1, <1>4, <1>6, <1>7, <1>8
  <1>10. Entered(w, P \cup {p})
    <2> SUFFICES ASSUME NEW u \in DOMAIN w
                 PROVE  \E q \in P \cup {p} :
                          /\ q[1] = w[u].pos /\ TxAt(q) = u
                          /\ \A o \in Prevouts(u) :
                               /\ \E r \in P \cup {p} : Before(r, q) /\ TxAt(r) = o[1]
                               /\ o[1] \in DOMAIN w /\ o[2] \in DOMAIN w[o[1]].vSpent
                               /\ w[o[1]].vSpent[o[2]] = w[u].pos
      BY DEF Entered
    <2>1. CASE u = t
      <3>1. ASSUME NEW o \in Prevouts(t)
            PROVE  /\ \E r \in P : Before(r, p) /\ TxAt(r) = o[1]
                   /\ o[1] \in DOMAIN w /\ o[2] \in DOMAIN w[o[1]].vSpent
                   /\ w[o[1]].vSpent[o[2]] = b
        <4>1. o[1] \in DOMAIN view /\ o[2] \in DOMAIN view[o[1]].vSpent
          BY <1>2
        <4>2. \E r \in P : TxAt(r) = o[1]
          BY <4>1 DEF Sound, Entered
        <4>3. <<o[1], o[2]>> \in Prevouts(t)
          BY <1>5, OutpointFacts
        <4>4. QED
          BY <1>9, <4>1, <4>2, <4>3
      <3>2. p[1] = w[u].pos /\ TxAt(p) = u
        BY <1>9, <2>1 DEF t, b
      <3>3. QED
        BY <1>9, <2>1, <3>1, <3>2
    <2>2. CASE u # t
      <3>1. u \in DOMAIN view
        BY <1>9, <2>2
      <3>2. PICK q \in P :
              /\ q[1] = view[u].pos /\ TxAt(q) = u
              /\ \A o \in Prevouts(u) :
                   /\ \E r \in P : Before(r, q) /\ TxAt(r) = o[1]
                   /\ o[1] \in DOMAIN view /\ o[2] \in DOMAIN view[o[1]].vSpent
                   /\ view[o[1]].vSpent[o[2]] = view[u].pos
        BY <3>1 DEF Sound, Entered
      <3>3. Prevouts(u) \cap Prevouts(t) = {} /\ u \in Tx
        <4>1. ~Conflict(TxAt(q), TxAt(p))
          BY DEF Apart
        <4>2. QED
          BY <2>2, <3>2, <4>1 DEF Conflict, t
      <3>4. ASSUME NEW o \in Prevouts(u)
            PROVE  /\ o[1] \in DOMAIN w /\ o[2] \in DOMAIN w[o[1]].vSpent
                   /\ w[o[1]].vSpent[o[2]] = w[u].pos
        <4>1. <<o[1], o[2]>> \notin Prevouts(t)
          BY <3>3, OutpointFacts
        <4>2. QED
          BY <1>9, <3>1, <3>2, <4>1
      <3>5. q[1] = w[u].pos
        BY <1>9, <3>1, <3>2
      <3>6. QED
        BY <3>2, <3>4, <3>5
    <2>3. QED
      BY <2>1, <2>2
  <1>11. Backed(w, P \cup {p})
    <2> SUFFICES ASSUME NEW u \in DOMAIN w, NEW n \in DOMAIN w[u].vSpent, w[u].vSpent[n] # Null
                 PROVE  \E q \in P \cup {p} : <<u, n>> \in Prevouts(TxAt(q))
      BY DEF Backed
    <2>1. u # t
      BY <1>7, <1>8
    <2>2. u \in DOMAIN view /\ n \in DOMAIN view[u].vSpent
      BY <1>9, <2>1
    <2>3. CASE <<u, n>> \in Prevouts(t)
      BY <2>3 DEF t
    <2>4. CASE <<u, n>> \notin Prevouts(t)
      BY <1>9, <2>2, <2>4 DEF Sound, Backed
    <2>5. QED
      BY <2>3, <2>4
  <1>12. QED
    BY <1>10, <1>11 DEF Sound, w, m, S, t, b

\* Taking the last transaction back leaves the others and their marks.
LEMMA DisconnectTxSound ==
  ASSUME NEW s \in States, NEW P, NEW p \in P, Apart(P),
         \A q \in P : ~Before(p, q) /\ TxAt(q) \in Tx,
         Sound(s.view, P), DisconnectInputs(TxAt(p), s).ok
  PROVE  Sound(DisconnectInputs(TxAt(p), s).view, P \ {p})
  <1> DEFINE t == TxAt(p)
             view == s.view
             r == DisconnectInputs(t, s)
             S == {vin[t][i] : i \in DOMAIN vin[t]}
             m == MarkSpent(view, S, Null)
             w == [u \in DOMAIN m \ {t} |-> m[u]]
  <1>1. r.view = w
    <2>1. CASE ~s.ok \/ ~FetchInputs(s.view, t, {})
      <3>1. r = [ok |-> FALSE, view |-> s.view]
        BY <2>1, Zenon DEF DisconnectInputs
      <3>2. QED
        BY <3>1
    <2>2. CASE ~(~s.ok \/ ~FetchInputs(s.view, t, {}))
      BY <2>2 DEF DisconnectInputs
    <2>3. QED
      BY <2>1, <2>2
  <1>2. view \in Indices /\ S = Prevouts(t)
    BY DEF States, Prevouts
  <1> HIDE DEF r, S, t
  <1>3. /\ m \in Indices /\ DOMAIN m = DOMAIN view
        /\ \A u \in DOMAIN view :
             /\ m[u].pos = view[u].pos
             /\ DOMAIN m[u].vSpent = DOMAIN view[u].vSpent
             /\ \A n \in DOMAIN view[u].vSpent :
                  m[u].vSpent[n] = IF <<u, n>> \in S THEN Null ELSE view[u].vSpent[n]
    BY <1>2, MarkSpentIs
  <1> HIDE DEF m
  <1>4. DOMAIN w = DOMAIN m \ {t} /\ \A u \in DOMAIN w : w[u] = m[u]
    BY <1>3, ErasedIs
  <1> HIDE DEF w
  <1>5. Entered(w, P \ {p})
    <2> SUFFICES ASSUME NEW u \in DOMAIN w
                 PROVE  \E q \in P \ {p} :
                          /\ q[1] = w[u].pos /\ TxAt(q) = u
                          /\ \A o \in Prevouts(u) :
                               /\ \E x \in P \ {p} : Before(x, q) /\ TxAt(x) = o[1]
                               /\ o[1] \in DOMAIN w /\ o[2] \in DOMAIN w[o[1]].vSpent
                               /\ w[o[1]].vSpent[o[2]] = w[u].pos
      BY DEF Entered
    <2>1. u \in DOMAIN view /\ u # t
      BY <1>3, <1>4
    <2>2. PICK q \in P :
            /\ q[1] = view[u].pos /\ TxAt(q) = u
            /\ \A o \in Prevouts(u) :
                 /\ \E x \in P : Before(x, q) /\ TxAt(x) = o[1]
                 /\ o[1] \in DOMAIN view /\ o[2] \in DOMAIN view[o[1]].vSpent
                 /\ view[o[1]].vSpent[o[2]] = view[u].pos
      BY <2>1 DEF Sound, Entered
    <2>3. q # p /\ u \in Tx
      BY <2>1, <2>2 DEF t
    <2>4. Prevouts(u) \cap Prevouts(t) = {}
      <3>1. ~Conflict(TxAt(q), TxAt(p))
        BY <2>3 DEF Apart
      <3>2. QED
        BY <2>1, <2>2, <3>1 DEF Conflict, t
    <2>5. ASSUME NEW o \in Prevouts(u)
          PROVE  /\ \E x \in P \ {p} : Before(x, q) /\ TxAt(x) = o[1]
                 /\ o[1] \in DOMAIN w /\ o[2] \in DOMAIN w[o[1]].vSpent
                 /\ w[o[1]].vSpent[o[2]] = w[u].pos
      <3>1. PICK x \in P : Before(x, q) /\ TxAt(x) = o[1]
        BY <2>2
      <3>2. x # p
        BY <3>1
      <3>3. o[1] # t
        BY <3>1, <3>2 DEF Apart, t
      <3>4. <<o[1], o[2]>> \notin Prevouts(t)
        BY <2>3, <2>4, OutpointFacts
      <3>5. QED
        BY <1>2, <1>3, <1>4, <2>1, <2>2, <3>1, <3>2, <3>3, <3>4
    <2>6. q[1] = w[u].pos
      BY <1>3, <1>4, <2>1, <2>2
    <2>7. QED
      BY <2>2, <2>3, <2>5, <2>6
  <1>6. Backed(w, P \ {p})
    <2> SUFFICES ASSUME NEW u \in DOMAIN w, NEW n \in DOMAIN w[u].vSpent, w[u].vSpent[n] # Null
                 PROVE  \E q \in P \ {p} : <<u, n>> \in Prevouts(TxAt(q))
      BY DEF Backed
    <2>1. /\ u \in DOMAIN view /\ n \in DOMAIN view[u].vSpent
          /\ <<u, n>> \notin Prevouts(t) /\ view[u].vSpent[n] # Null
      BY <1>2, <1>3, <1>4
    <2>2. PICK q \in P : <<u, n>> \in Prevouts(TxAt(q))
      BY <2>1 DEF Sound, Backed
    <2>3. QED
      BY <2>1, <2>2 DEF t
  <1>7. QED
    BY <1>1, <1>5, <1>6 DEF Sound, r, t

\* The places on the way to a block.
LEMMA PlaceFacts ==
  ASSUME NEW b \in Block
  PROVE  /\ \A p \in Places(b) : /\ p = <<p[1], p[2]>> /\ p[1] \in Branch[b] /\ p[1] \in Block
                                 /\ p[2] \in 1..Len(vtx[p[1]]) /\ TxAt(p) \in Tx
         /\ \A x \in Branch[b] : \A i \in 1..Len(vtx[x]) : <<x, i>> \in Places(b)
  <1>1. ASSUME NEW p \in Places(b)
        PROVE  /\ p = <<p[1], p[2]>> /\ p[1] \in Branch[b] /\ p[1] \in Block
               /\ p[2] \in 1..Len(vtx[p[1]]) /\ TxAt(p) \in Tx
    <2>1. PICK x \in Branch[b] : p \in {x} \X DOMAIN vtx[x]
      BY DEF Places
    <2>2. x \in Block
      BY BranchFacts
    <2>3. p = <<x, p[2]>> /\ p[1] = x /\ p[2] \in 1..Len(vtx[x])
      BY <2>1, <2>2, BlockTx
    <2>4. QED
      BY <2>2, <2>3, BlockTx DEF TxAt
  <1>2. ASSUME NEW x \in Branch[b], NEW i \in 1..Len(vtx[x])
        PROVE  <<x, i>> \in Places(b)
    <2>1. x \in Block
      BY BranchFacts
    <2>2. <<x, i>> \in {x} \X DOMAIN vtx[x]
      BY <2>1, BlockTx
    <2>3. QED
      BY <2>2 DEF Places
  <1>3. QED
    BY <1>1, <1>2

\* The places on the way to b, with the first i of b only.
Upto(b, i) == {q \in Places(b) : q[1] = b => q[2] <= i}

\* The i-th place of b is the last one up to it.
LEMMA UptoStep ==
  ASSUME TypeOK, Tree, NEW b \in mapBlockIndex, NEW i \in 1..Len(vtx[b])
  PROVE  LET p == <<b, i>> IN
           /\ p \notin Upto(b, i - 1) /\ p \in Upto(b, i) /\ TxAt(p) = vtx[b][i]
           /\ Upto(b, i) = Upto(b, i - 1) \cup {p} /\ Upto(b, i - 1) = Upto(b, i) \ {p}
           /\ \A q \in Upto(b, i - 1) : Before(q, p)
           /\ \A q \in Upto(b, i) : ~Before(p, q) /\ TxAt(q) \in Tx
  <1> DEFINE p == <<b, i>>
  <1>1. b \in Block /\ i \in Nat /\ b \in Branch[b]
    BY BranchFacts, BlockTx DEF TypeOK
  <1>2. p \in Places(b) /\ TxAt(p) = vtx[b][i]
    BY <1>1, PlaceFacts DEF TxAt
  <1>3. ASSUME NEW q \in Places(b)
        PROVE  /\ q[1] \in Branch[b] /\ TxAt(q) \in Tx
               /\ q[1] = b => q[2] \in Nat /\ (q[2] = i => q = p)
    BY <1>1, PlaceFacts, BlockTx
  <1>4. p \in Upto(b, i) /\ p \notin Upto(b, i - 1)
    BY <1>1, <1>2 DEF Upto
  <1>5. Upto(b, i) = Upto(b, i - 1) \cup {p} /\ Upto(b, i - 1) = Upto(b, i) \ {p}
    <2>1. ASSUME NEW q \in Places(b)
          PROVE  q \in Upto(b, i) <=> q \in Upto(b, i - 1) \/ q = p
      <3>1. CASE q[1] = b
        BY <1>1, <1>2, <1>3, <3>1 DEF Upto
      <3>2. CASE q[1] # b
        BY <1>1, <1>2, <3>2 DEF Upto
      <3>3. QED
        BY <3>1, <3>2
    <2>2. Upto(b, i) \subseteq Places(b) /\ Upto(b, i - 1) \subseteq Places(b)
      BY DEF Upto
    <2>3. QED
      BY <1>2, <1>4, <2>1, <2>2
  <1>6. ASSUME NEW q \in Upto(b, i - 1) PROVE Before(q, p)
    BY <1>1, <1>3 DEF Upto, Before
  <1>7. ASSUME NEW q \in Upto(b, i) PROVE ~Before(p, q) /\ TxAt(q) \in Tx
    <2>1. q \in Places(b) /\ (q[1] = b => q[2] <= i)
      BY DEF Upto
    <2>2. ASSUME b \in Branch[q[1]] PROVE q[1] = b
      <3>1. q[1] \in Branch[b] /\ q[1] \in mapBlockIndex
        BY <1>3, <2>1 DEF Tree
      <3>2. nHeight[b] \in Nat /\ nHeight[q[1]] \in Nat
        BY <3>1 DEF TypeOK
      <3>3. QED
        BY <2>2, <3>1, <3>2 DEF Tree
    <2>3. QED
      BY <1>1, <1>3, <2>1, <2>2 DEF Before
  <1>8. QED
    BY <1>2, <1>4, <1>5, <1>6, <1>7

LEMMA UptoEnds ==
  ASSUME NEW b \in Block
  PROVE  /\ Upto(b, Len(vtx[b])) = Places(b)
         /\ b # Genesis => Upto(b, 0) = Places(hashPrevBlock[b])
  <1>1. Upto(b, Len(vtx[b])) = Places(b)
    BY PlaceFacts, BlockTx DEF Upto
  <1>2. ASSUME b # Genesis PROVE Upto(b, 0) = Places(hashPrevBlock[b])
    <2> DEFINE a == hashPrevBlock[b]
    <2>1. a \in Block /\ Branch[b] = Branch[a] \cup {b} /\ b \notin Branch[a]
      BY <1>2, BranchFacts
    <2> HIDE DEF a
    <2>2. ASSUME NEW q \in Upto(b, 0) PROVE q \in Places(a)
      <3>1. q \in Places(b) /\ (q[1] = b => q[2] <= 0)
        BY DEF Upto
      <3>2. q = <<q[1], q[2]>> /\ q[1] \in Branch[b] /\ q[2] \in 1..Len(vtx[q[1]])
        BY <3>1, PlaceFacts
      <3>3. q[1] # b
        BY <3>1, <3>2, BlockTx
      <3>4. <<q[1], q[2]>> \in Places(a)
        BY <2>1, <3>2, <3>3, PlaceFacts
      <3>5. QED
        BY <3>2, <3>4
    <2>3. ASSUME NEW q \in Places(a) PROVE q \in Upto(b, 0)
      <3>1. q = <<q[1], q[2]>> /\ q[1] \in Branch[a] /\ q[2] \in 1..Len(vtx[q[1]])
        BY <2>1, PlaceFacts
      <3>2. <<q[1], q[2]>> \in Places(b)
        BY <2>1, <3>1, PlaceFacts
      <3>3. QED
        BY <2>1, <3>1, <3>2 DEF Upto
    <2>4. QED
      BY <2>2, <2>3 DEF a
  <1>3. QED
    BY <1>1, <1>2

\* Connecting a block whose chain spends nothing twice.
LEMMA CalculateSound ==
  ASSUME TypeOK, Tree, NEW b \in mapBlockIndex, b # Genesis, Apart(Places(b)),
         NEW fJustCheck \in BOOLEAN, NEW skipTxCheck \in BOOLEAN,
         NEW db \in Indices, Sound(db, Places(hashPrevBlock[b])),
         CalculateBlockAmounts(db, b, fJustCheck, skipTxCheck).ok
  PROVE  Sound(CalculateBlockAmounts(db, b, fJustCheck, skipTxCheck).view, Places(b))
  <1> DEFINE n == Len(vtx[b])
             Step(i, s) == CalculateTx(db, b, i, fJustCheck, skipTxCheck, s)
             G == [i \in 0..n |-> {s \in States : s.ok => Sound(s.view, Upto(b, i))}]
  <1>1. b \in Block
    BY DEF TypeOK
  <1>2. n \in Nat /\ n \in 0..n
    BY <1>1, BlockTx
  <1>3. PICK f \in [0..n -> States] :
          /\ f[0] = [ok |-> TRUE, view |-> db]
          /\ \A i \in 1..n : f[i] = Step(i, f[i - 1])
          /\ CalculateBlockAmounts(db, b, fJustCheck, skipTxCheck) = f[n]
    BY <1>1, CalculateLoop
  <1>4. f[0] \in G[0]
    BY <1>1, <1>2, <1>3, UptoEnds
  <1>5. ASSUME NEW i \in 1..n, NEW s \in States, s.ok => Sound(s.view, Upto(b, i - 1)),
               Step(i, s).ok
        PROVE  Sound(Step(i, s).view, Upto(b, i))
    <2> DEFINE p == <<b, i>>
               t == vtx[b][i]
               P == Upto(b, i - 1)
               fresh == IF fJustCheck THEN {vtx[b][j] : j \in 1..(i - 1)} ELSE {}
               w == WithEntry(MarkSpent(s.view, MarkedInputs(s.view, t), b),
                              t, NewEntry(t, b))
    <2>1. s.ok /\ FetchInputs(s.view, t, fresh) /\ Step(i, s).view = w
      <3> DEFINE bad == \/ ~s.ok
                        \/ ~skipTxCheck /\ Overwrites(db, t)
                        \/ ~FetchInputs(s.view, t, fresh)
                        \/ ~skipTxCheck /\ UsedInputs(s.view, t) # {}
      <3>1. Step(i, s) = IF bad THEN [ok |-> FALSE, view |-> s.view]
                         ELSE [ok |-> TRUE, view |-> w]
        BY DEF CalculateTx
      <3> HIDE DEF bad, w, Step
      <3>2. ~bad /\ Step(i, s).view = w
        BY <1>5, <3>1
      <3>3. QED
        BY <3>2, Zenon DEF bad
    <2>2. FetchInputs(s.view, t, {})
      BY <2>1 DEF FetchInputs
    <2>3. /\ p \notin P /\ TxAt(p) = t /\ Upto(b, i) = P \cup {p}
          /\ \A q \in P : Before(q, p)
          /\ \A q \in Upto(b, i) : TxAt(q) \in Tx
      BY UptoStep
    <2>4. Upto(b, i) \subseteq Places(b)
      BY DEF Upto
    <2>5. Apart(P \cup {p})
      BY <2>3, <2>4 DEF Apart
    <2>6. s.view \in Indices /\ Sound(s.view, P) /\ p[1] = b
      BY <1>5, <2>1 DEF States
    <2>7. \A q \in P : TxAt(q) \in Tx
      BY <2>3
    <2>8. TxAt(p) \in Tx
      BY <2>3
    <2> HIDE DEF p, P, t, w, Step
    <2>9. Sound(w, P \cup {p})
      BY <1>1, <2>2, <2>3, <2>5, <2>6, <2>7, <2>8, ConnectTxSound DEF w
    <2>10. QED
      BY <2>1, <2>3, <2>9
  <1>6. ASSUME NEW i \in 1..n, f[i - 1] \in G[i - 1] PROVE f[i] \in G[i]
    <2>1. i \in 0..n /\ i - 1 \in 0..n
      BY <1>2
    <2>2. f[i - 1] \in States /\ (f[i - 1].ok => Sound(f[i - 1].view, Upto(b, i - 1)))
      BY <1>6, <2>1
    <2>3. f[i] = Step(i, f[i - 1])
      BY <1>3
    <2> HIDE DEF Step
    <2>4. f[i].ok => Sound(f[i].view, Upto(b, i))
      BY <1>5, <2>2, <2>3
    <2>5. QED
      BY <2>1, <2>4
  <1>7. f[n] \in G[n]
    <2> HIDE DEF G
    <2>1. \A i \in 1..n : f[i - 1] \in G[i - 1] => f[i] \in G[i]
      BY <1>6
    <2>2. \A i \in 0..n : f[i] \in G[i]
      BY <1>2, <1>4, <2>1, LoopKeeps
    <2>3. QED
      BY <1>2, <2>2
  <1>8. f[n].ok => Sound(f[n].view, Upto(b, n))
    BY <1>2, <1>7
  <1>9. QED
    BY <1>1, <1>3, <1>8, UptoEnds

\* Disconnecting one.
LEMMA DisconnectSound ==
  ASSUME TypeOK, Tree, NEW b \in mapBlockIndex, b # Genesis, Apart(Places(b)),
         NEW db \in Indices, Sound(db, Places(b)), DisconnectTxs(db, b).ok
  PROVE  Sound(DisconnectTxs(db, b).view, Places(hashPrevBlock[b]))
  <1> DEFINE n == Len(vtx[b])
             Step(i, s) == DisconnectInputs(vtx[b][n + 1 - i], s)
             G == [i \in 0..n |-> {s \in States : s.ok => Sound(s.view, Upto(b, n - i))}]
  <1>1. b \in Block
    BY DEF TypeOK
  <1>2. n \in Nat /\ n \in 0..n /\ n - 0 = n /\ n - n = 0
    BY <1>1, BlockTx
  <1>3. PICK f \in [0..n -> States] :
          /\ f[0] = [ok |-> TRUE, view |-> db]
          /\ \A i \in 1..n : f[i] = Step(i, f[i - 1])
          /\ DisconnectTxs(db, b) = f[n]
    BY <1>1, DisconnectLoop
  <1>4. f[0] \in G[0]
    BY <1>1, <1>2, <1>3, UptoEnds
  <1>5. ASSUME NEW i \in 1..n, NEW s \in States, s.ok => Sound(s.view, Upto(b, n - (i - 1))),
               Step(i, s).ok
        PROVE  Sound(Step(i, s).view, Upto(b, n - i))
    <2> DEFINE k == n + 1 - i
               p == <<b, k>>
               P == Upto(b, k)
    <2>1. k \in 1..n /\ k = n - (i - 1) /\ k - 1 = n - i
      BY <1>2
    <2> HIDE DEF k
    <2>2. /\ p \in P /\ TxAt(p) = vtx[b][k] /\ Upto(b, k - 1) = P \ {p}
          /\ \A q \in P : ~Before(p, q) /\ TxAt(q) \in Tx
      <3>1. k \in 1..Len(vtx[b])
        BY <2>1
      <3>2. QED
        BY <3>1, UptoStep
    <2>3. Apart(P)
      BY DEF Apart, Upto
    <2>4. Step(i, s) = DisconnectInputs(TxAt(p), s)
      BY <2>2 DEF k
    <2> HIDE DEF p, P, Step
    <2>5. s.ok
      BY <1>5, <2>4, DisconnectInputsIs
    <2>6. Sound(s.view, P)
      BY <1>5, <2>1, <2>5 DEF P
    <2>7. Sound(Step(i, s).view, P \ {p})
      BY <1>5, <2>2, <2>3, <2>4, <2>6, DisconnectTxSound
    <2>8. QED
      BY <2>1, <2>2, <2>7
  <1>6. ASSUME NEW i \in 1..n, f[i - 1] \in G[i - 1] PROVE f[i] \in G[i]
    <2>1. i \in 0..n /\ i - 1 \in 0..n
      BY <1>2
    <2>2. f[i - 1] \in States /\ (f[i - 1].ok => Sound(f[i - 1].view, Upto(b, n - (i - 1))))
      BY <1>6, <2>1
    <2>3. f[i] = Step(i, f[i - 1])
      BY <1>3
    <2> HIDE DEF Step
    <2>4. f[i].ok => Sound(f[i].view, Upto(b, n - i))
      BY <1>5, <2>2, <2>3
    <2>5. QED
      BY <2>1, <2>4
  <1>7. f[n] \in G[n]
    <2> HIDE DEF G
    <2>1. \A i \in 1..n : f[i - 1] \in G[i - 1] => f[i] \in G[i]
      BY <1>6
    <2>2. \A i \in 0..n : f[i] \in G[i]
      BY <1>2, <1>4, <2>1, LoopKeeps
    <2>3. QED
      BY <1>2, <2>2
  <1>8. f[n].ok => Sound(f[n].view, Upto(b, 0))
    BY <1>2, <1>7
  <1>9. QED
    BY <1>1, <1>3, <1>8, UptoEnds

\* The index that a block leaves behind when it is connected: as it was with
\* fJustCheck, else with the transactions of the block.
LEMMA ConnectedSpends ==
  ASSUME TypeOK, Tree, NEW b \in mapBlockIndex, b # Genesis, Apart(Places(b)),
         NEW fJustCheck \in BOOLEAN, NEW skipTxCheck \in BOOLEAN, NEW postponed, NEW payeeOk,
         NEW db, db.tx \in Indices, Sound(db.tx, Places(hashPrevBlock[b])),
         ConnectBlock(db, b, fJustCheck, skipTxCheck, postponed, payeeOk).ok
  PROVE  Sound(ConnectBlock(db, b, fJustCheck, skipTxCheck, postponed, payeeOk).db.tx, Places(b))
  <1> DEFINE r == ConnectBlock(db, b, fJustCheck, skipTxCheck, postponed, payeeOk)
             a == CalculateBlockAmounts(db.tx, b, fJustCheck, skipTxCheck)
  <1>1. r.db.tx = db.tx \/ (a.ok /\ r.db.tx = a.view)
    BY DEF ConnectBlock, Database
  <1>2. a.ok => Sound(a.view, Places(b))
    BY CalculateSound
  <1>3. Places(hashPrevBlock[b]) \subseteq Places(b)
    BY UptoEnds DEF Upto, TypeOK
  <1> HIDE DEF r, a
  <1>4. Sound(db.tx, Places(b))
    BY <1>3, SoundGrows
  <1>5. QED
    BY <1>1, <1>2, <1>4 DEF r

\* A block higher on the chain has all places of a lower one.
LEMMA PlacesGrow ==
  ASSUME NEW a, NEW b, Branch[a] \subseteq Branch[b]
  PROVE  Places(a) \subseteq Places(b)
  BY DEF Places

LEMMA InitSpends == Init => Spends
  <1> SUFFICES ASSUME Init PROVE Spends
    OBVIOUS
  <1>1. txdb.tx = <<>> /\ pc = "idle"
    BY DEF Init, Database
  <1>2. DOMAIN <<>> = {}
    OBVIOUS
  <1>3. QED
    BY <1>1, <1>2 DEF Spends, Sound, Entered, Backed

\* Steps that leave the index alone.
LEMMA SpendsStable ==
  ASSUME Spends, mapBlockIndex \subseteq mapBlockIndex',
         txdb'.tx = txdb.tx, txdb'.hashBestChain = txdb.hashBestChain,
         pc' \in {"disconnect", "connect"} =>
           pc \in {"disconnect", "connect"} /\ UNCHANGED <<batch, pindex>>
  PROVE  Spends'
  <1>1. Sound(txdb.tx, Places(txdb.hashBestChain)) =>
          Sound(txdb.tx, Places(txdb.hashBestChain))'
    BY DEF Sound, Entered, Backed, Places, TxAt, Before
  <1>2. UNCHANGED <<batch, pindex>> /\ Sound(batch.tx, Places(pindex)) =>
          Sound(batch.tx, Places(pindex))'
    BY DEF Sound, Entered, Backed, Places, TxAt, Before
  <1>3. HonestBlocks(mapBlockIndex)' => HonestBlocks(mapBlockIndex)
    BY DEF HonestBlocks
  <1>4. QED
    BY <1>1, <1>2, <1>3 DEF Spends

LEMMA SpendsStep == IInv /\ Index /\ Spends /\ [Next]_vars => Spends'
  <1> SUFFICES ASSUME IInv, Index, Spends, [Next]_vars PROVE Spends'
    OBVIOUS
  <1> USE DEF IInv
  <1>1. CASE \E b \in Block \ {Genesis} : AddToBlockIndex(b)
    <2>1. /\ txdb'.tx = txdb.tx /\ txdb'.hashBestChain = txdb.hashBestChain
          /\ pc' \in {"setbest", "idle"}
          /\ mapBlockIndex \subseteq mapBlockIndex'
      BY <1>1 DEF AddToBlockIndex, WriteBlockIndex, Database, mapBlockIndex
    <2>2. QED
      BY <2>1, SpendsStable
  <1>2. CASE \/ \E b \in Block : EnforceCheckpoint(b)
             \/ \E t \in Tx : AcceptToMemoryPool(t)
             \/ ConnectTipFailed \/ ReachFork \/ ReorganizeFailed
             \/ SecondaryFailed \/ SecondaryDone \/ NewBest
             \/ UNCHANGED vars
    <2>1. /\ txdb' = txdb /\ nChainTrust' = nChainTrust
          /\ pc' \in {"disconnect", "connect"} =>
               pc \in {"disconnect", "connect"} /\ UNCHANGED <<batch, pindex>>
      BY <1>2 DEF EnforceCheckpoint, AcceptToMemoryPool, ConnectTipFailed, ReachFork,
                  ReorganizeFailed, SecondaryFailed, SecondaryDone, NewBest, vars, call, memory
    <2>2. QED
      BY <2>1, SpendsStable DEF mapBlockIndex
  <1>3. CASE Restart
    <2>1. txdb' = txdb /\ pc' \in {"idle", "setbest"} /\ nChainTrust' = nChainTrust
      BY <1>3 DEF Restart, memory
    <2>2. QED
      BY <2>1, SpendsStable DEF mapBlockIndex
  <1>4. CASE \/ ConnectTip \/ BeginReorganize \/ DisconnectTip
             \/ ConnectNext \/ CommitReorganize \/ ConnectSecondary
    <2>1. nChainTrust' = nChainTrust
      BY <1>4 DEF ConnectTip, BeginReorganize, DisconnectTip, ConnectNext,
                  CommitReorganize, ConnectSecondary, memory
    <2>2. mapBlockIndex' = mapBlockIndex
      BY <2>1 DEF mapBlockIndex
    <2>3. HonestBlocks(mapBlockIndex)' => HonestBlocks(mapBlockIndex)
      BY <2>2 DEF HonestBlocks
    <2> SUFFICES ASSUME HonestBlocks(mapBlockIndex)
                 PROVE  /\ Sound(txdb.tx, Places(txdb.hashBestChain))'
                        /\ (pc \in {"disconnect", "connect"} => Sound(batch.tx, Places(pindex)))'
      BY <2>3 DEF Spends
    <2>4. /\ Sound(txdb.tx, Places(txdb.hashBestChain))
          /\ pc \in {"disconnect", "connect"} => Sound(batch.tx, Places(pindex))
      BY DEF Spends
    <2>5. \A b \in mapBlockIndex : Apart(Places(b))
      BY DEF HonestBlocks, Apart
    <2>6. /\ txdb.tx \in Indices
          /\ pc \in {"disconnect", "connect"} => batch.tx \in Indices
      BY DEF Index
    <2>7. CASE ConnectTip
      <3>1. PICK payeeOk \in BOOLEAN :
              /\ txdb' = SetBestChainInner(txdb, hash, FALSE, payeeOk).db
              /\ SetBestChainInner(txdb, hash, FALSE, payeeOk).ok
        BY <2>7 DEF ConnectTip
      <3> DEFINE r == ConnectBlock(txdb, hash, FALSE, TRUE, -1, payeeOk)
      <3>2. txdb'.tx = r.db.tx /\ txdb'.hashBestChain = hash /\ r.ok
        BY <3>1 DEF SetBestChainInner, Database
      <3>3. /\ pc = "setbest" /\ pc' = "newbest"
            /\ hash # Genesis /\ hashPrevBlock[hash] = hashBestChain
        BY <2>7 DEF ConnectTip
      <3>4. hash \in mapBlockIndex /\ hashBestChain \in mapBlockIndex
        BY <3>3 DEF TypeOK
      <3>5. Branch[txdb.hashBestChain] \subseteq Branch[hashPrevBlock[hash]]
        BY <3>3, <3>4 DEF DurableTip, Frame, Tree
      <3>6. Sound(txdb.tx, Places(hashPrevBlock[hash]))
        BY <2>4, <3>5, PlacesGrow, SoundGrows
      <3>7. Sound(r.db.tx, Places(hash))
        BY <2>5, <2>6, <3>2, <3>3, <3>4, <3>6, ConnectedSpends
      <3> HIDE DEF r
      <3>8. QED
        BY <3>2, <3>3, <3>7
    <2>8. CASE BeginReorganize
      <3>1. /\ pc = "setbest" /\ batch' = txdb /\ txdb' = txdb /\ pindex' = pindexBest
            /\ txdb.hashBestChain = pindexBest
        BY <2>8 DEF BeginReorganize, DurableTip
      <3>2. QED
        BY <2>4, <3>1
    <2>9. CASE DisconnectTip
      <3> DEFINE d == DisconnectTxs(batch.tx, pindex)
      <3>1. /\ pc = "disconnect" /\ pc' = "disconnect" /\ txdb' = txdb
            /\ pindex \notin Branch[pindexIntermediate]
            /\ pindex' = hashPrevBlock[pindex]
            /\ d.ok /\ batch'.tx = d.view
        BY <2>9 DEF DisconnectTip, DisconnectBlock, Database
      <3>2. pindex \in mapBlockIndex /\ pindexIntermediate \in mapBlockIndex
        BY <3>1 DEF TypeOK, Frame, Tree
      <3>3. pindex # Genesis
        BY <3>1, <3>2 DEF Tree
      <3>4. Sound(d.view, Places(hashPrevBlock[pindex]))
        BY <2>4, <2>5, <2>6, <3>1, <3>2, <3>3, DisconnectSound
      <3> HIDE DEF d
      <3>5. QED
        BY <2>4, <3>1, <3>4
    <2>10. CASE ConnectNext
      <3>1. PICK x \in mapBlockIndex, payeeOk \in BOOLEAN :
              LET r == ConnectBlock(batch, x, FALSE, TRUE, postponedBlocks, payeeOk)
              IN  IsNext(x, pindexIntermediate) /\ r.ok /\ batch' = r.db /\ pindex' = x
        BY <2>10 DEF ConnectNext
      <3> DEFINE r == ConnectBlock(batch, x, FALSE, TRUE, postponedBlocks, payeeOk)
      <3>2. /\ pc = "connect" /\ pc' = "connect" /\ txdb' = txdb
        BY <2>10 DEF ConnectNext
      <3>3. x # Genesis /\ hashPrevBlock[x] = pindex /\ r.ok /\ batch' = r.db /\ pindex' = x
        BY <3>1 DEF IsNext
      <3>4. Sound(r.db.tx, Places(x))
        BY <2>4, <2>5, <2>6, <3>2, <3>3, ConnectedSpends
      <3> HIDE DEF r
      <3>5. QED
        BY <2>4, <3>2, <3>3, <3>4
    <2>11. CASE CommitReorganize
      <3>1. /\ pc = "connect" /\ pc' = "secondary" /\ pindex = pindexIntermediate
            /\ txdb'.tx = batch.tx /\ txdb'.hashBestChain = pindexIntermediate
        BY <2>11 DEF CommitReorganize, Database
      <3>2. QED
        BY <2>4, <3>1
    <2>12. CASE ConnectSecondary
      <3>1. PICK x \in mapBlockIndex, payeeOk \in BOOLEAN :
              /\ IsNext(x, hash)
              /\ txdb' = SetBestChainInner(txdb, x, TRUE, payeeOk).db
              /\ SetBestChainInner(txdb, x, TRUE, payeeOk).ok
        BY <2>12 DEF ConnectSecondary
      <3> DEFINE r == ConnectBlock(txdb, x, TRUE, TRUE, -1, payeeOk)
      <3>2. txdb'.tx = r.db.tx /\ txdb'.hashBestChain = x /\ r.ok
        BY <3>1 DEF SetBestChainInner, Database
      <3>3. pc = "secondary" /\ pc' = "secondary"
        BY <2>12 DEF ConnectSecondary
      <3>4. x # Genesis /\ hashPrevBlock[x] = txdb.hashBestChain
        BY <3>1, <3>3 DEF IsNext, DurableTip
      <3>5. Sound(r.db.tx, Places(x))
        BY <2>4, <2>5, <2>6, <3>2, <3>4, ConnectedSpends
      <3> HIDE DEF r
      <3>6. QED
        BY <3>2, <3>3, <3>5
    <2>13. QED
      BY <1>4, <2>7, <2>8, <2>9, <2>10, <2>11, <2>12
  <1>5. QED
    BY <1>1, <1>2, <1>3, <1>4 DEF Next

\* While no known chain spends an output twice, whatever is reorganised,
\* postponed, failed or cut short by a restart: every output that an indexed
\* transaction spends is marked with its block.
THEOREM SpendsMarkedHolds == Spec => [](HonestBlocks(mapBlockIndex) => SpendsAreMarked)
  <1>1. Spends => (HonestBlocks(mapBlockIndex) => SpendsAreMarked)
    BY DEF Spends, Sound, Entered, SpendsAreMarked
  <1>2. Spec => []Index
    BY InitIndex, IndexStep, SpecIInv, PTL DEF Spec
  <1>3. Spec => []Spends
    BY <1>2, InitSpends, SpendsStep, SpecIInv, PTL DEF Spec
  <1>4. QED
    BY <1>1, <1>3, PTL

-----------------------------------------------------------------------------
(* The pool after a reorganisation.                                        *)

\* The transactions that depend on S, and S: they grow with the pool and with S.
LEMMA DescendantsFacts ==
  ASSUME NEW pool, NEW S \in SUBSET pool
  PROVE  /\ S \subseteq WithDescendants(pool, S)
         /\ WithDescendants(pool, S) \subseteq pool
         /\ \A all, hit : pool \subseteq all /\ S \subseteq hit =>
              WithDescendants(pool, S) \subseteq WithDescendants(all, hit)
  <1>1. S \subseteq WithDescendants(pool, S) /\ WithDescendants(pool, S) \subseteq pool
    BY DEF WithDescendants
  <1>2. ASSUME NEW all, NEW hit, pool \subseteq all, S \subseteq hit,
               NEW t \in WithDescendants(pool, S)
        PROVE  t \in WithDescendants(all, hit)
    <2> SUFFICES ASSUME NEW D \in SUBSET all, hit \subseteq D,
                        \A u \in D : Spenders(all, u) \subseteq D
                 PROVE  t \in D
      BY <1>1, <1>2 DEF WithDescendants
    <2> DEFINE E == D \cap pool
    <2>1. E \in SUBSET pool /\ S \subseteq E
      BY <1>2
    <2>2. ASSUME NEW u \in E PROVE Spenders(pool, u) \subseteq E
      BY <1>2 DEF Spenders
    <2>3. t \in E
      BY <1>2, <2>1, <2>2 DEF WithDescendants
    <2>4. QED
      BY <2>3
  <1>3. QED
    BY <1>1, <1>2

\* remove(tx) and removeConflicts(tx).
LEMMA DeleteOneIs ==
  ASSUME NEW pool, NEW x
  PROVE  LET d == DeleteOne(pool, x) IN
           /\ d \subseteq pool /\ x \notin d /\ \A t \in d : ~Conflict(t, x)
           /\ \A t \in pool \ d : \A all, hit :
                pool \subseteq all /\ {u \in pool : Conflict(u, x)} \subseteq hit =>
                  t = x \/ t \in WithDescendants(all, hit)
  <1> DEFINE rest == pool \ {x}
             S == {u \in rest : Conflict(x, u)}
  <1>1. S \in SUBSET rest /\ \A u \in pool : Conflict(u, x) <=> u \in S
    BY DEF Conflict
  <1>2. DeleteOne(pool, x) = rest \ WithDescendants(rest, S)
    BY DEF DeleteOne, RemoveConflicts
  <1> HIDE DEF S
  <1>3. /\ S \subseteq WithDescendants(rest, S)
        /\ \A all, hit : rest \subseteq all /\ S \subseteq hit =>
             WithDescendants(rest, S) \subseteq WithDescendants(all, hit)
    BY <1>1, DescendantsFacts
  <1>4. ASSUME NEW t \in pool \ DeleteOne(pool, x), NEW all, NEW hit,
               pool \subseteq all, {u \in pool : Conflict(u, x)} \subseteq hit
        PROVE  t = x \/ t \in WithDescendants(all, hit)
    <2>1. rest \subseteq all /\ S \subseteq hit
      BY <1>1, <1>4
    <2>2. QED
      BY <1>2, <1>3, <1>4, <2>1
  <1>5. DeleteOne(pool, x) \subseteq pool /\ x \notin DeleteOne(pool, x)
    BY <1>2
  <1>6. \A t \in DeleteOne(pool, x) : ~Conflict(t, x)
    BY <1>1, <1>2, <1>3
  <1>7. QED
    BY <1>4, <1>5, <1>6

LEMMA SeqFacts ==
  ASSUME NEW s \in Seq(Tx)
  PROVE  /\ Len(s) \in Nat /\ DOMAIN s = 1..Len(s) /\ Range(s) \subseteq Tx
         /\ Range(s) = {s[i] : i \in 1..Len(s)}
  BY DEF Range

\* The pool that is left when the transactions of s are deleted holds none of
\* them and no conflict; what else is gone depends on a conflict.
LEMMA DeleteAllIs ==
  ASSUME NEW pool, NEW s \in Seq(Tx), NEW all, pool \subseteq all
  PROVE  LET d == DeleteAll(pool, s)
             hit == {t \in all : \E u \in Range(s) : Conflict(t, u)}
         IN  /\ \A t \in d : \A u \in Range(s) : t # u /\ ~Conflict(t, u)
             /\ \A t \in pool \ d : t \in Range(s) \/ t \in WithDescendants(all, hit)
  <1> DEFINE n == Len(s)
             S == SUBSET pool
             Step(i, p) == DeleteOne(p, s[i])
             F == [q \in (1..n) \X S |-> Step(q[1], q[2])]
             Is(h) == h = [i \in 0..n |-> IF i = 0 THEN pool ELSE Step(i, h[i - 1])]
             f == CHOOSE h : Is(h)
             hit == {t \in all : \E u \in Range(s) : Conflict(t, u)}
             Left(i, p) ==
               /\ \A t \in p : \A j \in 1..i : t # s[j] /\ ~Conflict(t, s[j])
               /\ \A t \in pool \ p : t \in Range(s) \/ t \in WithDescendants(all, hit)
             G == [i \in 0..n |-> {p \in S : Left(i, p)}]
  <1>1. /\ n \in Nat /\ Range(s) = {s[i] : i \in 1..n} /\ pool \in S
    BY SeqFacts
  <1>2. ASSUME NEW i \in 1..n, NEW p \in S
        PROVE  F[<<i, p>>] = Step(i, p) /\ Step(i, p) \in S
    BY DeleteOneIs
  <1>3. DeleteAll(pool, s) = f[n]
    BY DEF DeleteAll
  <1>4. ASSUME NEW i \in 1..n, NEW p \in S, Left(i - 1, p)
        PROVE  Left(i, Step(i, p))
    <2> DEFINE d == DeleteOne(p, s[i])
    <2>1. /\ d \subseteq p /\ s[i] \notin d /\ \A t \in d : ~Conflict(t, s[i])
          /\ \A t \in p \ d :
               p \subseteq all /\ {u \in p : Conflict(u, s[i])} \subseteq hit =>
                 t = s[i] \/ t \in WithDescendants(all, hit)
      <3> HIDE DEF hit, S
      <3>1. QED
        BY DeleteOneIs
    <2> HIDE DEF d
    <2>2. s[i] \in Range(s) /\ p \subseteq all
      BY <1>1
    <2>3. {u \in p : Conflict(u, s[i])} \subseteq hit
      BY <2>2
    <2>4. \A j \in 1..i : j = i \/ j \in 1..(i - 1)
      BY <1>1
    <2> HIDE DEF hit
    <2>5. \A t \in d : \A j \in 1..i : t # s[j] /\ ~Conflict(t, s[j])
      BY <1>4, <2>1, <2>4
    <2>6. \A t \in pool \ d : t \in Range(s) \/ t \in WithDescendants(all, hit)
      BY <1>4, <2>1, <2>2, <2>3
    <2>7. QED
      BY <2>5, <2>6 DEF d
  <1>5. Left(0, pool)
    <2>1. 1..0 = {}
      OBVIOUS
    <2>2. QED
      BY <2>1
  <1> HIDE DEF n, S, Step, F, Left
  <1>6. PICK h \in [0..n -> S] : Loop(h, F, pool, n)
    <2>1. \A i \in 1..n : \A p \in S : F[<<i, p>>] \in S
      BY <1>2
    <2>2. QED
      BY <1>1, <2>1, LoopExists
  <1>7. Is(h)
    <2>1. \A i \in 0..n : i # 0 => i \in 1..n /\ i - 1 \in 0..n
      BY <1>1
    <2>2. \A i \in 0..n : h[i] = IF i = 0 THEN pool ELSE Step(i, h[i - 1])
      BY <1>2, <1>6, <2>1 DEF Loop
    <2>3. h = [i \in 0..n |-> h[i]]
      BY <1>6
    <2>4. QED
      BY <2>2, <2>3
  <1>8. Is(f)
    BY <1>7
  <1> HIDE DEF f
  <1>9. f[0] \in G[0]
    BY <1>1, <1>5, <1>8
  <1>10. ASSUME NEW i \in 1..n, f[i - 1] \in G[i - 1] PROVE f[i] \in G[i]
    <2>1. i \in 0..n /\ i # 0 /\ i - 1 \in 0..n
      BY <1>1
    <2>2. f[i] = Step(i, f[i - 1])
      BY <1>8, <2>1
    <2>3. f[i - 1] \in S /\ Left(i - 1, f[i - 1])
      BY <1>10, <2>1
    <2>4. Step(i, f[i - 1]) \in S /\ Left(i, Step(i, f[i - 1]))
      BY <1>2, <1>4, <2>3
    <2>5. QED
      BY <2>1, <2>2, <2>4
  <1>11. f[n] \in G[n]
    <2>1. n \in 0..n
      BY <1>1
    <2> HIDE DEF G
    <2>2. \A i \in 1..n : f[i - 1] \in G[i - 1] => f[i] \in G[i]
      BY <1>10
    <2>3. \A i \in 0..n : f[i] \in G[i]
      BY <1>1, <1>9, <2>2, LoopKeeps
    <2>4. QED
      BY <2>1, <2>3
  <1>12. Left(n, f[n])
    <2>1. n \in 0..n
      BY <1>1
    <2>2. QED
      BY <1>11, <2>1
  <1>13. QED
    BY <1>1, <1>3, <1>12 DEF Left

\* accept() without input checks.
LEMMA AcceptIs ==
  ASSUME NEW pool, NEW t
  PROVE  LET a == Accept(pool, t) IN
           /\ pool \subseteq a /\ a \subseteq pool \cup {t}
           /\ t \in a \/ t \in Generated \cup Nonstandard \/ \E u \in pool : Conflict(t, u)
  BY DEF Accept, HasConflict, Conflict

\* The pool that the transactions of s were offered to holds each that is not
\* generated or nonstandard and conflicts with none it met.
LEMMA ResurrectAllIs ==
  ASSUME NEW pool, NEW s \in Seq(Tx)
  PROVE  LET a == ResurrectAll(pool, s)
             all == pool \cup Range(s)
         IN  /\ pool \subseteq a /\ a \subseteq all
             /\ \A t \in Range(s) : \/ t \in a \/ t \in Generated \cup Nonstandard
                                    \/ \E u \in all : Conflict(t, u)
  <1> DEFINE n == Len(s)
             all == pool \cup Range(s)
             S == SUBSET all
             Step(i, p) == Accept(p, s[i])
             F == [q \in (1..n) \X S |-> Step(q[1], q[2])]
             Is(h) == h = [i \in 0..n |-> IF i = 0 THEN pool ELSE Step(i, h[i - 1])]
             f == CHOOSE h : Is(h)
             Offered(i, p) ==
               /\ pool \subseteq p
               /\ \A j \in 1..i : \/ s[j] \in p \/ s[j] \in Generated \cup Nonstandard
                                  \/ \E u \in all : Conflict(s[j], u)
             G == [i \in 0..n |-> {p \in S : Offered(i, p)}]
  <1>1. /\ n \in Nat /\ Range(s) = {s[i] : i \in 1..n} /\ pool \in S
    BY SeqFacts
  <1>2. ASSUME NEW i \in 1..n, NEW p \in S
        PROVE  F[<<i, p>>] = Step(i, p) /\ Step(i, p) \in S
    <2>1. s[i] \in all
      BY <1>1
    <2>2. Step(i, p) \in S
      BY <2>1, AcceptIs
    <2>3. QED
      BY <2>2
  <1>3. ResurrectAll(pool, s) = f[n]
    BY DEF ResurrectAll
  <1>4. ASSUME NEW i \in 1..n, NEW p \in S, Offered(i - 1, p)
        PROVE  Offered(i, Step(i, p))
    <2> DEFINE a == Accept(p, s[i])
    <2>1. /\ p \subseteq a
          /\ s[i] \in a \/ s[i] \in Generated \cup Nonstandard \/ \E u \in p : Conflict(s[i], u)
      BY AcceptIs
    <2> HIDE DEF a
    <2>2. \A j \in 1..i : j = i \/ j \in 1..(i - 1)
      BY <1>1
    <2>3. p \subseteq all
      OBVIOUS
    <2> HIDE DEF all
    <2>4. QED
      BY <1>4, <2>1, <2>2, <2>3 DEF a
  <1>5. Offered(0, pool)
    <2>1. 1..0 = {}
      OBVIOUS
    <2>2. QED
      BY <2>1
  <1> HIDE DEF n, S, Step, F, Offered
  <1>6. PICK h \in [0..n -> S] : Loop(h, F, pool, n)
    <2>1. \A i \in 1..n : \A p \in S : F[<<i, p>>] \in S
      BY <1>2
    <2>2. QED
      BY <1>1, <2>1, LoopExists
  <1>7. Is(h)
    <2>1. \A i \in 0..n : i # 0 => i \in 1..n /\ i - 1 \in 0..n
      BY <1>1
    <2>2. \A i \in 0..n : h[i] = IF i = 0 THEN pool ELSE Step(i, h[i - 1])
      BY <1>2, <1>6, <2>1 DEF Loop
    <2>3. h = [i \in 0..n |-> h[i]]
      BY <1>6
    <2>4. QED
      BY <2>2, <2>3
  <1>8. Is(f)
    BY <1>7
  <1> HIDE DEF f
  <1>9. f[0] \in G[0]
    BY <1>1, <1>5, <1>8
  <1>10. ASSUME NEW i \in 1..n, f[i - 1] \in G[i - 1] PROVE f[i] \in G[i]
    <2>1. i \in 0..n /\ i # 0 /\ i - 1 \in 0..n
      BY <1>1
    <2>2. f[i] = Step(i, f[i - 1])
      BY <1>8, <2>1
    <2>3. f[i - 1] \in S /\ Offered(i - 1, f[i - 1])
      BY <1>10, <2>1
    <2>4. Step(i, f[i - 1]) \in S /\ Offered(i, Step(i, f[i - 1]))
      BY <1>2, <1>4, <2>3
    <2>5. QED
      BY <2>1, <2>2, <2>4
  <1>11. f[n] \in G[n]
    <2>1. n \in 0..n
      BY <1>1
    <2> HIDE DEF G
    <2>2. \A i \in 1..n : f[i - 1] \in G[i - 1] => f[i] \in G[i]
      BY <1>10
    <2>3. \A i \in 0..n : f[i] \in G[i]
      BY <1>1, <1>9, <2>2, LoopKeeps
    <2>4. QED
      BY <2>1, <2>3
  <1>12. f[n] \in S /\ Offered(n, f[n])
    <2>1. n \in 0..n
      BY <1>1
    <2>2. QED
      BY <1>11, <2>1
  <1>13. QED
    BY <1>1, <1>3, <1>12 DEF Offered, S

\* A reorganisation loses no payment that accept() takes: what it disconnects is in the pool, or in
\* the new branch, or depends on a conflict with it, or was itself in conflict
\* with the pool or with another transaction that is disconnected.
THEOREM PaymentsKept ==
  ASSUME NEW pool, NEW gone \in Seq(Tx), NEW connected \in Seq(Tx),
         NEW t \in Range(gone) \ (Generated \cup Nonstandard)
  PROVE  LET all == pool \cup Range(gone)
             hit == {x \in all : \E u \in Range(connected) : Conflict(x, u)}
         IN  \/ t \in DeleteAll(ResurrectAll(pool, gone), connected)
             \/ t \in Range(connected)
             \/ t \in WithDescendants(all, hit)
             \/ \E u \in all : Conflict(t, u)
  <1> DEFINE all == pool \cup Range(gone)
             a == ResurrectAll(pool, gone)
  <1>1. a \subseteq all /\ (t \in a \/ \E u \in all : Conflict(t, u))
    BY ResurrectAllIs
  <1> HIDE DEF a, all
  <1>2. t \in a \ DeleteAll(a, connected) =>
          \/ t \in Range(connected)
          \/ t \in WithDescendants(all, {x \in all : \E u \in Range(connected) : Conflict(x, u)})
    BY <1>1, DeleteAllIs
  <1>3. QED
    BY <1>1, <1>2 DEF a, all

\* vDelete is a sequence of transactions throughout.
Deleted == vDelete \in Seq(Tx)

LEMMA DeletedTyped == Spec => []Deleted
  <1>1. Init => Deleted
    BY DEF Init, Deleted
  <1>2. IInv /\ Deleted /\ [Next]_vars => Deleted'
    <2> SUFFICES ASSUME IInv, vDelete \in Seq(Tx), [Next]_vars PROVE vDelete' \in Seq(Tx)
      BY DEF Deleted
    <2>1. CASE ConnectNext
      <3>1. PICK x \in mapBlockIndex : vDelete' = vDelete \o vtx[x]
        BY <2>1 DEF ConnectNext
      <3>2. vtx[x] \in Seq(Tx)
        BY <3>1, TxAssumption DEF IInv, TypeOK
      <3>3. QED
        BY <3>1, <3>2
    <2>2. CASE ~ConnectNext
      <3>1. vDelete' = vDelete \/ vDelete' = <<>>
        BY <2>2 DEF Next, AddToBlockIndex, EnforceCheckpoint, AcceptToMemoryPool, ConnectTip,
             ConnectTipFailed, BeginReorganize, DisconnectTip, ReachFork, ReorganizeFailed,
             CommitReorganize, ConnectSecondary, SecondaryFailed, SecondaryDone, NewBest,
             Restart, NoCall, vars, call
      <3>2. <<>> \in Seq(Tx)
        OBVIOUS
      <3>3. QED
        BY <3>1, <3>2, Zenon
    <2>3. QED
      BY <2>1, <2>2
  <1>3. QED
    BY <1>1, <1>2, SpecIInv, PTL DEF Spec

\* After every reorganisation the pool agrees with the blocks just connected:
\* none of their transactions is in it, and no conflict with one.
THEOREM PoolFitsHolds == Spec => PoolFitsNewBranch
  <1> DEFINE Fits == pc = "connect" /\ pc' = "secondary" =>
                       \A t \in mapTx' : \A u \in Range(vDelete) : t # u /\ ~Conflict(t, u)
  <1>1. Deleted /\ [Next]_vars => [Fits]_vars
    <2> SUFFICES ASSUME vDelete \in Seq(Tx), Next, pc = "connect", pc' = "secondary"
                 PROVE  \A t \in mapTx' : \A u \in Range(vDelete) : t # u /\ ~Conflict(t, u)
      BY DEF Deleted
    <2>1. CommitReorganize
      BY DEF Next, AddToBlockIndex, EnforceCheckpoint, AcceptToMemoryPool, ConnectTip,
             ConnectTipFailed, BeginReorganize, DisconnectTip, ReachFork, ReorganizeFailed,
             ConnectNext, ConnectSecondary, SecondaryFailed, SecondaryDone, NewBest,
             Restart
    <2> DEFINE a == ResurrectAll(mapTx, vResurrect)
    <2>2. mapTx' = DeleteAll(a, vDelete)
      BY <2>1 DEF CommitReorganize
    <2> HIDE DEF a
    <2>3. QED
      BY <2>2, DeleteAllIs
  <1>2. QED
    BY <1>1, DeletedTyped, PTL DEF Spec, PoolFitsNewBranch

-----------------------------------------------------------------------------
(* The payments of the disconnected blocks.                                *)

\* Appending to a sequence adds to its range.
LEMMA AppendRange ==
  ASSUME NEW S, NEW s \in Seq(S), NEW e \in S
  PROVE  Append(s, e) \in Seq(S) /\ Range(Append(s, e)) = Range(s) \cup {e}
  <1>1. /\ Append(s, e) \in Seq(S) /\ Len(Append(s, e)) = Len(s) + 1 /\ Len(s) \in Nat
        /\ DOMAIN s = 1..Len(s) /\ DOMAIN Append(s, e) = 1..(Len(s) + 1)
        /\ \A i \in 1..Len(s) : Append(s, e)[i] = s[i]
        /\ Append(s, e)[Len(s) + 1] = e
    OBVIOUS
  <1>2. \A i \in 1..(Len(s) + 1) : i \in 1..Len(s) \/ i = Len(s) + 1
    BY <1>1
  <1>3. Len(s) + 1 \in 1..(Len(s) + 1) /\ 1..Len(s) \subseteq 1..(Len(s) + 1)
    BY <1>1
  <1>4. QED
    BY <1>1, <1>2, <1>3 DEF Range

LEMMA ConcatRange ==
  ASSUME NEW S, NEW s \in Seq(S), NEW t \in Seq(S)
  PROVE  s \o t \in Seq(S) /\ Range(s \o t) \subseteq Range(s) \cup Range(t)
  <1>1. /\ s \o t \in Seq(S) /\ Len(s) \in Nat /\ Len(t) \in Nat
        /\ DOMAIN s = 1..Len(s) /\ DOMAIN t = 1..Len(t)
        /\ DOMAIN (s \o t) = 1..(Len(s) + Len(t))
        /\ \A i \in 1..(Len(s) + Len(t)) :
             (s \o t)[i] = IF i <= Len(s) THEN s[i] ELSE t[i - Len(s)]
    OBVIOUS
  <1>2. ASSUME NEW i \in 1..(Len(s) + Len(t))
        PROVE  (s \o t)[i] \in Range(s) \cup Range(t)
    <2>1. CASE i <= Len(s)
      BY <1>1, <2>1 DEF Range
    <2>2. CASE ~(i <= Len(s))
      <3>1. i - Len(s) \in 1..Len(t) /\ (s \o t)[i] = t[i - Len(s)]
        BY <1>1, <2>2
      <3>2. QED
        BY <1>1, <3>1 DEF Range
    <2>3. QED
      BY <2>1, <2>2
  <1>3. QED
    BY <1>1, <1>2 DEF Range

\* What Reorganize keeps of a block: its payments.
LEMMA ResurrectedIs ==
  ASSUME NEW s \in Seq(Tx)
  PROVE  Resurrected(s) \in Seq(Tx) /\ Range(Resurrected(s)) = Range(s) \ Generated
  <1> DEFINE n == Len(s)
             Step(i, r) == IF s[i] \in Generated THEN r ELSE Append(r, s[i])
             S == Seq(Tx)
             F == [p \in (1..n) \X S |-> Step(p[1], p[2])]
             Is(h) == h = [i \in 0..n |-> IF i = 0 THEN <<>>
                                          ELSE IF s[i] \in Generated THEN h[i - 1]
                                          ELSE Append(h[i - 1], s[i])]
             f == CHOOSE h : Is(h)
             First(i) == {s[j] : j \in 1..i} \ Generated
             G == [i \in 0..n |-> {r \in S : Range(r) = First(i)}]
  <1>1. n \in Nat /\ <<>> \in S /\ \A i \in 1..n : s[i] \in Tx
    OBVIOUS
  <1>2. ASSUME NEW i \in 1..n, NEW r \in S
        PROVE  F[<<i, r>>] = Step(i, r) /\ Step(i, r) \in S
    BY <1>1, AppendRange
  <1>3. Resurrected(s) = f[n]
    BY DEF Resurrected
  <1> HIDE DEF S, F
  <1>4. PICK h \in [0..n -> S] : Loop(h, F, <<>>, n)
    <2>1. \A i \in 1..n : \A r \in S : F[<<i, r>>] \in S
      BY <1>2
    <2>2. QED
      BY <1>1, <2>1, LoopExists
  <1>5. Is(h)
    <2>1. \A i \in 0..n : i # 0 => i \in 1..n /\ i - 1 \in 0..n
      BY <1>1
    <2>2. \A i \in 0..n : h[i] = IF i = 0 THEN <<>> ELSE Step(i, h[i - 1])
      BY <1>2, <1>4, <2>1 DEF Loop
    <2>3. h = [i \in 0..n |-> h[i]]
      BY <1>4
    <2>4. QED
      BY <2>2, <2>3
  <1>6. Is(f)
    BY <1>5
  <1> HIDE DEF f
  <1>7. f[0] = <<>> /\ \A i \in 1..n : f[i] = Step(i, f[i - 1])
    <2>1. \A i \in 0..n : f[i] = IF i = 0 THEN <<>> ELSE Step(i, f[i - 1])
      BY <1>6
    <2> HIDE DEF Step
    <2>2. QED
      BY <1>1, <2>1
  <1>8. f[0] \in G[0]
    <2>1. Range(<<>>) = {} /\ First(0) = {} /\ 0 \in 0..n
      BY <1>1 DEF Range
    <2> HIDE DEF First
    <2>2. QED
      BY <1>1, <1>7, <2>1
  <1>9. ASSUME NEW i \in 1..n, f[i - 1] \in G[i - 1] PROVE f[i] \in G[i]
    <2>1. i \in 0..n /\ i - 1 \in 0..n
      BY <1>1
    <2>2. f[i - 1] \in S /\ Range(f[i - 1]) = First(i - 1)
      BY <1>9, <2>1
    <2>3. First(i) = First(i - 1) \cup ({s[i]} \ Generated)
      <3>1. \A j \in 1..i : j \in 1..(i - 1) \/ j = i
        BY <2>1
      <3>2. i \in 1..i /\ 1..(i - 1) \subseteq 1..i
        BY <2>1
      <3>3. QED
        BY <3>1, <3>2
    <2> HIDE DEF First
    <2>4. f[i] \in S /\ Range(f[i]) = First(i)
      <3>1. CASE s[i] \in Generated
        BY <1>7, <2>2, <2>3, <3>1
      <3>2. CASE s[i] \notin Generated
        <4>1. f[i] = Append(f[i - 1], s[i]) /\ s[i] \in Tx
          BY <1>1, <1>7, <3>2
        <4>2. f[i - 1] \in Seq(Tx)
          BY <2>2 DEF S
        <4>3. f[i] \in Seq(Tx) /\ Range(f[i]) = Range(f[i - 1]) \cup {s[i]}
          BY <4>1, <4>2, AppendRange
        <4>4. QED
          BY <2>2, <2>3, <3>2, <4>3 DEF S
      <3>3. QED
        BY <3>1, <3>2
    <2>5. QED
      BY <2>1, <2>4
  <1>10. f[n] \in S /\ Range(f[n]) = First(n)
    <2> HIDE DEF G
    <2>1. \A i \in 1..n : f[i - 1] \in G[i - 1] => f[i] \in G[i]
      BY <1>9
    <2>2. \A i \in 0..n : f[i] \in G[i]
      BY <1>1, <1>8, <2>1, LoopKeeps
    <2>3. f[n] \in G[n]
      BY <1>1, <2>2
    <2> HIDE DEF First
    <2>4. QED
      BY <1>1, <2>3 DEF G
  <1>11. First(n) = Range(s) \ Generated
    BY SeqFacts DEF Range
  <1>12. QED
    BY <1>3, <1>10, <1>11 DEF S

\* The transactions to resurrect are payments of the chain that is left.
Resurrects ==
  /\ vResurrect \in Seq(Tx) /\ Range(vResurrect) \cap Generated = {}
  /\ pc \in {"idle", "setbest"} => vResurrect = <<>>
  /\ pc \in {"disconnect", "connect"} =>
       Range(vResurrect) \subseteq {TxAt(p) : p \in Places(pindexBest)}

LEMMA ResurrectsHolds == Spec => []Resurrects
  <1>1. <<>> \in Seq(Tx) /\ Range(<<>>) = {}
    BY DEF Range
  <1>2. Init => Resurrects
    BY <1>1 DEF Init, Resurrects
  <1>3. IInv /\ Resurrects /\ [Next]_vars => Resurrects'
    <2> SUFFICES ASSUME IInv, Resurrects, [Next]_vars PROVE Resurrects'
      OBVIOUS
    <2>1. CASE DisconnectTip
      <3>1. /\ pc = "disconnect" /\ pc' = "disconnect" /\ pindexBest' = pindexBest
            /\ vResurrect' = vResurrect \o Resurrected(vtx[pindex])
        BY <2>1 DEF DisconnectTip, best
      <3>2. /\ pindex \in Branch[pindexBest] /\ pindexBest \in Block /\ pindex \in Block
        BY <3>1 DEF IInv, Frame, TypeOK
      <3>3. vtx[pindex] \in Seq(Tx)
        BY <3>2, TxAssumption
      <3> DEFINE r == Resurrected(vtx[pindex])
                 T == {TxAt(p) : p \in Places(pindexBest)}
      <3>4. r \in Seq(Tx) /\ Range(r) = Range(vtx[pindex]) \ Generated
        BY <3>3, ResurrectedIs
      <3>5. Range(vtx[pindex]) \subseteq T
        <4>1. ASSUME NEW i \in 1..Len(vtx[pindex]) PROVE vtx[pindex][i] \in T
          <5>1. <<pindex, i>> \in Places(pindexBest)
            BY <3>2, PlaceFacts
          <5>2. TxAt(<<pindex, i>>) = vtx[pindex][i]
            BY DEF TxAt
          <5>3. QED
            BY <5>1, <5>2
        <4> HIDE DEF T
        <4>2. Range(vtx[pindex]) = {vtx[pindex][i] : i \in 1..Len(vtx[pindex])}
          BY <3>2, BlockTx
        <4>3. QED
          BY <4>1, <4>2
      <3> HIDE DEF r, T
      <3>6. /\ vResurrect \in Seq(Tx) /\ Range(vResurrect) \cap Generated = {}
            /\ Range(vResurrect) \subseteq T
        BY <3>1 DEF Resurrects, T
      <3>7. /\ vResurrect' \in Seq(Tx)
            /\ Range(vResurrect') \subseteq Range(vResurrect) \cup Range(r)
        BY <3>1, <3>4, <3>6, ConcatRange DEF r
      <3>8. T' = T
        BY <3>1 DEF T, Places, TxAt
      <3>9. Range(vResurrect') \subseteq T' /\ Range(vResurrect') \cap Generated = {}
        BY <3>4, <3>5, <3>6, <3>7, <3>8
      <3>10. QED
        BY <3>1, <3>7, <3>9 DEF Resurrects, T
    <2>2. CASE ~DisconnectTip
      <3>1. \/ vResurrect' = <<>>
            \/ /\ vResurrect' = vResurrect
               /\ pc' \in {"disconnect", "connect"} =>
                    pc \in {"disconnect", "connect"} /\ pindexBest' = pindexBest
               /\ pc' \notin {"idle", "setbest"}
        <4>1. CASE UNCHANGED vars
          BY <4>1 DEF vars, Resurrects
        <4>2. CASE Next
          BY <2>2, <4>2 DEF Next, AddToBlockIndex, EnforceCheckpoint, AcceptToMemoryPool,
               ConnectTip, ConnectTipFailed, BeginReorganize, ReachFork, ReorganizeFailed,
               ConnectNext, CommitReorganize, ConnectSecondary, SecondaryFailed,
               SecondaryDone, NewBest, Restart, NoCall, call, best, Resurrects
        <4>3. QED
          BY <4>1, <4>2
      <3>2. CASE vResurrect' = <<>>
        <4>1. /\ vResurrect' \in Seq(Tx) /\ Range(vResurrect') = {}
          BY <1>1, <3>2
        <4>2. QED
          BY <3>2, <4>1 DEF Resurrects
      <3>3. CASE vResurrect' # <<>>
        <4>1. /\ vResurrect' = vResurrect /\ pc' \notin {"idle", "setbest"}
              /\ pc' \in {"disconnect", "connect"} =>
                   pc \in {"disconnect", "connect"} /\ pindexBest' = pindexBest
          BY <3>1, <3>3
        <4>2. QED
          BY <4>1 DEF Resurrects, Places, TxAt
      <3>4. QED
        BY <3>2, <3>3
    <2>3. QED
      BY <2>1, <2>2
  <1>4. QED
    BY <1>2, <1>3, SpecIInv, PTL DEF Spec

\* While no chain spends an output twice, a reorganisation of any length loses
\* no payment: each one it takes out of the chain is in the pool, in the new
\* branch, or excluded by a conflict with the new branch or the pool.
THEOREM ReorganizeKeepsHolds ==
  ASSUME HonestBlocks(Block)
  PROVE  Spec => ReorganizeKeepsPayments
  <1> DEFINE gone == Range(vResurrect)
             all == gone \cup mapTx
             hit == {x \in all : \E u \in Range(vDelete) : Conflict(x, u)}
             Kept == pc = "connect" /\ pc' = "secondary" =>
                       \A t \in gone \ Nonstandard :
                         \/ t \in mapTx'
                         \/ t \in Range(vDelete)
                         \/ t \in WithDescendants(all, hit)
                         \/ \E u \in mapTx : Conflict(t, u)
  <1>1. IInv /\ Resurrects /\ Deleted /\ [Next]_vars => [Kept]_vars
    <2> SUFFICES ASSUME IInv, Resurrects, Deleted, Next, pc = "connect", pc' = "secondary",
                        NEW t \in gone \ Nonstandard
                 PROVE  \/ t \in mapTx'
                        \/ t \in Range(vDelete)
                        \/ t \in WithDescendants(all, hit)
                        \/ \E u \in mapTx : Conflict(t, u)
      OBVIOUS
    <2>1. CommitReorganize
      BY DEF Next, AddToBlockIndex, EnforceCheckpoint, AcceptToMemoryPool, ConnectTip,
             ConnectTipFailed, BeginReorganize, DisconnectTip, ReachFork, ReorganizeFailed,
             ConnectNext, ConnectSecondary, SecondaryFailed, SecondaryDone, NewBest,
             Restart
    <2>2. mapTx' = DeleteAll(ResurrectAll(mapTx, vResurrect), vDelete)
      BY <2>1 DEF CommitReorganize
    <2>3. /\ vResurrect \in Seq(Tx) /\ vDelete \in Seq(Tx) /\ t \notin Generated
          /\ gone \subseteq {TxAt(p) : p \in Places(pindexBest)}
          /\ pindexBest \in Block
      BY DEF Resurrects, Deleted, IInv, TypeOK
    <2>4. ASSUME NEW u \in gone, Conflict(t, u) PROVE FALSE
      <3>1. PICK p \in Places(pindexBest), q \in Places(pindexBest) : t = TxAt(p) /\ u = TxAt(q)
        BY <2>3
      <3>2. p # q
        BY <2>4, <3>1 DEF Conflict
      <3>3. QED
        BY <2>3, <2>4, <3>1, <3>2 DEF HonestBlocks
    <2>5. mapTx \cup gone = all
      OBVIOUS
    <2>6. \/ t \in mapTx' \/ t \in Range(vDelete)
          \/ t \in WithDescendants(all, hit)
          \/ \E u \in all : Conflict(t, u)
      BY <2>2, <2>3, <2>5, PaymentsKept
    <2>7. QED
      BY <2>4, <2>6
  <1>2. QED
    BY <1>1, SpecIInv, ResurrectsHolds, DeletedTyped, PTL DEF Spec, ReorganizeKeepsPayments

(***************************************************************************)
(* The composition: BlockIntake.                                           *)
(***************************************************************************)
\* A branch is a line: of two of its blocks one descends from the other.
Linear ==
  \A b \in mapBlockIndex : \A x, y \in Branch[b] : x \in Branch[y] \/ y \in Branch[x]

\* What the call of SetBestChain in progress is for: a block that descends
\* from the checkpoint, or (after a restart) one below a flawed block.
Purpose ==
  /\ pc # "idle" /\ task # "idle" => hashSyncCheckpoint \in Branch[hash]
  /\ pc \in {"setbest", "disconnect", "connect"} /\ task = "idle" =>
       hash \in Branch[pindexBest] /\ Branch[pindexBest] \cap badBlocks # {}
  /\ pc \in {"disconnect", "connect"} =>
       \/ pindexIntermediate = hash
       \/ nChainTrust[pindexIntermediate] > nChainTrust[pindexBest]

\* The checkpoint that waits for SetBestChain descends from the current one.
Candidate ==
  /\ task = "pending" => /\ hashPendingCheckpoint \in mapBlockIndex \cap Checkpoint
                         /\ hashSyncCheckpoint \in Branch[hashPendingCheckpoint]
  /\ task = "message" => /\ target \in Checkpoint
                         /\ hashSyncCheckpoint \in Branch[target]

\* The queue holds blocks exactly while orphans are being released.
QueueInUse ==
  /\ task \in {"idle", "message"} => vWorkQueue = <<>>
  /\ task \in {"queue", "pending"} => vWorkQueue # <<>>

CInv == IntakeTypeOK /\ Linear /\ Purpose /\ Candidate /\ QueueInUse

\* An orphan whose parent is known waits in the queue, or is left behind
\* because SetBestChain failed for the parent.
Waits(o) ==
  hashPrevBlock[o] \in mapBlockIndex =>
    \/ nChainTrust[hashPrevBlock[o]] <= nBestInvalidTrust
    \/ task = "accept" /\ target = hashPrevBlock[o]
    \/ \E i \in 1..Len(vWorkQueue) : vWorkQueue[i] = hashPrevBlock[o]

\* No orphan is forgotten while a call is in progress; AcceptBlock fails for
\* a block only if SetBestChain did.
Queued ==
  /\ task = "accept" /\ pc # "idle" => hash = target
  /\ task = "accept" /\ callFailed => pc = "idle" /\ nChainTrust[target] <= nBestInvalidTrust
  /\ \A o \in mapOrphanBlocks : Waits(o)
-----------------------------------------------------------------------------
(* BlockIntake implements BestChain.                                       *)

LEMMA BeginAcceptIsNext ==
  ASSUME NEW b \in Block \ {Genesis}, BeginAccept(b)
  PROVE  Next
  BY DEF BeginAccept, Next

LEMMA CallSetBestChainIsNext ==
  ASSUME NEW c, CallSetBestChain(c)
  PROVE  Next
  BY TrustAssumption DEF CallSetBestChain, EnforceCheckpoint, Next

LEMMA IntakeStepIsNext == [IntakeNext]_allVars => [Next]_vars
  <1> SUFFICES ASSUME IntakeNext PROVE Next \/ UNCHANGED vars
    BY DEF allVars
  <1>1. CASE LeaveInitialDownload
    BY <1>1 DEF LeaveInitialDownload
  <1>2. CASE \E b \in Block \ {Genesis} : ReceiveOrphan(b)
    BY <1>2 DEF ReceiveOrphan
  <1>3. CASE \E b \in Block \ {Genesis} : ReceiveBlock(b)
    BY <1>3, BeginAcceptIsNext DEF ReceiveBlock
  <1>4. CASE \E c \in Checkpoint : ReceiveCheckpoint(c)
    BY <1>4, CallSetBestChainIsNext DEF ReceiveCheckpoint
  <1>5. CASE \E o \in Block \ {Genesis} : AcceptOrphan(o)
    BY <1>5, BeginAcceptIsNext DEF AcceptOrphan
  <1>6. CASE \E o \in Block \ {Genesis} : DropOrphan(o)
    BY <1>6 DEF DropOrphan
  <1>7. CASE AcceptFailed \/ PendingReturns \/ NextInQueue \/ MessageReturns
    BY <1>7 DEF AcceptFailed, PendingReturns, NextInQueue, MessageReturns
  <1>8. CASE Accepted
    BY <1>8, CallSetBestChainIsNext DEF Accepted
  <1>9. CASE SetBestChainStep \/ SetBestChainFails
    BY <1>9 DEF SetBestChainStep, SetBestChainFails, Next
  <1>10. CASE IntakeRestart
    BY <1>10 DEF IntakeRestart, Next
  <1>11. QED
    BY <1>1, <1>2, <1>3, <1>4, <1>5, <1>6, <1>7, <1>8, <1>9, <1>10
       DEF IntakeNext, Running, Receive, CallStep

\* Whatever the order of blocks and checkpoints, the best chain behaves as
\* BestChain says; its theorems hold here too.
THEOREM IntakeImplementsBestChain == IntakeSpec => Spec
  <1>1. IntakeInit => Init
    BY DEF IntakeInit
  <1>2. QED
    BY <1>1, IntakeStepIsNext, PTL DEF IntakeSpec, Spec

\* Whatever order blocks, orphans and checkpoints come in: the intake keeps
\* tip, links, index and pool consistent and implements ChainTip.
THEOREM IntakeKeepsBestChain ==
  IntakeSpec => /\ []DurableTip /\ []LinksOnBestChain /\ []IndexOnBestChain
                /\ [](HonestBlocks(mapBlockIndex) => SpendsAreMarked)
                /\ TipGainsTrust /\ PoolFitsNewBranch /\ ImplementsChainTip
  <1>1. Spec => /\ []DurableTip /\ []LinksOnBestChain /\ []IndexOnBestChain
                /\ [](HonestBlocks(mapBlockIndex) => SpendsAreMarked)
                /\ TipGainsTrust /\ PoolFitsNewBranch /\ ImplementsChainTip
    BY DurableTipHolds, LinksHold, IndexHolds, SpendsMarkedHolds, TipGainsTrustHolds,
       PoolFitsHolds, Refinement
  <1>2. QED
    BY <1>1, IntakeImplementsBestChain
-----------------------------------------------------------------------------
(* The checkpoint: CInv is inductive, given IInv.                          *)

\* A block is added to the tree, or the tree does not change.
LEMMA TreeStep ==
  ASSUME Next
  PROVE  \/ UNCHANGED memory
         \/ \E b \in Block \ {Genesis} : AddToBlockIndex(b)
  BY DEF Next, memory, EnforceCheckpoint, AcceptToMemoryPool, ConnectTip, ConnectTipFailed,
     BeginReorganize, DisconnectTip, ReachFork, ConnectNext, ReorganizeFailed,
     CommitReorganize, ConnectSecondary, SecondaryFailed, SecondaryDone, NewBest, Restart

\* A new block is above the known ones, whose trust stays.
LEMMA NewBlock ==
  ASSUME IInv, NEW b \in Block \ {Genesis}, AddToBlockIndex(b)
  PROVE  /\ hashPrevBlock[b] \in mapBlockIndex
         /\ b \notin mapBlockIndex
         /\ mapBlockIndex' = mapBlockIndex \cup {b}
         /\ Branch[b] = Branch[hashPrevBlock[b]] \cup {b}
         /\ b \in Branch[b]
         /\ \A x \in mapBlockIndex : nChainTrust'[x] = nChainTrust[x]
         /\ pc = "idle"
         /\ \/ pc' = "idle" /\ hash' = Null
            \/ pc' = "setbest" /\ hash' = b
         /\ UNCHANGED <<pindexBest, badBlocks, nBestInvalidTrust>>
         /\ txdb'.hashBestChain = txdb.hashBestChain
  BY BranchFacts DEF AddToBlockIndex, WriteBlockIndex, Database, mapBlockIndex,
                     best, IInv, TypeOK

LEMMA LinearKeeps ==
  ASSUME IInv, Linear, Next
  PROVE  Linear'
  <1>1. CASE UNCHANGED memory
    BY <1>1 DEF Linear, memory, mapBlockIndex
  <1>2. ASSUME NEW b \in Block \ {Genesis}, AddToBlockIndex(b)
        PROVE  Linear'
    <2> DEFINE p == hashPrevBlock[b]
    <2>1. /\ p \in mapBlockIndex
          /\ mapBlockIndex' = mapBlockIndex \cup {b}
          /\ Branch[b] = Branch[p] \cup {b}
          /\ b \in Branch[b]
      BY <1>2, NewBlock
    <2>2. \A x, y \in Branch[p] : x \in Branch[y] \/ y \in Branch[x]
      BY <2>1 DEF Linear
    <2>3. \A x, y \in Branch[b] : x \in Branch[y] \/ y \in Branch[x]
      BY <2>1, <2>2
    <2>4. QED
      BY <2>1, <2>3 DEF Linear
  <1>3. QED
    BY <1>1, <1>2, TreeStep

\* A sequence of known blocks stays one when the tree grows.
LEMMA SeqGrows ==
  ASSUME NEW S, NEW T, S \subseteq T, NEW s \in Seq(S)
  PROVE  s \in Seq(T)
  OBVIOUS

LEMMA InitCInv == IntakeInit => CInv
  <1> SUFFICES ASSUME IntakeInit PROVE CInv
    OBVIOUS
  <1>0. vWorkQueue \in Seq(mapBlockIndex)
    BY DEF IntakeInit
  <1> USE DEF IntakeInit, CheckpointInit, Init, mapBlockIndex
  <1>1. IntakeTypeOK
    BY <1>0, HardenedAssumption DEF IntakeTypeOK
  <1>2. Linear
    BY TreeAssumption DEF Linear
  <1>3. Purpose /\ Candidate /\ QueueInUse
    BY DEF Purpose, Candidate, QueueInUse
  <1>4. QED
    BY <1>1, <1>2, <1>3 DEF CInv

\* A block of AcceptBlock descends from the checkpoint.
LEMMA BeginAcceptKeeps ==
  ASSUME IInv, CInv, NEW b \in Block \ {Genesis}, BeginAccept(b),
         mapOrphanBlocks' \subseteq mapOrphanBlocks,
         UNCHANGED <<latchToFalse, vWorkQueue>>
  PROVE  CInv'
  <1>1. AddToBlockIndex(b)
    BY DEF BeginAccept
  <1>2. /\ hashPrevBlock[b] \in mapBlockIndex
        /\ mapBlockIndex' = mapBlockIndex \cup {b}
        /\ Branch[b] = Branch[hashPrevBlock[b]] \cup {b}
        /\ \/ pc' = "idle" /\ hash' = Null
           \/ pc' = "setbest" /\ hash' = b
    BY <1>1, NewBlock
  <1>3. hashSyncCheckpoint \in Branch[b]
    BY <1>2 DEF BeginAccept, MayPass, CheckSync
  <1>4. /\ task' = "accept" /\ target' = b /\ callFailed' = FALSE
        /\ UNCHANGED <<hashSyncCheckpoint, hashPendingCheckpoint, hashInvalidCheckpoint>>
    BY DEF BeginAccept, checkpoints
  <1>5. vWorkQueue' \in Seq(mapBlockIndex')
    BY <1>2, SeqGrows DEF CInv, IntakeTypeOK
  <1>6. IntakeTypeOK'
    BY <1>2, <1>4, <1>5 DEF CInv, IntakeTypeOK
  <1>7. Linear'
    BY LinearKeeps, BeginAcceptIsNext DEF CInv
  <1>8. Purpose' /\ Candidate' /\ QueueInUse'
    BY <1>2, <1>3, <1>4 DEF Purpose, Candidate, QueueInUse
  <1>9. QED
    BY <1>6, <1>7, <1>8 DEF CInv

\* SetBestChain is called for a checkpoint that descends from the last one.
LEMMA CallSetBestChainGives ==
  ASSUME NEW c, CallSetBestChain(c)
  PROVE  /\ pc' = "setbest" /\ hash' = c
         /\ c \in mapBlockIndex \cap Checkpoint
         /\ hashSyncCheckpoint \in Branch[c]
         /\ UNCHANGED <<nHeight, nChainTrust, pindexBest, badBlocks>>
         /\ UNCHANGED <<hashSyncCheckpoint, hashPendingCheckpoint, hashInvalidCheckpoint>>
  BY DEF CallSetBestChain, EnforceCheckpoint, ValidateSyncCheckpoint, memory, best,
         checkpoints

LEMMA ReceiveCheckpointKeeps ==
  ASSUME IInv, CInv, NEW c \in Checkpoint, ReceiveCheckpoint(c)
  PROVE  CInv'
  <1>1. /\ pc = "idle" /\ task = "idle"
        /\ UNCHANGED <<mapOrphanBlocks, latchToFalse, callFailed, vWorkQueue>>
    BY DEF ReceiveCheckpoint
  <1>2. CASE CallSetBestChain(c) /\ task' = "message" /\ target' = c
    <2>1. /\ pc' = "setbest" /\ hash' = c
          /\ c \in mapBlockIndex \cap Checkpoint
          /\ hashSyncCheckpoint \in Branch[c]
          /\ UNCHANGED <<nHeight, nChainTrust, pindexBest, badBlocks>>
          /\ UNCHANGED <<hashSyncCheckpoint, hashPendingCheckpoint, hashInvalidCheckpoint>>
      BY <1>2, CallSetBestChainGives
    <2>2. QED
      BY <1>1, <1>2, <2>1
         DEF CInv, IntakeTypeOK, Linear, Purpose, Candidate, QueueInUse,
             mapBlockIndex
  <1>3. CASE /\ KeepPending(c) \/ (Refuse(c) /\ UNCHANGED hashPendingCheckpoint) \/ AdoptAtOnce(c)
             /\ UNCHANGED <<vars, task, target>>
    <2>1. /\ hashSyncCheckpoint' \in mapBlockIndex
          /\ hashPendingCheckpoint' \in Checkpoint \cup {Null}
          /\ hashInvalidCheckpoint' \in Checkpoint \cup {Null}
      BY <1>3 DEF CInv, IntakeTypeOK, KeepPending, Refuse, Invalidate, AdoptAtOnce, Adopt
    <2>2. mapBlockIndex' = mapBlockIndex
      BY <1>3 DEF vars, mapBlockIndex
    <2>3. IntakeTypeOK' /\ Candidate' /\ QueueInUse'
      BY <1>1, <1>3, <2>1, <2>2 DEF CInv, IntakeTypeOK, Candidate, QueueInUse
    <2>4. Linear' /\ Purpose'
      BY <1>1, <1>3 DEF CInv, Linear, Purpose, vars, mapBlockIndex
    <2>5. QED
      BY <2>3, <2>4 DEF CInv
  <1>4. QED
    BY <1>2, <1>3 DEF ReceiveCheckpoint

LEMMA AcceptedKeeps ==
  ASSUME IInv, CInv, Accepted
  PROVE  CInv'
  <1> DEFINE c == hashPendingCheckpoint
  <1>1. /\ pc = "idle" /\ task = "accept" /\ ~callFailed
        /\ vWorkQueue' = Append(vWorkQueue, target)
        /\ target' = Null
        /\ UNCHANGED <<mapOrphanBlocks, latchToFalse, callFailed>>
    BY DEF Accepted
  <1>2. vWorkQueue' \in Seq(mapBlockIndex) /\ vWorkQueue' # <<>>
    BY <1>1 DEF CInv, IntakeTypeOK
  <1>3. CASE CallSetBestChain(c) /\ task' = "pending"
    <2>1. /\ pc' = "setbest" /\ hash' = c
          /\ c \in mapBlockIndex \cap Checkpoint
          /\ hashSyncCheckpoint \in Branch[c]
          /\ UNCHANGED <<nHeight, nChainTrust, pindexBest, badBlocks>>
          /\ UNCHANGED <<hashSyncCheckpoint, hashPendingCheckpoint, hashInvalidCheckpoint>>
      BY <1>3, CallSetBestChainGives
    <2>2. QED
      BY <1>1, <1>2, <1>3, <2>1
         DEF CInv, IntakeTypeOK, Linear, Purpose, Candidate, QueueInUse,
             mapBlockIndex
  <1>4. CASE /\ \/ UNCHANGED checkpoints
                \/ c # Null /\ Refuse(c) /\ hashPendingCheckpoint' = Null
                \/ c # Null /\ AdoptAtOnce(c)
             /\ task' = "queue"
             /\ UNCHANGED vars
    <2>1. /\ hashSyncCheckpoint' \in mapBlockIndex
          /\ hashPendingCheckpoint' \in Checkpoint \cup {Null}
          /\ hashInvalidCheckpoint' \in Checkpoint \cup {Null}
      BY <1>4 DEF CInv, IntakeTypeOK, Refuse, Invalidate, AdoptAtOnce, Adopt, checkpoints
    <2>2. mapBlockIndex' = mapBlockIndex
      BY <1>4 DEF vars, mapBlockIndex
    <2>3. IntakeTypeOK' /\ Candidate' /\ QueueInUse'
      BY <1>1, <1>2, <1>4, <2>1, <2>2 DEF CInv, IntakeTypeOK, Candidate, QueueInUse
    <2>4. Linear' /\ Purpose'
      BY <1>1, <1>4 DEF CInv, Linear, Purpose, vars, mapBlockIndex
    <2>5. QED
      BY <2>3, <2>4 DEF CInv
  <1>5. QED
    BY <1>3, <1>4 DEF Accepted

\* SetBestChain returned: its checkpoint is adopted or refused.
LEMMA ReturnKeeps ==
  ASSUME IInv, CInv, PendingReturns \/ MessageReturns
  PROVE  CInv'
  <1>1. /\ pc = "idle"
        /\ \/ task = "pending" /\ task' = "queue"
           \/ task = "message" /\ task' = "idle"
        /\ callFailed' = FALSE /\ target' = Null
        /\ UNCHANGED <<mapOrphanBlocks, latchToFalse, vWorkQueue>>
        /\ UNCHANGED vars
    BY DEF PendingReturns, MessageReturns, CInv, IntakeTypeOK
  <1>2. /\ hashSyncCheckpoint' \in mapBlockIndex
        /\ hashPendingCheckpoint' \in Checkpoint \cup {Null}
        /\ hashInvalidCheckpoint' \in Checkpoint \cup {Null}
    BY DEF PendingReturns, MessageReturns, SetBestChainRefused, Adopt, CInv,
           IntakeTypeOK, Candidate
  <1>3. mapBlockIndex' = mapBlockIndex
    BY <1>1 DEF vars, mapBlockIndex
  <1>4. IntakeTypeOK' /\ Candidate' /\ QueueInUse'
    BY <1>1, <1>2, <1>3 DEF CInv, IntakeTypeOK, Candidate, QueueInUse
  <1>5. Linear' /\ Purpose'
    BY <1>1 DEF CInv, Linear, Purpose, vars, mapBlockIndex
  <1>6. QED
    BY <1>4, <1>5 DEF CInv

\* The other steps between calls of SetBestChain.
LEMMA QuietKeepsCInv ==
  ASSUME IInv, CInv,
         \/ LeaveInitialDownload
         \/ \E b \in Block \ {Genesis} : ReceiveOrphan(b)
         \/ \E o \in Block \ {Genesis} : DropOrphan(o)
         \/ AcceptFailed
         \/ NextInQueue
  PROVE  CInv'
  <1>1. UNCHANGED vars /\ UNCHANGED checkpoints
    BY DEF LeaveInitialDownload, ReceiveOrphan, DropOrphan, AcceptFailed, NextInQueue
  <1>2. mapBlockIndex' = mapBlockIndex
    BY <1>1 DEF vars, mapBlockIndex
  <1>3. CASE NextInQueue
    <2>1. vWorkQueue' \in Seq(mapBlockIndex)
      BY <1>3 DEF CInv, IntakeTypeOK, QueueInUse, NextInQueue
    <2>2. QED
      BY <1>1, <1>2, <1>3, <2>1 DEF NextInQueue, CInv, IntakeTypeOK, Candidate, Linear,
         Purpose, QueueInUse, vars, checkpoints
  <1>4. CASE AcceptFailed
    BY <1>1, <1>2, <1>4 DEF AcceptFailed, CInv, IntakeTypeOK, Candidate, Linear,
       Purpose, QueueInUse, vars, checkpoints
  <1>5. CASE \/ LeaveInitialDownload
             \/ \E b \in Block \ {Genesis} : ReceiveOrphan(b)
             \/ \E o \in Block \ {Genesis} : DropOrphan(o)
    <2>1. /\ UNCHANGED <<task, target, callFailed, vWorkQueue>>
          /\ latchToFalse' \in BOOLEAN
          /\ mapOrphanBlocks' \subseteq Block \ {Genesis}
      BY <1>5 DEF LeaveInitialDownload, ReceiveOrphan, DropOrphan, ForgetOrphan,
         CInv, IntakeTypeOK
    <2>2. QED
      BY <1>1, <1>2, <2>1 DEF CInv, IntakeTypeOK, Candidate, Linear, Purpose, QueueInUse, vars, checkpoints
  <1>6. QED
    BY <1>3, <1>4, <1>5

\* A step of SetBestChain: Reorganize is called for a block of more trust,
\* or all the way to the block of the call.
LEMMA SetBestChainStepKeeps ==
  ASSUME IInv, CInv, SetBestChainStep
  PROVE  CInv'
  <1>1. /\ UNCHANGED <<hashSyncCheckpoint, hashPendingCheckpoint, hashInvalidCheckpoint>>
        /\ UNCHANGED <<mapOrphanBlocks, latchToFalse, task, target, callFailed, vWorkQueue>>
        /\ UNCHANGED memory
    BY DEF SetBestChainStep, checkpoints, intake, ConnectTip, BeginReorganize,
       DisconnectTip, ReachFork, ConnectNext, CommitReorganize, ConnectSecondary,
       SecondaryFailed, SecondaryDone, NewBest
  <1>2. IntakeTypeOK' /\ Linear' /\ Candidate' /\ QueueInUse'
    BY <1>1 DEF CInv, IntakeTypeOK, Linear, Candidate, QueueInUse, memory, mapBlockIndex
  <1>3. Purpose'
    <2>1. CASE BeginReorganize
      <3>1. /\ pc = "setbest" /\ pc' = "disconnect" /\ hash' = hash
            /\ UNCHANGED <<pindexBest, badBlocks, nChainTrust>>
            /\ pindexIntermediate' \in mapBlockIndex
            /\ IsIntermediate(pindexIntermediate')
        BY <2>1 DEF BeginReorganize, best, memory
      <3>2. \/ pindexIntermediate' = hash
            \/ nChainTrust[pindexIntermediate'] > nChainTrust[pindexBest]
        <4> DEFINE x == pindexIntermediate'
        <4>1. SUFFICES ASSUME x # hash PROVE nChainTrust[x] > nChainTrust[pindexBest]
          OBVIOUS
        <4>2. hash \in mapBlockIndex /\ x \in Branch[hash]
          BY <3>1 DEF IInv, TypeOK, IsIntermediate
        <4>3. PICK y \in Branch[hash] : y # Genesis /\ hashPrevBlock[y] = x
          BY <4>1, <4>2 DEF IInv, Tree
        <4>4. y \in mapBlockIndex /\ nHeight[x] < nHeight[y]
          BY <4>2, <4>3, ParentFacts DEF IInv, Tree
        <4>5. nHeight[x] \in Nat /\ nHeight[y] \in Nat
          BY <3>1, <4>4 DEF IInv, TypeOK
        <4>6. QED
          BY <3>1, <4>3, <4>4, <4>5 DEF IsIntermediate
      <3>3. QED
        BY <1>1, <3>1, <3>2 DEF CInv, Purpose
    <2>2. CASE DisconnectTip \/ ReachFork \/ ConnectNext
      BY <1>1, <2>2 DEF DisconnectTip, ReachFork, ConnectNext, CInv, Purpose, best, memory, call
    <2>3. CASE \/ ConnectTip \/ CommitReorganize \/ ConnectSecondary \/ SecondaryFailed
               \/ SecondaryDone \/ NewBest
      <3>1. /\ pc # "idle"
            /\ \/ pc' = "idle"
               \/ pc' \in {"secondary", "newbest"} /\ hash' = hash
        BY <2>3 DEF ConnectTip, CommitReorganize, ConnectSecondary, SecondaryFailed,
           SecondaryDone, NewBest, call
      <3>2. QED
        BY <1>1, <3>1 DEF CInv, Purpose
    <2>4. QED
      BY <2>1, <2>2, <2>3 DEF SetBestChainStep
  <1>4. QED
    BY <1>2, <1>3 DEF CInv

LEMMA SetBestChainFailsKeeps ==
  ASSUME IInv, CInv, SetBestChainFails
  PROVE  CInv'
  <1>1. /\ UNCHANGED <<hashSyncCheckpoint, hashPendingCheckpoint, hashInvalidCheckpoint>>
        /\ UNCHANGED <<mapOrphanBlocks, latchToFalse, task, target, vWorkQueue>>
        /\ callFailed' \in BOOLEAN
        /\ UNCHANGED memory
        /\ pc' = "idle"
    BY DEF SetBestChainFails, checkpoints, ConnectTipFailed, ReorganizeFailed
  <1>2. IntakeTypeOK' /\ Linear' /\ Purpose' /\ Candidate' /\ QueueInUse'
    BY <1>1 DEF CInv, IntakeTypeOK, Linear, Purpose, Candidate, QueueInUse, memory,
       mapBlockIndex
  <1>3. QED
    BY <1>2 DEF CInv

LEMMA IntakeRestartKeeps ==
  ASSUME IInv, CInv, IntakeRestart
  PROVE  CInv'
  <1>1. /\ UNCHANGED memory
        /\ pindexBest' = txdb.hashBestChain
        /\ \/ pc' = "idle"
           \/ /\ pc' = "setbest"
              /\ hash' \in Branch[txdb.hashBestChain]
              /\ Branch[txdb.hashBestChain] \cap badBlocks' # {}
    BY DEF IntakeRestart, Restart, IsRewind
  <1>2. /\ hashPendingCheckpoint' = Null /\ hashInvalidCheckpoint' = Null
        /\ hashSyncCheckpoint' = hashSyncCheckpoint
        /\ mapOrphanBlocks' = {} /\ latchToFalse' = FALSE
        /\ task' = "idle" /\ target' = Null /\ callFailed' = FALSE
        /\ vWorkQueue' = <<>>
    BY DEF IntakeRestart, CheckpointRestart
  <1>3. mapBlockIndex' = mapBlockIndex
    BY <1>1 DEF memory, mapBlockIndex
  <1>4. vWorkQueue' \in Seq(mapBlockIndex)
    BY <1>2
  <1>5. IntakeTypeOK' /\ Linear' /\ Candidate' /\ QueueInUse'
    BY <1>2, <1>3, <1>4 DEF CInv, IntakeTypeOK, Linear, Candidate, QueueInUse
  <1>6. Purpose'
    BY <1>1, <1>2 DEF Purpose
  <1>7. QED
    BY <1>5, <1>6 DEF CInv

LEMMA StepCInv == IInv /\ CInv /\ [IntakeNext]_allVars => CInv'
  <1> SUFFICES ASSUME IInv, CInv, [IntakeNext]_allVars PROVE CInv'
    OBVIOUS
  <1>1. CASE \E b \in Block \ {Genesis} : ReceiveBlock(b)
    BY <1>1, BeginAcceptKeeps DEF ReceiveBlock
  <1>2. CASE \E o \in Block \ {Genesis} : AcceptOrphan(o)
    BY <1>2, BeginAcceptKeeps DEF AcceptOrphan, ForgetOrphan
  <1>3. CASE \E c \in Checkpoint : ReceiveCheckpoint(c)
    BY <1>3, ReceiveCheckpointKeeps
  <1>4. CASE Accepted
    BY <1>4, AcceptedKeeps
  <1>5. CASE PendingReturns \/ MessageReturns
    BY <1>5, ReturnKeeps
  <1>6. CASE \/ LeaveInitialDownload
             \/ \E b \in Block \ {Genesis} : ReceiveOrphan(b)
             \/ \E o \in Block \ {Genesis} : DropOrphan(o)
             \/ AcceptFailed
             \/ NextInQueue
    BY <1>6, QuietKeepsCInv
  <1>7. CASE SetBestChainStep
    BY <1>7, SetBestChainStepKeeps
  <1>8. CASE SetBestChainFails
    BY <1>8, SetBestChainFailsKeeps
  <1>9. CASE IntakeRestart
    BY <1>9, IntakeRestartKeeps
  <1>10. CASE UNCHANGED allVars
    BY <1>10 DEF CInv, IntakeTypeOK, Linear, Purpose, Candidate, QueueInUse, allVars, vars,
       checkpoints, intake, mapBlockIndex
  <1>11. QED
    BY <1>1, <1>2, <1>3, <1>4, <1>5, <1>6, <1>7, <1>8, <1>9, <1>10
       DEF IntakeNext, Running, Receive, CallStep

LEMMA SpecCInv == IntakeSpec => [](IInv /\ CInv)
  <1>1. IntakeSpec => []IInv
    BY IntakeImplementsBestChain, SpecIInv, PTL
  <1>2. QED
    BY <1>1, InitCInv, StepCInv, PTL DEF IntakeSpec

\* The block intake keeps its state well formed; in particular CheckSync
\* always finds the checkpoint in mapBlockIndex, which it asserts.
THEOREM IntakeTypeCorrect == IntakeSpec => []IntakeTypeOK
  <1>1. CInv => IntakeTypeOK
    BY DEF CInv
  <1>2. QED
    BY <1>1, SpecCInv, PTL

-----------------------------------------------------------------------------
(* What a step may do to the checkpoint, and to the tip above it.          *)

LEMMA CheckpointStep ==
  ASSUME CInv, IntakeNext
  PROVE  hashSyncCheckpoint' # hashSyncCheckpoint =>
           hashSyncCheckpoint \in Branch[hashSyncCheckpoint']
  <1>1. CASE \E c \in Checkpoint : ReceiveCheckpoint(c)
    BY <1>1 DEF ReceiveCheckpoint, KeepPending, Refuse, AdoptAtOnce, Adopt,
       ValidateSyncCheckpoint, CallSetBestChain, checkpoints
  <1>2. CASE Accepted
    BY <1>2 DEF Accepted, Refuse, AdoptAtOnce, Adopt, ValidateSyncCheckpoint,
       CallSetBestChain, checkpoints
  <1>3. CASE PendingReturns \/ MessageReturns
    BY <1>3 DEF PendingReturns, MessageReturns, SetBestChainRefused, Adopt, CInv, Candidate
  <1>4. CASE \E b \in Block \ {Genesis} : ReceiveBlock(b) \/ AcceptOrphan(b)
    BY <1>4 DEF ReceiveBlock, AcceptOrphan, BeginAccept, checkpoints
  <1>5. CASE \/ LeaveInitialDownload
             \/ \E b \in Block \ {Genesis} : ReceiveOrphan(b)
             \/ \E o \in Block \ {Genesis} : DropOrphan(o)
             \/ AcceptFailed
             \/ NextInQueue
             \/ SetBestChainStep
             \/ SetBestChainFails
             \/ IntakeRestart
    BY <1>5 DEF LeaveInitialDownload, ReceiveOrphan, DropOrphan, AcceptFailed,
       NextInQueue, SetBestChainStep, SetBestChainFails, IntakeRestart,
       CheckpointRestart, checkpoints
  <1>6. QED
    BY <1>1, <1>2, <1>3, <1>4, <1>5 DEF IntakeNext, Running, Receive, CallStep

\* The synchronized checkpoint only ever moves to a descendant of itself.
THEOREM CheckpointAdvancesHolds == IntakeSpec => CheckpointAdvances
  <1>1. CInv /\ [IntakeNext]_allVars =>
          [hashSyncCheckpoint' # hashSyncCheckpoint =>
             hashSyncCheckpoint \in Branch[hashSyncCheckpoint']]_allVars
    BY CheckpointStep
  <1>2. QED
    BY <1>1, SpecCInv, PTL DEF IntakeSpec, CheckpointAdvances

\* Reorganize commits a block above the checkpoint: of the block it moves to
\* and the checkpoint, both below the block of the call, the one that is
\* lower is the checkpoint, for the other has more trust than the old tip.
LEMMA CommitKeepsCheckpoint ==
  ASSUME IInv, CInv, CommitReorganize, hashSyncCheckpoint \in Branch[pindexBest]
  PROVE  \/ hashSyncCheckpoint \in Branch[pindexIntermediate]
         \/ /\ pindexIntermediate \in Branch[pindexBest]
            /\ Branch[pindexBest] \cap badBlocks # {}
  <1> DEFINE cp == hashSyncCheckpoint
             x  == pindexIntermediate
  <1>1. /\ pc = "connect"
        /\ hash \in mapBlockIndex /\ pindexBest \in mapBlockIndex
        /\ x \in Branch[hash] /\ x \in mapBlockIndex
        /\ cp \in mapBlockIndex
    BY DEF CommitReorganize, IInv, TypeOK, Frame, Tree, CInv, IntakeTypeOK
  <1>2. CASE task = "idle"
    <2>1. hash \in Branch[pindexBest] /\ Branch[pindexBest] \cap badBlocks # {}
      BY <1>1, <1>2 DEF CInv, Purpose
    <2>2. x \in Branch[pindexBest]
      BY <1>1, <2>1 DEF IInv, Tree
    <2>3. QED
      BY <2>1, <2>2
  <1>3. CASE task # "idle"
    <2>1. cp \in Branch[hash]
      BY <1>1, <1>3 DEF CInv, Purpose
    <2>2. cp \in Branch[x] \/ x \in Branch[cp]
      BY <1>1, <2>1 DEF CInv, Linear
    <2>3. CASE x \in Branch[cp] /\ x # hash
      <3>1. x \in Branch[pindexBest]
        BY <1>1, <2>3 DEF IInv, Tree
      <3>2. ~(nChainTrust[x] > nChainTrust[pindexBest])
        BY <1>1, <3>1 DEF IInv, TypeOK, Tree
      <3>3. QED
        BY <1>1, <2>3, <3>2 DEF CInv, Purpose
    <2>4. QED
      BY <2>1, <2>2, <2>3
  <1>4. QED
    BY <1>2, <1>3

LEMMA TipStep ==
  ASSUME IInv, CInv, IntakeNext,
         txdb'.hashBestChain # txdb.hashBestChain,
         hashSyncCheckpoint \in Branch[txdb.hashBestChain]
  PROVE  \/ hashSyncCheckpoint \in Branch[txdb'.hashBestChain]
         \/ /\ txdb'.hashBestChain \in Branch[txdb.hashBestChain]
            /\ Branch[txdb.hashBestChain] \cap badBlocks # {}
  <1>1. Next \/ UNCHANGED vars
    BY IntakeStepIsNext
  <1>2. Next
    BY <1>1 DEF vars
  <1>3. CASE ConnectTip
    <2>1. txdb'.hashBestChain = hash /\ pc = "setbest"
          /\ hash # Genesis /\ hashPrevBlock[hash] = hashBestChain
      BY <1>3 DEF ConnectTip, SetBestChainInner, Database
    <2>2. hash \in mapBlockIndex /\ hash \in Block /\ hashBestChain \in mapBlockIndex
      BY <2>1 DEF IInv, TypeOK
    <2>3. Branch[pindexBest] \subseteq Branch[hashBestChain]
      BY <2>2 DEF IInv, Frame, Tree
    <2>4. Branch[hashBestChain] \subseteq Branch[hash]
      BY <2>1, <2>2, BranchFacts
    <2>5. QED
      BY <2>1, <2>3, <2>4 DEF IInv, DurableTip
  <1>4. CASE CommitReorganize
    BY <1>4, CommitKeepsCheckpoint DEF CommitReorganize, Database, IInv, DurableTip
  <1>5. CASE ConnectSecondary
    <2>1. PICK x \in mapBlockIndex : IsNext(x, hash) /\ txdb'.hashBestChain = x
      BY <1>5 DEF ConnectSecondary, SetBestChainInner, Database
    <2>2. pc = "secondary"
      BY <1>5 DEF ConnectSecondary
    <2>3. x \in Block /\ x # Genesis /\ hashPrevBlock[x] = txdb.hashBestChain
      BY <2>1, <2>2 DEF IsNext, IInv, TypeOK, DurableTip
    <2>4. QED
      BY <2>1, <2>3, BranchFacts
  <1>6. CASE ~(ConnectTip \/ CommitReorganize \/ ConnectSecondary)
    <2>1. CASE \E b \in Block \ {Genesis} : AddToBlockIndex(b)
      BY <2>1 DEF AddToBlockIndex, WriteBlockIndex, Database
    <2>2. CASE ~\E b \in Block \ {Genesis} : AddToBlockIndex(b)
      BY <1>2, <1>6, <2>2 DEF Next, EnforceCheckpoint, AcceptToMemoryPool, ConnectTipFailed,
         BeginReorganize, DisconnectTip, ReachFork, ConnectNext,
         ReorganizeFailed, SecondaryFailed, SecondaryDone, NewBest, Restart
    <2>3. QED
      BY <2>1, <2>2
  <1>7. QED
    BY <1>3, <1>4, <1>5, <1>6

\* No reorganisation, of any depth and however it ends, takes the best chain
\* off the synchronized checkpoint.
THEOREM TipKeepsCheckpointHolds == IntakeSpec => TipKeepsCheckpoint
  <1>1. IInv /\ CInv /\ [IntakeNext]_allVars =>
          [LET old == txdb.hashBestChain
               new == txdb'.hashBestChain
           IN  new # old /\ hashSyncCheckpoint \in Branch[old] =>
                 \/ hashSyncCheckpoint \in Branch[new]
                 \/ new \in Branch[old] /\ Branch[old] \cap badBlocks # {}]_allVars
    BY TipStep
  <1>2. QED
    BY <1>1, SpecCInv, PTL DEF IntakeSpec, TipKeepsCheckpoint

-----------------------------------------------------------------------------
(* The orphans: Queued is inductive, given IInv and CInv.                  *)

LEMMA BeginAcceptQueues ==
  ASSUME IInv, CInv, Queued, NEW b \in Block \ {Genesis}, BeginAccept(b),
         task # "accept", mapOrphanBlocks' \subseteq mapOrphanBlocks,
         UNCHANGED vWorkQueue
  PROVE  Queued'
  <1>1. AddToBlockIndex(b) /\ task' = "accept" /\ target' = b /\ callFailed' = FALSE
    BY DEF BeginAccept
  <1>2. /\ mapBlockIndex' = mapBlockIndex \cup {b}
        /\ \A x \in mapBlockIndex : nChainTrust'[x] = nChainTrust[x]
        /\ pc' # "idle" => hash' = b
        /\ nBestInvalidTrust' = nBestInvalidTrust
    BY <1>1, NewBlock
  <1>3. \A o \in mapOrphanBlocks : Waits(o)'
    BY <1>1, <1>2 DEF Queued, Waits
  <1>4. QED
    BY <1>1, <1>2, <1>3 DEF Queued

LEMMA AcceptedQueues ==
  ASSUME IInv, CInv, Queued, Accepted
  PROVE  Queued'
  <1>1. /\ task = "accept" /\ task' # "accept"
        /\ vWorkQueue' = Append(vWorkQueue, target)
        /\ UNCHANGED mapOrphanBlocks
        /\ UNCHANGED <<nChainTrust, nBestInvalidTrust>>
    BY DEF Accepted, CallSetBestChain, EnforceCheckpoint, memory, vars
  <1>2. vWorkQueue \in Seq(mapBlockIndex) /\ target \in mapBlockIndex
    BY <1>1 DEF CInv, IntakeTypeOK
  <1>3. /\ Len(vWorkQueue') = Len(vWorkQueue) + 1
        /\ Len(vWorkQueue) \in Nat
        /\ \A i \in 1..Len(vWorkQueue) : vWorkQueue'[i] = vWorkQueue[i]
        /\ vWorkQueue'[Len(vWorkQueue) + 1] = target
    BY <1>1, <1>2
  <1>4. ASSUME NEW o \in mapOrphanBlocks
        PROVE  Waits(o)'
    <2>1. CASE \E i \in 1..Len(vWorkQueue) : vWorkQueue[i] = hashPrevBlock[o]
      BY <1>3, <2>1 DEF Waits
    <2>2. CASE target = hashPrevBlock[o]
      BY <1>3, <2>2 DEF Waits
    <2>3. QED
      BY <1>1, <2>1, <2>2 DEF Queued, Waits, mapBlockIndex
  <1>5. QED
    BY <1>1, <1>4 DEF Queued, Waits

LEMMA NextInQueueQueues ==
  ASSUME IInv, CInv, Queued, NextInQueue
  PROVE  Queued'
  <1>1. /\ task = "queue" /\ task' # "accept"
        /\ vWorkQueue' = Tail(vWorkQueue)
        /\ ~HasOrphanChild(Head(vWorkQueue))
        /\ UNCHANGED mapOrphanBlocks
        /\ UNCHANGED <<nChainTrust, nBestInvalidTrust>>
    BY DEF NextInQueue, vars
  <1>2. vWorkQueue \in Seq(mapBlockIndex) /\ vWorkQueue # <<>>
    BY <1>1 DEF CInv, IntakeTypeOK, QueueInUse
  <1>3. /\ Len(vWorkQueue') = Len(vWorkQueue) - 1
        /\ Len(vWorkQueue) \in Nat
        /\ Head(vWorkQueue) = vWorkQueue[1]
        /\ \A i \in 1..Len(vWorkQueue) : i # 1 => vWorkQueue'[i - 1] = vWorkQueue[i]
    BY <1>1, <1>2
  <1>4. ASSUME NEW o \in mapOrphanBlocks
        PROVE  Waits(o)'
    <2>1. ASSUME NEW i \in 1..Len(vWorkQueue), vWorkQueue[i] = hashPrevBlock[o]
          PROVE  \E j \in 1..Len(vWorkQueue') : vWorkQueue'[j] = hashPrevBlock[o]
      <3>1. i # 1
        BY <1>1, <1>3, <2>1 DEF HasOrphanChild
      <3>2. i - 1 \in 1..Len(vWorkQueue') /\ vWorkQueue'[i - 1] = hashPrevBlock[o]
        BY <1>3, <2>1, <3>1
      <3>3. QED
        BY <3>2
    <2>2. QED
      BY <1>1, <2>1 DEF Queued, Waits, mapBlockIndex
  <1>5. QED
    BY <1>1, <1>4 DEF Queued, Waits

\* A step of SetBestChain: the trust of a block it fails for is noted.
LEMMA SetBestChainQueues ==
  ASSUME IInv, CInv, Queued, SetBestChainStep \/ SetBestChainFails
  PROVE  Queued'
  <1>1. /\ UNCHANGED <<mapOrphanBlocks, task, target, vWorkQueue>>
        /\ pc # "idle"
        /\ pc' # "idle" => hash' = hash /\ callFailed' = callFailed
        /\ UNCHANGED memory
    BY DEF SetBestChainStep, SetBestChainFails, intake, ConnectTip, BeginReorganize,
       DisconnectTip, ReachFork, ConnectNext, CommitReorganize, ConnectSecondary,
       SecondaryFailed, SecondaryDone, NewBest, ConnectTipFailed, ReorganizeFailed,
       ReorganizeFails, call
  <1>2. nBestInvalidTrust' \in Nat /\ nBestInvalidTrust <= nBestInvalidTrust'
    <2>1. CASE UNCHANGED nBestInvalidTrust
      BY <2>1 DEF IInv, TypeOK
    <2>2. CASE \E x \in mapBlockIndex : InvalidChainFound(x)
      BY <2>2 DEF InvalidChainFound, IInv, TypeOK
    <2>3. hash \in mapBlockIndex
      BY <1>1 DEF IInv, TypeOK
    <2>4. QED
      BY <2>1, <2>2, <2>3 DEF SetBestChainStep, SetBestChainFails, ConnectTip,
         BeginReorganize, DisconnectTip, ReachFork, ConnectNext, CommitReorganize,
         ConnectSecondary, SecondaryFailed, SecondaryDone, NewBest, ConnectTipFailed,
         ReorganizeFailed
  <1>3. task = "accept" /\ callFailed' => pc' = "idle" /\ nChainTrust[target] <= nBestInvalidTrust'
    <2>1. SUFFICES ASSUME task = "accept", callFailed'
                   PROVE  pc' = "idle" /\ nChainTrust[target] <= nBestInvalidTrust'
      OBVIOUS
    <2>2. ~callFailed /\ hash = target /\ hash \in mapBlockIndex
      BY <1>1, <2>1 DEF Queued, IInv, TypeOK
    <2>3. SetBestChainFails
      BY <2>1, <2>2 DEF SetBestChainStep, intake
    <2>4. pc' = "idle" /\ InvalidChainFound(hash)
      BY <2>3 DEF SetBestChainFails, ConnectTipFailed, ReorganizeFailed
    <2>5. QED
      BY <2>2, <2>4 DEF InvalidChainFound, IInv, TypeOK
  <1>4. ASSUME NEW o \in mapOrphanBlocks
        PROVE  Waits(o)'
    <2>1. UNCHANGED <<nChainTrust, task, target, vWorkQueue, mapBlockIndex>>
      BY <1>1 DEF memory, mapBlockIndex
    <2>2. Waits(o)
      BY DEF Queued, Waits
    <2>3. hashPrevBlock[o] \in mapBlockIndex =>
            (nChainTrust[hashPrevBlock[o]] <= nBestInvalidTrust =>
               nChainTrust[hashPrevBlock[o]] <= nBestInvalidTrust')
      BY <1>2 DEF IInv, TypeOK
    <2>4. QED
      BY <2>1, <2>2, <2>3 DEF Waits
  <1>5. QED
    BY <1>1, <1>3, <1>4 DEF Queued, Waits, memory

LEMMA StepQueued == IInv /\ CInv /\ Queued /\ [IntakeNext]_allVars => Queued'
  <1> SUFFICES ASSUME IInv, CInv, Queued, [IntakeNext]_allVars PROVE Queued'
    OBVIOUS
  <1>1. CASE \E b \in Block \ {Genesis} : ReceiveBlock(b)
    BY <1>1, BeginAcceptQueues DEF ReceiveBlock
  <1>2. CASE \E o \in Block \ {Genesis} : AcceptOrphan(o)
    BY <1>2, BeginAcceptQueues DEF AcceptOrphan, IsReleased, ForgetOrphan
  <1>3. CASE Accepted
    BY <1>3, AcceptedQueues
  <1>4. CASE NextInQueue
    BY <1>4, NextInQueueQueues
  <1>5. CASE SetBestChainStep \/ SetBestChainFails
    BY <1>5, SetBestChainQueues
  <1>6. CASE \E c \in Checkpoint : ReceiveCheckpoint(c)
    <2>1. /\ task = "idle" /\ task' # "accept"
          /\ UNCHANGED <<mapOrphanBlocks, vWorkQueue, nChainTrust, nBestInvalidTrust>>
      BY <1>6 DEF ReceiveCheckpoint, CallSetBestChain, EnforceCheckpoint, memory, vars
    <2>2. QED
      BY <2>1 DEF Queued, Waits, mapBlockIndex
  <1>7. CASE PendingReturns \/ MessageReturns
    <2>1. /\ task # "accept" /\ task' # "accept"
          /\ UNCHANGED <<mapOrphanBlocks, vWorkQueue, nChainTrust, nBestInvalidTrust>>
      BY <1>7 DEF PendingReturns, MessageReturns, vars
    <2>2. QED
      BY <2>1 DEF Queued, Waits, mapBlockIndex
  <1>8. CASE AcceptFailed
    <2>1. /\ task = "accept" /\ callFailed /\ task' # "accept"
          /\ UNCHANGED <<mapOrphanBlocks, vWorkQueue, nChainTrust, nBestInvalidTrust>>
      BY <1>8 DEF AcceptFailed, vars
    <2>2. QED
      BY <2>1 DEF Queued, Waits, mapBlockIndex
  <1>9. CASE \E b \in Block \ {Genesis} : ReceiveOrphan(b)
    <2>1. PICK b \in Block \ {Genesis} : ReceiveOrphan(b)
      BY <1>9
    <2>2. /\ hashPrevBlock[b] \notin mapBlockIndex
          /\ mapOrphanBlocks' = mapOrphanBlocks \cup {b}
          /\ UNCHANGED <<vWorkQueue, nChainTrust, nBestInvalidTrust, task, target, pc,
                         hash, callFailed>>
      BY <2>1 DEF ReceiveOrphan, vars
    <2>3. QED
      BY <2>2 DEF Queued, Waits, mapBlockIndex
  <1>10. CASE LeaveInitialDownload \/ \E o \in Block \ {Genesis} : DropOrphan(o)
    <2>1. /\ mapOrphanBlocks' \subseteq mapOrphanBlocks
          /\ UNCHANGED <<vWorkQueue, nChainTrust, nBestInvalidTrust, task, target, pc,
                         hash, callFailed>>
      BY <1>10 DEF LeaveInitialDownload, DropOrphan, ForgetOrphan, vars
    <2>2. QED
      BY <2>1 DEF Queued, Waits, mapBlockIndex
  <1>11. CASE IntakeRestart
    BY <1>11 DEF IntakeRestart, Queued
  <1>12. CASE UNCHANGED allVars
    BY <1>12 DEF Queued, Waits, allVars, vars, intake, mapBlockIndex
  <1>13. QED
    BY <1>1, <1>2, <1>3, <1>4, <1>5, <1>6, <1>7, <1>8, <1>9, <1>10, <1>11, <1>12
       DEF IntakeNext, Running, Receive, CallStep

\* When no call is in progress an orphan waits for an unknown block or for
\* one that SetBestChain failed for: the release of orphans, breadth first
\* and in the middle of it failures and checkpoints, skips none.
THEOREM OrphansWaitHolds == IntakeSpec => []OrphansWait
  <1>1. IntakeInit => Queued
    BY DEF IntakeInit, Queued
  <1>2. CInv /\ Queued => OrphansWait
    <2>1. SUFFICES ASSUME CInv, Queued, task = "idle", NEW o \in mapOrphanBlocks,
                          hashPrevBlock[o] \in mapBlockIndex
                   PROVE  nChainTrust[hashPrevBlock[o]] <= nBestInvalidTrust
      BY DEF OrphansWait
    <2>2. vWorkQueue = <<>>
      BY <2>1 DEF CInv, QueueInUse
    <2>3. 1..Len(vWorkQueue) = {}
      BY <2>2
    <2>4. QED
      BY <2>1, <2>3 DEF Queued, Waits
  <1>3. QED
    BY <1>1, <1>2, StepQueued, SpecCInv, PTL DEF IntakeSpec

\* A stake in setStakeSeenOrphan is the stake of an orphan.
THEOREM OrphanStakesHold == IntakeSpec => []OrphanStakesHeld
  <1>1. IntakeInit => OrphanStakesHeld
    BY DEF IntakeInit, OrphanStakesHeld
  <1>2. OrphanStakesHeld /\ [IntakeNext]_allVars => OrphanStakesHeld'
    <2> SUFFICES ASSUME OrphanStakesHeld, [IntakeNext]_allVars PROVE OrphanStakesHeld'
      OBVIOUS
    <2> USE DEF OrphanStakesHeld
    <2>1. CASE \E b \in Block \ {Genesis} : ReceiveOrphan(b)
      BY <2>1 DEF ReceiveOrphan
    <2>2. CASE \E o \in Block \ {Genesis} : AcceptOrphan(o) \/ DropOrphan(o)
      BY <2>2 DEF AcceptOrphan, DropOrphan, ForgetOrphan
    <2>3. CASE IntakeRestart
      BY <2>3 DEF IntakeRestart
    <2>4. CASE UNCHANGED <<mapOrphanBlocks, setStakeSeenOrphan>>
      BY <2>4
    <2>5. QED
      BY <2>1, <2>2, <2>3, <2>4 DEF IntakeNext, Running, Receive, CallStep, allVars,
         intake, LeaveInitialDownload, ReceiveBlock, ReceiveCheckpoint, AcceptFailed,
         Accepted, PendingReturns, NextInQueue, MessageReturns, SetBestChainStep,
         SetBestChainFails
  <1>3. QED
    BY <1>1, <1>2, PTL DEF IntakeSpec
=============================================================================
