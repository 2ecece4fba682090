----------------------------- MODULE SharedTip -----------------------------
(***************************************************************************)
(* Two callers of ProcessNewBlock at once.  CheckStake and CheckWork take  *)
(* cs_main around their test for a stale block and the call; so do the RPC *)
(* commands.  The message handler calls ProcessNewBlock from ProcessMessage*)
(* with no lock, so its call can overlap one of theirs.                    *)
(*                                                                         *)
(* A call is the four accesses to shared state that module BestChain makes *)
(* in one run: the test for more trust (AddToBlockIndex), the choice of a  *)
(* path from the tip it reads (SetBestChain), one commit for each entry of *)
(* the path, and the assignment of the tip in memory.  Each access is one  *)
(* step here, which grants the code more than its data races do.           *)
(***************************************************************************)
EXTENDS Naturals, Sequences, FiniteSetsExt, SequencesExt

CONSTANTS Block,
          Genesis,
          hashPrevBlock,  \* the parent of every block but the genesis
          Branch,         \* Branch[b]: b and all its ancestors
          GetBlockTrust,  \* the trust one block adds to its chain
          Own,            \* the blocks this node makes itself
          Null

VARIABLES mapBlockIndex,
          pindexBest,     \* with hashBestChain and nBestChainTrust
          stored,         \* hashBestChain in the database
          cs_main,        \* the caller that holds the lock, or Null
          pc,             \* where each caller is
          pindexNew,      \* the block of its call
          path            \* the blocks it has still to commit, in order

vars == <<mapBlockIndex, pindexBest, stored, cs_main, pc, pindexNew, path>>

Thread == {"handler", "staker"}

nChainTrust(b) == MapThenSumSet(LAMBDA x : GetBlockTrust[x], Branch[b])

HasMoreTrust(b) == nChainTrust(b) > nChainTrust(pindexBest)

Init ==
  /\ mapBlockIndex = {Genesis}
  /\ pindexBest = Genesis
  /\ stored = Genesis
  /\ cs_main = Null
  /\ pc = [t \in Thread |-> "idle"]
  /\ pindexNew = [t \in Thread |-> Null]
  /\ path = [t \in Thread |-> <<>>]

\* ProcessNewBlock up to the call of SetBestChain.
AddToBlockIndex(t, b) ==
  /\ b \notin mapBlockIndex
  /\ hashPrevBlock[b] \in mapBlockIndex
  /\ mapBlockIndex' = mapBlockIndex \cup {b}
  /\ pindexNew' = [pindexNew EXCEPT ![t] = b]
  /\ pc' = [pc EXCEPT ![t] = IF HasMoreTrust(b) THEN "setbest" ELSE "return"]
  /\ UNCHANGED <<pindexBest, stored, path>>

\* The message handler has received b.
ReceiveBlock(b) ==
  /\ pc["handler"] = "idle"
  /\ b \notin Own
  /\ AddToBlockIndex("handler", b)
  /\ UNCHANGED cs_main

\* CheckStake: cs_main is free and block b, made on the tip of some moments
\* ago, is not stale.
CheckStake(b) ==
  /\ pc["staker"] = "idle"
  /\ cs_main = Null
  /\ b \in Own
  /\ hashPrevBlock[b] = pindexBest
  /\ cs_main' = "staker"
  /\ AddToBlockIndex("staker", b)

\* The blocks above x on the way to b, lowest first.
Above(x, b) ==
  SetToSortSeq(Branch[b] \ Branch[x],
               LAMBDA y, z : Cardinality(Branch[y]) < Cardinality(Branch[z]))

\* pindexIntermediate: the lowest block of the branch whose trust is more
\* than that of the tip.
Intermediate(b) ==
  CHOOSE x \in Branch[b] : /\ HasMoreTrust(x)
                           /\ \A y \in Branch[b] : HasMoreTrust(y) => x \in Branch[y]

\* SetBestChain reads the tip: one block more, or Reorganize and then the
\* postponed blocks, each in a transaction of its own.
ChoosePath(t) ==
  LET b == pindexNew[t] IN
    /\ pc[t] = "setbest"
    /\ path' = [path EXCEPT ![t] =
                  IF hashPrevBlock[b] = pindexBest \/ ~HasMoreTrust(b) THEN <<b>>
                  ELSE <<Intermediate(b)>> \o Above(Intermediate(b), b)]
    /\ pc' = [pc EXCEPT ![t] = "commit"]
    /\ UNCHANGED <<mapBlockIndex, pindexBest, stored, cs_main, pindexNew>>

\* A block is connected and its hash stored.
Commit(t) ==
  /\ pc[t] \in {"commit", "secondary"}
  /\ stored' = Head(path[t])
  /\ path' = [path EXCEPT ![t] = Tail(@)]
  /\ pc' = [pc EXCEPT ![t] = IF Len(path[t]) = 1 THEN "newbest" ELSE "secondary"]
  /\ UNCHANGED <<mapBlockIndex, pindexBest, cs_main, pindexNew>>

\* ... or does not connect: SetBestChain fails for the first block, and ends
\* with the last one committed for a postponed block.
CommitFailed(t) ==
  /\ path' = [path EXCEPT ![t] = <<>>]
  /\ \/ /\ pc[t] = "commit"
        /\ pc' = [pc EXCEPT ![t] = "return"]
        /\ UNCHANGED pindexNew
     \/ /\ pc[t] = "secondary"
        /\ pc' = [pc EXCEPT ![t] = "newbest"]
        /\ pindexNew' = [pindexNew EXCEPT ![t] = hashPrevBlock[Head(path[t])]]
  /\ UNCHANGED <<mapBlockIndex, pindexBest, stored, cs_main>>

\* The end of SetBestChain.
NewBest(t) ==
  /\ pc[t] = "newbest"
  /\ pindexBest' = pindexNew[t]
  /\ pc' = [pc EXCEPT ![t] = "return"]
  /\ UNCHANGED <<mapBlockIndex, stored, cs_main, pindexNew, path>>

\* ProcessNewBlock returns, and the lock is released by who took it.
Return(t) ==
  /\ pc[t] = "return"
  /\ pc' = [pc EXCEPT ![t] = "idle"]
  /\ pindexNew' = [pindexNew EXCEPT ![t] = Null]
  /\ cs_main' = IF cs_main = t THEN Null ELSE cs_main
  /\ UNCHANGED <<mapBlockIndex, pindexBest, stored, path>>

Next ==
  \/ \E b \in Block \ {Genesis} : ReceiveBlock(b) \/ CheckStake(b)
  \/ \E t \in Thread : \/ ChoosePath(t)
                       \/ Commit(t)
                       \/ CommitFailed(t)
                       \/ NewBest(t)
                       \/ Return(t)

Spec == Init /\ [][Next]_vars

\* With no call in progress the node is on the chain it would load from the
\* database.
TipSettled == (\A t \in Thread : pc[t] = "idle") => stored = pindexBest
=============================================================================
