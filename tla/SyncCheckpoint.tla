--------------------------- MODULE SyncCheckpoint ---------------------------
(***************************************************************************)
(* The synchronized checkpoints of checkpoints.cpp: a signed message names *)
(* a block, which becomes the checkpoint at once if it is known, and stays *)
(* pending until it arrives if it is not.  Blocks that do not descend from *)
(* the checkpoint are refused (cppolicy strict, the default).  The actions *)
(* here are the checkpoint's part of a step; module BlockIntake composes   *)
(* them with the arrival of blocks and with the best chain.                *)
(*                                                                         *)
(* WriteSyncCheckpoint commits the database before it sets the variable,   *)
(* and LoadBlockIndex reads the one from the other, so hashSyncCheckpoint  *)
(* stands for both.  This node does not own the key that signs.            *)
(***************************************************************************)
EXTENDS BestChain

CONSTANT LastHardened   \* the last block of mapCheckpoints

ASSUME HardenedAssumption == LastHardened \in Checkpoint

VARIABLES hashSyncCheckpoint,
          hashPendingCheckpoint,
          hashInvalidCheckpoint

checkpoints ==
  <<hashSyncCheckpoint, hashPendingCheckpoint, hashInvalidCheckpoint>>

\* The first start: LoadBlockIndex writes the genesis, then the key of the
\* database differs from strMasterPubKey and ResetSyncCheckpoint waits for
\* the last hardened checkpoint.
CheckpointInit ==
  /\ hashSyncCheckpoint = Genesis
  /\ hashPendingCheckpoint = IF LastHardened = Genesis THEN Null ELSE LastHardened
  /\ hashInvalidCheckpoint = Null

\* Fault: any higher block is taken, descendant or not.
ValidateByHeight(c) == nHeight[c] > nHeight[hashSyncCheckpoint]

\* ValidateSyncCheckpoint returns true: c is a later block of the branch.
ValidateSyncCheckpoint(c) ==
  /\ nHeight[c] > nHeight[hashSyncCheckpoint]
  /\ hashSyncCheckpoint \in Branch[c]

\* ... returns false: an older block of the same branch is only ignored.
Invalidate(c) ==
  hashInvalidCheckpoint' =
    IF c \in Branch[hashSyncCheckpoint] THEN hashInvalidCheckpoint ELSE c

\* Fault: a violation is noted and the block is let in.
CheckSyncAdvisory(b) == TRUE

\* CheckSync, for a block that is not in mapBlockIndex yet: one that is not
\* above the checkpoint is refused, as is one that does not descend from it.
CheckSync(b) == hashSyncCheckpoint \in Branch[hashPrevBlock[b]]

\* WriteSyncCheckpoint(c) and the end of its two callers.
Adopt(c) ==
  /\ hashSyncCheckpoint' = c
  /\ hashPendingCheckpoint' = Null
  /\ UNCHANGED hashInvalidCheckpoint

(***************************************************************************)
(* The three ways in which a signed checkpoint c is dealt with without a   *)
(* call of SetBestChain: it is not known, it is refused, or it is in the   *)
(* main chain already.                                                     *)
(***************************************************************************)

\* Fault: the checkpoint is written before its block has arrived.
WritePending(c) ==
  /\ c \notin mapBlockIndex
  /\ Adopt(c)

KeepPending(c) ==
  /\ c \notin mapBlockIndex
  /\ hashPendingCheckpoint' = c
  /\ UNCHANGED <<hashSyncCheckpoint, hashInvalidCheckpoint>>

Refuse(c) ==
  /\ c \in mapBlockIndex
  /\ ~ValidateSyncCheckpoint(c)
  /\ Invalidate(c)
  /\ UNCHANGED hashSyncCheckpoint

AdoptAtOnce(c) ==
  /\ c \in mapBlockIndex
  /\ ValidateSyncCheckpoint(c)
  /\ IsInMainChain(c)
  /\ Adopt(c)

\* ... or SetBestChain is called first; the rest follows when it returns.
CallSetBestChain(c) ==
  /\ c \in mapBlockIndex
  /\ ValidateSyncCheckpoint(c)
  /\ EnforceCheckpoint(c)
  /\ UNCHANGED checkpoints

\* SetBestChain failed for checkpoint c.
SetBestChainRefused(c) ==
  /\ hashInvalidCheckpoint' = c
  /\ UNCHANGED <<hashSyncCheckpoint, hashPendingCheckpoint>>

\* The process starts again: only the stored checkpoint is left.
CheckpointRestart ==
  /\ hashPendingCheckpoint' = Null
  /\ hashInvalidCheckpoint' = Null
  /\ UNCHANGED hashSyncCheckpoint
=============================================================================
