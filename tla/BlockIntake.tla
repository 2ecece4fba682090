---------------------------- MODULE BlockIntake ----------------------------
(***************************************************************************)
(* How blocks and checkpoint messages from peers reach the best chain      *)
(* (ProcessNewBlock, AcceptBlock): a block whose parent is not known waits *)
(* in mapOrphanBlocks; one that is accepted releases the orphans above it, *)
(* breadth first through vWorkQueue; after every accepted block a pending  *)
(* checkpoint is tried again.                                              *)
(*                                                                         *)
(* The module composes SyncCheckpoint and BestChain: the calls of          *)
(* AddToBlockIndex and SetBestChain are the actions of BestChain, and the  *)
(* steps here are taken between them.  Peers send any block at any time,   *)
(* again and in any order.  A block that is turned away leaves no trace    *)
(* but a ban score, which belongs to the network code.                     *)
(***************************************************************************)
EXTENDS SyncCheckpoint, FiniteSetsExt

CONSTANTS Stake,      \* Stake[b]: GetProofOfStake(), Null for proof of work
          Refused,    \* blocks that fail a check of AcceptBlock
          Doubtful,   \* blocks whose kernel check depends on the coins known
          LittleWork  \* blocks with too little work for a side branch

ASSUME IntakeAssumption ==
  /\ DOMAIN Stake = Block
  /\ Refused \subseteq Block
  /\ Doubtful \subseteq Block
  /\ LittleWork \subseteq Block

VARIABLES mapOrphanBlocks,
          setStakeSeenOrphan,
          latchToFalse,   \* the initial block download is over
          task,           \* what waits for SetBestChain to return
          target,         \* the block in AcceptBlock, or the checkpoint
          callFailed,     \* SetBestChain returned false
          vWorkQueue

intake == <<mapOrphanBlocks, setStakeSeenOrphan, latchToFalse, task, target,
            callFailed, vWorkQueue>>

\* A proof of stake is in the set exactly if a block of mapBlockIndex has it,
\* AddToBlockIndex and LoadBlockIndex see to that.
setStakeSeen == {Stake[b] : b \in mapBlockIndex} \ {Null}

\* mapOrphanBlocksByPrev.count(hash) != 0
HasOrphanChild(b) == \E o \in mapOrphanBlocks : hashPrevBlock[o] = b

\* The first missing block below orphan o.
WantedByOrphan(o) ==
  CHOOSE x \in Branch[o] : /\ x \notin mapOrphanBlocks
                           /\ Branch[o] \ Branch[x] \subseteq mapOrphanBlocks

WantedByPendingSyncCheckpoint(b) ==
  /\ hashPendingCheckpoint # Null
  /\ \/ b = hashPendingCheckpoint
     \/ /\ hashPendingCheckpoint \in mapOrphanBlocks
        /\ b = WantedByOrphan(hashPendingCheckpoint)

\* Fault: the block an orphan child waits for is refused like any other.
DuplicateStakeAlways(b, seen) == Stake[b] \in seen

\* A stake that was seen before is accepted below an orphan child only.
DuplicateStake(b, seen) ==
  /\ Stake[b] \in seen
  /\ ~HasOrphanChild(b)
  /\ ~WantedByPendingSyncCheckpoint(b)

\* The tests of ProcessNewBlock in front of the one for a known parent.
Preliminary(b) ==
  /\ b \notin mapBlockIndex \cup mapOrphanBlocks
  /\ latchToFalse => ~DuplicateStake(b, setStakeSeen)
  /\ b \notin badBlocks
  /\ b \in LittleWork => \/ hashPrevBlock[b] = hashBestChain
                         \/ WantedByPendingSyncCheckpoint(b)

\* The tests of AcceptBlock let b pass, or do not.
MayPass(b) == b \notin Refused /\ CheckSync(b)
MayFail(b) == ~MayPass(b) \/ (b \in Doubtful /\ latchToFalse)

-----------------------------------------------------------------------------
IntakeInit ==
  /\ Init
  /\ CheckpointInit
  /\ mapOrphanBlocks = {}
  /\ setStakeSeenOrphan = {}
  /\ latchToFalse = FALSE
  /\ task = "idle"
  /\ target = Null
  /\ callFailed = FALSE
  /\ vWorkQueue = <<>>

\* IsInitialBlockDownload finds the tip recent enough, and never again looks.
LeaveInitialDownload ==
  /\ ~latchToFalse
  /\ latchToFalse' = TRUE
  /\ UNCHANGED <<vars, checkpoints, mapOrphanBlocks, setStakeSeenOrphan, task,
                 target, callFailed, vWorkQueue>>

\* ProcessNewBlock: the parent of b is missing.
ReceiveOrphan(b) ==
  /\ pc = "idle" /\ task = "idle"
  /\ Preliminary(b)
  /\ hashPrevBlock[b] \notin mapBlockIndex
  /\ ~DuplicateStake(b, setStakeSeenOrphan)
  /\ mapOrphanBlocks' = mapOrphanBlocks \cup {b}
  /\ setStakeSeenOrphan' = setStakeSeenOrphan \cup ({Stake[b]} \ {Null})
  /\ UNCHANGED <<vars, checkpoints, latchToFalse, task, target, callFailed,
                 vWorkQueue>>

\* AcceptBlock stores b and calls AddToBlockIndex.
BeginAccept(b) ==
  /\ MayPass(b)
  /\ AddToBlockIndex(b)
  /\ task' = "accept"
  /\ target' = b
  /\ callFailed' = FALSE
  /\ UNCHANGED checkpoints

\* ProcessNewBlock: the parent of b is known.
ReceiveBlock(b) ==
  /\ task = "idle"
  /\ Preliminary(b)
  /\ BeginAccept(b)
  /\ UNCHANGED <<mapOrphanBlocks, setStakeSeenOrphan, latchToFalse, vWorkQueue>>

\* AddToBlockIndex failed, and with it AcceptBlock: ProcessNewBlock returns,
\* or goes on with the next orphan.
AcceptFailed ==
  /\ pc = "idle" /\ task = "accept" /\ callFailed
  /\ task' = IF vWorkQueue = <<>> THEN "idle" ELSE "queue"
  /\ target' = Null
  /\ callFailed' = FALSE
  /\ UNCHANGED <<vars, checkpoints, mapOrphanBlocks, setStakeSeenOrphan,
                 latchToFalse, vWorkQueue>>

\* AddToBlockIndex succeeded: AcceptPendingSyncCheckpoint, and the block is
\* put in the queue for its orphan children.
Accepted ==
  /\ pc = "idle" /\ task = "accept" /\ ~callFailed
  /\ vWorkQueue' = Append(vWorkQueue, target)
  /\ target' = Null
  /\ LET c == hashPendingCheckpoint IN
       \/ /\ c = Null \/ c \notin mapBlockIndex
          /\ task' = "queue"
          /\ UNCHANGED <<vars, checkpoints>>
       \/ /\ c # Null
          /\ Refuse(c)
          /\ hashPendingCheckpoint' = Null
          /\ task' = "queue"
          /\ UNCHANGED vars
       \/ /\ c # Null
          /\ AdoptAtOnce(c)
          /\ task' = "queue"
          /\ UNCHANGED vars
       \/ /\ c # Null
          /\ CallSetBestChain(c)
          /\ task' = "pending"
  /\ UNCHANGED <<mapOrphanBlocks, setStakeSeenOrphan, latchToFalse, callFailed>>

\* SetBestChain returned to AcceptPendingSyncCheckpoint.
PendingReturns ==
  /\ pc = "idle" /\ task = "pending"
  /\ IF callFailed THEN SetBestChainRefused(hashPendingCheckpoint)
     ELSE Adopt(hashPendingCheckpoint)
  /\ task' = "queue"
  /\ callFailed' = FALSE
  /\ UNCHANGED <<vars, mapOrphanBlocks, setStakeSeenOrphan, latchToFalse, target,
                 vWorkQueue>>

\* An orphan child of the block at the head of the queue.
IsReleased(o) ==
  /\ task = "queue" /\ pc = "idle"
  /\ o \in mapOrphanBlocks
  /\ hashPrevBlock[o] = Head(vWorkQueue)

\* Fault: the stake of an orphan that is not accepted stays in the set.
ForgetOrphanKeepsStake(o) ==
  /\ mapOrphanBlocks' = mapOrphanBlocks \ {o}
  /\ UNCHANGED setStakeSeenOrphan

\* The orphan is erased, whether or not it was accepted.
ForgetOrphan(o) ==
  /\ mapOrphanBlocks' = mapOrphanBlocks \ {o}
  /\ setStakeSeenOrphan' = setStakeSeenOrphan \ {Stake[o]}

AcceptOrphan(o) ==
  /\ IsReleased(o)
  /\ BeginAccept(o)
  /\ ForgetOrphan(o)
  /\ UNCHANGED <<latchToFalse, vWorkQueue>>

DropOrphan(o) ==
  /\ IsReleased(o)
  /\ MayFail(o)
  /\ ForgetOrphan(o)
  /\ UNCHANGED <<vars, checkpoints, latchToFalse, task, target, callFailed,
                 vWorkQueue>>

\* Fault: one orphan child of a block is processed and the others are left.
NextInQueueEarly ==
  /\ pc = "idle" /\ task = "queue"
  /\ vWorkQueue' = Tail(vWorkQueue)
  /\ task' = IF vWorkQueue' = <<>> THEN "idle" ELSE "queue"
  /\ UNCHANGED <<vars, checkpoints, mapOrphanBlocks, setStakeSeenOrphan,
                 latchToFalse, target, callFailed>>

\* The block at the head of the queue has no orphan children left.
NextInQueue ==
  /\ pc = "idle" /\ task = "queue"
  /\ ~HasOrphanChild(Head(vWorkQueue))
  /\ vWorkQueue' = Tail(vWorkQueue)
  /\ task' = IF vWorkQueue' = <<>> THEN "idle" ELSE "queue"
  /\ UNCHANGED <<vars, checkpoints, mapOrphanBlocks, setStakeSeenOrphan,
                 latchToFalse, target, callFailed>>

\* A checkpoint message with a valid signature (ProcessSyncCheckpoint).
ReceiveCheckpoint(c) ==
  /\ pc = "idle" /\ task = "idle"
  /\ \/ /\ \/ KeepPending(c)
           \/ Refuse(c) /\ UNCHANGED hashPendingCheckpoint
           \/ AdoptAtOnce(c)
        /\ UNCHANGED <<vars, task, target>>
     \/ /\ CallSetBestChain(c)
        /\ task' = "message"
        /\ target' = c
  /\ UNCHANGED <<mapOrphanBlocks, setStakeSeenOrphan, latchToFalse, callFailed,
                 vWorkQueue>>

\* SetBestChain returned to ProcessSyncCheckpoint.
MessageReturns ==
  /\ pc = "idle" /\ task = "message"
  /\ IF callFailed THEN SetBestChainRefused(target) ELSE Adopt(target)
  /\ task' = "idle"
  /\ target' = Null
  /\ callFailed' = FALSE
  /\ UNCHANGED <<vars, mapOrphanBlocks, setStakeSeenOrphan, latchToFalse,
                 vWorkQueue>>

\* A step of SetBestChain, and its return in failure.  Payees are compared
\* after the initial download only; the free verdict of BestChain covers
\* both cases.
SetBestChainStep ==
  /\ \/ ConnectTip
     \/ BeginReorganize
     \/ DisconnectTip
     \/ ReachFork
     \/ ConnectNext
     \/ CommitReorganize
     \/ ConnectSecondary
     \/ SecondaryFailed
     \/ SecondaryDone
     \/ NewBest
  /\ UNCHANGED <<checkpoints, intake>>

SetBestChainFails ==
  /\ ConnectTipFailed \/ ReorganizeFailed
  /\ callFailed' = (task # "idle")
  /\ UNCHANGED <<checkpoints, mapOrphanBlocks, setStakeSeenOrphan, latchToFalse,
                 task, target, vWorkQueue>>

\* The process stops and starts again; what it held in memory only is gone.
IntakeRestart ==
  /\ Restart
  /\ CheckpointRestart
  /\ mapOrphanBlocks' = {}
  /\ setStakeSeenOrphan' = {}
  /\ latchToFalse' = FALSE
  /\ task' = "idle"
  /\ target' = Null
  /\ callFailed' = FALSE
  /\ vWorkQueue' = <<>>

\* A step of a call that has begun.
CallStep ==
  \/ \E o \in Block \ {Genesis} : AcceptOrphan(o) \/ DropOrphan(o)
  \/ AcceptFailed
  \/ Accepted
  \/ PendingReturns
  \/ NextInQueue
  \/ MessageReturns
  \/ SetBestChainStep
  \/ SetBestChainFails

Receive(b) == ReceiveOrphan(b) \/ ReceiveBlock(b)

Running ==
  \/ LeaveInitialDownload
  \/ \E b \in Block \ {Genesis} : Receive(b)
  \/ \E c \in Checkpoint : ReceiveCheckpoint(c)
  \/ CallStep

IntakeNext == Running \/ IntakeRestart

allVars == <<vars, checkpoints, intake>>

IntakeSpec == IntakeInit /\ [][IntakeNext]_allVars

(***************************************************************************)
(* The node stays up; the message handler finishes every call it begins    *)
(* (it runs to the end of the handler) and peers send a block as long as   *)
(* it could be taken: they announce it to every new connection and answer  *)
(* the getblocks and getdata requests that an orphan causes.               *)
(***************************************************************************)
FairSpec ==
  /\ IntakeInit
  /\ [][Running]_allVars
  /\ WF_allVars(CallStep)
  /\ \A b \in Block \ {Genesis} : WF_allVars(Receive(b))

-----------------------------------------------------------------------------
(* Properties.                                                             *)

\* Type invariant.  hashSyncCheckpoint is a block of mapBlockIndex, which
\* CheckSync asserts; target and the queue are in use during a call only.
IntakeTypeOK ==
  /\ hashSyncCheckpoint \in mapBlockIndex
  /\ hashPendingCheckpoint \in Checkpoint \cup {Null}
  /\ hashInvalidCheckpoint \in Checkpoint \cup {Null}
  /\ mapOrphanBlocks \subseteq Block \ {Genesis}
  /\ latchToFalse \in BOOLEAN
  /\ callFailed \in BOOLEAN
  /\ task \in {"idle", "accept", "pending", "message", "queue"}
  /\ target \in IF task \in {"accept", "message"} THEN mapBlockIndex ELSE {Null}
  /\ vWorkQueue \in Seq(mapBlockIndex)

\* The checkpoint only moves to a descendant of itself, by a message, by a
\* block that was waited for, and over a restart.
CheckpointAdvances ==
  [][hashSyncCheckpoint' # hashSyncCheckpoint =>
       hashSyncCheckpoint \in Branch[hashSyncCheckpoint']]_allVars

\* The best chain never leaves the checkpoint: a commit that starts on a
\* chain that holds the checkpoint ends on one, unless CheckBlock rejects a
\* block of that chain on a restart.
TipKeepsCheckpoint ==
  [][LET old == txdb.hashBestChain
         new == txdb'.hashBestChain
     IN  new # old /\ hashSyncCheckpoint \in Branch[old] =>
           \/ hashSyncCheckpoint \in Branch[new]
           \/ new \in Branch[old] /\ Branch[old] \cap badBlocks # {}]_allVars

\* Between calls an orphan waits for a block that is not known, or for one
\* that SetBestChain failed for (InvalidChainFound has noted its trust).
OrphansWait ==
  pc = "idle" /\ task = "idle" =>
    \A o \in mapOrphanBlocks :
      hashPrevBlock[o] \in mapBlockIndex =>
        nChainTrust[hashPrevBlock[o]] <= nBestInvalidTrust

\* No stake is held against later orphans once the orphans that had it are
\* gone.
OrphanStakesHeld ==
  setStakeSeenOrphan \subseteq {Stake[o] : o \in mapOrphanBlocks}

\* The trust of the whole chain that ends in b.
Weight(b) == MapThenSumSet(LAMBDA x : GetBlockTrust[x], Branch[b])

\* However the blocks arrive, and though a block made with a stake that was
\* seen before is turned away until a child of it waits as an orphan, the
\* node ends on a chain of greatest trust.
HeaviestAdopted ==
  <>[](\A b \in Block : Weight(b) <= nChainTrust[pindexBest])

\* A block waits in the holding area only until its parent arrives.
\* The code does not keep this: README, section 7.
OrphansReleased ==
  pc = "idle" /\ task = "idle" =>
    \A o \in mapOrphanBlocks : hashPrevBlock[o] \notin mapBlockIndex
=============================================================================
