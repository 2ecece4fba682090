# Formal models of the Neutron node

This directory holds TLA+ models of the Neutron full node (`src/src`), a
proof-of-stake coin descended from Bitcoin, PPCoin and Darkcoin: the modules,
the TLC configurations that check them on small instances, and TLAPS proofs of
the most important properties for instances of every size. `PROJECT.json` maps
every definition to the lines it models, lists the runs, the faults each
property detects, the theorems, the findings and the hazards of the code.

Contents: 1 the system; 2 modules; 3 runs and what they show; 4 bounds;
5 fairness; 6 proofs; 7 findings; 8 abstractions and limits; 9 plan;
10 running the checks.

## 1. The system

One process, several threads: the message handler (`ThreadMessageHandler`, which
runs `ProcessMessages` and `SendMessages` for every peer), socket and connection
threads, the staker (`ThreadStakeMiner`), RPC threads, the masternode thread and
the wallet flush thread. Threads share global state. Most of it is meant to be
guarded by `cs_main`, which RPC commands, the miner and the staker take and the
message handler does not take when it handles a message.

| component | state | operations | what makes it correct |
|---|---|---|---|
| block index and best chain (`main.cpp`, `txdb-leveldb.cpp`) | `mapBlockIndex`, `pnext`, `pindexBest`, `hashBestChain`, trust; LevelDB records, tx index | `AddToBlockIndex`, `SetBestChain`, `Reorganize`, `ConnectBlock`, `DisconnectBlock`, `LoadBlockIndex` | memory and database describe one chain through failures and restarts; the tip gains trust; the index holds exactly what the best chain spends |
| memory pool (`txmempool.cpp`) | `mapTx`, `mapNextTx` | `accept`, `remove`, `removeConflicts` | one spender per output; a reorganisation loses no payment that the pool would take |
| block intake (`main.cpp`) | `mapOrphanBlocks`, `setStakeSeenOrphan`, work queue | `ProcessNewBlock`, `AcceptBlock` | blocks in any order lead to the heaviest chain; no orphan is forgotten |
| synchronized checkpoints (`checkpoints.cpp`) | current, pending and invalid checkpoint | `ProcessSyncCheckpoint`, `AcceptPendingSyncCheckpoint`, `CheckSync` | the checkpoint only advances; the best chain never leaves it |
| orphan transactions (`main.cpp`) | `mapOrphanTransactions` and its index | tx message, `AddOrphanTx`, `EraseOrphanTx`, `LimitOrphanTxSize` | both maps agree, bounded; a release reaches every orphan it can |
| scheduler (`scheduler.cpp`) | `taskQueue`, stop flags | `schedule`, `scheduleEvery`, `stop`, `serviceQueue` | queued tasks run; `stop` ends the threads |
| miner and staker (`miner.cpp`) | block template, coin search | `CreateNewBlock`, `CheckStake`, `CheckWork` | a block made on a stale tip is not submitted |
| masternode list and payments (`masternode.cpp`, `activemasternode.cpp`, `darksend.cpp`) | `vecMasternodes`, `vWinning`, seen votes | dsee, dseep, mnw messages, ranking, payment choice | nodes that saw the same messages agree on a payee; expired entries go |
| sporks (`spork.cpp`) | `mapSporks`, `mapSporksActive` | spork and getsporks messages, `UpdateSpork` | what is announced can be served; nodes end with the spork signed last |
| wallet (`wallet.cpp`, `walletdb.cpp`, `db.cpp`, `keystore.cpp`, `crypter.cpp`) | `mapWallet`, spent flags, key pool, keys, master keys | sync with blocks and pool, create and commit, key pool, encrypt, lock | spent flags follow the chain; no key is handed out twice; no plain key survives encryption |
| network (`net.cpp`, `addrman.cpp`, `addrdb.cpp`) | `vNodes`, inventory queues, `mapAlreadyAskedFor`, ban list, address tables | connect, disconnect, `AskFor`, ban, `Good`, `Attempt` | a node object is freed once and unused; what is asked for is asked again; tables agree |
| clock (`timedata.cpp`), alerts (`alert.cpp`) | time samples; `mapAlerts` | `AddTimeData`; `ProcessAlert` | the offset is bounded; cancelled alerts do not return |
| rewards, retarget, kernel (`main.cpp`, `kernel.cpp`) | pure functions over the chain | `GetNextTargetRequired`, rewards, stake modifier | bounds, no overflow, the same result on every node |
| script, RPC, start-up, GUI, utilities | - | - | not protocol state, or out of reach (section 8) |

Interactions: a block message goes to intake, intake calls the best chain, the
best chain changes index, pool and wallets; an accepted block tries a pending
checkpoint, which calls the best chain again. `ConnectBlock` asks the masternode
payments about the payee and the sporks about thresholds. The wallet and RPC
commands put transactions in the pool that the tx message also fills.

Hard behaviours: a stop between two database transactions of one
reorganisation; failure of one block among several; handlers that run without
the lock other callers hold; out-of-order and repeated messages; votes that
differ between nodes; retries of inventory requests. `PROJECT.json` lists them as
hazards at the lines where they bite.

## 2. Modules

```
TxIndex <- TxPool <- BestChain <- SyncCheckpoint <- BlockIntake
                  <- OrphanTx      BestChain implements ChainTip
SharedTip: two callers of ProcessNewBlock      Scheduler: CScheduler
Spork, Inventory, MasternodeList: nodes and their messages
KeyPool, WalletSpent: the wallet
ChainProofs (BestChain and BlockIntake), OrphanTxProofs, SchedulerProofs, SporkProofs,
InventoryProofs, MasternodeListProofs, KeyPoolProofs, WalletSpentProofs: theorems
MC*: instances for TLC
```

- **TxIndex** - the transaction index as a function from transactions to block
  position and spender of each output; `FetchInputs`, `ConnectInputs`,
  `CalculateBlockAmounts` and `DisconnectBlock` as operators on it.
- **TxPool** - the pool as a set; `accept`, which refuses what is `Nonstandard` (not
  `IsStandard`, or a lock time after 2038; blocks may hold it), recursive `remove`,
  `removeConflicts`, the queue of transactions to resurrect and the two loops over the
  pool at the end of `Reorganize`.
- **BestChain** - the state machine of `AddToBlockIndex` and `SetBestChain`. A
  call is a sequence of steps, one for each block connected or disconnected and
  for each commit, so that `Restart` can happen between any two. `txdb` is the
  database, `batch` the open `WriteBatch` as its reads see it. The program counter
  `pc` and `hash`, `pindexIntermediate`, `pindex`, `vResurrect`, `vDelete` are the
  local variables of the call. The payee check is a free outcome for every block
  (it depends on the node's payment list); the other contextual checks are the set
  `Valid`.
- **ChainTip** - what the best-chain code promises: a stored tip that moves one
  commit at a time, up in trust, to a checkpoint or down from a flawed block, and
  a shown tip that follows it.
- **SyncCheckpoint** - the checkpoint's part of each step; **BlockIntake** - the
  composition: messages with blocks and checkpoints, orphans, the work queue, and
  the calls of `SetBestChain` with what happens when they return.
- **SharedTip** - the same call reduced to its accesses of shared state, made by
  the message handler without `cs_main` and by the staker with it.
- **OrphanTx** - the tx message and the orphan maps, over the pool of TxPool, while
  other threads use the pool. `accept` is two steps (tests, then `addUnchecked`).
- **Scheduler** - service threads, callers, the condition variable and time. Times
  are relative to the present, so no horizon is needed.
- **Spork** - every node's `mapSporks` and `mapSporksActive`, and for every connection
  `mapAskFor`, the fulfilled requests and the messages under way. One action for each
  message (inv, getdata, spork, getsporks), for the spork command, for the sending of
  due requests and for the periodic request of `ThreadCheckDarkSendPool`; connections
  break and nodes restart. `GetHash` hashes memory with padding, so the hash a node
  computes is the spork with one of several paddings.
- **Inventory** - one node and its peers: `mapAlreadyAskedFor`, the queue `mapAskFor` of
  each peer with the time of each entry, `setInventoryKnown` and `vInventoryToSend`.
  Actions: the inv and tx messages, `SendMessages` for a peer (with or without the
  trickle), the end and the start of a connection, a minute. `setInventoryKnown` is an
  `mruset` of 1000 entries (`net.cpp:2722`): any item in it may be forgotten (`Forget`),
  pushed out by others that are not modelled. `everKnown` is a history variable, all it
  held on this connection.
- **MasternodeList** - the entry of one masternode on the list of every node, with the
  time it was seen, the time of the last ping taken, the state `Check` gave it, and
  the status of the masternode itself. Actions: `ManageStatus` (registration, ping),
  `StopMasterNode`, the messages dsee, dseep and dseg, `CheckAndRemove`, the request
  for whole lists; lost messages, restarts, a spent collateral, a minute.
- **KeyPool** - `setKeyPool` in memory, the records of the wallet file, the `CReserveKey`
  of every thread. Actions: `TopUpKeyPool`, `GetReservedKey`, `KeepKey`, `ReturnKey`,
  `GetKeyFromPool`, `CheckWork`, `EncryptWallet` with `NewKeyPool`, lock, unlock, and a
  stop of the process with `LoadWallet`.
- **WalletSpent** - the chain, the pool, `mapWallet` and the spent marks. Actions:
  a transaction received or committed, a block connected, `SetBestChain` with
  `Reorganize` as a whole or aborted in the middle (with what the wallet was told by
  then), the start with its rescan and `ReacceptWalletTransactions`, and `repairwallet`.
  The blocks of the branch beyond the first that outweighs the tip are `postponed`:
  `SetBestChainInner` passes `reorganize` to `ConnectBlock` as `fJustCheck`
  (`main.cpp:1987`, `2080`), which returns before the index is written and the wallet is
  told (`main.cpp:1826`). They are in the chain and not in the index (`InIndex`), which
  the pool, a start and a repair go by; a scan after a start does not get past them,
  because the link to them is not on disk (`ReadFrom`).

Definitions whose comment begins with "Fault:" are small changes of the
definition that follows them, used to show that a property can fail; the
specifications do not use them.

## 3. Runs

| run | specification | result |
|---|---|---|
| best_chain | BestChain, two branches, an invalid block, conflicting payments, payee verdicts, restart at any step, a block that a later version rejects | `TypeOK`, `DurableTip`, `LinksOnBestChain`, `IndexOnBestChain`, `SpendsAreMarked`, `TipGainsTrust`, `PoolFitsNewBranch`, `ReorganizeKeepsPayments`, `ImplementsChainTip` hold |
| block_intake | BlockIntake, blocks and checkpoints in any order, shared stakes, restarts | `IntakeTypeOK`, `OrphansWait`, `OrphanStakesHeld`, `CheckpointAdvances`, `TipKeepsCheckpoint` hold |
| heaviest_adopted | BlockIntake under `FairSpec` | `HeaviestAdopted` holds |
| orphan_tx | OrphanTx, four possible orphans with a limit of two, wallet and blocks at work | `OrphanTxTypeOK`, `OrphanIndexExact`, `ReleaseIsComplete` hold |
| scheduler_live | Scheduler under `FairSpec`, two threads, a periodic and a single task, spurious wake-ups | `SchedulerSafe` (order of the queue, a task in one place, no lost wake-up, nobody waits behind `stop`), `QueuedTasksRun`, `StopEnds` hold |
| spork | Spork under `FairSpec`, two key holders whose clocks disagree, a break or restart | `SporkTypeOK`, `AnnouncedIsServed`, `SporksConverge` hold |
| inventory | Inventory under `FairSpec`, two peers that stay and one that comes and goes, known items forgotten | `InventoryTypeOK`, `DelayBounded`, `ItemArrives`, `ItemSpreads` hold |
| masternode_list | MasternodeList under `FairSpec`, the masternode and a peer, a clock that wanders, two faults | `MasternodeTypeOK`, `SeenSincePing`, `RunningIsListed`, `GoneIsDropped` hold |
| key_pool | KeyPool, a miner and another holder, commands, encryption, crashes | `KeyPoolTypeOK`, `OneOwner`, `PoolReadable`, `IndexWrittenOnce`, `UsedNotStored` hold |
| wallet_spent | WalletSpent, payments, a coinstake, reorganisations that may fail or postpone blocks, restarts, repairs | `WalletTypeOK`, `ConfirmedSpendMarked`, `StakeRefunded` hold |
| double_spend | BestChain on a chain that breaks the rule | violated: finding 1 |
| shared_tip | SharedTip | violated: finding 2 |

Every passing property has a fault in `PROJECT.json` ("mutants") under which the
same run reports a violation.

## 4. Bounds

Every bound is a constant of a configuration, none is a constraint on states:
the sets of blocks, transactions, tasks and threads are finite, so the state
spaces are.

- BestChain: nine blocks. Branch a is longer and lighter per block, so a
  reorganisation to b has one intermediate and one postponed block, one to a has
  several; x is the invalid block at the top. Payments t1-t2-t3 make a chain of
  dependents across blocks, u conflicts with its root, w is on both branches, v is
  nonstandard and s spends it. The
  threshold of spork 12 is 2, so that a wrong payee is refused after one
  postponed block and let through after two.
- BlockIntake: seven blocks, the two branches share two stakes, one block is
  doubtful to the kernel check and one has too little work for a side branch;
  checkpoints on the trunk and on both branches.
- DoubleSpend: the least chain with a second spend.
- SharedTip: a chain of two from the peer and one own block: the shortest in which
  a call has more than one commit.
- OrphanTx: a transaction with two parents of which one is itself an orphan, a
  conflict, a transaction that is found bad only when its parent arrives, one that
  is too large to keep; limit 2, exceeded by one.
- Scheduler: two tasks of delay 1 and 2, one periodic, two threads; a third thread
  adds no new kind of wait.
- Spork: two nodes that both hold the key, two signing times, two paddings at one of
  them, two spork commands and one break or restart. A peer is not sent a second
  getsporks before the first is answered, which bounds the messages under way. Longer
  ways through the network are covered by the proof for every network.
- Inventory: one item, two peers that stay (one may have announced it, the other is to
  be told) and one that leaves and returns; four announcements, so that a request can
  be three delays away; a delay is two ticks.
- MasternodeList: the owner and one peer, expiration after 4 minutes and removal after
  5, pings taken after more than 1, a clock that is off by 0 or 1: the smallest numbers
  with the order the code's constants have. Two registrations and two faults.
- KeyPool: a pool of one key, so that it runs dry, two holders, six keys; enough to
  encrypt and refill the pool with both holders out.
- WalletSpent: seven transactions (two coins, a payment of both with change, two
  payments that compete for the change, a coinstake that competes with the first, a
  foreign one), branches of up to two blocks that take the place of any number: one that
  is told and one that is postponed, or two that are told. The proofs are for any length.

## 5. Fairness

- `BlockIntake!FairSpec`: the node stays up; a call that has begun is carried to its
  end (the handler runs to the end of the message); a block that the node could
  take is offered again. Peers announce their chain to every new connection and
  answer the `getblocks` and `getdata` that an orphan triggers, so an honest peer's
  block is offered until taken. Checkpoint messages need not arrive.
- `Scheduler!FairSpec`: callers leave `schedule` and `stop`, each service thread gets
  the processor, tasks return, time passes, and waits do not end spuriously so often
  that none ever times out; nobody interrupts a thread. `stop` is called at most once
  for each kind, since each call wakes every thread.
- `Spork!FairSpec`: the message thread visits every peer in turn, due requests are sent,
  and the peer drawn by lot in `ThreadCheckDarkSendPool` is each of them again and again.
- `Inventory!FairSpec`: time passes, the peers in `Reliable` are visited with the trickle
  turn (drawn by lot in every round of `ThreadMessageHandler`) and answer a getdata.
  Nothing is assumed of the other peers.
- `MasternodeList!FairSpec`: the thread of every node makes its rounds, messages that are
  not lost arrive, a masternode that is up registers and pings. The number of losses
  is bounded, nothing is assumed of the periodic request for lists.

No liveness is claimed without these.

## 6. Proofs

All theorems are for every value of the constants that satisfies the assumptions.

Assumptions. `TreeAssumption`: `hashPrevBlock` makes a tree with `Branch` its
ancestor sets. `TrustAssumption`: every block adds some trust (`GetBlockTrust` is
at least 1 in the code). `TxAssumption`, `IntakeAssumption`: the types of the
constants; an input names a transaction and an output of it. `HardenedAssumption`: the last hardened checkpoint is a checkpoint.
`OrphanTxAssumption`: finitely many transactions. `SporkAssumption`: links go
both ways. `InventoryAssumption`: the delay between retries is not 0.
`MasternodeAssumption`: the time limits are in the order of the code's, and the clock
that signs pings wanders by at most `Drift` (section 8). `KeyPoolAssumption`: the bound
on the keys generated exceeds the size of the pool. `WalletAssumption`,
`SchedulerAssumption`: types.
`NoneAssumption`, `NoEntryAssumption`: the value for "none" is not a value. TLC evaluates
each on every run of the module.

**ChainProofs, first part: BestChain.** `TypeCorrect`, `DurableTipHolds`, `LinksHold`,
`TipGainsTrustHolds` and `Refinement` (`Spec => ImplementsChainTip`). The inductive
invariant `IInv` has five parts. None of the properties is inductive alone: that a
commit raises the trust of the stored tip needs the reason the call was made
(`MayReplace`, in `Frame`), that reason must survive the choice of
`pindexIntermediate`, which needs height and trust to increase along a branch
(`Tree`, itself an invariant of `AddToBlockIndex` and not an assumption); that links
never leave the best chain needs the batch to agree with the position of
`Reorganize` (`Links`), because `ConnectBlock` writes the stale `pnext` of memory into
the record of the block; and that a restart finds the tip needs `DurableTip` in its
two phases.

`IndexHolds` (`IndexOnBestChain`) and `PoolFitsHolds` (`PoolFitsNewBranch`) are about what
the loops over a block compute, which are recursive functions here. The library's
induction cannot be used, so the module has its own, with the predicate as a function to
sets: `LoopExists` (a loop whose steps stay in a set has the function that its definition
chooses) and `LoopKeeps` (what each step keeps holds at the end), both from the least
counterexample (`NatMin`). The invariant `Index` says of the database and of the open
batch, each for the branch it stands for, that an entry is that of a block of the branch
which holds the transaction, and that a spent mark is that of a block of the branch with
a transaction that spends the output. Disconnecting a block keeps it because the block
erases its own entries and resets the marks of its inputs; connecting keeps it because
it only writes its own block. The facts about the loops are stated once (`CalculateLoop`,
`DisconnectLoop`) and used for each invariant that a loop keeps.

`SpendsMarkedHolds` is `SpendsAreMarked` under a condition: `HonestBlocks`, no chain of
known blocks has a transaction or spends an output twice. Without it the property is
false, and the code lets such blocks in (finding 1); the condition is what the skipped
test would enforce, and `MCHonest` shows that the blocks of `best_chain`, forks, an
invalid block and shared transactions included, satisfy it. `IndexOnBestChain` does not
imply it: there a mark may be that of any transaction of the branch that spends the output, and
nothing says that a spender has left its mark. The invariant `Spends` therefore speaks of
places (a block and a position in it). `Entered`: an entry is that of a place, and
each of its inputs comes from an earlier place (`Before`) that has an entry with this
block as its mark. `Backed`: a mark is that of a place which spends the output. The order
is needed for disconnection, which goes from the last transaction to the first: when an
entry is erased nothing that is left spends it, and a mark that is reset was that of
the transaction just removed, since no other spends the output. `Upto` names the places
that are still connected in the middle of a block.

`ReorganizeKeepsHolds` is `ReorganizeKeepsPayments`, for constants that satisfy
`HonestBlocks(Block)`. `PaymentsKept`, its substance, is about the operators and any lists: a payment among the
transactions disconnected that is not `Nonstandard` is in the pool afterwards, or in the new branch, or hit by a
conflict, or excluded by another of the payments disconnected. The last case cannot
be when these come from one chain: `Resurrects` says that `vResurrect` holds transactions
at places of the old branch, which do not conflict.

**ChainProofs, second part: BlockIntake.** `IntakeImplementsBestChain`: every step of the
composition is a step of BestChain or leaves it alone, so the theorems above carry over;
`IntakeKeepsBestChain` states them for the composition. On top of
it `IntakeTypeCorrect` (with it the assertion of `CheckSync` that the checkpoint is
known), `CheckpointAdvancesHolds`, `TipKeepsCheckpointHolds`, `OrphansWaitHolds` and
`OrphanStakesHold`. The argument for `TipKeepsCheckpoint`: the call of `SetBestChain`
is for a block above the checkpoint (`Purpose`); the block committed,
`pindexIntermediate`, lies on the same branch; branches are lines (`Linear`), so it is
above the checkpoint or the checkpoint above it; in the second case it has less
trust than a checkpoint on the old chain, hence no more than the old tip, which the
choice of `pindexIntermediate` excludes. `Queued` follows the orphans through the
work queue for `OrphansWait`.

**OrphanTxProofs.** `OrphanTxTypeCorrect` (the limit included), `OrphanIndexHolds` and
`ReleaseHolds` (`ReleaseIsComplete`). The last speaks of the end of the loop only; its
invariant `Release` says what the loop owes in the middle: every orphan with a parent in
the queue is still to be tried, or is erased, or lacks an input, or another thread
supplied one late (`Progress`). This needs the loop variables to belong together
(`Cursor`), the known transactions to have known inputs (`Closed`), and what the verdict
of `accept` still says when it is used although the pool changed since (`Judged`).

**SchedulerProofs.** `SchedulerSafeHolds`, for any number of threads, tasks and delays.
`SchedulerSafe` is inductive as it stands. `InTimeOrder` needs the place that
`multimap::insert` chooses: the entries due no later than the new one are an initial
segment of a queue in order, as long as they are many (`SoonerIsPrefix`, by
cardinalities), so the entry behind them keeps the order (`InsertKeeps`). `AtMostOnce`
needs its three parts together: a task that is taken was in the queue once and ran nowhere,
so two threads that time out on the same task take two different ones; a periodic task
that goes back was not queued while it ran. That an owner does not schedule a task again
while it is queued or runs is a guard of `Schedule` (section 8). `NoLostWakeup` and
`StopWakesAll` are the safety part of `QueuedTasksRun` and `StopEnds`: only a thread that
finds the queue empty begins to wait, every insertion is followed by a notification, and
a thread that ends passes its own on (`WakeupKept`).

**SporkProofs.** `SporkTypeCorrect` and `AnnouncedIsServedHolds`, for every network (any
set of nodes and symmetric links), any signers, paddings and numbers of faults; the
assumptions are `SporkAssumption` and `NoneAssumption`. `AnnouncedIsServed` is inductive
together with the types: a node never removes a hash from `mapSporks` except in a
restart, and a restart also ends the connections on which the hash was announced,
waits in the peer's `mapAskFor` or is asked for. The proof has one lemma for each
action about the messages it adds or takes from a connection.

**InventoryProofs.** `InventoryTypeCorrect` and `DelayBoundedHolds`. The first includes
that a request queued for or sent to a peer is for an item that was known of it on this
connection; since `setInventoryKnown` forgets, it is stated of `everKnown`. `DelayBounded` is about
the requests that wait; the next one is put after the time in `mapAlreadyAskedFor`, which
outlives them and which `SendMessages` sets back, so `Delays` bounds that too.

**MasternodeListProofs.** `MasternodeTypeCorrect` and `SeenSincePingHolds`. An entry that
is not enabled takes pings without being seen, and `Check` may enable it later.
`SoundEntry` therefore says of entries in every state what must hold then: seen at most
`Drift` before the last ping, or so old that only being seen enables it again; and,
since `Check` runs once a minute, that the verdict of this minute still fits the age.

**KeyPoolProofs.** `KeyPoolTypeCorrect`, `OneOwnerHolds`, `PoolReadableHolds`,
`IndexWrittenOnceHolds` and `UsedNotStoredHolds`. `OneOwner` rests on the file: a key is
stored under one index (`Records`), and what a thread holds is a record of its own that
is not on offer (`Holds`). These hold while no index was written again; that this cannot
be before the wallet is encrypted is `Above`: there is an index on offer above each one
held, because the pool hands out its lowest index and is topped up to one more than its
size before it does.

**WalletSpentProofs.** `WalletTypeCorrect`, `ConfirmedSpendMarkedHolds` and
`StakeRefundedHolds`. Connecting a transaction again marks its output unspent, which is
right only since the chain spends nothing before it is made, nothing twice
(`ValidChain`) and nothing that a postponed block made (`IndexClosed`, because
`FetchInputs` looks in the index); a restart and a repair mark what the wallet knows, so
it must know all of the index that involves it (`Good`). A reorganisation tells the wallet
of one block after the other: `Good` is kept for the part of the chain, and of the index,
that is connected at each of these steps, and `ToldIn` is the induction over them. The
postponed blocks then join the chain and not the index, which `Good` allows
(`PostponedKeepsGood`). The theorem on marks is about the index: for the whole chain it
is false (`EverySpendMarked`, section 7).

Only model-checked:

- the liveness properties (`HeaviestAdopted`, `QueuedTasksRun`, `StopEnds`,
  `SporksConverge`, `ItemArrives`, `ItemSpreads`, `RunningIsListed`, `GoneIsDropped`),
  which this prover does not handle.

Every other property of a passing run is a theorem, two of them (`SpendsAreMarked` and
`ReorganizeKeepsPayments`) for blocks without double spends. The model makes the same
distinction: TLC checks them on such blocks.

## 7. Findings and observations

Findings: each is the subject of a run that TLC refutes; `PROJECT.json` quotes the
lines.

1. `double_spend`, `NoDoubleSpend`: `SetBestChainInner` calls `ConnectBlock` with one
   argument missing, so the double-spend test, and with it the test against overwriting
   a transaction, is skipped for every block that extends the tip.
2. `shared_tip`, `TipSettled`: the message handler changes the best chain without
   `cs_main`; memory and database can end on different tips.

Observations: properties that the modules state and the code does not keep. TLC
refutes each when it is added to the cfg named (as an INVARIANT, with `SPECIFICATION
Spec` where the cfg has `FairSpec`).

- `TipPointersAgree` (BestChain.cfg): when a postponed block fails, `hashBestChain`
  names a block that was never connected while `pindexBest` is below it.
- `OrphansReleased` (BlockIntake.cfg): when `SetBestChain` fails for a stored block, the
  orphans above it are stuck.
- `EveryPaymentKept` (BestChain.cfg): `Reorganize` gives the payments it disconnects back
  to `accept`, which refuses a nonstandard one, or one with a lock time after 2038
  (`txmempool.cpp:49-54`), although a block may hold it; it is lost from the node.
  `ReorganizeKeepsPayments` is about the others.
- `WalletsToldOfPool` (OrphanTx.cfg): an accepted orphan is announced to the wallets
  with its parent in its place (`main.cpp:3968`).
- `PoolHasNoConflict` (OrphanTx.cfg): the pool can hold two spenders of one output,
  since `accept` is not atomic.
- `EveryTaskRuns` (as a PROPERTY in SchedulerLive.cfg, with `Service = {}`): the node
  starts no thread in `serviceQueue`, so the periodic dump of addresses and bans never
  happens.
- `RetriesApart` (Inventory.cfg): `net.cpp:2770` says "Each retry is 2 minutes after the
  last", but `SendMessages` sets the time of the last request back to the present
  (`main.cpp:4502`) while later ones are queued, so the next announcement is queued
  for the same time as one of these. `DelayBounded` and `ItemArrives` hold nevertheless.
- `MinedKeyRemoved` (KeyPool.cfg): `miner.cpp:506` says "Remove key from key pool", but the
  key in the coinbase was reserved by a local of `CreateNewBlock` that returns it at the
  end of the call (`miner.cpp:136`); the one `CheckWork` keeps is empty, and the key of a
  block that was found is handed out again.
- `CommitAccepted` (WalletSpent.cfg): `wallet.cpp:2860` says of the pool's acceptance "This
  must not fail"; a transaction that is connected has its outputs marked unspent
  (`wallet.cpp:464`) although a payment in the pool spends them, so the next payment
  picks them and is refused.
- `EverySpendMarked` (WalletSpent.cfg): a coin that a postponed block spends stays
  unmarked, since the wallet is not told of the block and the index does not have the
  spend; neither a start nor `repairwallet` finds it, as both go by the index.
  `ConfirmedSpendMarked` is about what the index has. It has the root of finding 1.

The models also show the following, which has the root of findings 1 and 2 and no
run of its own. A postponed block is connected as if it were only checked
(`fJustCheck`): its transactions do not reach the transaction index, and its parent
has no `hashNext` after a restart; `IndexOnBestChain` and `LinksOnBestChain` therefore
state that what the database holds is right, not that it is complete. A checkpoint can be
stored although the best chain ends below it, since `SetBestChain` reports success
when a postponed block failed. With two service threads the scheduler can run a
task before its time: after a timed wait it takes the first task, whichever it is.

Of the newer modules: two sporks signed in the same second are each kept by the nodes
that saw them first, for good. `EncryptWallet` throws the pool away and numbers it from 1
again, and when a locked pool runs dry while a key is out its index is written again;
`OneOwner` and `PoolReadable` therefore hold only as long as no index was rewritten while
a thread held it (`rewritten`), and `IndexWrittenOnce` says when that cannot be. An entry
that `Disable` marked (`lastTimeSeen = 0`) and that is passed on by dseg is taken for seen
now, since `UpdateLastSeen(0)` means the present: a stopped masternode can be listed anew
for one expiration. A stop sent within MASTERNODE_MIN_DSEEP_SECONDS of an accepted ping
is ignored. An expired entry is not revived by pings; it comes back only after its
removal. Votes are never asked for: `darksend.cpp:776` tests that "mnwsync" was fulfilled
before it asks.

## 8. Abstractions and limits

- Signatures, amounts, fees, maturity, time, target and kernel checks are verdicts on
  a block (`Valid`, `Refused`, `Doubtful`) or a transaction (`Flawed`). `Doubtful` may
  go either way once the initial download is over.
- The payee verdict is free even during the initial download, where the code does
  not compare payees: more behaviours than the code has, none fewer.
- Disk errors and a full disk are left out; a LevelDB batch is committed whole.
- The node does not own the checkpoint key, runs with the strict policy, and the
  master key changes at the first start only.
- In `BlockIntake` an orphan leaves its map when `AcceptBlock` is called, in the code
  when it has returned; nothing reads the maps in between.
- SharedTip grants the code atomic reads and writes; the C++ data races are worse.
- `mapOrphanTransactionsByPrev[h]` creates an empty entry when it is looked up, and the
  release loop leaves such entries behind; the model does not tell an empty entry
  from none.
- Spork: one number, signatures taken as good, values not interpreted. Inventory: the
  items are transactions the pool accepts when first offered; a vector of inv entries is
  single entries. The periodic request of `ThreadCheckDarkSendPool` ends a round after
  MAX_REQUESTS_PER_TICK_CYCLE requests (`darksend.cpp:788`): the model lets it end after any
  peer, which for the two nodes of the run is the same. Entries of
  `mapAlreadyAskedFor` for items that never come stay for good (`net.cpp:74`); the size of
  the map is not modelled.
- MasternodeList: one collateral with one key and address, so no ranking and no competing
  entries; signatures and input age are taken as good. The code accepts pings dated up to
  an hour off; the model assumes a signing clock that wanders by at most `Drift` with
  `MinDseep + Drift + 1 < Expiration`, which for the code's 30 and 120 minutes
  (`masternode.h:45-51`) is a drift below 89. The dseep handler does not
  relay a ping when `cs_vNodes` is taken (`masternode.cpp:349`); that is a lost message.
  Every peer relays transactions (`fRelayTxes`).
- WalletSpent: one output for each transaction, one transaction for each block, every
  transaction standard, no chain with a double spend (finding 1 apart); a wallet
  of a copy of the same keys may spend. Every mark reaches the wallet file. Postponed blocks
  all connect; when one fails the chain ends below it, as with a shorter branch. A postponed
  transaction counts as trusted (`IsTrusted`), in the code only if the wallet found its
  block. The way back below a flawed block that `LoadBlockIndex` takes happens before the
  wallet is there to be told, and is left out. Reorganisation
  and connection are one step each, so another thread that uses the wallet between two
  blocks of a reorganisation is left out; what is told before a failed commit is
  `ReorganizeFails`. `StakeRefunded` and
  `ConfirmedSpendMarked` leave out the time from such a failure to the next repair or
  start, which is where the code is wrong for a while.
- Scheduler: an owner schedules a task again only when it is neither queued nor running,
  which the scheduler does not check; the node schedules one task, once. A task that throws
  ends its thread, which is left out.
- KeyPool: a command under `cs_wallet` is one step; the keys themselves are numbers.
- The `.ts` files under `src/src/qt/locale` are Qt translations: data, no code.
- Script evaluation, cryptography, serialisation, option parsing, RPC formatting and
  the GUI have no protocol state and are not modelled.

## 9. Plan

Done: TxIndex, TxPool, BestChain, ChainTip, SyncCheckpoint, BlockIntake, SharedTip,
OrphanTx, Scheduler, Spork, Inventory, MasternodeList, KeyPool, WalletSpent. Next, in this
order:

1. MasternodePayments: votes in any order at two nodes, agreement on the payee; composed
   with the verdict of BestChain.
2. Encryption of the keys and the unlock for staking; Staker: `CreateNewBlock` and
   `CheckStake` against a moving tip; lock order between `cs_main`,
   `cs_hashSyncCheckpoint` and `cs_wallet` as a deadlock check.
3. Peers (reference counts, disconnection, bans); AddrMan (tried and new tables).
4. Pure functions: rewards, `GetNextTargetRequired`, stake modifier selection, time
   median, against reference definitions over bounded inputs. Alerts.

## 10. Running the checks

`tlc -config <cfg> <module>` for each run of `PROJECT.json`; `tlapm <module>` for
ChainProofs, OrphanTxProofs, SchedulerProofs, SporkProofs, InventoryProofs,
MasternodeListProofs, KeyPoolProofs and WalletSpentProofs.
