------------------------------ MODULE KeyPool ------------------------------
(***************************************************************************)
(* The key pool of the wallet (wallet.cpp): keys generated ahead, stored   *)
(* under an index in the wallet file (pool) and offered in memory by the   *)
(* set of their indices (setKeyPool).  Commands of the user take a key and *)
(* keep it, or give it back, under cs_wallet and so in one step; the other *)
(* threads hold a reserved key (CReserveKey) across steps.  A miner takes  *)
(* the key for its coinbase in CreateNewBlock and gives it back there.     *)
(*                                                                         *)
(* Keys are numbered in the order they are generated; key 1 became the     *)
(* default key when the wallet was made.  A crash, like a shutdown, leaves *)
(* the file only; the writes of one step reach it together.                *)
(***************************************************************************)
EXTENDS Naturals, FiniteSetsExt

CONSTANTS Threads,      \* the threads that hold a CReserveKey
          Miners,       \* those that mine
          KeyPoolSize,  \* -keypool
          MaxKeys,      \* bound: keys generated
          None

ASSUME KeyPoolAssumption ==
  /\ Miners \subseteq Threads
  /\ KeyPoolSize \in Nat /\ MaxKeys \in Nat /\ KeyPoolSize < MaxKeys
  /\ None \notin [index : Nat, key : Nat]

VARIABLES setKeyPool,
          pool,      \* the file: index |-> key
          keys,      \* keys generated
          held,      \* the CReserveKey of each thread
          used,      \* keys handed out for good
          coinbase,  \* the key in the block a miner works on, or None
          mined,     \* keys in blocks that were found
          crypted, locked,
          rewritten  \* an index was written again while a thread held it

vars == <<setKeyPool, pool, keys, held, used, coinbase, mined, crypted, locked, rewritten>>

Init ==
  /\ setKeyPool = 2 .. KeyPoolSize + 1
  /\ pool = [i \in setKeyPool |-> i]
  /\ keys = KeyPoolSize + 1
  /\ held = [t \in Threads |-> None]
  /\ used = {1}
  /\ coinbase = [t \in Threads |-> None] /\ mined = {}
  /\ crypted = FALSE /\ locked = FALSE
  /\ rewritten = FALSE

Held == {t \in Threads : held[t] # None}
Without(f, is) == [i \in DOMAIN f \ is |-> f[i]]

-----------------------------------------------------------------------------
(* Writing.                                                                *)

\* Fault: the pool is numbered from zero.
NextIndexFromZero == IF setKeyPool = {} THEN 0 ELSE Max(setKeyPool) + 1

\* Fault: the size of the pool is taken for its last index.
NextIndexBySize == Cardinality(setKeyPool) + 1

NextIndex == IF setKeyPool = {} THEN 1 ELSE Max(setKeyPool) + 1

\* What TopUpKeyPool adds.
TopUp(size) ==
  IF locked THEN {} ELSE NextIndex .. (NextIndex + size - Cardinality(setKeyPool))

\* The file f with new keys under the indices new.
Written(f, new) ==
  [i \in DOMAIN f \cup new |->
     IF i \in new THEN keys + Cardinality({j \in new : j <= i}) ELSE f[i]]

Generate(new) ==
  /\ keys + Cardinality(new) <= MaxKeys
  /\ keys' = keys + Cardinality(new)
  /\ rewritten' = (rewritten \/ \E t \in Held : held[t].index \in new)

\* keypoolrefill, the commands that top up first, and ThreadTopUpKeyPool.
TopUpKeyPool(size) ==
  LET new == TopUp(size) IN
    /\ Generate(new)
    /\ setKeyPool' = setKeyPool \cup new
    /\ pool' = Written(pool, new)
    /\ UNCHANGED <<held, used, coinbase, mined, crypted, locked>>

\* Fault: the old indices stay in the set.
NewKeyPoolUncleared(new) ==
  /\ pool' = Written(Without(pool, setKeyPool), new)
  /\ setKeyPool' = setKeyPool \cup new

NewKeyPool(new) ==
  /\ pool' = Written(Without(pool, setKeyPool), new)
  /\ setKeyPool' = new

EncryptWallet ==
  LET new == 1 .. KeyPoolSize IN
    /\ ~crypted
    /\ Generate(new)
    /\ NewKeyPool(new)
    /\ crypted' = TRUE /\ locked' = TRUE
    /\ UNCHANGED <<held, used, coinbase, mined>>

Lock ==
  /\ crypted /\ ~locked /\ locked' = TRUE
  /\ UNCHANGED <<setKeyPool, pool, keys, held, used, coinbase, mined, crypted, rewritten>>

Unlock ==
  /\ locked /\ locked' = FALSE
  /\ UNCHANGED <<setKeyPool, pool, keys, held, used, coinbase, mined, crypted, rewritten>>

-----------------------------------------------------------------------------
(* Taking a key.                                                           *)

First(is) == {i \in is : \A j \in is : i <= j}

\* GetReservedKey of a thread, with ReserveKeyFromKeyPool.  The default key stands
\* in for a pool that is empty; a read that fails throws, and the index, which is
\* set by then, goes back to the pool.
GetReservedKey(t) ==
  LET new == TopUp(KeyPoolSize)
      all == setKeyPool \cup new
      first == First(all)
      file == Written(pool, new)
  IN  /\ held[t] = None /\ coinbase[t] = None
      /\ Generate(new)
      /\ pool' = file
      /\ \/ first \cap DOMAIN file = {} /\ setKeyPool' = all /\ UNCHANGED held
         \/ \E i \in first \cap DOMAIN file :
              /\ setKeyPool' = all \ {i}
              /\ held' = [held EXCEPT ![t] = [index |-> i, key |-> file[i]]]
      /\ UNCHANGED <<used, coinbase, mined, crypted, locked>>

\* Fault: the record stays in the file.
EraseNot(f, i) == f

Erase(f, i) == Without(f, {i})

KeepKey(t) ==
  /\ held[t] # None /\ t \notin Miners
  /\ pool' = Erase(pool, held[t].index)
  /\ used' = used \cup {held[t].key}
  /\ held' = [held EXCEPT ![t] = None]
  /\ UNCHANGED <<setKeyPool, keys, coinbase, mined, crypted, locked, rewritten>>

\* Fault: the index is not forgotten.
ReleasedNot(t) == held

Released(t) == [held EXCEPT ![t] = None]

\* ReturnKey, by the destructor if by nobody else.  In CreateNewBlock the key is in
\* the coinbase by then.
ReturnKey(t) ==
  /\ held[t] # None
  /\ setKeyPool' = setKeyPool \cup {held[t].index}
  /\ held' = Released(t)
  /\ coinbase' = IF t \in Miners THEN [coinbase EXCEPT ![t] = held[t].key] ELSE coinbase
  /\ UNCHANGED <<pool, keys, used, mined, crypted, locked, rewritten>>

\* The miner finds its block, or gives it up.  The CReserveKey that CheckWork keeps
\* is the miner's own, which holds no key.
CheckWork(t, found) ==
  /\ coinbase[t] # None
  /\ mined' = IF found THEN mined \cup {coinbase[t]} ELSE mined
  /\ coinbase' = [coinbase EXCEPT ![t] = None]
  /\ UNCHANGED <<setKeyPool, pool, keys, held, used, crypted, locked, rewritten>>

\* GetKeyFromPool, and a payment that reserves and keeps its change key, while the
\* pool has a key.  A read that fails throws and the index is gone.
GetKeyFromPool ==
  LET new == TopUp(KeyPoolSize)
      all == setKeyPool \cup new
      file == Written(pool, new)
  IN  /\ Generate(new)
      /\ \E i \in First(all) :
           /\ setKeyPool' = all \ {i}
           /\ pool' = Erase(file, i)
           /\ used' = used \cup {file[j] : j \in {i} \cap DOMAIN file}
      /\ UNCHANGED <<held, coinbase, mined, crypted, locked>>

\* The process ends and is started again: LoadWallet.
Restart ==
  /\ setKeyPool' = DOMAIN pool
  /\ held' = [t \in Threads |-> None]
  /\ coinbase' = [t \in Threads |-> None]
  /\ locked' = crypted
  /\ rewritten' = FALSE
  /\ UNCHANGED <<pool, keys, used, mined, crypted>>

Next ==
  \/ TopUpKeyPool(KeyPoolSize)
  \/ EncryptWallet
  \/ Lock
  \/ Unlock
  \/ GetKeyFromPool
  \/ Restart
  \/ \E t \in Threads : \/ GetReservedKey(t)
                        \/ KeepKey(t)
                        \/ ReturnKey(t)
                        \/ \E found \in BOOLEAN : CheckWork(t, found)

Spec == Init /\ [][Next]_vars

-----------------------------------------------------------------------------
Keys    == 1 .. MaxKeys
Indices == 1 .. MaxKeys + 1
Ready   == {pool[i] : i \in setKeyPool \cap DOMAIN pool}

\* Type invariant.
KeyPoolTypeOK ==
  /\ setKeyPool \subseteq Indices
  /\ DOMAIN pool \subseteq Indices /\ \A i \in DOMAIN pool : pool[i] \in Keys
  /\ keys \in Keys
  /\ held \in [Threads -> [index : Indices, key : Keys] \cup {None}]
  /\ used \subseteq Keys /\ mined \subseteq Keys
  /\ coinbase \in [Threads -> Keys \cup {None}]
  /\ crypted \in BOOLEAN /\ locked \in BOOLEAN /\ rewritten \in BOOLEAN

\* No key has two owners: what a thread holds is held by no other, was not handed
\* out and is not on offer.  It is so as long as no index was written again while a
\* thread held it.
OneOwner ==
  ~rewritten => \A t \in Held :
    /\ held[t].key \notin used \cup Ready
    /\ \A u \in Held \ {t} : held[u].key # held[t].key

\* Every index on offer can be read, so ReserveKeyFromKeyPool does not throw.
PoolReadable == ~rewritten => setKeyPool \subseteq DOMAIN pool

\* While the wallet is not encrypted no index is written again while a thread holds
\* it: the pool does not run dry, and its last index never goes down.
IndexWrittenOnce == KeyPoolSize > 0 /\ ~crypted => ~rewritten

\* A key that was handed out for good is in the file no more, so that it does not come
\* back after a crash; also not where indices were written again.
UsedNotStored == \A i \in DOMAIN pool : pool[i] \notin used

\* The key of a block that was found is not on offer.
\* The code does not keep this: README, section 7.
MinedKeyRemoved == mined \cap Ready = {}
=============================================================================
