--------------------------- MODULE KeyPoolProofs ---------------------------
(***************************************************************************)
(* The key pool keeps its promises for every size of the pool, every       *)
(* number of threads and of keys.  The inductive invariant IInv says of    *)
(* the file that every key is in it under one index at most (Records), of  *)
(* the threads that, while no index was written again, each holds a record *)
(* of its own that is not on offer (Holds), and that, before the wallet is *)
(* encrypted, the pool on offer ends above every index held (Above).       *)
(***************************************************************************)
EXTENDS KeyPool, FiniteSetTheorems, WellFoundedInduction, TLAPS

\* Every index and every key was generated.
Generated ==
  /\ keys \in Nat /\ 1 <= keys /\ keys <= MaxKeys
  /\ setKeyPool \subseteq 1 .. keys
  /\ DOMAIN pool \subseteq 1 .. keys
  /\ \A i \in DOMAIN pool : pool[i] \in 1 .. keys
  /\ held \in [Threads -> [index : 1 .. keys, key : 1 .. keys] \cup {None}]
  /\ used \subseteq 1 .. keys /\ mined \subseteq 1 .. keys
  /\ coinbase \in [Threads -> (1 .. keys) \cup {None}]
  /\ crypted \in BOOLEAN /\ locked \in BOOLEAN /\ rewritten \in BOOLEAN
  /\ locked => crypted

\* A key is stored under one index, which is the one a thread that holds it has,
\* and no more when it was used.
Records ==
  /\ \A i, j \in DOMAIN pool : pool[i] = pool[j] => i = j
  /\ \A t \in Held : \A i \in DOMAIN pool : pool[i] = held[t].key => i = held[t].index
  /\ UsedNotStored

\* What a thread holds is in the file, not on offer, and of no other thread.
Holds ==
  ~rewritten =>
    /\ setKeyPool \subseteq DOMAIN pool
    /\ \A t \in Held : /\ held[t].index \in DOMAIN pool \ setKeyPool
                       /\ pool[held[t].index] = held[t].key
                       /\ \A u \in Held \ {t} : held[u].index # held[t].index

\* Before the wallet is encrypted a higher index than those held is on offer.
Above ==
  KeyPoolSize > 0 /\ ~crypted =>
    /\ ~rewritten
    /\ \A t \in Held : \E j \in setKeyPool : j > held[t].index

IInv == Generated /\ Records /\ Holds /\ Above

USE KeyPoolAssumption

-----------------------------------------------------------------------------
(* Least and greatest elements.                                            *)

\* A set of natural numbers has a least element.
LEMMA NatMin ==
  ASSUME NEW T \in SUBSET Nat, T # {}
  PROVE  \E x \in T : \A y \in T : x <= y
<1>1. PICK x \in T : \A y \in T : ~(<<y, x>> \in OpToRel(<, Nat))
  BY NatLessThanWellFounded, WFMin
<1>2. ASSUME NEW y \in T PROVE x <= y
  <2>1. y < x => <<y, x>> \in OpToRel(<, Nat)
    BY DEF OpToRel
  <2>2. ~(y < x)
    BY <2>1, <1>1
  <2> QED BY <2>2
<1> QED BY <1>2

\* A set of numbers that has a bound has a greatest element, which is its Max.
LEMMA NatMax ==
  ASSUME NEW n \in Nat, NEW S \in SUBSET (0 .. n), S # {}
  PROVE  Max(S) \in S /\ \A y \in S : y <= Max(S)
<1> DEFINE T == {d \in Nat : \E s \in S : d = n - s}
<1>1. PICK s0 \in S : TRUE
  OBVIOUS
<1>2. T \subseteq Nat /\ n - s0 \in T
  OBVIOUS
<1>3. PICK d \in T : \A y \in T : d <= y
  BY <1>2, NatMin
<1>4. PICK m \in S : d = n - m
  OBVIOUS
<1>5. ASSUME NEW y \in S PROVE m >= y
  <2>1. n - y \in T
    OBVIOUS
  <2> QED BY <2>1, <1>3, <1>4
<1>6. \E x \in S : \A y \in S : x >= y
  BY <1>5
<1>7. /\ (CHOOSE x \in S : \A y \in S : x >= y) \in S
      /\ \A y \in S : (CHOOSE x \in S : \A z \in S : x >= z) >= y
  BY <1>6
<1> QED BY <1>7 DEF Max

-----------------------------------------------------------------------------
(* What TopUpKeyPool and WritePool add.                                    *)

\* New records have new keys, one for each index, and leave the others alone.
LEMMA WrittenFacts ==
  ASSUME keys \in Nat, NEW f, NEW new \in SUBSET Int, IsFiniteSet(new)
  PROVE  /\ DOMAIN Written(f, new) = DOMAIN f \cup new
         /\ \A i \in DOMAIN f \ new : Written(f, new)[i] = f[i]
         /\ \A i \in new : Written(f, new)[i] \in keys + 1 .. keys + Cardinality(new)
         /\ \A i, j \in new : Written(f, new)[i] = Written(f, new)[j] => i = j
<1> DEFINE upTo(i) == {j \in new : j <= i}
<1>1. Cardinality(new) \in Nat
  BY FS_CardinalityType
<1>2. ASSUME NEW i \in new
      PROVE  /\ IsFiniteSet(upTo(i))
             /\ Cardinality(upTo(i)) \in Nat /\ Cardinality(upTo(i)) <= Cardinality(new)
             /\ Cardinality(upTo(i)) >= 1
  <2>1. upTo(i) \in SUBSET new /\ i \in upTo(i)
    OBVIOUS
  <2>2. IsFiniteSet(upTo(i)) /\ Cardinality(upTo(i)) <= Cardinality(new)
    BY <2>1, FS_Subset
  <2>3. Cardinality(upTo(i)) \in Nat /\ Cardinality(upTo(i)) # 0
    BY <2>1, <2>2, FS_CardinalityType, FS_EmptySet
  <2> QED BY <2>2, <2>3
<1>3. ASSUME NEW i \in new, NEW j \in new, i < j
      PROVE  Cardinality(upTo(i)) # Cardinality(upTo(j))
  <2>0. i \in Int /\ j \in Int /\ \A k \in Int : k <= i => k <= j
    BY <1>3
  <2>1. j <= j /\ ~(j <= i)
    BY <1>3, <2>0
  <2>2. j \in upTo(j) /\ j \notin upTo(i)
    BY <2>1
  <2>3. upTo(i) \in SUBSET upTo(j)
    BY <2>0
  <2>4. upTo(i) # upTo(j)
    BY <2>2
  <2>5. IsFiniteSet(upTo(j))
    BY <1>2
  <2> HIDE DEF upTo
  <2> QED BY <2>3, <2>4, <2>5, FS_Subset
<1>4. \A i \in new : Written(f, new)[i] = keys + Cardinality(upTo(i))
  BY DEF Written
<1>5. ASSUME NEW i \in new, NEW j \in new, i # j
      PROVE  Written(f, new)[i] # Written(f, new)[j]
  <2>1. Cardinality(upTo(i)) # Cardinality(upTo(j))
    <3>1. CASE i < j BY <3>1, <1>3
    <3>2. CASE j < i BY <3>2, <1>3
    <3> QED BY <1>5, <3>1, <3>2
  <2> QED BY <2>1, <1>2, <1>4
<1>6. ASSUME NEW i \in new
      PROVE  Written(f, new)[i] \in keys + 1 .. keys + Cardinality(new)
  <2> HIDE DEF upTo
  <2> QED BY <1>1, <1>2, <1>4
<1> QED BY <1>5, <1>6 DEF Written

\* The indices that are added continue those on offer, and there are as many keys.
LEMMA TopUpFacts ==
  ASSUME Generated, NEW new, new = TopUp(KeyPoolSize)
  PROVE  /\ IsFiniteSet(new) /\ Cardinality(new) \in Nat
         /\ new \subseteq 1 .. keys + Cardinality(new)
         /\ \A i \in new, j \in setKeyPool : j < i
         /\ KeyPoolSize > 0 /\ ~locked => \E x, y \in setKeyPool \cup new : x # y
<1> DEFINE n == Cardinality(setKeyPool)
           a == NextIndex
           b == a + KeyPoolSize - n
<1>1. keys \in Nat /\ setKeyPool \subseteq 1 .. keys /\ locked \in BOOLEAN
  BY DEF Generated
<1>2. IsFiniteSet(setKeyPool) /\ n \in Nat
  <2>1. IsFiniteSet(1 .. keys) /\ setKeyPool \in SUBSET (1 .. keys)
    BY <1>1, FS_Interval
  <2> QED BY <2>1, FS_Subset, FS_CardinalityType
<1>3. a \in Nat /\ 1 <= a /\ a <= keys + 1 /\ \A j \in setKeyPool : j < a
  <2>1. CASE setKeyPool = {}
    BY <1>1, <2>1 DEF NextIndex
  <2>2. CASE setKeyPool # {}
    <3>1. setKeyPool \in SUBSET (0 .. keys)
      BY <1>1
    <3>2. Max(setKeyPool) \in setKeyPool /\ \A j \in setKeyPool : j <= Max(setKeyPool)
      BY <1>1, <2>2, <3>1, NatMax
    <3>3. PICK m \in setKeyPool : m = Max(setKeyPool)
      BY <3>2
    <3>4. a = m + 1
      BY <2>2, <3>3 DEF NextIndex
    <3> QED BY <1>1, <3>2, <3>3, <3>4
  <2> QED BY <2>1, <2>2
<1> HIDE DEF a, n
<1>4. CASE locked
  <2>1. new = {} /\ Cardinality(new) = 0
    BY <1>4, FS_EmptySet DEF TopUp
  <2> QED BY <1>1, <1>4, <2>1, FS_EmptySet
<1>5. CASE ~locked
  <2>1. new = a .. b
    BY <1>5 DEF TopUp, a, n
  <2>2. b \in Int
    BY <1>2, <1>3
  <2> HIDE DEF b
  <2>3. IsFiniteSet(new) /\ Cardinality(new) = IF a > b THEN 0 ELSE b - a + 1
    BY <1>3, <2>1, <2>2, FS_Interval
  <2>4. Cardinality(new) \in Nat /\ b <= keys + Cardinality(new)
    <3>1. CASE a > b BY <1>1, <1>3, <2>2, <2>3, <3>1
    <3>2. CASE ~(a > b) BY <1>1, <1>3, <2>2, <2>3, <3>2
    <3> QED BY <3>1, <3>2
  <2>5. ASSUME KeyPoolSize > 0
        PROVE  \E x, y \in setKeyPool \cup new : x # y
    <3>1. CASE setKeyPool = {}
      <4>1. n = 0
        BY <3>1, FS_EmptySet DEF n
      <4>2. a \in new /\ a + 1 \in new
        BY <1>3, <2>1, <2>5, <4>1 DEF b
      <4> QED BY <1>3, <4>2
    <3>2. CASE \E x : setKeyPool = {x}
      <4>1. PICK x : setKeyPool = {x}
        BY <3>2
      <4>2. n = 1
        BY <4>1, FS_Singleton DEF n
      <4>3. a \in new
        BY <1>3, <2>1, <2>5, <4>2 DEF b
      <4>4. x < a
        BY <1>3, <4>1
      <4> QED BY <1>1, <1>3, <4>1, <4>3, <4>4
    <3>3. CASE setKeyPool # {} /\ ~\E x : setKeyPool = {x}
      <4>1. PICK x \in setKeyPool : TRUE
        BY <3>3
      <4>2. PICK y \in setKeyPool : y # x
        BY <3>3, <4>1
      <4> QED BY <4>1, <4>2
    <3> QED BY <3>1, <3>2, <3>3
  <2> QED BY <1>1, <1>3, <2>1, <2>2, <2>3, <2>4, <2>5
<1> QED BY <1>1, <1>4, <1>5

\* f is a part of the file.
PartOfPool(f) == DOMAIN f \subseteq DOMAIN pool /\ \A i \in DOMAIN f : f[i] = pool[i]

\* A file that keeps Generated and Records when n keys were generated.
SoundFile(file, n) ==
  /\ DOMAIN file \subseteq 1 .. n
  /\ \A i \in DOMAIN file : file[i] \in 1 .. n
  /\ \A i, j \in DOMAIN file : file[i] = file[j] => i = j
  /\ \A t \in Held, i \in DOMAIN file : file[i] = held[t].key => i = held[t].index
  /\ \A i \in DOMAIN file : file[i] \notin used

\* New keys that are written to a part of the file are those of nobody.
LEMMA FileFacts ==
  ASSUME IInv, NEW f, PartOfPool(f),
         NEW new, IsFiniteSet(new), new \subseteq 1 .. keys + Cardinality(new)
  PROVE  /\ keys + Cardinality(new) \in Nat /\ keys <= keys + Cardinality(new)
         /\ DOMAIN Written(f, new) = DOMAIN f \cup new
         /\ \A i \in DOMAIN f \ new : Written(f, new)[i] = pool[i]
         /\ SoundFile(Written(f, new), keys + Cardinality(new))
<1> DEFINE file == Written(f, new)
           c == Cardinality(new)
<1>1. keys \in Nat /\ c \in Nat
  BY FS_CardinalityType DEF IInv, Generated
<1>2. /\ DOMAIN pool \subseteq 1 .. keys
      /\ \A i \in DOMAIN pool : pool[i] \in 1 .. keys
      /\ used \subseteq 1 .. keys
      /\ \A t \in Held : held[t].key \in 1 .. keys
  BY DEF IInv, Generated, Held
<1>3. new \in SUBSET Int
  BY <1>1
<1>4. /\ DOMAIN file = DOMAIN f \cup new
      /\ \A i \in DOMAIN f \ new : file[i] = f[i]
      /\ \A i \in new : file[i] \in keys + 1 .. keys + c
      /\ \A i, j \in new : file[i] = file[j] => i = j
  BY <1>1, <1>3, WrittenFacts
<1> HIDE DEF file, c
<1>5. \A i \in DOMAIN f \ new : file[i] = pool[i] /\ i \in DOMAIN pool
  BY <1>4 DEF PartOfPool
<1>6. \A i \in DOMAIN f \ new : file[i] \in 1 .. keys
  BY <1>5, <1>2
<1>7. ASSUME NEW i \in new PROVE file[i] \notin 1 .. keys
  BY <1>1, <1>4
<1>8. \A i, j \in DOMAIN file : file[i] = file[j] => i = j
  <2> SUFFICES ASSUME NEW i \in DOMAIN file, NEW j \in DOMAIN file, file[i] = file[j]
               PROVE  i = j
    OBVIOUS
  <2>1. CASE i \in new /\ j \in new BY <2>1, <1>4
  <2>2. CASE i \notin new /\ j \notin new
    BY <2>2, <1>4, <1>5 DEF IInv, Records
  <2>3. CASE (i \in new /\ j \notin new) \/ (i \notin new /\ j \in new)
    BY <2>3, <1>4, <1>6, <1>7
  <2> QED BY <2>1, <2>2, <2>3
<1>9. \A t \in Held, i \in DOMAIN file : file[i] = held[t].key => i = held[t].index
  BY <1>2, <1>4, <1>5, <1>7 DEF IInv, Records
<1>10. \A i \in DOMAIN file : file[i] \notin used
  BY <1>2, <1>4, <1>5, <1>7 DEF IInv, Records, UsedNotStored
<1>11. \A i \in DOMAIN file : file[i] \in 1 .. keys + c
  <2>1. \A i \in new : file[i] \in 1 .. keys + c
    BY <1>1, <1>4
  <2>2. \A i \in DOMAIN f \ new : file[i] \in 1 .. keys + c
    BY <1>1, <1>6
  <2> QED BY <1>4, <2>1, <2>2
<1>12. DOMAIN file \subseteq 1 .. keys + c
  <2>1. 1 .. keys \subseteq 1 .. keys + c
    BY <1>1
  <2>2. new \subseteq 1 .. keys + c
    BY DEF c
  <2> QED BY <1>2, <1>4, <2>1, <2>2 DEF PartOfPool
<1>13. keys + c \in Nat /\ keys <= keys + c
  BY <1>1
<1> QED BY <1>4, <1>5, <1>8, <1>9, <1>10, <1>11, <1>12, <1>13 DEF file, c, SoundFile

\* What was generated stays so when more is.
LEMMA GeneratedGrows ==
  ASSUME Generated, NEW n \in Nat, keys <= n
  PROVE  /\ 1 .. keys \subseteq 1 .. n
         /\ setKeyPool \subseteq 1 .. n /\ used \subseteq 1 .. n /\ mined \subseteq 1 .. n
         /\ held \in [Threads -> [index : 1 .. n, key : 1 .. n] \cup {None}]
         /\ coinbase \in [Threads -> (1 .. n) \cup {None}]
<1>1. 1 .. keys \subseteq 1 .. n
  BY DEF Generated
<1>2. [index : 1 .. keys, key : 1 .. keys] \subseteq [index : 1 .. n, key : 1 .. n]
  BY <1>1
<1> QED BY <1>1, <1>2 DEF Generated

\* What a thread holds is a record with an index and a key.
LEMMA HeldRecord ==
  ASSUME Generated, NEW t \in Held
  PROVE  t \in Threads /\ held[t] # None /\ held[t].index \in 1 .. keys /\ held[t].key \in 1 .. keys
BY DEF Generated, Held

\* After the pool was topped up all is on offer and file stored: no thread has lost its
\* record, and before the wallet is encrypted none ever does.
ToppedUp(all, file) ==
  /\ keys' \in Nat /\ keys <= keys' /\ keys' <= MaxKeys /\ rewritten' \in BOOLEAN
  /\ all \subseteq 1 .. keys'
  /\ SoundFile(file, keys')
  /\ ~rewritten' =>
       /\ ~rewritten
       /\ all \subseteq DOMAIN file
       /\ \A t \in Held : /\ held[t].index \in DOMAIN file \ all
                          /\ file[held[t].index] = held[t].key
  /\ KeyPoolSize > 0 /\ ~crypted =>
       /\ ~rewritten'
       /\ \A t \in Held : \E j \in all : j > held[t].index
       /\ \E x, y \in all : x # y

LEMMA TopUpState ==
  ASSUME IInv, NEW new, new = TopUp(KeyPoolSize), Generate(new)
  PROVE  ToppedUp(setKeyPool \cup new, Written(pool, new))
<1> DEFINE all == setKeyPool \cup new
           file == Written(pool, new)
<1>1. /\ IsFiniteSet(new) /\ Cardinality(new) \in Nat
      /\ new \subseteq 1 .. keys + Cardinality(new)
      /\ \A i \in new, j \in setKeyPool : j < i
      /\ KeyPoolSize > 0 /\ ~locked => \E x, y \in setKeyPool \cup new : x # y
  BY TopUpFacts DEF IInv
<1>2. keys' = keys + Cardinality(new) /\ keys' <= MaxKeys
  BY DEF Generate
<1>3. /\ keys' \in Nat /\ keys <= keys'
      /\ DOMAIN file = DOMAIN pool \cup new
      /\ \A i \in DOMAIN pool \ new : file[i] = pool[i]
      /\ SoundFile(file, keys')
  <2>1. PartOfPool(pool)
    BY DEF PartOfPool
  <2> QED BY <1>1, <1>2, <2>1, FileFacts
<1> HIDE DEF file
<1>4. rewritten' = (rewritten \/ \E t \in Held : held[t].index \in new) /\ rewritten' \in BOOLEAN
  BY DEF Generate, IInv, Generated
<1>5. all \subseteq 1 .. keys'
  BY <1>1, <1>2, <1>3, GeneratedGrows DEF IInv
<1>6. ASSUME ~rewritten'
      PROVE  /\ ~rewritten /\ all \subseteq DOMAIN file
             /\ \A t \in Held : /\ held[t].index \in DOMAIN file \ all
                                /\ file[held[t].index] = held[t].key
  <2>1. ~rewritten /\ \A t \in Held : held[t].index \notin new
    BY <1>4, <1>6
  <2> QED BY <2>1, <1>3 DEF IInv, Holds
<1>7. ASSUME KeyPoolSize > 0, ~crypted
      PROVE  /\ ~rewritten'
             /\ \A t \in Held : \E j \in all : j > held[t].index
             /\ \E x, y \in all : x # y
  <2>1. ~rewritten /\ \A t \in Held : \E j \in setKeyPool : j > held[t].index
    BY <1>7 DEF IInv, Above
  <2>2. ~locked
    BY <1>7 DEF IInv, Generated
  <2>3. ASSUME NEW t \in Held PROVE held[t].index \notin new
    <3>1. PICK j \in setKeyPool : j > held[t].index
      BY <2>1
    <3>2. j \in Nat /\ held[t].index \in Nat
      <4>1. keys \in Nat /\ setKeyPool \subseteq 1 .. keys
        BY DEF IInv, Generated
      <4>2. held[t].index \in 1 .. keys
        BY HeldRecord DEF IInv
      <4> QED BY <4>1, <4>2
    <3>3. ~(j < held[t].index)
      BY <3>1, <3>2
    <3> QED BY <3>3, <1>1
  <2> QED BY <1>1, <1>4, <2>1, <2>2, <2>3, <1>7
<1> QED BY <1>2, <1>3, <1>4, <1>5, <1>6, <1>7 DEF file, ToppedUp

-----------------------------------------------------------------------------
(* The inductive invariant.                                                *)

LEMMA InitInv == Init => IInv
<1> SUFFICES ASSUME Init PROVE IInv
  OBVIOUS
<1>1. Held = {}
  BY DEF Init, Held
<1>2. Generated
  <2>1. keys \in Nat /\ 1 <= keys /\ keys <= MaxKeys /\ setKeyPool \subseteq 1 .. keys
    BY DEF Init
  <2>2. pool = [i \in setKeyPool |-> i] /\ DOMAIN pool = setKeyPool
    BY DEF Init
  <2>3. used \subseteq 1 .. keys
    BY DEF Init
  <2> QED BY <2>1, <2>2, <2>3 DEF Init, Generated
<1>3. Records
  BY <1>1 DEF Init, Records, UsedNotStored
<1>4. Holds /\ Above
  BY <1>1 DEF Init, Holds, Above
<1> QED BY <1>2, <1>3, <1>4 DEF IInv

\* The part of Generated that no write of the file touches.
LEMMA OthersGenerated ==
  ASSUME Generated, NEW n \in Nat, keys <= n
  PROVE  /\ 1 <= n
         /\ used \subseteq 1 .. n /\ mined \subseteq 1 .. n
         /\ held \in [Threads -> [index : 1 .. n, key : 1 .. n] \cup {None}]
         /\ coinbase \in [Threads -> (1 .. n) \cup {None}]
         /\ crypted \in BOOLEAN /\ locked \in BOOLEAN /\ (locked => crypted)
BY GeneratedGrows DEF Generated

LEMMA TopUpKeyPoolInv == IInv /\ TopUpKeyPool(KeyPoolSize) => IInv'
<1> SUFFICES ASSUME IInv, TopUpKeyPool(KeyPoolSize) PROVE IInv'
  OBVIOUS
<1>1. PICK new : /\ new = TopUp(KeyPoolSize) /\ Generate(new)
                 /\ setKeyPool' = setKeyPool \cup new /\ pool' = Written(pool, new)
                 /\ UNCHANGED <<held, used, coinbase, mined, crypted, locked>>
  BY DEF TopUpKeyPool
<1>2. ToppedUp(setKeyPool', pool')
  BY <1>1, TopUpState
<1>3. Held' = Held
  BY <1>1 DEF Held
<1>4. Generated'
  BY <1>1, <1>2, OthersGenerated DEF IInv, ToppedUp, SoundFile, Generated
<1>5. Records'
  BY <1>1, <1>2, <1>3 DEF ToppedUp, SoundFile, Records, UsedNotStored
<1>6. Holds'
  BY <1>1, <1>2, <1>3 DEF IInv, ToppedUp, Holds
<1>7. Above'
  BY <1>1, <1>2, <1>3 DEF ToppedUp, Above
<1> QED BY <1>4, <1>5, <1>6, <1>7 DEF IInv

\* The first index on offer is taken: the thread holds its record and a higher index
\* stays on offer.
LEMMA GetReservedKeyInv ==
  ASSUME IInv, NEW t \in Threads, GetReservedKey(t)
  PROVE  IInv'
<1>1. PICK new : /\ new = TopUp(KeyPoolSize) /\ Generate(new)
                 /\ LET all == setKeyPool \cup new  file == Written(pool, new) IN
                      /\ pool' = file
                      /\ \/ setKeyPool' = all /\ UNCHANGED held
                         \/ \E i \in First(all) \cap DOMAIN file :
                              /\ setKeyPool' = all \ {i}
                              /\ held' = [held EXCEPT ![t] = [index |-> i, key |-> file[i]]]
  BY DEF GetReservedKey
<1>2. held[t] = None /\ UNCHANGED <<used, coinbase, mined, crypted, locked>>
  BY DEF GetReservedKey
<1> DEFINE all == setKeyPool \cup new
<1>3. ToppedUp(all, pool')
  BY <1>1, TopUpState
<1> HIDE DEF all
<1>4. CASE setKeyPool' = all /\ UNCHANGED held
  <2>1. Held' = Held
    BY <1>4 DEF Held
  <2>2. Generated'
    BY <1>2, <1>3, <1>4, OthersGenerated DEF IInv, ToppedUp, SoundFile, Generated
  <2>3. Records'
    BY <1>2, <1>3, <1>4, <2>1 DEF ToppedUp, SoundFile, Records, UsedNotStored
  <2>4. Holds'
    BY <1>2, <1>3, <1>4, <2>1 DEF IInv, ToppedUp, Holds
  <2>5. Above'
    BY <1>2, <1>3, <1>4, <2>1 DEF ToppedUp, Above
  <2> QED BY <2>2, <2>3, <2>4, <2>5 DEF IInv
<1>5. ASSUME NEW i \in First(all) \cap DOMAIN pool',
             setKeyPool' = all \ {i},
             held' = [held EXCEPT ![t] = [index |-> i, key |-> pool'[i]]]
      PROVE  IInv'
  <2>1. held \in [Threads -> [index : 1 .. keys', key : 1 .. keys'] \cup {None}]
    BY <1>3, OthersGenerated DEF IInv, ToppedUp
  <2>2. i \in all /\ i \in 1 .. keys' /\ pool'[i] \in 1 .. keys' /\ keys' \in Nat
    BY <1>3, <1>5 DEF First, ToppedUp, SoundFile
  <2>3. /\ held' \in [Threads -> [index : 1 .. keys', key : 1 .. keys'] \cup {None}]
        /\ held'[t] = [index |-> i, key |-> pool'[i]]
        /\ \A u \in Threads \ {t} : held'[u] = held[u]
    BY <1>5, <2>1, <2>2
  <2>4. Held' = Held \cup {t} /\ t \notin Held
    <3>1. held'[t] # None
      BY <2>2, <2>3
    <3> QED BY <1>2, <2>3, <3>1 DEF Held
  <2>5. /\ held'[t].index = i /\ held'[t].key = pool'[i]
        /\ \A u \in Held : held'[u] = held[u]
    BY <2>3, <2>4 DEF Held
  <2>6. Generated'
    BY <1>2, <1>3, <1>5, <2>3, OthersGenerated DEF IInv, ToppedUp, SoundFile, Generated
  <2>7. Records'
    BY <1>2, <1>3, <2>4, <2>5 DEF ToppedUp, SoundFile, Records, UsedNotStored
  <2>8. Holds'
    <3>1. SUFFICES ASSUME ~rewritten' PROVE Holds'
      BY DEF Holds
    <3>2. /\ ~rewritten /\ all \subseteq DOMAIN pool'
          /\ \A u \in Held : /\ held[u].index \in DOMAIN pool' \ all
                             /\ pool'[held[u].index] = held[u].key
      BY <1>3, <3>1 DEF ToppedUp
    <3>3. \A u \in Held : \A v \in Held \ {u} : held[v].index # held[u].index
      BY <3>2 DEF IInv, Holds
    <3> QED BY <1>5, <2>2, <2>4, <2>5, <3>2, <3>3 DEF Holds
  <2>9. Above'
    <3>1. SUFFICES ASSUME KeyPoolSize > 0, ~crypted
                   PROVE  ~rewritten' /\ \A u \in Held' : \E j \in setKeyPool' : j > held'[u].index
      BY <1>2 DEF Above
    <3>2. /\ ~rewritten'
          /\ \A u \in Held : \E j \in all : j > held[u].index
          /\ \E x, y \in all : x # y
      BY <1>3, <3>1 DEF ToppedUp
    <3>3. all \subseteq 1 .. keys'
      BY <1>3 DEF ToppedUp
    <3>4. PICK x \in all : x # i
      BY <3>2
    <3>5. x > i /\ x \in setKeyPool'
      BY <1>5, <2>2, <3>3, <3>4 DEF First
    <3>6. ASSUME NEW u \in Held PROVE \E j \in setKeyPool' : j > held[u].index
      <4>1. PICK j \in all : j > held[u].index
        BY <3>2
      <4>2. CASE j # i BY <1>5, <4>1, <4>2
      <4>3. CASE j = i
        <5>1. held[u].index \in 1 .. keys /\ keys \in Nat
          BY HeldRecord DEF IInv, Generated
        <5>2. x > held[u].index
          BY <2>2, <3>3, <3>5, <4>1, <4>3, <5>1
        <5> QED BY <3>5, <5>2
      <4> QED BY <4>2, <4>3
    <3> QED BY <2>4, <2>5, <3>2, <3>5, <3>6
  <2> QED BY <2>6, <2>7, <2>8, <2>9 DEF IInv
<1> QED BY <1>1, <1>4, <1>5 DEF all

\* The first index on offer is taken for good: its record is erased with the step that
\* hands the key out, and no thread held it.
LEMMA GetKeyFromPoolInv == IInv /\ GetKeyFromPool => IInv'
<1> SUFFICES ASSUME IInv, GetKeyFromPool PROVE IInv'
  OBVIOUS
<1>1. PICK new : /\ new = TopUp(KeyPoolSize) /\ Generate(new)
                 /\ LET all == setKeyPool \cup new  file == Written(pool, new) IN
                      \E i \in First(all) :
                        /\ setKeyPool' = all \ {i}
                        /\ pool' = Erase(file, i)
                        /\ used' = used \cup {file[j] : j \in {i} \cap DOMAIN file}
  BY DEF GetKeyFromPool
<1>2. UNCHANGED <<held, coinbase, mined, crypted, locked>>
  BY DEF GetKeyFromPool
<1> DEFINE all == setKeyPool \cup new
           file == Written(pool, new)
<1>3. ToppedUp(all, file)
  BY <1>1, TopUpState
<1>4. PICK i \in First(all) :
         /\ setKeyPool' = all \ {i}
         /\ pool' = Erase(file, i)
         /\ used' = used \cup {file[j] : j \in {i} \cap DOMAIN file}
  BY <1>1
<1> HIDE DEF all, file
<1>5. /\ DOMAIN pool' = DOMAIN file \ {i}
      /\ \A j \in DOMAIN pool' : pool'[j] = file[j]
  BY <1>4 DEF Erase, Without
<1>6. Held' = Held
  BY <1>2 DEF Held
<1>7. Generated'
  <2>1. used' \subseteq 1 .. keys'
    BY <1>3, <1>4, OthersGenerated DEF IInv, ToppedUp, SoundFile
  <2> QED BY <1>2, <1>3, <1>4, <1>5, <2>1, OthersGenerated
          DEF IInv, ToppedUp, SoundFile, Generated
<1>8. Records'
  <2>1. \A j \in DOMAIN pool' : pool'[j] \notin used'
    BY <1>3, <1>4, <1>5 DEF ToppedUp, SoundFile
  <2> QED BY <1>2, <1>3, <1>5, <1>6, <2>1 DEF ToppedUp, SoundFile, Records, UsedNotStored
<1>9. Holds'
  BY <1>2, <1>3, <1>4, <1>5, <1>6 DEF IInv, ToppedUp, Holds, First
<1>10. Above'
  <2>1. SUFFICES ASSUME KeyPoolSize > 0, ~crypted
                 PROVE  ~rewritten' /\ \A u \in Held : \E j \in setKeyPool' : j > held[u].index
    BY <1>2, <1>6 DEF Above
  <2>2. /\ ~rewritten'
        /\ \A u \in Held : \E j \in all : j > held[u].index
        /\ \E x, y \in all : x # y
    BY <1>3, <2>1 DEF ToppedUp
  <2>3. all \subseteq 1 .. keys' /\ keys' \in Nat
    BY <1>3 DEF ToppedUp
  <2>4. PICK x \in all : x # i
    BY <2>2
  <2>5. x > i /\ x \in setKeyPool' /\ i \in all
    BY <1>4, <2>3, <2>4 DEF First
  <2>6. ASSUME NEW u \in Held PROVE \E j \in setKeyPool' : j > held[u].index
    <3>1. PICK j \in all : j > held[u].index
      BY <2>2
    <3>2. CASE j # i BY <1>4, <3>1, <3>2
    <3>3. CASE j = i
      <4>1. held[u].index \in 1 .. keys /\ keys \in Nat
        BY HeldRecord DEF IInv, Generated
      <4>2. x > held[u].index
        BY <2>3, <2>5, <3>1, <3>3, <4>1
      <4> QED BY <2>5, <4>2
    <3> QED BY <3>2, <3>3
  <2> QED BY <2>2, <2>6
<1> QED BY <1>7, <1>8, <1>9, <1>10 DEF IInv

\* Encryption replaces what is on offer; a record that a thread holds is lost only
\* where its index is written again.
LEMMA EncryptWalletInv == IInv /\ EncryptWallet => IInv'
<1> SUFFICES ASSUME IInv, EncryptWallet PROVE IInv'
  OBVIOUS
<1> DEFINE new == 1 .. KeyPoolSize
           f == Without(pool, setKeyPool)
<1>1. /\ Generate(new)
      /\ pool' = Written(f, new) /\ setKeyPool' = new
      /\ crypted' /\ locked' /\ crypted' \in BOOLEAN /\ locked' \in BOOLEAN
      /\ UNCHANGED <<held, used, coinbase, mined>>
  BY DEF EncryptWallet, NewKeyPool
<1>2. IsFiniteSet(new) /\ Cardinality(new) = KeyPoolSize
  <2>1. KeyPoolSize \in Nat /\ 1 \in Int /\ KeyPoolSize \in Int
    OBVIOUS
  <2>2. /\ IsFiniteSet(1 .. KeyPoolSize)
        /\ Cardinality(1 .. KeyPoolSize) = IF 1 > KeyPoolSize THEN 0 ELSE KeyPoolSize - 1 + 1
    BY <2>1, FS_Interval
  <2> QED BY <2>1, <2>2
<1>3. keys \in Nat /\ new \subseteq 1 .. keys + Cardinality(new)
  BY <1>2 DEF IInv, Generated
<1>4. /\ PartOfPool(f)
      /\ DOMAIN f = DOMAIN pool \ setKeyPool
  BY DEF PartOfPool, Without
<1> HIDE DEF new, f
<1>5. /\ keys' = keys + Cardinality(new) /\ keys' <= MaxKeys
      /\ rewritten' = (rewritten \/ \E t \in Held : held[t].index \in new)
  BY <1>1 DEF Generate
<1>6. /\ keys' \in Nat /\ keys <= keys'
      /\ DOMAIN pool' = DOMAIN f \cup new
      /\ \A i \in DOMAIN f \ new : pool'[i] = pool[i]
      /\ SoundFile(pool', keys')
  BY <1>1, <1>2, <1>3, <1>4, <1>5, FileFacts
<1>7. Held' = Held
  BY <1>1 DEF Held
<1>8. Generated'
  <2>1. rewritten' \in BOOLEAN
    BY <1>5 DEF IInv, Generated
  <2>2. setKeyPool' \subseteq 1 .. keys'
    BY <1>1, <1>6 DEF SoundFile
  <2> QED BY <1>1, <1>5, <1>6, <2>1, <2>2, OthersGenerated DEF IInv, SoundFile, Generated
<1>9. Records'
  BY <1>1, <1>6, <1>7 DEF SoundFile, Records, UsedNotStored
<1>10. Holds'
  BY <1>1, <1>4, <1>5, <1>6, <1>7 DEF IInv, Holds
<1>11. Above'
  BY <1>1 DEF Above
<1> QED BY <1>8, <1>9, <1>10, <1>11 DEF IInv

\* A thread lets go of its key.
LEMMA LetGo ==
  ASSUME Generated, NEW t \in Threads, held[t] # None,
         NEW h, h = [held EXCEPT ![t] = None]
  PROVE  /\ h \in [Threads -> [index : 1 .. keys, key : 1 .. keys] \cup {None}]
         /\ {u \in Threads : h[u] # None} = Held \ {t}
         /\ \A u \in Held \ {t} : h[u] = held[u]
         /\ t \in Held
<1>1. held \in [Threads -> [index : 1 .. keys, key : 1 .. keys] \cup {None}]
  BY DEF Generated
<1> QED BY <1>1 DEF Held

LEMMA KeepKeyInv ==
  ASSUME IInv, NEW t \in Threads, KeepKey(t)
  PROVE  IInv'
<1>1. /\ held[t] # None
      /\ pool' = Erase(pool, held[t].index)
      /\ used' = used \cup {held[t].key}
      /\ held' = [held EXCEPT ![t] = None]
      /\ UNCHANGED <<setKeyPool, keys, coinbase, mined, crypted, locked, rewritten>>
  BY DEF KeepKey
<1>2. /\ held' \in [Threads -> [index : 1 .. keys, key : 1 .. keys] \cup {None}]
      /\ Held' = Held \ {t} /\ t \in Held
      /\ \A u \in Held \ {t} : held'[u] = held[u]
  BY <1>1, LetGo DEF IInv, Held
<1>3. /\ DOMAIN pool' = DOMAIN pool \ {held[t].index}
      /\ \A i \in DOMAIN pool' : pool'[i] = pool[i]
  BY <1>1 DEF Erase, Without
<1>4. Generated'
  <2>1. held[t].key \in 1 .. keys
    BY <1>2, HeldRecord DEF IInv
  <2> QED BY <1>1, <1>2, <1>3, <2>1 DEF IInv, Generated
<1>5. Records'
  BY <1>1, <1>2, <1>3 DEF IInv, Records, UsedNotStored
<1>6. Holds'
  BY <1>1, <1>2, <1>3 DEF IInv, Holds
<1>7. Above'
  BY <1>1, <1>2 DEF IInv, Above
<1> QED BY <1>4, <1>5, <1>6, <1>7 DEF IInv

LEMMA ReturnKeyInv ==
  ASSUME IInv, NEW t \in Threads, ReturnKey(t)
  PROVE  IInv'
<1>1. /\ held[t] # None
      /\ setKeyPool' = setKeyPool \cup {held[t].index}
      /\ held' = [held EXCEPT ![t] = None]
      /\ coinbase' = IF t \in Miners THEN [coinbase EXCEPT ![t] = held[t].key] ELSE coinbase
      /\ UNCHANGED <<pool, keys, used, mined, crypted, locked, rewritten>>
  BY DEF ReturnKey, Released
<1>2. /\ held' \in [Threads -> [index : 1 .. keys, key : 1 .. keys] \cup {None}]
      /\ Held' = Held \ {t} /\ t \in Held
      /\ \A u \in Held \ {t} : held'[u] = held[u]
  BY <1>1, LetGo DEF IInv, Held
<1>3. Generated'
  <2>1. held[t].index \in 1 .. keys /\ held[t].key \in 1 .. keys
    BY <1>2, HeldRecord DEF IInv
  <2>2. coinbase' \in [Threads -> (1 .. keys) \cup {None}]
    BY <1>1, <2>1 DEF IInv, Generated
  <2> QED BY <1>1, <1>2, <2>1, <2>2 DEF IInv, Generated
<1>4. Records'
  BY <1>1, <1>2 DEF IInv, Records, UsedNotStored
<1>5. Holds'
  BY <1>1, <1>2 DEF IInv, Holds
<1>6. Above'
  BY <1>1, <1>2 DEF IInv, Above
<1> QED BY <1>3, <1>4, <1>5, <1>6 DEF IInv

\* The remaining steps leave the file alone.
LEMMA CheckWorkInv ==
  ASSUME IInv, NEW t \in Threads, NEW found \in BOOLEAN, CheckWork(t, found)
  PROVE  IInv'
<1>1. UNCHANGED <<setKeyPool, pool, keys, held, used, crypted, locked, rewritten>>
  BY DEF CheckWork
<1>2. mined' \subseteq 1 .. keys /\ coinbase' \in [Threads -> (1 .. keys) \cup {None}]
  BY DEF CheckWork, IInv, Generated
<1>3. Held' = Held
  BY <1>1 DEF Held
<1> QED BY <1>1, <1>2, <1>3 DEF IInv, Generated, Records, UsedNotStored, Holds, Above

LEMMA RestartInv == IInv /\ Restart => IInv'
<1> SUFFICES ASSUME IInv, Restart PROVE IInv'
  OBVIOUS
<1>1. Held' = {}
  BY DEF Restart, Held
<1>2. Generated'
  BY DEF Restart, IInv, Generated
<1>3. Records'
  BY <1>1 DEF Restart, IInv, Records, UsedNotStored
<1>4. Holds' /\ Above'
  BY <1>1 DEF Restart, Holds, Above
<1> QED BY <1>2, <1>3, <1>4 DEF IInv

LEMMA LockInv == IInv /\ (Lock \/ Unlock \/ UNCHANGED vars) => IInv'
<1> SUFFICES ASSUME IInv, Lock \/ Unlock \/ UNCHANGED vars PROVE IInv'
  OBVIOUS
<1>1. UNCHANGED <<setKeyPool, pool, keys, held, used, coinbase, mined, crypted, rewritten>>
  BY DEF Lock, Unlock, vars
<1>2. locked' \in BOOLEAN /\ (locked' => crypted)
  <2>1. locked \in BOOLEAN /\ (locked => crypted)
    BY DEF IInv, Generated
  <2>2. CASE Lock BY <2>2 DEF Lock
  <2>3. CASE Unlock BY <2>3 DEF Unlock
  <2>4. CASE UNCHANGED vars BY <2>1, <2>4 DEF vars
  <2> QED BY <2>2, <2>3, <2>4
<1>3. Held' = Held
  BY <1>1 DEF Held
<1> QED BY <1>1, <1>2, <1>3 DEF IInv, Generated, Records, UsedNotStored, Holds, Above

LEMMA Invariant == Spec => []IInv
<1>1. Init => IInv
  BY InitInv
<1>2. IInv /\ [Next]_vars => IInv'
  <2> SUFFICES ASSUME IInv, [Next]_vars PROVE IInv'
    OBVIOUS
  <2>1. ASSUME NEW t \in Threads,
               \/ GetReservedKey(t) \/ KeepKey(t) \/ ReturnKey(t)
               \/ \E found \in BOOLEAN : CheckWork(t, found)
        PROVE  IInv'
    BY <2>1, GetReservedKeyInv, KeepKeyInv, ReturnKeyInv, CheckWorkInv
  <2> QED BY <2>1, TopUpKeyPoolInv, EncryptWalletInv, LockInv, GetKeyFromPoolInv, RestartInv
          DEF Next
<1> QED BY <1>1, <1>2, PTL DEF Spec

-----------------------------------------------------------------------------
(* What the wallet relies on.                                              *)

\* Indices, keys and the records that the threads hold stay within what was generated,
\* through every top-up, encryption and restart of wallet.cpp.
THEOREM KeyPoolTypeCorrect == Spec => []KeyPoolTypeOK
<1>1. IInv => KeyPoolTypeOK
  <2> SUFFICES ASSUME IInv PROVE KeyPoolTypeOK
    OBVIOUS
  <2>1. keys \in Nat /\ 1 <= keys /\ keys <= MaxKeys
    BY DEF IInv, Generated
  <2>2. 1 .. keys \subseteq Keys /\ 1 .. keys \subseteq Indices /\ keys \in Keys
    BY <2>1 DEF Keys, Indices
  <2>3. [index : 1 .. keys, key : 1 .. keys] \subseteq [index : Indices, key : Keys]
    BY <2>2
  <2> QED BY <2>2, <2>3 DEF IInv, Generated, KeyPoolTypeOK
<1> QED BY <1>1, Invariant, PTL

\* No key of the pool has two owners, however the threads' reservations interleave with
\* top-ups, encryption and restarts, as long as no index was written again while a
\* thread held it.
THEOREM OneOwnerHolds == Spec => []OneOwner
<1>1. IInv => OneOwner
  <2> SUFFICES ASSUME IInv, ~rewritten, NEW t \in Held
               PROVE  /\ held[t].key \notin used \cup Ready
                      /\ \A u \in Held \ {t} : held[u].key # held[t].key
    BY DEF OneOwner
  <2>1. /\ held[t].index \in DOMAIN pool \ setKeyPool
        /\ pool[held[t].index] = held[t].key
        /\ \A u \in Held \ {t} : held[u].index # held[t].index
    BY DEF IInv, Holds
  <2>2. held[t].key \notin used
    BY <2>1 DEF IInv, Records, UsedNotStored
  <2>3. held[t].key \notin Ready
    BY <2>1 DEF IInv, Records, Ready
  <2>4. ASSUME NEW u \in Held \ {t} PROVE held[u].key # held[t].key
    BY <2>1 DEF IInv, Records
  <2> QED BY <2>2, <2>3, <2>4
<1> QED BY <1>1, Invariant, PTL

\* ReserveKeyFromKeyPool never fails to read an index on offer, under the same condition.
THEOREM PoolReadableHolds == Spec => []PoolReadable
<1>1. IInv => PoolReadable
  BY DEF IInv, Holds, PoolReadable
<1> QED BY <1>1, Invariant, PTL

\* And before encryption the condition holds: TopUpKeyPool leaves two indices on offer
\* at least, so that the pool ends above every index that is held.
THEOREM IndexWrittenOnceHolds == Spec => []IndexWrittenOnce
<1>1. IInv => IndexWrittenOnce
  BY DEF IInv, Above, IndexWrittenOnce
<1> QED BY <1>1, Invariant, PTL

\* A key that was handed out for good is not in the file, so that no restart offers it
\* again; that holds also where an index was written again.
THEOREM UsedNotStoredHolds == Spec => []UsedNotStored
<1>1. IInv => UsedNotStored
  BY DEF IInv, Records
<1> QED BY <1>1, Invariant, PTL
=============================================================================
