------------------------- MODULE WalletSpentProofs -------------------------
(***************************************************************************)
(* The marks of the wallet are right for every set of transactions and     *)
(* every sequence of payments, blocks, reorganisations of any length,      *)
(* failed ones included, restarts and repairs.  Neither of the two         *)
(* properties is inductive: that a mark is not lost when its coin is       *)
(* connected again rests on the chain spending nothing before it is made,  *)
(* nothing twice (ValidChain) and nothing that is not in the index         *)
(* (IndexClosed); what a restart or a repair marks rests on the wallet     *)
(* knowing all of the index that involves it (Good).                       *)
(*                                                                         *)
(* A reorganisation tells the wallet of one block after the other.  Good   *)
(* is kept by each of these steps, for the part of the chain that is       *)
(* connected then; an induction over the steps (ToldIn) gives the result.  *)
(***************************************************************************)
EXTENDS WalletSpent, SequenceTheorems, WellFoundedInduction, TLAPS

\* A transaction comes after those it spends, and no two spend the same.
ValidChain ==
  \A i \in DOMAIN chain :
    /\ Ins[chain[i]] \subseteq {chain[j] : j \in 1 .. i - 1}
    /\ \A j \in 1 .. i - 1 : chain[j] # chain[i] /\ Ins[chain[j]] \cap Ins[chain[i]] = {}

Wallets == [known : SUBSET Txs, spent : SUBSET Txs]

\* Nothing in the chain spends what a postponed block made.
IndexClosed == \A t \in InChain : Ins[t] \subseteq InIndex

\* The wallet w has the right marks for a chain of the transactions ts of which xs are
\* in the index.
Good(w, ts, xs) ==
  /\ w \in Wallets /\ w.spent \subseteq w.known \cap Mine
  /\ \A t \in xs : t \in Mine \/ Ins[t] \cap Mine # {} => t \in w.known
  /\ "marks" \notin doubt => SpentBy(xs) \cap w.known \cap Mine \subseteq w.spent
  /\ "refunds" \notin doubt =>
       \A i \in w.spent \cap xs : \E t \in w.known : i \in Ins[t] /\ (t \in Stakes => t \in ts)

IInv == WalletTypeOK /\ ValidChain /\ IndexClosed /\ Good(Wallet, InChain, InIndex)

USE WalletAssumption

-----------------------------------------------------------------------------
(* The steps of a reorganisation.                                          *)

\* A set of natural numbers has a least element.
LEMMA NatMin ==
  ASSUME NEW T \in SUBSET Nat, T # {}
  PROVE  \E x \in T : \A y \in T : x <= y
<1>1. PICK x \in T : \A y \in T : ~(<<y, x>> \in OpToRel(<, Nat))
  BY NatLessThanWellFounded, WFMin
<1>2. ASSUME NEW y \in T PROVE x <= y
  <2>1. y < x => <<y, x>> \in OpToRel(<, Nat)
    BY DEF OpToRel
  <2>2. ~(y < x)
    BY <2>1, <1>1
  <2> QED BY <2>2
<1> QED BY <1>2

\* f is the wallet after each of the first k steps.
ToldSteps(f, w, old, new, k) ==
  f = [i \in 0 .. k |-> IF i = 0 THEN w ELSE Notified(f[i - 1], old, new, i)]

\* The function that Told defines by recursion is there.
LEMMA ToldStepsExist ==
  ASSUME NEW w, NEW old, NEW new, NEW n \in Nat
  PROVE  \E f : ToldSteps(f, w, old, new, n)
<1> DEFINE B == {k \in Nat : ~\E f : ToldSteps(f, w, old, new, k)}
<1> SUFFICES ASSUME B # {} PROVE FALSE
  OBVIOUS
<1>1. PICK k \in B : \A j \in B : k <= j
  BY NatMin
<1>2. k # 0
  <2> DEFINE f == [i \in 0 .. 0 |-> w]
  <2>1. f = [i \in 0 .. 0 |-> IF i = 0 THEN w ELSE Notified(f[i - 1], old, new, i)]
    OBVIOUS
  <2>2. ToldSteps(f, w, old, new, 0)
    BY <2>1 DEF ToldSteps
  <2> QED BY <2>2
<1>3. k - 1 \in Nat /\ k - 1 \notin B
  BY <1>1, <1>2
<1>4. PICK g : ToldSteps(g, w, old, new, k - 1)
  BY <1>3
<1> DEFINE f == [i \in 0 .. k |-> IF i = k THEN Notified(g[k - 1], old, new, k) ELSE g[i]]
<1>5. ASSUME NEW i \in 0 .. k
      PROVE  f[i] = IF i = 0 THEN w ELSE Notified(f[i - 1], old, new, i)
  <2>1. CASE i = k
    <3>1. i # 0 /\ i - 1 \in 0 .. k /\ i - 1 # k
      BY <1>2, <1>3, <2>1
    <3> QED BY <2>1, <3>1
  <2>2. CASE i # k
    <3>1. i \in 0 .. k - 1 /\ f[i] = g[i]
      BY <1>3, <2>2
    <3>2. g[i] = IF i = 0 THEN w ELSE Notified(g[i - 1], old, new, i)
      BY <1>4, <3>1 DEF ToldSteps
    <3>3. i # 0 => i - 1 \in 0 .. k /\ i - 1 # k
      BY <1>3, <3>1
    <3> QED BY <3>1, <3>2, <3>3
  <2> QED BY <2>1, <2>2
<1>6. ToldSteps(f, w, old, new, k)
  <2>1. [i \in 0 .. k |-> f[i]] =
          [i \in 0 .. k |-> IF i = 0 THEN w ELSE Notified(f[i - 1], old, new, i)]
    BY <1>5
  <2> QED BY <2>1 DEF ToldSteps
<1> QED BY <1>1, <1>6

\* What each step keeps holds of the result: G[i] are the wallets that are right
\* after i steps.
LEMMA ToldIn ==
  ASSUME NEW w, NEW old, NEW new, Len(old) + Len(new) \in Nat,
         NEW G, w \in G[0],
         \A i \in 1 .. Len(old) + Len(new) :
           \A v \in G[i - 1] : Notified(v, old, new, i) \in G[i]
  PROVE  Told(w, old, new) \in G[Len(old) + Len(new)]
<1> DEFINE n == Len(old) + Len(new)
           f == CHOOSE h : ToldSteps(h, w, old, new, n)
           B == {k \in 0 .. n : f[k] \notin G[k]}
<1>1. ToldSteps(f, w, old, new, n)
  BY ToldStepsExist
<1>2. Told(w, old, new) = f[n]
  BY DEF Told, ToldSteps
<1> HIDE DEF f, n
<1>3. ASSUME B # {} PROVE FALSE
  <2>1. B \subseteq Nat
    OBVIOUS
  <2>2. PICK k \in B : \A j \in B : k <= j
    BY <1>3, <2>1, NatMin
  <2>3. k # 0
    BY <1>1, <2>2 DEF ToldSteps
  <2>4. k - 1 \in 0 .. n /\ k \in 1 .. n /\ ~(k <= k - 1)
    BY <2>3 DEF n
  <2>5. f[k - 1] \in G[k - 1]
    BY <2>2, <2>4
  <2>6. f[k] = Notified(f[k - 1], old, new, k)
    BY <1>1, <2>3, <2>4 DEF ToldSteps
  <2> QED BY <2>4, <2>5, <2>6 DEF n
<1>4. n \in 0 .. n
  BY DEF n
<1>5. f[n] \in G[n]
  BY <1>3, <1>4
<1> QED BY <1>2, <1>5 DEF n

-----------------------------------------------------------------------------
(* One step.                                                               *)

\* What Sync makes of a wallet.
LEMMA SyncIs ==
  ASSUME NEW w \in Wallets, NEW t \in Txs, NEW fBlock \in BOOLEAN
  PROVE  LET v == Sync(w, t, fBlock) IN
           /\ v \in Wallets
           /\ \/ /\ t \in w.known \cup Mine \/ IsFromMe(w, t)
                 /\ v.known = w.known \cup {t}
                 /\ v.spent = (w.spent \cup (Ins[t] \cap v.known \cap Mine))
                                \ (IF fBlock THEN {t} ELSE {})
              \/ t \notin w.known \cup Mine /\ ~IsFromMe(w, t) /\ v = w
<1> DEFINE u == [w EXCEPT !.known = @ \cup {t}]
           v == Sync(w, t, fBlock)
<1>1. w.known \subseteq Txs /\ w.spent \subseteq Txs
  BY DEF Wallets
<1>2. u \in Wallets /\ u.known = w.known \cup {t} /\ u.spent = w.spent
  BY <1>1 DEF Wallets
<1>3. CASE t \in w.known \cup Mine \/ IsFromMe(w, t)
  <2>1. v = WalletUpdateSpent(u, t, fBlock)
    BY <1>3 DEF Sync, AddToWallet
  <2> HIDE DEF u
  <2> DEFINE marked == u.spent \cup (Ins[t] \cap u.known \cap Mine)
  <2>2. v = [u EXCEPT !.spent = IF fBlock THEN marked \ {t} ELSE marked]
    BY <2>1 DEF WalletUpdateSpent
  <2>3. marked \subseteq Txs
    BY <1>2 DEF Wallets
  <2> HIDE DEF marked, v
  <2>4. v \in Wallets /\ v.known = u.known /\ v.spent = IF fBlock THEN marked \ {t} ELSE marked
    BY <1>2, <2>2, <2>3 DEF Wallets
  <2>5. v.spent = (w.spent \cup (Ins[t] \cap v.known \cap Mine)) \ (IF fBlock THEN {t} ELSE {})
    BY <1>2, <2>4 DEF marked
  <2> QED BY <1>2, <1>3, <2>4, <2>5 DEF v
<1>4. CASE ~(t \in w.known \cup Mine \/ IsFromMe(w, t))
  BY <1>4 DEF Sync
<1> QED BY <1>3, <1>4

\* What DisableTransaction makes of it.
LEMMA DisableIs ==
  ASSUME NEW w \in Wallets, NEW t \in Txs
  PROVE  LET v == DisableTransaction(w, t) IN
           /\ v \in Wallets /\ v.known = w.known
           /\ \/ t \in Stakes /\ IsFromMe(w, t) /\ v.spent = w.spent \ Ins[t]
              \/ ~(t \in Stakes /\ IsFromMe(w, t)) /\ v.spent = w.spent
<1>1. CASE t \in Stakes /\ IsFromMe(w, t)
  <2>1. DisableTransaction(w, t) = [w EXCEPT !.spent = @ \ Ins[t]]
    BY <1>1 DEF DisableTransaction
  <2> QED BY <1>1, <2>1 DEF Wallets
<1>2. CASE ~(t \in Stakes /\ IsFromMe(w, t))
  BY <1>2 DEF DisableTransaction
<1> QED BY <1>1, <1>2

\* A set of transactions that is the whole of a valid chain.
Closed(ts) == \A t \in ts : Ins[t] \subseteq ts

\* A block is connected: its transaction is told, its coin is not spent yet.
LEMMA ConnectKeepsGood ==
  ASSUME NEW w, NEW ts, NEW xs \in SUBSET Txs, Good(w, ts, xs), Closed(xs),
         NEW t \in Txs, t \notin xs, Ins[t] \subseteq xs
  PROVE  Good(Sync(w, t, TRUE), ts \cup {t}, xs \cup {t})
<1> DEFINE v == Sync(w, t, TRUE)
<1>1. w \in Wallets /\ w.spent \subseteq w.known \cap Mine
  BY DEF Good
<1>2. /\ v \in Wallets
      /\ \/ /\ t \in w.known \cup Mine \/ IsFromMe(w, t)
            /\ v.known = w.known \cup {t}
            /\ v.spent = (w.spent \cup (Ins[t] \cap v.known \cap Mine)) \ {t}
         \/ t \notin w.known \cup Mine /\ ~IsFromMe(w, t) /\ v = w
  BY <1>1, SyncIs
<1> HIDE DEF v
<1>3. t \notin SpentBy(xs \cup {t})
  BY DEF Closed, SpentBy
<1>4. SpentBy(xs \cup {t}) = SpentBy(xs) \cup Ins[t]
  BY DEF SpentBy
<1>5. v.spent \subseteq v.known \cap Mine
  BY <1>1, <1>2
<1>6. ASSUME NEW u \in xs \cup {t}, u \in Mine \/ Ins[u] \cap Mine # {} PROVE u \in v.known
  <2>1. CASE u \in xs
    <3>1. u \in w.known
      BY <1>6, <2>1 DEF Good
    <3> QED BY <1>2, <3>1
  <2>2. CASE u = t
    <3>1. CASE t \in Mine BY <1>2, <2>2, <3>1
    <3>2. CASE Ins[t] \cap Mine # {}
      <4>1. PICK i \in Ins[t] \cap Mine : TRUE
        BY <3>2
      <4>2. i \in w.known
        BY <4>1 DEF Good
      <4>3. IsFromMe(w, t)
        BY <4>1, <4>2 DEF IsFromMe
      <4> QED BY <1>2, <2>2, <4>3
    <3> QED BY <1>6, <2>2, <3>1, <3>2
  <2> QED BY <2>1, <2>2
<1>7. ASSUME "marks" \notin doubt
      PROVE  SpentBy(xs \cup {t}) \cap v.known \cap Mine \subseteq v.spent
  <2>1. SpentBy(xs) \cap w.known \cap Mine \subseteq w.spent
    BY <1>7 DEF Good
  <2> SUFFICES ASSUME NEW i \in SpentBy(xs \cup {t}), i \in v.known, i \in Mine
               PROVE  i \in v.spent
    OBVIOUS
  <2>2. i # t
    BY <1>3
  <2>3. CASE i \in SpentBy(xs)
    BY <1>2, <2>1, <2>2, <2>3
  <2>4. CASE i \in Ins[t]
    BY <1>2, <2>2, <2>4 DEF IsFromMe
  <2> QED BY <1>4, <2>3, <2>4
<1>8. ASSUME "refunds" \notin doubt, NEW i \in v.spent \cap (xs \cup {t})
      PROVE  \E u \in v.known : i \in Ins[u] /\ (u \in Stakes => u \in ts \cup {t})
  <2>1. \A j \in w.spent \cap xs : \E u \in w.known : j \in Ins[u] /\ (u \in Stakes => u \in ts)
    BY <1>8 DEF Good
  <2>2. i # t
    BY <1>1, <1>2
  <2>3. CASE i \in w.spent
    <3>1. PICK u \in w.known : i \in Ins[u] /\ (u \in Stakes => u \in ts)
      BY <2>1, <2>2, <2>3
    <3> QED BY <1>2, <3>1
  <2>4. CASE i \notin w.spent
    BY <1>2, <2>4
  <2> QED BY <2>3, <2>4
<1> QED BY <1>2, <1>5, <1>6, <1>7, <1>8 DEF Good, v

\* A block is disconnected: what its coinstake spent, and nothing else of the chain
\* spends, is free again.
LEMMA DisconnectKeepsGood ==
  ASSUME NEW w, NEW ts \in SUBSET Txs, NEW xs \in SUBSET ts, Good(w, ts, xs),
         NEW t \in ts, \A u \in ts \ {t} : Ins[u] \cap Ins[t] = {}
  PROVE  Good(DisableTransaction(w, t), ts \ {t}, xs \ {t})
<1> DEFINE v == DisableTransaction(w, t)
<1>1. w \in Wallets /\ w.spent \subseteq w.known \cap Mine
  BY DEF Good
<1>2. /\ v \in Wallets /\ v.known = w.known
      /\ \/ t \in Stakes /\ IsFromMe(w, t) /\ v.spent = w.spent \ Ins[t]
         \/ ~(t \in Stakes /\ IsFromMe(w, t)) /\ v.spent = w.spent
  BY <1>1, DisableIs
<1> HIDE DEF v
<1>3. v.spent \subseteq v.known \cap Mine
  BY <1>1, <1>2
<1>4. \A u \in xs \ {t} : u \in Mine \/ Ins[u] \cap Mine # {} => u \in v.known
  BY <1>2 DEF Good
<1>5. ASSUME "marks" \notin doubt
      PROVE  SpentBy(xs \ {t}) \cap v.known \cap Mine \subseteq v.spent
  <2>1. SpentBy(xs) \cap w.known \cap Mine \subseteq w.spent
    BY <1>5 DEF Good
  <2>2. SpentBy(xs \ {t}) \subseteq SpentBy(xs) \ Ins[t]
    BY DEF SpentBy
  <2> QED BY <1>2, <2>1, <2>2
<1>6. ASSUME "refunds" \notin doubt, NEW i \in v.spent \cap (xs \ {t})
      PROVE  \E u \in v.known : i \in Ins[u] /\ (u \in Stakes => u \in ts \ {t})
  <2>1. i \in w.spent \cap xs
    BY <1>2, <1>6
  <2>2. PICK u \in w.known : i \in Ins[u] /\ (u \in Stakes => u \in ts)
    BY <1>6, <2>1 DEF Good
  <2>3. ~(u = t /\ t \in Stakes)
    BY <1>1, <1>2, <1>6, <2>1, <2>2 DEF IsFromMe
  <2> QED BY <1>2, <2>2, <2>3
<1> QED BY <1>2, <1>3, <1>4, <1>5, <1>6 DEF Good, v

\* A block joins the chain and the index has nothing of it.
LEMMA PostponedKeepsGood ==
  ASSUME NEW ts, NEW xs, NEW w, Good(w, ts, xs), NEW us, ts \subseteq us
  PROVE  Good(w, us, xs)
BY DEF Good

-----------------------------------------------------------------------------
(* Chains.                                                                 *)

\* The first k transactions of the chain.
Prefix(k) == {chain[j] : j \in 1 .. k}

LEMMA ChainFacts ==
  ASSUME IInv
  PROVE  /\ chain \in Seq(Txs) /\ Len(chain) \in Nat /\ DOMAIN chain = 1 .. Len(chain)
         /\ \A i \in 1 .. Len(chain) : chain[i] \in Txs
         /\ InChain = Prefix(Len(chain)) /\ InChain \subseteq Txs
<1>1. chain \in Seq(Txs)
  BY DEF IInv, WalletTypeOK
<1>2. Len(chain) \in Nat /\ DOMAIN chain = 1 .. Len(chain)
  BY <1>1, LenProperties
<1>3. \A i \in 1 .. Len(chain) : chain[i] \in Txs
  BY <1>1, ElementOfSeq
<1> QED BY <1>1, <1>2, <1>3 DEF InChain, Range, Prefix

\* Every first part of the chain holds what its transactions spend.
LEMMA PrefixClosed ==
  ASSUME IInv, NEW k \in 0 .. Len(chain)
  PROVE  Closed(Prefix(k)) /\ Prefix(k) \subseteq Txs
<1>1. /\ Len(chain) \in Nat /\ DOMAIN chain = 1 .. Len(chain)
      /\ \A i \in 1 .. Len(chain) : chain[i] \in Txs
  BY ChainFacts
<1>2. ASSUME NEW j \in 1 .. k PROVE Ins[chain[j]] \subseteq Prefix(k)
  <2>1. j \in 1 .. Len(chain) /\ 1 .. j - 1 \subseteq 1 .. k
    BY <1>1
  <2>2. Ins[chain[j]] \subseteq {chain[m] : m \in 1 .. j - 1}
    BY <1>1, <2>1 DEF IInv, ValidChain
  <2> QED BY <2>1, <2>2 DEF Prefix
<1>3. 1 .. k \subseteq 1 .. Len(chain)
  BY <1>1
<1> QED BY <1>1, <1>2, <1>3 DEF Closed, Prefix

\* And so does the part of it that is in the index.
LEMMA IndexPrefixClosed ==
  ASSUME IInv, NEW k \in 0 .. Len(chain)
  PROVE  Closed(Prefix(k) \ postponed) /\ Prefix(k) \subseteq InChain
<1>1. Len(chain) \in Nat /\ InChain = Prefix(Len(chain))
  BY ChainFacts
<1>2. 1 .. k \subseteq 1 .. Len(chain)
  BY <1>1
<1>3. Prefix(k) \subseteq InChain
  BY <1>1, <1>2 DEF Prefix
<1> QED BY <1>3, PrefixClosed DEF Closed, IInv, IndexClosed, InIndex

\* A transaction that is not in the index is spent by none of the chain.
LEMMA ChainClosed ==
  ASSUME IInv
  PROVE  /\ Closed(InIndex) /\ InChain \subseteq Txs /\ InIndex \subseteq InChain
         /\ SpentBy(InIndex) \subseteq InIndex
<1>1. InChain \subseteq Txs /\ InIndex \subseteq InChain
  BY ChainFacts DEF InIndex
<1> QED BY <1>1 DEF Closed, SpentBy, IInv, IndexClosed

\* The blocks of another branch: each connects to ts and what is before it, and spends
\* nothing of p, which the index lacks.
Branch(s, ts, p) ==
  /\ s \in Seq(Txs) /\ Len(s) \in Nat /\ DOMAIN s = 1 .. Len(s)
  /\ \A i \in 1 .. Len(s) :
       LET before == ts \cup {s[j] : j \in 1 .. i - 1} IN
         /\ s[i] \in Txs /\ s[i] \notin before
         /\ Ins[s[i]] \subseteq before \ SpentBy(before)
         /\ Ins[s[i]] \cap p = {}

LEMMA ExtensionIs ==
  ASSUME NEW c \in Seq(Txs), NEW p, NEW m, NEW s \in Extensions(c, p, m)
  PROVE  Branch(s, Range(c), p)
<1>1. PICK k \in 1 .. m : s \in [1 .. k -> Txs \ Range(c)]
  BY DEF Extensions
<1>2. k \in Nat
  BY <1>1
<1>3. s \in Seq(Txs)
  BY <1>1, <1>2, SeqDef
<1>4. Len(s) \in Nat /\ DOMAIN s = 1 .. Len(s) /\ \A i \in 1 .. Len(s) : s[i] \in Txs
  BY <1>3, LenProperties, ElementOfSeq
<1>5. ASSUME NEW i \in 1 .. Len(s)
      PROVE  Range(c \o SubSeq(s, 1, i - 1)) = Range(c) \cup {s[j] : j \in 1 .. i - 1}
  <2> DEFINE q == SubSeq(s, 1, i - 1)
  <2>1. i \in Int /\ i - 1 \in Int /\ 1 \in Int /\ \A j \in 1 .. i - 1 : s[j] \in Txs
    BY <1>4
  <2>2. /\ q \in Seq(Txs) /\ Len(q) = IF 1 <= i - 1 THEN i - 1 - 1 + 1 ELSE 0
        /\ \A j \in 1 .. i - 1 - 1 + 1 : q[j] = s[1 + j - 1]
    BY <2>1, SubSeqProperties
  <2> HIDE DEF q
  <2>3. Len(q) = i - 1 /\ \A j \in 1 .. i - 1 : q[j] = s[j]
    BY <1>4, <2>1, <2>2
  <2>4. /\ c \o q \in Seq(Txs) /\ Len(c \o q) = Len(c) + Len(q)
        /\ \A j \in 1 .. Len(c) + Len(q) :
             (c \o q)[j] = IF j <= Len(c) THEN c[j] ELSE q[j - Len(c)]
    BY <2>2, ConcatProperties
  <2>5. DOMAIN (c \o q) = 1 .. Len(c) + (i - 1) /\ DOMAIN c = 1 .. Len(c) /\ Len(c) \in Nat
    BY <2>3, <2>4, LenProperties
  <2>6. Range(c \o q) \subseteq Range(c) \cup {s[j] : j \in 1 .. i - 1}
    <3> SUFFICES ASSUME NEW j \in 1 .. Len(c) + (i - 1)
                 PROVE  (c \o q)[j] \in Range(c) \cup {s[h] : h \in 1 .. i - 1}
      BY <2>5 DEF Range
    <3>1. CASE j <= Len(c)
      <4>1. j \in DOMAIN c /\ (c \o q)[j] = c[j]
        BY <2>3, <2>4, <2>5, <3>1
      <4> QED BY <4>1 DEF Range
    <3>2. CASE ~(j <= Len(c))
      <4>1. j - Len(c) \in 1 .. i - 1
        BY <2>1, <2>5, <3>2
      <4>2. (c \o q)[j] = s[j - Len(c)]
        BY <2>3, <2>4, <3>2, <4>1
      <4> QED BY <4>1, <4>2
    <3> QED BY <3>1, <3>2
  <2>7. ASSUME NEW j \in DOMAIN c PROVE c[j] \in Range(c \o q)
    <3>1. j \in 1 .. Len(c) + (i - 1) /\ j <= Len(c)
      BY <1>4, <2>5
    <3>2. (c \o q)[j] = c[j]
      BY <2>3, <2>4, <3>1
    <3> QED BY <2>5, <3>1, <3>2 DEF Range
  <2>8. ASSUME NEW j \in 1 .. i - 1 PROVE s[j] \in Range(c \o q)
    <3>1. /\ Len(c) + j \in 1 .. Len(c) + (i - 1) /\ ~(Len(c) + j <= Len(c))
          /\ (Len(c) + j) - Len(c) = j
      BY <2>1, <2>5
    <3>2. (c \o q)[Len(c) + j] = s[j]
      BY <2>3, <2>4, <3>1
    <3> QED BY <2>5, <3>1, <3>2 DEF Range
  <2>9. Range(c) \cup {s[j] : j \in 1 .. i - 1} \subseteq Range(c \o q)
    BY <2>7, <2>8 DEF Range
  <2> QED BY <2>6, <2>9 DEF q
<1>6. \A i \in 1 .. Len(s) : Connects(c \o SubSeq(s, 1, i - 1), p, s[i])
  BY <1>4 DEF Extensions
<1> QED BY <1>3, <1>4, <1>5, <1>6 DEF Connects, Branch

\* The first m blocks of a branch, and the rest.
LEMMA SplitBranch ==
  ASSUME NEW new, NEW ts, NEW p, Branch(new, ts, p), NEW m \in 1 .. Len(new)
  PROVE  LET first == SubSeq(new, 1, m)
             last  == Range(SubSeq(new, m + 1, Len(new)))
         IN  /\ Branch(first, ts, p) /\ last \subseteq Txs
             /\ Range(new) = Range(first) \cup last
             /\ Range(first) \cap last = {} /\ Range(new) \cap ts = {}
<1> DEFINE l == Len(new)
           b == m + 1
           tail == SubSeq(new, b, l)
           told == SubSeq(new, 1, m)
           rest == Range(SubSeq(new, m + 1, Len(new)))
<1>1. /\ l \in Nat /\ new \in Seq(Txs) /\ DOMAIN new = 1 .. l
      /\ \A i \in 1 .. l : LET before == ts \cup {new[j] : j \in 1 .. i - 1} IN
                             /\ new[i] \in Txs /\ new[i] \notin before
                             /\ Ins[new[i]] \subseteq before \ SpentBy(before)
                             /\ Ins[new[i]] \cap p = {}
  BY DEF Branch
<1> HIDE DEF l
<1>2. m \in Nat /\ m <= l /\ 1 <= m /\ m \in Int /\ b \in Int /\ l \in Int /\ 1 \in Int
  BY <1>1 DEF l
<1>3. (\A i \in 1 .. m : new[i] \in Txs) /\ (\A i \in b .. l : new[i] \in Txs)
  BY <1>1, <1>2
<1>4. /\ told \in Seq(Txs) /\ Len(told) = IF 1 <= m THEN m - 1 + 1 ELSE 0
      /\ \A i \in 1 .. m - 1 + 1 : told[i] = new[1 + i - 1]
  BY <1>2, <1>3, SubSeqProperties
<1>5. Len(told) = m /\ \A i \in 1 .. m : told[i] = new[i]
  BY <1>2, <1>4
<1>6. DOMAIN told = 1 .. m
  BY <1>4, <1>5, LenProperties
<1>7. Branch(told, ts, p)
  <2>1. ASSUME NEW i \in 1 .. m
        PROVE  LET before == ts \cup {told[j] : j \in 1 .. i - 1} IN
                 /\ told[i] \in Txs /\ told[i] \notin before
                 /\ Ins[told[i]] \subseteq before \ SpentBy(before)
                 /\ Ins[told[i]] \cap p = {}
    <3>1. i \in 1 .. l /\ \A j \in 1 .. i - 1 : j \in 1 .. m
      BY <1>2
    <3>2. {told[j] : j \in 1 .. i - 1} = {new[j] : j \in 1 .. i - 1}
      BY <1>5, <3>1
    <3> QED BY <1>1, <1>5, <3>1, <3>2
  <2> QED BY <1>2, <1>4, <1>5, <1>6, <2>1 DEF Branch
<1>8. /\ tail \in Seq(Txs) /\ Len(tail) = IF b <= l THEN l - b + 1 ELSE 0
      /\ \A i \in 1 .. l - b + 1 : tail[i] = new[b + i - 1]
  <2> HIDE DEF b
  <2> QED BY <1>2, <1>3, SubSeqProperties
<1>9. Len(tail) = l - m /\ \A i \in 1 .. l - m : tail[i] = new[m + i]
  <2>1. l - b + 1 = l - m /\ (b <= l <=> l - m # 0)
    BY <1>2
  <2>2. \A i \in 1 .. l - m : b + i - 1 = m + i
    BY <1>2
  <2> HIDE DEF b, tail
  <2> QED BY <1>8, <2>1, <2>2
<1>10. rest = {tail[i] : i \in 1 .. l - m}
  <2>1. DOMAIN tail = 1 .. l - m
    BY <1>8, <1>9, LenProperties
  <2> QED BY <2>1 DEF Range, l, rest
<1> HIDE DEF tail, b, rest, told
<1>11. rest = {new[i] : i \in m + 1 .. l}
  <2>1. \A i \in 1 .. l - m : m + i \in m + 1 .. l
    BY <1>2
  <2>2. \A i \in m + 1 .. l : i - m \in 1 .. l - m /\ m + (i - m) = i
    BY <1>2
  <2>3. \A i \in 1 .. l - m : tail[i] \in {new[j] : j \in m + 1 .. l}
    BY <1>9, <2>1
  <2>4. \A i \in m + 1 .. l : new[i] \in {tail[j] : j \in 1 .. l - m}
    BY <1>9, <2>2
  <2> QED BY <1>10, <2>3, <2>4
<1>12. Range(told) = {new[i] : i \in 1 .. m} /\ Range(new) = {new[i] : i \in 1 .. l}
  BY <1>1, <1>5, <1>6 DEF Range
<1>13. 1 .. l = (1 .. m) \cup (m + 1 .. l)
  BY <1>2
<1>14. \A i \in 1 .. m, j \in m + 1 .. l : j \in 1 .. l /\ i \in 1 .. j - 1
  BY <1>2
<1>15. Range(told) \cap rest = {}
  BY <1>1, <1>11, <1>12, <1>14
<1>16. Range(new) \cap ts = {}
  BY <1>1, <1>12
<1> QED BY <1>3, <1>7, <1>11, <1>12, <1>13, <1>15, <1>16 DEF b, told, rest

\* The two parts of the chain that a reorganisation by n blocks tells apart.
LEMMA SplitChain ==
  ASSUME IInv, NEW n \in 0 .. Len(chain),
         NEW kept, kept = Kept(n), NEW old, old = Old(n)
  PROVE  /\ kept \in Seq(Txs) /\ Len(kept) = Len(chain) - n /\ DOMAIN kept = 1 .. Len(chain) - n
         /\ \A i \in 1 .. Len(chain) - n : kept[i] = chain[i]
         /\ Range(kept) = Prefix(Len(chain) - n)
         /\ old \in Seq(Txs) /\ Len(old) = n
         /\ \A i \in 1 .. n : old[i] = chain[Len(chain) - n + i]
         /\ InChain = Range(kept) \cup Range(old) /\ Range(kept) \cap Range(old) = {}
<1> DEFINE l == Len(chain)
           k == l - n
<1>1. l \in Nat /\ k \in Nat /\ k <= l /\ n \in Nat /\ \A i \in 1 .. l : chain[i] \in Txs
  BY ChainFacts
<1> HIDE DEF l
<1>2. /\ 1 \in Int /\ k \in Int /\ k + 1 \in Int /\ l \in Int
      /\ \A i \in 1 .. k : chain[i] \in Txs
      /\ \A i \in k + 1 .. l : chain[i] \in Txs
  BY <1>1
<1>3. /\ kept \in Seq(Txs) /\ Len(kept) = IF 1 <= k THEN k - 1 + 1 ELSE 0
      /\ \A i \in 1 .. k - 1 + 1 : kept[i] = chain[1 + i - 1]
  <2>1. kept = SubSeq(chain, 1, k)
    BY DEF l, Kept
  <2> HIDE DEF k
  <2> QED BY <1>2, <2>1, SubSeqProperties
<1>4. Len(kept) = k /\ \A i \in 1 .. k : kept[i] = chain[i]
  BY <1>1, <1>3
<1>5. DOMAIN kept = 1 .. k
  BY <1>3, <1>4, LenProperties
<1>6. Range(kept) = Prefix(k)
  BY <1>4, <1>5 DEF Range, Prefix
<1> DEFINE b == k + 1
<1>7. /\ old \in Seq(Txs) /\ Len(old) = IF b <= l THEN l - b + 1 ELSE 0
      /\ \A i \in 1 .. l - b + 1 : old[i] = chain[b + i - 1]
  <2>1. old = SubSeq(chain, b, l)
    BY DEF l, Old
  <2>2. b \in Int /\ l \in Int /\ \A i \in b .. l : chain[i] \in Txs
    BY <1>2
  <2> HIDE DEF b
  <2>3. /\ SubSeq(chain, b, l) \in Seq(Txs)
        /\ Len(SubSeq(chain, b, l)) = IF b <= l THEN l - b + 1 ELSE 0
        /\ \A i \in 1 .. l - b + 1 : SubSeq(chain, b, l)[i] = chain[b + i - 1]
    BY <2>2, SubSeqProperties
  <2> QED BY <2>1, <2>3
<1>8. Len(old) = n /\ \A i \in 1 .. n : old[i] = chain[k + i]
  <2>1. l - b + 1 = n /\ (b <= l <=> n # 0)
    BY <1>1
  <2>2. \A i \in 1 .. n : b + i - 1 = k + i
    BY <1>1
  <2> HIDE DEF k, b
  <2> QED BY <1>1, <1>7, <2>1, <2>2
<1>9. Range(old) = {chain[j] : j \in k + 1 .. l}
  <2>1. DOMAIN old = 1 .. n
    BY <1>7, <1>8, LenProperties
  <2>2. \A i \in 1 .. n : k + i \in k + 1 .. l
    BY <1>1
  <2>3. \A j \in k + 1 .. l : j - k \in 1 .. n /\ k + (j - k) = j
    BY <1>1
  <2>4. Range(old) = {old[i] : i \in 1 .. n}
    BY <2>1 DEF Range
  <2> HIDE DEF k
  <2>5. \A i \in 1 .. n : old[i] \in {chain[j] : j \in k + 1 .. l}
    BY <1>8, <2>2
  <2>6. \A j \in k + 1 .. l : chain[j] \in {old[i] : i \in 1 .. n}
    BY <1>8, <2>3
  <2> QED BY <2>4, <2>5, <2>6
<1>10. InChain = Range(kept) \cup Range(old)
  <2>1. 1 .. l = (1 .. k) \cup (k + 1 .. l)
    BY <1>1
  <2>2. InChain = {chain[j] : j \in 1 .. l}
    BY ChainFacts DEF Prefix, l
  <2> HIDE DEF k
  <2> QED BY <1>6, <1>9, <2>1, <2>2 DEF Prefix
<1>11. Range(kept) \cap Range(old) = {}
  <2>1. \A i \in 1 .. k, j \in k + 1 .. l : j \in 1 .. l /\ i \in 1 .. j - 1
    BY <1>1
  <2>2. \A j \in 1 .. l : \A i \in 1 .. j - 1 : chain[i] # chain[j]
    BY ChainFacts DEF IInv, ValidChain, l
  <2> HIDE DEF k
  <2> QED BY <1>6, <1>9, <2>1, <2>2 DEF Prefix
<1> QED BY <1>3, <1>4, <1>5, <1>6, <1>7, <1>8, <1>10, <1>11 DEF l

\* A reorganisation that commits leaves the right marks for the chain with the blocks new
\* that are told.
LEMMA ReorganizedGood ==
  ASSUME IInv, NEW n \in 0 .. Len(chain),
         NEW kept, kept = Kept(n), NEW old, old = Old(n),
         NEW new, Branch(new, Range(kept), postponed \ Range(old))
  PROVE  Good(Told(Wallet, old, new), Range(kept) \cup Range(new),
              (Range(kept) \ postponed) \cup Range(new))
<1> DEFINE l == Len(chain)
           C(i) == IF i <= n THEN Prefix(l - i)
                   ELSE Prefix(l - n) \cup {new[j] : j \in 1 .. i - n}
           X(i) == IF i <= n THEN Prefix(l - i) \ postponed
                   ELSE (Prefix(l - n) \ postponed) \cup {new[j] : j \in 1 .. i - n}
<1>1. /\ l \in Nat /\ n \in Nat /\ n <= l /\ DOMAIN chain = 1 .. l /\ InChain = Prefix(l)
      /\ \A i \in 1 .. l : chain[i] \in Txs
  BY ChainFacts
<1>2. /\ kept \in Seq(Txs) /\ Range(kept) = Prefix(l - n)
      /\ Len(old) = n /\ \A i \in 1 .. n : old[i] = chain[l - n + i]
      /\ Range(kept) \cap Range(old) = {}
  BY SplitChain
<1>3. /\ Len(new) \in Nat /\ DOMAIN new = 1 .. Len(new)
      /\ \A i \in 1 .. Len(new) :
           LET before == Prefix(l - n) \cup {new[j] : j \in 1 .. i - 1} IN
             /\ new[i] \in Txs /\ new[i] \notin before
             /\ Ins[new[i]] \subseteq before \ SpentBy(before)
             /\ Ins[new[i]] \cap (postponed \ Range(old)) = {}
  <2>1. Branch(new, Prefix(l - n), postponed \ Range(old))
    BY <1>2
  <2> QED BY <2>1 DEF Branch
<1> HIDE DEF l
<1>4. Good(Wallet, C(0), X(0))
  <2>1. C(0) = Prefix(l) /\ X(0) = Prefix(l) \ postponed
    BY <1>1
  <2> QED BY <1>1, <2>1 DEF IInv, InIndex
<1>5. ASSUME NEW i \in 1 .. n, NEW w, Good(w, C(i - 1), X(i - 1))
      PROVE  Good(Notified(w, old, new, i), C(i), X(i))
  <2> DEFINE a == l + 1 - i
  <2>1. a \in 1 .. l /\ a - 1 \in Nat /\ a - 1 = l - i /\ n + 1 - i \in 1 .. n /\ l - n + (n + 1 - i) = a
    BY <1>1
  <2>2. /\ C(i - 1) = Prefix(a) /\ C(i) = Prefix(a - 1)
        /\ X(i - 1) = Prefix(a) \ postponed /\ X(i) = Prefix(a - 1) \ postponed
    <3>1. i <= n /\ i - 1 <= n /\ l - (i - 1) = a
      BY <1>1
    <3> QED BY <2>1, <3>1
  <2>3. Notified(w, old, new, i) = DisableTransaction(w, chain[a])
    <3>1. i <= Len(old) /\ Len(old) + 1 - i = n + 1 - i
      BY <1>1, <1>2
    <3>2. old[n + 1 - i] = chain[a]
      BY <1>2, <2>1
    <3> QED BY <3>1, <3>2 DEF Notified
  <2> HIDE DEF a, C, X
  <2>4. \A j \in 1 .. a - 1 : chain[j] # chain[a] /\ Ins[chain[j]] \cap Ins[chain[a]] = {}
    BY <1>1, <2>1 DEF IInv, ValidChain
  <2>5. Prefix(a - 1) = Prefix(a) \ {chain[a]} /\ chain[a] \in Prefix(a)
    <3>1. 1 .. a = (1 .. a - 1) \cup {a} /\ a \in 1 .. a
      BY <2>1
    <3> QED BY <2>4, <3>1 DEF Prefix
  <2>6. Prefix(a) \subseteq Txs
    <3>1. 1 .. a \subseteq 1 .. l
      BY <1>1, <2>1
    <3> QED BY <1>1, <3>1 DEF Prefix
  <2>7. \A u \in Prefix(a) \ {chain[a]} : Ins[u] \cap Ins[chain[a]] = {}
    BY <2>4, <2>5 DEF Prefix
  <2>8. Good(w, Prefix(a), Prefix(a) \ postponed)
    BY <1>5, <2>2
  <2>9. Good(DisableTransaction(w, chain[a]),
             Prefix(a) \ {chain[a]}, (Prefix(a) \ postponed) \ {chain[a]})
    BY <2>5, <2>6, <2>7, <2>8, DisconnectKeepsGood
  <2>10. (Prefix(a) \ postponed) \ {chain[a]} = (Prefix(a) \ {chain[a]}) \ postponed
    OBVIOUS
  <2> QED BY <2>2, <2>3, <2>5, <2>9, <2>10
<1>6. ASSUME NEW i \in n + 1 .. n + Len(new), NEW w, Good(w, C(i - 1), X(i - 1))
      PROVE  Good(Notified(w, old, new, i), C(i), X(i))
  <2> DEFINE a == i - n
             before == Prefix(l - n) \cup {new[j] : j \in 1 .. a - 1}
             index  == (Prefix(l - n) \ postponed) \cup {new[j] : j \in 1 .. a - 1}
  <2>1. a \in 1 .. Len(new) /\ ~(i <= n) /\ ~(i <= Len(old)) /\ i - Len(old) = a
    BY <1>1, <1>2, <1>3
  <2>2. C(i - 1) = before /\ X(i - 1) = index
    <3>1. CASE i - 1 <= n
      <4>1. i - 1 = n /\ a - 1 = 0
        BY <1>1, <2>1, <3>1
      <4>2. 1 .. a - 1 = {}
        BY <4>1
      <4> QED BY <3>1, <4>1, <4>2
    <3>2. CASE ~(i - 1 <= n)
      <4>1. (i - 1) - n = a - 1
        BY <1>1
      <4> QED BY <3>2, <4>1
    <3> QED BY <3>1, <3>2
  <2>3. C(i) = before \cup {new[a]} /\ X(i) = index \cup {new[a]}
    <3>1. 1 .. a = (1 .. a - 1) \cup {a}
      BY <2>1
    <3>2. /\ C(i) = Prefix(l - n) \cup {new[j] : j \in 1 .. a}
          /\ X(i) = (Prefix(l - n) \ postponed) \cup {new[j] : j \in 1 .. a}
      BY <2>1
    <3> QED BY <3>1, <3>2
  <2>4. Notified(w, old, new, i) = Sync(w, new[a], TRUE)
    BY <2>1 DEF Notified
  <2>5. \A j \in 1 .. a : new[j] \in Txs /\ Ins[new[j]] \subseteq index
    <3> SUFFICES ASSUME NEW j \in 1 .. a
                 PROVE  new[j] \in Txs /\ Ins[new[j]] \subseteq index
      OBVIOUS
    <3>1. j \in 1 .. Len(new) /\ 1 .. j - 1 \subseteq 1 .. a - 1
      BY <1>3, <2>1
    <3>2. /\ new[j] \in Txs
          /\ Ins[new[j]] \subseteq Prefix(l - n) \cup {new[h] : h \in 1 .. j - 1}
          /\ Ins[new[j]] \cap (postponed \ Range(old)) = {}
      BY <1>3, <3>1
    <3> QED BY <1>2, <3>1, <3>2
  <2>6. Closed(index) /\ index \subseteq Txs
    <3>1. Closed(Prefix(l - n) \ postponed) /\ Prefix(l - n) \subseteq Txs
      <4>1. l - n \in 0 .. l
        BY <1>1
      <4> QED BY <4>1, PrefixClosed, IndexPrefixClosed DEF l
    <3>2. \A j \in 1 .. a - 1 : j \in 1 .. a
      BY <2>1
    <3> QED BY <2>5, <3>1, <3>2 DEF Closed
  <2>7. new[a] \in Txs /\ new[a] \notin index /\ Ins[new[a]] \subseteq index
    <3>1. a \in 1 .. a
      BY <2>1
    <3>2. new[a] \notin before
      BY <1>3, <2>1
    <3> QED BY <2>5, <3>1, <3>2
  <2> HIDE DEF before, index, a, C, X
  <2>8. Good(w, before, index)
    BY <1>6, <2>2
  <2>9. Good(Sync(w, new[a], TRUE), before \cup {new[a]}, index \cup {new[a]})
    BY <2>6, <2>7, <2>8, ConnectKeepsGood
  <2> QED BY <2>3, <2>4, <2>9
<1> DEFINE G == [i \in 0 .. n + Len(new) |-> {w \in Wallets : Good(w, C(i), X(i))}]
<1>7. \A i \in 1 .. Len(old) + Len(new) :
        \A w \in G[i - 1] : Notified(w, old, new, i) \in G[i]
  <2> SUFFICES ASSUME NEW i \in 1 .. n + Len(new), NEW w \in G[i - 1]
               PROVE  Notified(w, old, new, i) \in G[i]
    BY <1>2
  <2>1. i - 1 \in 0 .. n + Len(new) /\ i \in 0 .. n + Len(new)
    BY <1>1, <1>3
  <2> HIDE DEF C, X
  <2>2. Good(w, C(i - 1), X(i - 1))
    BY <2>1
  <2>3. i \in 1 .. n \/ i \in n + 1 .. n + Len(new)
    BY <1>1, <1>3
  <2>4. Good(Notified(w, old, new, i), C(i), X(i))
    BY <1>5, <1>6, <2>2, <2>3
  <2> QED BY <2>1, <2>4 DEF Good
<1>8. Wallet \in G[0]
  <2>1. 0 \in 0 .. n + Len(new)
    BY <1>1, <1>3
  <2> HIDE DEF C, X
  <2> QED BY <1>4, <2>1 DEF Good
<1>9. Len(old) + Len(new) \in Nat /\ Len(old) + Len(new) \in 0 .. n + Len(new)
  BY <1>1, <1>2, <1>3
<1>10. Told(Wallet, old, new) \in G[Len(old) + Len(new)]
  <2> HIDE DEF G
  <2> QED BY <1>7, <1>8, <1>9, ToldIn
<1>11. /\ C(n + Len(new)) = Range(kept) \cup Range(new)
       /\ X(n + Len(new)) = (Range(kept) \ postponed) \cup Range(new)
  <2>1. CASE Len(new) = 0
    <3>1. n + Len(new) = n /\ n <= n /\ 1 .. Len(new) = {}
      BY <1>1, <2>1
    <3>2. Range(new) = {}
      BY <1>3, <3>1 DEF Range
    <3> QED BY <1>2, <3>1, <3>2
  <2>2. CASE Len(new) # 0
    <3>1. ~(n + Len(new) <= n) /\ (n + Len(new)) - n = Len(new)
      <4> DEFINE q == Len(new)
      <4>1. q \in Nat /\ q # 0 /\ n \in Nat
        BY <1>1, <1>3, <2>2
      <4> HIDE DEF q
      <4>2. ~(n + q <= n) /\ (n + q) - n = q
        BY <4>1
      <4> QED BY <4>2 DEF q
    <3>2. Range(new) = {new[j] : j \in 1 .. Len(new)}
      BY <1>3 DEF Range
    <3> QED BY <1>2, <3>1, <3>2
  <2> QED BY <2>1, <2>2
<1> HIDE DEF C, X
<1> QED BY <1>2, <1>9, <1>10, <1>11

\* Whatever the wallet is told, it forgets no transaction, and marks only what those it
\* knows spend.
LEMMA ToldGrows ==
  ASSUME IInv, NEW old \in Seq(Txs), NEW new \in Seq(Txs),
         NEW v, v = Told(Wallet, old, new)
  PROVE  /\ v \in Wallets /\ v.spent \subseteq v.known \cap Mine /\ known \subseteq v.known
         /\ \A i \in v.spent : i \in spent \/ \E t \in Range(new) \cap v.known : i \in Ins[t]
<1> DEFINE P(w) == /\ w.spent \subseteq w.known \cap Mine /\ known \subseteq w.known
                   /\ \A i \in w.spent :
                        i \in spent \/ \E t \in Range(new) \cap w.known : i \in Ins[t]
           n == Len(old) + Len(new)
           S == {w \in Wallets : P(w)}
           G == [i \in 0 .. n |-> S]
<1>1. /\ Len(old) \in Nat /\ Len(new) \in Nat /\ n \in Nat
      /\ DOMAIN old = 1 .. Len(old) /\ DOMAIN new = 1 .. Len(new)
      /\ \A i \in 1 .. Len(old) : old[i] \in Txs
      /\ \A i \in 1 .. Len(new) : new[i] \in Txs
  BY LenProperties, ElementOfSeq
<1>2. Wallet \in S
  <2>1. Wallet \in Wallets /\ Wallet.known = known /\ Wallet.spent = spent
    BY DEF Wallet, IInv, Good, Wallets
  <2> QED BY <2>1 DEF IInv, Good
<1>3. ASSUME NEW w \in S, NEW i \in 1 .. n PROVE Notified(w, old, new, i) \in S
  <2> DEFINE x == Notified(w, old, new, i)
  <2>1. CASE i <= Len(old)
    <3> DEFINE t == old[Len(old) + 1 - i]
    <3>1. Len(old) + 1 - i \in 1 .. Len(old)
      BY <1>1, <2>1
    <3>2. t \in Txs /\ x = DisableTransaction(w, t)
      BY <1>1, <2>1, <3>1 DEF Notified
    <3> HIDE DEF t, x
    <3>3. x \in Wallets /\ x.known = w.known /\ x.spent \subseteq w.spent
      BY <3>2, DisableIs
    <3> QED BY <3>3 DEF x
  <2>2. CASE ~(i <= Len(old))
    <3> DEFINE t == new[i - Len(old)]
    <3>1. i - Len(old) \in 1 .. Len(new)
      BY <1>1, <2>2
    <3>2. t \in Txs /\ t \in Range(new) /\ x = Sync(w, t, TRUE)
      BY <1>1, <2>2, <3>1 DEF Notified, Range
    <3> HIDE DEF t, x
    <3>3. x \in Wallets
          /\ \/ /\ x.known = w.known \cup {t}
                /\ x.spent = (w.spent \cup (Ins[t] \cap x.known \cap Mine)) \ {t}
             \/ x = w
      BY <3>2, SyncIs
    <3>4. P(x)
      BY <3>2, <3>3
    <3> QED BY <3>3, <3>4 DEF x
  <2> QED BY <2>1, <2>2
<1> HIDE DEF S
<1>4. \A i \in 1 .. n : \A w \in G[i - 1] : Notified(w, old, new, i) \in G[i]
  <2> SUFFICES ASSUME NEW i \in 1 .. n, NEW w \in G[i - 1]
               PROVE  Notified(w, old, new, i) \in G[i]
    OBVIOUS
  <2>1. i - 1 \in 0 .. n /\ i \in 0 .. n
    BY <1>1
  <2> HIDE DEF n
  <2> QED BY <1>3, <2>1
<1>5. Wallet \in G[0]
  <2>1. 0 \in 0 .. n
    BY <1>1
  <2> HIDE DEF n
  <2> QED BY <1>2, <2>1
<1>6. v \in G[n]
  <2> HIDE DEF G
  <2> QED BY <1>1, <1>4, <1>5, ToldIn
<1>7. n \in 0 .. n
  BY <1>1
<1> HIDE DEF n
<1>8. v \in S
  BY <1>6, <1>7
<1> QED BY <1>8 DEF S

-----------------------------------------------------------------------------
(* The inductive invariant.                                                *)

\* The wallet of the state that SetWallet makes.
LEMMA SetWalletIs ==
  ASSUME NEW w \in Wallets, SetWallet(w)
  PROVE  Wallet' = w /\ known' = w.known /\ spent' = w.spent
<1>1. known' = w.known /\ spent' = w.spent
  BY DEF SetWallet
<1>2. w = [known |-> w.known, spent |-> w.spent]
  BY DEF Wallets
<1> QED BY <1>1, <1>2 DEF Wallet

\* The invariant after a step, in the form in which the steps show it.
LEMMA InvFrom ==
  ASSUME chain' \in Seq(Txs), postponed' \subseteq InChain',
         mempool' \subseteq Txs, refused' \in BOOLEAN,
         doubt' \subseteq {"marks", "refunds"},
         known' \subseteq Txs, spent' \subseteq known' \cap Mine,
         ValidChain', IndexClosed',
         NEW ts, InChain' = ts, NEW xs, InIndex' = xs,
         \A t \in xs : t \in Mine \/ Ins[t] \cap Mine # {} => t \in known',
         "marks" \notin doubt' => SpentBy(xs) \cap known' \cap Mine \subseteq spent',
         "refunds" \notin doubt' =>
           \A i \in spent' \cap xs : \E t \in known' : i \in Ins[t] /\ (t \in Stakes => t \in ts)
  PROVE  IInv'
<1>1. WalletTypeOK'
  BY DEF WalletTypeOK
<1>2. Wallet' \in Wallets /\ Wallet'.known = known' /\ Wallet'.spent = spent'
  BY DEF Wallet, Wallets
<1>3. Good(Wallet, InChain, InIndex)'
  BY <1>2 DEF Good, SpentBy
<1> QED BY <1>1, <1>3 DEF IInv

\* And before it.
LEMMA GoodWallet ==
  ASSUME IInv
  PROVE  /\ Wallet \in Wallets /\ Wallet.known = known /\ Wallet.spent = spent
         /\ known \subseteq Txs /\ spent \subseteq known \cap Mine
         /\ chain \in Seq(Txs) /\ postponed \subseteq InChain /\ mempool \subseteq Txs /\ refused \in BOOLEAN
         /\ doubt \subseteq {"marks", "refunds"}
         /\ \A t \in InIndex : t \in Mine \/ Ins[t] \cap Mine # {} => t \in known
         /\ "marks" \notin doubt => SpentBy(InIndex) \cap known \cap Mine \subseteq spent
         /\ "refunds" \notin doubt =>
              \A i \in spent \cap InIndex :
                \E t \in known : i \in Ins[t] /\ (t \in Stakes => t \in InChain)
<1>1. Wallet.known = known /\ Wallet.spent = spent /\ Wallet \in Wallets
  BY DEF Wallet, IInv, Good
<1>2. Good(Wallet, InChain, InIndex) /\ WalletTypeOK
  BY DEF IInv
<1> QED BY <1>1, <1>2 DEF Good, WalletTypeOK

LEMMA InitInv == Init => IInv
<1> SUFFICES ASSUME Init PROVE IInv
  OBVIOUS
<1>1. chain = <<>> /\ DOMAIN chain = {} /\ InChain = {} /\ InIndex = {}
  BY DEF Init, InChain, InIndex, Range
<1>2. WalletTypeOK
  BY <1>1, EmptySeq DEF Init, WalletTypeOK
<1>3. ValidChain /\ IndexClosed
  BY <1>1 DEF ValidChain, IndexClosed
<1>4. Wallet \in Wallets /\ Wallet.spent = {}
  BY DEF Init, Wallet, Wallets
<1>5. Good(Wallet, InChain, InIndex)
  BY <1>1, <1>4 DEF Good, SpentBy
<1> QED BY <1>2, <1>3, <1>5 DEF IInv

\* A step that leaves the chain alone.
LEMMA ChainStays ==
  ASSUME IInv, UNCHANGED <<chain, postponed>>
  PROVE  /\ ValidChain' /\ IndexClosed' /\ postponed' \subseteq InChain'
         /\ InChain' = InChain /\ InIndex' = InIndex
<1>1. InChain' = InChain /\ InIndex' = InIndex
  BY DEF InChain, InIndex
<1> QED BY <1>1, GoodWallet DEF IInv, ValidChain, IndexClosed

LEMMA ReceiveTxInv ==
  ASSUME IInv, NEW t \in Txs, ReceiveTx(t)
  PROVE  IInv'
<1> DEFINE v == Sync(Wallet, t, FALSE)
<1>1. /\ t \notin InIndex \cup Stakes
      /\ mempool' = mempool \cup {t} /\ SetWallet(v)
      /\ UNCHANGED <<chain, postponed, refused, doubt>>
  BY DEF ReceiveTx, Accepts
<1>2. /\ v \in Wallets
      /\ \/ /\ v.known = known \cup {t}
            /\ v.spent = spent \cup (Ins[t] \cap v.known \cap Mine)
         \/ v.known = known /\ v.spent = spent
  BY GoodWallet, SyncIs
<1> HIDE DEF v
<1>3. Wallet' = v /\ known' = v.known /\ spent' = v.spent
  BY <1>1, <1>2, SetWalletIs
<1>4. /\ ValidChain' /\ IndexClosed' /\ postponed' \subseteq InChain'
      /\ InChain' = InChain /\ InIndex' = InIndex
  BY <1>1, ChainStays
<1>5. known' \subseteq Txs /\ spent' \subseteq known' \cap Mine
  BY <1>2, <1>3, GoodWallet
<1>6. \A u \in InIndex : u \in Mine \/ Ins[u] \cap Mine # {} => u \in known'
  BY <1>2, <1>3, GoodWallet
<1>7. "marks" \notin doubt => SpentBy(InIndex) \cap known' \cap Mine \subseteq spent'
  <2>1. t \notin SpentBy(InIndex)
    BY <1>1, ChainClosed
  <2> QED BY <1>2, <1>3, <2>1, GoodWallet
<1>8. ASSUME "refunds" \notin doubt, NEW i \in spent' \cap InIndex
      PROVE  \E u \in known' : i \in Ins[u] /\ (u \in Stakes => u \in InChain)
  <2>1. CASE i \in spent BY <1>2, <1>3, <1>8, <2>1, GoodWallet
  <2>2. CASE i \notin spent BY <1>1, <1>2, <1>3, <1>8, <2>2
  <2> QED BY <2>1, <2>2
<1>9. mempool' \subseteq Txs
  BY <1>1, GoodWallet
<1> QED BY <1>1, <1>4, <1>5, <1>6, <1>7, <1>8, <1>9, GoodWallet, InvFrom

\* A coin that the wallet takes is marked; it takes none that the chain spends.
LEMMA CommitTransactionInv ==
  ASSUME IInv, NEW t \in Txs, CommitTransaction(t)
  PROVE  IInv'
<1>1. /\ t \notin known \cup Stakes /\ Ins[t] # {}
      /\ \A i \in Ins[t] : i \in (known \cap Mine) \ spent
      /\ known' = known \cup {t} /\ spent' = spent \cup Ins[t]
      /\ mempool' \subseteq mempool \cup {t}
      /\ UNCHANGED <<chain, postponed, doubt>>
  BY DEF CommitTransaction
<1>2. refused' \in BOOLEAN
  <2>1. refused' = (refused \/ (~Accepts(mempool, t) /\ doubt = {}))
    BY DEF CommitTransaction
  <2> QED BY <2>1, GoodWallet
<1>3. /\ ValidChain' /\ IndexClosed' /\ postponed' \subseteq InChain'
      /\ InChain' = InChain /\ InIndex' = InIndex
  BY <1>1, ChainStays
<1>4. known' \subseteq Txs /\ spent' \subseteq known' \cap Mine /\ mempool' \subseteq Txs
  BY <1>1, GoodWallet
<1>5. ASSUME "marks" \notin doubt
      PROVE  SpentBy(InIndex) \cap known' \cap Mine \subseteq spent'
  <2>1. t \notin InIndex
    BY <1>1, <1>5, GoodWallet DEF SpentBy
  <2>2. t \notin SpentBy(InIndex)
    BY <2>1, ChainClosed
  <2> QED BY <1>1, <1>5, <2>2, GoodWallet
<1>6. ASSUME "refunds" \notin doubt, NEW i \in spent' \cap InIndex
      PROVE  \E u \in known' : i \in Ins[u] /\ (u \in Stakes => u \in InChain)
  <2>1. CASE i \in spent BY <1>1, <1>6, <2>1, GoodWallet
  <2>2. CASE i \notin spent BY <1>1, <1>6, <2>2
  <2> QED BY <2>1, <2>2
<1>7. \A u \in InIndex : u \in Mine \/ Ins[u] \cap Mine # {} => u \in known'
  BY <1>1, GoodWallet
<1> QED BY <1>1, <1>2, <1>3, <1>4, <1>5, <1>6, <1>7, GoodWallet, InvFrom

\* Good of the wallet after the step is the last part of the invariant.
LEMMA InvFromGood ==
  ASSUME IInv, chain' \in Seq(Txs), postponed' \subseteq InChain',
         mempool' \subseteq Txs, refused' \in BOOLEAN,
         doubt' = doubt, ValidChain', IndexClosed',
         NEW w, SetWallet(w), NEW ts, InChain' = ts, NEW xs, InIndex' = xs, Good(w, ts, xs)
  PROVE  IInv'
<1>1. w \in Wallets /\ w.spent \subseteq w.known \cap Mine
  BY DEF Good
<1>2. known' = w.known /\ spent' = w.spent
  BY DEF SetWallet
<1>3. known' \subseteq Txs /\ spent' \subseteq known' \cap Mine
  BY <1>1, <1>2 DEF Wallets
<1>4. /\ \A t \in xs : t \in Mine \/ Ins[t] \cap Mine # {} => t \in known'
      /\ "marks" \notin doubt => SpentBy(xs) \cap known' \cap Mine \subseteq spent'
      /\ "refunds" \notin doubt =>
           \A i \in spent' \cap xs : \E t \in known' : i \in Ins[t] /\ (t \in Stakes => t \in ts)
  BY <1>2 DEF Good
<1> QED BY <1>3, <1>4, GoodWallet, InvFrom

LEMMA ConnectBlockInv ==
  ASSUME IInv, NEW t \in Txs, ConnectBlock(t)
  PROVE  IInv'
<1>1. /\ t \notin InChain /\ Ins[t] \subseteq InIndex /\ Ins[t] \subseteq InChain
      /\ Ins[t] \cap SpentBy(InChain) = {}
      /\ chain' = Append(chain, t)
      /\ mempool' = mempool \ {t}
      /\ SetWallet(Sync(Wallet, t, TRUE))
      /\ UNCHANGED <<postponed, refused, doubt>>
  BY DEF ConnectBlock, Connects, InChain, InIndex
<1> DEFINE l == Len(chain)
<1>2. /\ chain \in Seq(Txs) /\ l \in Nat /\ DOMAIN chain = 1 .. l
      /\ InChain = {chain[j] : j \in 1 .. l}
  BY ChainFacts DEF Prefix
<1>3. /\ chain' \in Seq(Txs) /\ DOMAIN chain' = 1 .. l + 1
      /\ chain'[l + 1] = t /\ \A j \in 1 .. l : chain'[j] = chain[j]
  BY <1>1, <1>2
<1> HIDE DEF l
<1>4. InChain' = InChain \cup {t}
  <2>1. 1 .. l + 1 = (1 .. l) \cup {l + 1}
    BY <1>2
  <2>2. InChain' = {chain'[j] : j \in 1 .. l + 1}
    BY <1>3 DEF InChain, Range
  <2> QED BY <1>2, <1>3, <2>1, <2>2
<1>5. ValidChain'
  <2> SUFFICES ASSUME NEW i \in 1 .. l + 1
               PROVE  /\ Ins[chain'[i]] \subseteq {chain'[j] : j \in 1 .. i - 1}
                      /\ \A j \in 1 .. i - 1 : /\ chain'[j] # chain'[i]
                                               /\ Ins[chain'[j]] \cap Ins[chain'[i]] = {}
    BY <1>3 DEF ValidChain
  <2>1. CASE i \in 1 .. l
    <3>1. 1 .. i - 1 \subseteq 1 .. l
      BY <1>2, <2>1
    <3>2. \A j \in 1 .. i - 1 : chain'[j] = chain[j]
      BY <1>3, <3>1
    <3>3. /\ Ins[chain[i]] \subseteq {chain[j] : j \in 1 .. i - 1}
          /\ \A j \in 1 .. i - 1 : chain[j] # chain[i] /\ Ins[chain[j]] \cap Ins[chain[i]] = {}
      BY <1>2, <2>1 DEF IInv, ValidChain
    <3> QED BY <1>3, <2>1, <3>2, <3>3
  <2>2. CASE i = l + 1
    <3>1. i - 1 = l
      BY <1>2, <2>2
    <3>2. {chain'[j] : j \in 1 .. i - 1} = InChain
      BY <1>2, <1>3, <3>1
    <3>3. ASSUME NEW j \in 1 .. l PROVE chain[j] # t /\ Ins[chain[j]] \cap Ins[t] = {}
      BY <1>1, <1>2 DEF SpentBy
    <3> QED BY <1>1, <1>3, <2>2, <3>1, <3>2, <3>3
  <2>3. i \in 1 .. l \/ i = l + 1
    BY <1>2
  <2> QED BY <2>1, <2>2, <2>3
<1>6. Good(Sync(Wallet, t, TRUE), InChain \cup {t}, InIndex \cup {t})
  BY <1>1, ChainClosed, ConnectKeepsGood DEF IInv
<1>7. mempool' \subseteq Txs
  BY <1>1, GoodWallet
<1>8. InIndex' = InIndex \cup {t} /\ postponed' \subseteq InChain'
  BY <1>1, <1>4, GoodWallet DEF InIndex
<1>9. IndexClosed'
  BY <1>1, <1>4, <1>8 DEF IInv, IndexClosed
<1> QED BY <1>1, <1>3, <1>4, <1>5, <1>6, <1>7, <1>8, <1>9, GoodWallet, InvFromGood

\* A reorganisation to the branch new, of which m blocks are told and the rest postponed.
LEMMA BranchInv ==
  ASSUME IInv, NEW n \in 0 .. Len(chain), NEW new \in Branches(n, MaxReorg),
         NEW m \in 1 .. Len(new),
         NEW told, told = SubSeq(new, 1, m),
         NEW rest, rest = Range(SubSeq(new, m + 1, Len(new))),
         NEW back \in SUBSET Range(Old(n))
  PROVE  /\ SpentBy(Range(new)) \cap rest = {}
         /\ chain' = Kept(n) \o new
         /\ postponed' = (postponed \ Range(Old(n))) \cup rest
         /\ mempool' = WithoutConflicts(mempool \cup back, Range(told)) \ rest
         /\ SetWallet(Told(Wallet, Old(n), told))
         /\ UNCHANGED <<refused, doubt>>
         => IInv'
<1> DEFINE l == Len(chain)
           k == l - n
           kept == Kept(n)
           old  == Old(n)
           gone == postponed \ Range(old)
<1>1. SUFFICES ASSUME SpentBy(Range(new)) \cap rest = {},
                      chain' = kept \o new,
                      postponed' = gone \cup rest,
                      mempool' = WithoutConflicts(mempool \cup back, Range(told)) \ rest,
                      SetWallet(Told(Wallet, old, told)),
                      UNCHANGED <<refused, doubt>>
               PROVE  IInv'
  OBVIOUS
<1>2. /\ l \in Nat /\ n \in Nat /\ n \in 0 .. l /\ k \in Nat /\ k <= l /\ k \in 0 .. l
      /\ chain \in Seq(Txs) /\ DOMAIN chain = 1 .. l
  BY ChainFacts
<1>3. /\ kept \in Seq(Txs) /\ Len(kept) = k
      /\ \A i \in 1 .. k : kept[i] = chain[i]
      /\ Range(kept) = Prefix(k) /\ DOMAIN kept = 1 .. k
      /\ old \in Seq(Txs)
      /\ InChain = Range(kept) \cup Range(old) /\ Range(kept) \cap Range(old) = {}
  BY <1>2, SplitChain
<1>4. Branch(new, Range(kept), gone)
  <2>1. new \in Extensions(kept, gone, MaxReorg)
    BY DEF Branches
  <2> HIDE DEF kept, gone
  <2> QED BY <1>3, <2>1, ExtensionIs
<1>5. /\ Branch(told, Range(kept), gone) /\ rest \subseteq Txs
      /\ Range(new) = Range(told) \cup rest
      /\ Range(told) \cap rest = {} /\ Range(new) \cap Range(kept) = {}
  <2>1. /\ m \in 1 .. Len(new) /\ told = SubSeq(new, 1, m)
        /\ rest = Range(SubSeq(new, m + 1, Len(new)))
    OBVIOUS
  <2> HIDE DEF kept, gone
  <2>2. LET first == SubSeq(new, 1, m)
            last  == Range(SubSeq(new, m + 1, Len(new)))
        IN  /\ Branch(first, Range(kept), gone) /\ last \subseteq Txs
            /\ Range(new) = Range(first) \cup last
            /\ Range(first) \cap last = {} /\ Range(new) \cap Range(kept) = {}
    BY ONLY <1>4, <2>1, SplitBranch
  <2> QED BY ONLY <2>1, <2>2
<1>6. Good(Told(Wallet, old, told), Range(kept) \cup Range(new),
           (Range(kept) \ postponed) \cup Range(told))
  <2>1. Good(Told(Wallet, old, told), Range(kept) \cup Range(told),
             (Range(kept) \ postponed) \cup Range(told))
    BY <1>2, <1>5, ReorganizedGood
  <2> HIDE DEF kept, old
  <2> QED BY <1>5, <2>1, PostponedKeepsGood
<1>7. mempool' \subseteq Txs
  <2>1. \A i \in DOMAIN old : old[i] \in Txs
    BY <1>3, LenProperties, ElementOfSeq
  <2>2. back \subseteq Txs
    BY <2>1 DEF Range
  <2> QED BY <1>1, <2>2, GoodWallet DEF WithoutConflicts
<1>8. Prefix(k) \subseteq InChain
  BY <1>2, IndexPrefixClosed
<1> HIDE DEF kept, old, l
<1>9. /\ Len(new) \in Nat /\ new \in Seq(Txs) /\ DOMAIN new = 1 .. Len(new)
      /\ \A i \in 1 .. Len(new) :
           LET before == Prefix(k) \cup {new[j] : j \in 1 .. i - 1} IN
             /\ new[i] \in Txs /\ new[i] \notin before
             /\ Ins[new[i]] \subseteq before \ SpentBy(before)
             /\ Ins[new[i]] \cap gone = {}
  BY <1>3, <1>4 DEF Branch
<1> DEFINE q == Len(new)
<1>10. /\ chain' \in Seq(Txs) /\ DOMAIN chain' = 1 .. k + q
       /\ \A i \in 1 .. k + q : chain'[i] = IF i <= k THEN chain[i] ELSE new[i - k]
  <2>1. /\ chain' \in Seq(Txs) /\ Len(chain') = k + q
        /\ \A i \in 1 .. k + q : chain'[i] = IF i <= k THEN kept[i] ELSE new[i - k]
    <3>1. /\ kept \o new \in Seq(Txs)
          /\ Len(kept \o new) = Len(kept) + Len(new)
          /\ \A i \in 1 .. Len(kept) + Len(new) :
               (kept \o new)[i] = IF i <= Len(kept) THEN kept[i] ELSE new[i - Len(kept)]
      <4>1. kept \in Seq(Txs) /\ new \in Seq(Txs)
        BY <1>3, <1>9
      <4> QED BY ONLY <4>1, ConcatProperties, Zenon
    <3>2. chain' = kept \o new /\ Len(kept) = k
      BY <1>1, <1>3
    <3> HIDE DEF k
    <3> QED BY ONLY <3>1, <3>2, Zenon
  <2>2. DOMAIN chain' = 1 .. k + q
    BY <2>1, LenProperties
  <2> QED BY <1>2, <1>3, <1>9, <2>1, <2>2
<1> HIDE DEF k, q
<1>11. /\ \A i \in 1 .. k : i \in 1 .. k + q /\ chain'[i] = chain[i]
       /\ \A j \in 1 .. q : k + j \in 1 .. k + q /\ chain'[k + j] = new[j]
       /\ \A i \in 1 .. k + q : i \in 1 .. k \/ \E j \in 1 .. q : i = k + j
  <2>1. k \in Nat /\ q \in Nat
    BY <1>2, <1>9 DEF q
  <2>2. \A i \in 1 .. k : i \in 1 .. k + q /\ i <= k
    BY <2>1
  <2>3. \A j \in 1 .. q : k + j \in 1 .. k + q /\ ~(k + j <= k) /\ (k + j) - k = j
    BY <2>1
  <2>4. \A i \in 1 .. k + q : i \in 1 .. k \/ (i - k \in 1 .. q /\ i = k + (i - k))
    BY <2>1
  <2> QED BY <1>10, <2>2, <2>3, <2>4
<1>12. InChain' = Range(kept) \cup Range(new)
  <2>1. InChain' = {chain'[i] : i \in 1 .. k + q}
    BY <1>10 DEF InChain, Range
  <2>2. Range(kept) = {chain[i] : i \in 1 .. k} /\ Range(new) = {new[j] : j \in 1 .. q}
    BY <1>3, <1>9 DEF Range, Prefix, q
  <2> QED BY ONLY <1>11, <2>1, <2>2
<1>13. ValidChain'
  <2> SUFFICES ASSUME NEW i \in 1 .. k + q
               PROVE  /\ Ins[chain'[i]] \subseteq {chain'[j] : j \in 1 .. i - 1}
                      /\ \A j \in 1 .. i - 1 : /\ chain'[j] # chain'[i]
                                               /\ Ins[chain'[j]] \cap Ins[chain'[i]] = {}
    BY <1>10 DEF ValidChain
  <2>0. k \in Nat /\ q \in Nat
    BY <1>2, <1>9 DEF q
  <2>1. CASE i \in 1 .. k
    <3>1. 1 .. i - 1 \subseteq 1 .. k /\ i \in 1 .. l
      BY <1>2, <2>0, <2>1
    <3>2. \A j \in 1 .. i - 1 : chain'[j] = chain[j]
      BY <1>11, <3>1
    <3>3. /\ Ins[chain[i]] \subseteq {chain[j] : j \in 1 .. i - 1}
          /\ \A j \in 1 .. i - 1 : chain[j] # chain[i] /\ Ins[chain[j]] \cap Ins[chain[i]] = {}
      BY <1>2, <3>1 DEF IInv, ValidChain
    <3>4. chain'[i] = chain[i]
      BY <1>11, <2>1
    <3> QED BY ONLY <3>2, <3>3, <3>4
  <2>2. ASSUME NEW d \in 1 .. q, i = k + d
        PROVE  /\ Ins[chain'[i]] \subseteq {chain'[j] : j \in 1 .. i - 1}
               /\ \A j \in 1 .. i - 1 : /\ chain'[j] # chain'[i]
                                        /\ Ins[chain'[j]] \cap Ins[chain'[i]] = {}
    <3> DEFINE before == Prefix(k) \cup {new[j] : j \in 1 .. d - 1}
    <3>1. /\ chain'[i] = new[d] /\ new[d] \notin before
          /\ Ins[new[d]] \subseteq before \ SpentBy(before)
      BY <1>9, <1>11, <2>2 DEF q
    <3>2. before = {chain'[j] : j \in 1 .. i - 1}
      <4>1. \A j \in 1 .. i - 1 : j \in 1 .. k \/ (j - k \in 1 .. d - 1 /\ j = k + (j - k))
        BY <2>0, <2>2
      <4>2. \A j \in 1 .. k : j \in 1 .. i - 1
        BY <2>0, <2>2
      <4>3. \A j \in 1 .. d - 1 : k + j \in 1 .. i - 1 /\ j \in 1 .. q
        BY <2>0, <2>2
      <4>4. ASSUME NEW j \in 1 .. i - 1 PROVE chain'[j] \in before
        BY <1>11, <4>1, <4>3 DEF Prefix
      <4>5. \A j \in 1 .. k : chain[j] \in {chain'[h] : h \in 1 .. i - 1}
        BY <1>11, <4>2
      <4>6. \A j \in 1 .. d - 1 : new[j] \in {chain'[h] : h \in 1 .. i - 1}
        BY <1>11, <4>3
      <4> QED BY <4>4, <4>5, <4>6 DEF Prefix
    <3> HIDE DEF before
    <3>3. \A u \in before : u # new[d] /\ Ins[u] \cap Ins[new[d]] = {}
      BY <3>1 DEF SpentBy
    <3> QED BY <3>1, <3>2, <3>3
  <2> QED BY <1>11, <2>1, <2>2
<1>14. InIndex' = (Range(kept) \ postponed) \cup Range(told)
  <2>1. gone \subseteq Range(kept) /\ Range(kept) \cap gone = Range(kept) \cap postponed
    BY <1>3, GoodWallet
  <2>2. InIndex' = (Range(kept) \cup Range(new)) \ (gone \cup rest)
    BY <1>1, <1>12 DEF InIndex
  <2> HIDE DEF gone
  <2> QED BY <1>5, <2>1, <2>2
<1>15. postponed' \subseteq InChain'
  BY <1>1, <1>3, <1>12, <1>5, GoodWallet
<1>16. IndexClosed'
  <2>1. ASSUME NEW t \in Range(kept) PROVE Ins[t] \subseteq Range(kept) \ postponed
    <3>1. Ins[t] \subseteq Prefix(k)
      BY <1>2, <1>3, PrefixClosed DEF Closed, l
    <3>2. Ins[t] \subseteq InIndex
      BY <1>3, <1>8 DEF IInv, IndexClosed
    <3> QED BY <1>3, <3>1, <3>2 DEF InIndex
  <2>2. ASSUME NEW t \in Range(new) PROVE Ins[t] \subseteq InIndex'
    <3>1. PICK i \in 1 .. q : t = new[i]
      BY <1>9 DEF Range, q
    <3>2. /\ Ins[t] \subseteq Prefix(k) \cup {new[j] : j \in 1 .. i - 1}
          /\ Ins[t] \cap gone = {}
      BY <1>9, <3>1 DEF q
    <3>3. {new[j] : j \in 1 .. i - 1} \subseteq Range(new)
      <4>1. 1 .. i - 1 \subseteq 1 .. q
        BY <1>9, <3>1 DEF q
      <4> QED BY <1>9, <4>1 DEF Range, q
    <3>4. Ins[t] \cap rest = {}
      BY <1>1 DEF SpentBy
    <3> QED BY <1>3, <1>14, <1>5, <3>2, <3>3, <3>4
  <2> QED BY <1>12, <1>14, <2>1, <2>2 DEF IndexClosed
<1> QED BY <1>1, <1>6, <1>7, <1>10, <1>12, <1>13, <1>14, <1>15, <1>16, GoodWallet, InvFromGood

LEMMA ReorganizeInv ==
  ASSUME IInv, NEW n \in 0 .. Len(chain), Reorganize(n)
  PROVE  IInv'
<1> DEFINE back == {t \in Range(Old(n)) \ Stakes : Ins[t] \cap SpentBy(mempool) = {}}
<1>1. back \subseteq Range(Old(n))
  OBVIOUS
<1> QED BY <1>1, BranchInv DEF Reorganize

\* A reorganisation that fails leaves the chain; what it told the wallet puts the marks
\* in doubt and makes it forget nothing.
LEMMA ReorganizeFailsInv ==
  ASSUME IInv, NEW n \in 0 .. Len(chain), ReorganizeFails(n)
  PROVE  IInv'
<1>1. PICK new \in {<<>>} \cup Branches(n, MaxReorg - 1) :
        /\ SetWallet(Told(Wallet, Old(n), new))
        /\ doubt' = {"marks", "refunds"}
        /\ UNCHANGED <<chain, postponed, mempool, refused>>
  BY DEF ReorganizeFails
<1> DEFINE kept == Kept(n)
           old  == Old(n)
           v    == Told(Wallet, old, new)
<1>2. SetWallet(v)
  BY <1>1
<1>3. kept \in Seq(Txs) /\ old \in Seq(Txs)
  BY SplitChain
<1>4. new \in Seq(Txs)
  <2>1. CASE new = <<>> BY <2>1, EmptySeq
  <2>2. CASE new \in Branches(n, MaxReorg - 1)
    <3>1. new \in Extensions(kept, postponed \ Range(old), MaxReorg - 1)
      BY <2>2 DEF Branches
    <3> HIDE DEF kept, old
    <3> QED BY <1>3, <3>1, ExtensionIs DEF Branch
  <2> QED BY <1>1, <2>1, <2>2
<1> HIDE DEF kept, old
<1>5. v \in Wallets /\ v.spent \subseteq v.known \cap Mine /\ known \subseteq v.known
  BY <1>3, <1>4, ToldGrows
<1> HIDE DEF v
<1>6. known' = v.known /\ spent' = v.spent
  BY <1>2 DEF SetWallet
<1>7. known' \subseteq Txs /\ spent' \subseteq known' \cap Mine /\ known \subseteq known'
  BY <1>5, <1>6 DEF Wallets
<1>8. /\ ValidChain' /\ IndexClosed' /\ postponed' \subseteq InChain'
      /\ InChain' = InChain /\ InIndex' = InIndex
  BY <1>1, ChainStays
<1>9. \A t \in InIndex : t \in Mine \/ Ins[t] \cap Mine # {} => t \in known'
  BY <1>7, GoodWallet
<1>10. "marks" \in doubt' /\ "refunds" \in doubt' /\ doubt' \subseteq {"marks", "refunds"}
  BY <1>1
<1> QED BY <1>1, <1>7, <1>8, <1>9, <1>10, GoodWallet, InvFrom

\* A start marks what the index spends of all that the wallet knows, which is all of the
\* index that it should know.
LEMMA RestartInv == IInv /\ Restart => IInv'
<1> SUFFICES ASSUME IInv, Restart PROVE IInv'
  OBVIOUS
<1>1. PICK n \in 1 .. Len(chain) + 1 : \E m \in n - 1 .. Len(chain) :
        SetWallet(Reaccept(Told(Wallet, <<>>, SubSeq(chain, n, m))))
  BY DEF Restart
<1> PICK m \in n - 1 .. Len(chain) :
        SetWallet(Reaccept(Told(Wallet, <<>>, SubSeq(chain, n, m))))
  BY <1>1
<1>2. /\ mempool' \subseteq known' /\ doubt' = doubt \ {"marks"}
      /\ UNCHANGED <<chain, postponed, refused>>
  BY DEF Restart
<1> DEFINE scan == SubSeq(chain, n, m)
           v    == Told(Wallet, <<>>, scan)
<1>3. scan \in Seq(Txs) /\ Range(scan) \subseteq InChain
  <2> DEFINE q == m - n + 1
  <2>1. /\ Len(chain) \in Nat /\ \A i \in 1 .. Len(chain) : chain[i] \in Txs
        /\ InChain = {chain[i] : i \in 1 .. Len(chain)}
    BY ChainFacts DEF Prefix
  <2>2. n \in Int /\ m \in Int /\ \A i \in n .. m : i \in 1 .. Len(chain) /\ chain[i] \in Txs
    BY <2>1
  <2>3. /\ scan \in Seq(Txs) /\ Len(scan) = IF n <= m THEN q ELSE 0
        /\ \A i \in 1 .. q : scan[i] = chain[n + i - 1]
    BY <2>2, SubSeqProperties
  <2>4. Len(scan) = q
    BY <2>1, <2>2, <2>3
  <2>5. DOMAIN scan = 1 .. q
    BY <2>3, <2>4, LenProperties
  <2>6. \A i \in 1 .. q : n + i - 1 \in 1 .. Len(chain)
    BY <2>1
  <2> HIDE DEF scan, q
  <2>7. \A i \in 1 .. q : scan[i] \in InChain
    BY <2>1, <2>3, <2>6
  <2> QED BY <2>3, <2>5, <2>7 DEF Range
<1> HIDE DEF scan
<1>4. /\ v \in Wallets /\ v.spent \subseteq v.known \cap Mine /\ known \subseteq v.known
      /\ \A i \in v.spent : i \in spent \/ \E t \in Range(scan) \cap v.known : i \in Ins[t]
  BY <1>3, EmptySeq, ToldGrows
<1>5. SetWallet(Reaccept(v))
  BY DEF scan
<1> HIDE DEF v
<1> DEFINE read  == {chain[j] : j \in {i \in ReadFrom(1) : chain[1] \notin postponed}}
           found == {t \in read : t \in Mine \/ IsFromMe(v, t)}
<1>6. /\ known' = v.known \cup found
      /\ spent' = v.spent \cup (SpentBy(InIndex) \cap v.known \cap Mine)
  BY <1>5 DEF SetWallet, Reaccept
<1>7. /\ InChain \subseteq Txs /\ InIndex \subseteq InChain
      /\ SpentBy(InIndex) \subseteq InIndex /\ found \subseteq InChain
  <2>1. read \subseteq InChain
    BY ChainFacts DEF ReadFrom, Prefix
  <2> QED BY <2>1, ChainClosed
<1> HIDE DEF read, found
<1>8. known' \subseteq Txs /\ spent' \subseteq known' \cap Mine
  <2>1. v.known \subseteq Txs
    BY <1>4 DEF Wallets
  <2> QED BY <1>4, <1>6, <1>7, <2>1
<1>9. /\ ValidChain' /\ IndexClosed' /\ postponed' \subseteq InChain'
      /\ InChain' = InChain /\ InIndex' = InIndex
  BY <1>2, ChainStays
<1>10. \A t \in InIndex : t \in Mine \/ Ins[t] \cap Mine # {} => t \in known'
  BY <1>4, <1>6, GoodWallet
<1>11. SpentBy(InIndex) \cap known' \cap Mine \subseteq spent'
  <2>1. InIndex \cap Mine \subseteq v.known
    BY <1>4, GoodWallet
  <2> QED BY <1>6, <1>7, <2>1
<1>12. ASSUME "refunds" \notin doubt, NEW i \in spent' \cap InIndex
       PROVE  \E t \in known' : i \in Ins[t] /\ (t \in Stakes => t \in InChain)
  <2>1. CASE i \in v.spent
    <3>1. CASE i \in spent
      <4>1. PICK t \in known : i \in Ins[t] /\ (t \in Stakes => t \in InChain)
        BY <1>12, <3>1, GoodWallet
      <4> QED BY <1>4, <1>6, <4>1
    <3>2. CASE i \notin spent
      <4>1. PICK t \in Range(scan) \cap v.known : i \in Ins[t]
        BY <1>4, <2>1, <3>2
      <4> QED BY <1>3, <1>6, <4>1
    <3> QED BY <3>1, <3>2
  <2>2. CASE i \in SpentBy(InIndex) \cap v.known \cap Mine
    <3>1. PICK t \in InIndex : i \in Ins[t]
      BY <2>2 DEF SpentBy
    <3>2. t \in known'
      BY <1>10, <2>2, <3>1
    <3> QED BY <1>7, <3>1, <3>2
  <2> QED BY <1>6, <1>12, <2>1, <2>2
<1>13. /\ doubt' \subseteq {"marks", "refunds"} /\ ("refunds" \in doubt' <=> "refunds" \in doubt)
       /\ mempool' \subseteq Txs
  BY <1>2, <1>8, GoodWallet
<1> QED BY <1>2, <1>8, <1>9, <1>10, <1>11, <1>12, <1>13, GoodWallet, InvFrom

\* A repair marks what the index spends, by transactions that the wallet knows.
LEMMA FixSpentCoinsInv == IInv /\ FixSpentCoins => IInv'
<1> SUFFICES ASSUME IInv, FixSpentCoins PROVE IInv'
  OBVIOUS
<1>1. /\ spent' = (spent \ InIndex) \cup (known \cap Mine \cap InIndex \cap SpentBy(InIndex))
      /\ doubt' = {} /\ UNCHANGED <<chain, postponed, mempool, known, refused>>
  BY DEF FixSpentCoins
<1>2. /\ ValidChain' /\ IndexClosed' /\ postponed' \subseteq InChain'
      /\ InChain' = InChain /\ InIndex' = InIndex
  BY <1>1, ChainStays
<1>3. known' \subseteq Txs /\ spent' \subseteq known' \cap Mine
  BY <1>1, GoodWallet
<1>4. SpentBy(InIndex) \cap known' \cap Mine \subseteq spent'
  BY <1>1, ChainClosed
<1>5. ASSUME NEW i \in spent' \cap InIndex
      PROVE  \E t \in known' : i \in Ins[t] /\ (t \in Stakes => t \in InChain)
  <2>1. i \in Mine /\ i \in SpentBy(InIndex)
    BY <1>1, <1>5
  <2>2. PICK t \in InIndex : i \in Ins[t]
    BY <2>1 DEF SpentBy
  <2>3. t \in known
    BY <2>1, <2>2, GoodWallet
  <2> QED BY <1>1, <2>2, <2>3 DEF InIndex
<1> QED BY <1>1, <1>2, <1>3, <1>4, <1>5, GoodWallet, InvFrom

LEMMA Invariant == Spec => []IInv
<1>1. Init => IInv
  BY InitInv
<1>2. IInv /\ [Next]_vars => IInv'
  <2> SUFFICES ASSUME IInv, [Next]_vars PROVE IInv'
    OBVIOUS
  <2>1. CASE UNCHANGED vars
    <3>1. UNCHANGED <<chain, postponed, mempool, known, spent, refused, doubt>>
      BY <2>1 DEF vars
    <3>2. /\ ValidChain' /\ IndexClosed' /\ postponed' \subseteq InChain'
          /\ InChain' = InChain /\ InIndex' = InIndex
      BY <3>1, ChainStays
    <3> QED BY <3>1, <3>2, GoodWallet, InvFrom
  <2>2. ASSUME NEW n \in 0 .. Len(chain), Reorganize(n) \/ ReorganizeFails(n)
        PROVE  IInv'
    BY <2>2, ReorganizeInv, ReorganizeFailsInv
  <2> QED BY <2>1, <2>2, ReceiveTxInv, CommitTransactionInv, ConnectBlockInv, RestartInv,
             FixSpentCoinsInv DEF Next
<1> QED BY <1>1, <1>2, PTL DEF Spec

-----------------------------------------------------------------------------
(* The results.                                                            *)

\* Only coins that are the wallet's own and that it knows are ever marked.
THEOREM WalletTypeCorrect == Spec => []WalletTypeOK
<1>1. IInv => WalletTypeOK
  BY DEF IInv
<1> QED BY <1>1, Invariant, PTL

\* A coin that a transaction of the index spends is marked, so that AvailableCoins does
\* not offer it, through reorganisations of any length, with any part of the branch
\* postponed, restarts and repairs; after a reorganisation that failed, from the next
\* start on.  What a postponed block spends is not in the index and not claimed.
THEOREM ConfirmedSpendMarkedHolds == Spec => []ConfirmedSpendMarked
<1>1. IInv => ConfirmedSpendMarked
  BY GoodWallet DEF ConfirmedSpendMarked
<1> QED BY <1>1, Invariant, PTL

\* The coins of a coinstake that was disconnected are free again: DisableTransaction
\* gives back all of them and nothing marks them but another spender.
THEOREM StakeRefundedHolds == Spec => []StakeRefunded
<1>1. IInv => StakeRefunded
  BY GoodWallet DEF StakeRefunded
<1> QED BY <1>1, Invariant, PTL
=============================================================================
