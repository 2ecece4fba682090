---------------------------- MODULE WalletSpent ----------------------------
(***************************************************************************)
(* Which coins the wallet takes for spent (wallet.cpp).  The wallet is told *)
(* of a transaction when one is committed, received or connected, and when *)
(* a block with a coinstake is disconnected (SyncWithWallets, main.cpp);   *)
(* it marks the output of each of its transactions as spent or not and     *)
(* picks the coins of the next payment by these marks.                     *)
(*                                                                         *)
(* A transaction has one output; a block has one transaction.  The block   *)
(* database is the chain of transactions, written at once when a           *)
(* reorganisation commits, while the wallet is told of each block as it is *)
(* disconnected or connected.  A block that SetBestChain postpones until   *)
(* the reorganisation is committed joins the chain without a trace in the  *)
(* transaction index, and the wallet is not told of it: ConnectBlock only  *)
(* checks it.  Every mark is written to the wallet file.                   *)
(* External: which blocks and transactions are made elsewhere, the wallet  *)
(* of a copy of the same keys included.                                    *)
(***************************************************************************)
EXTENDS Naturals, Sequences, Functions

CONSTANTS Txs,
          Ins,      \* Ins[t]: the transactions whose outputs t spends
          Mine,     \* transactions that pay to the wallet
          Stakes,   \* coinstakes
          MaxReorg  \* bound: blocks connected by one reorganisation

ASSUME WalletAssumption ==
  /\ Ins \in [Txs -> SUBSET Txs] /\ Mine \subseteq Txs /\ Stakes \subseteq Txs
  /\ MaxReorg \in Nat

VARIABLES chain,      \* the transactions of the best chain
          postponed,  \* those of postponed blocks, which are not in the index
          mempool,
          known,      \* mapWallet
          spent,      \* outputs marked as spent
          refused,    \* the pool refused what the wallet committed, with no mark in doubt
          doubt       \* "marks", "refunds": which marks a failed reorganisation spoiled

vars == <<chain, postponed, mempool, known, spent, refused, doubt>>

Init ==
  /\ chain = <<>> /\ postponed = {} /\ mempool = {}
  /\ known = {} /\ spent = {}
  /\ refused = FALSE /\ doubt = {}

InChain == Range(chain)
InIndex == InChain \ postponed
SpentBy(ts) == UNION {Ins[t] : t \in ts}

-----------------------------------------------------------------------------
(* The wallet, w = [known, spent].                                         *)

Wallet == [known |-> known, spent |-> spent]
SetWallet(w) == known' = w.known /\ spent' = w.spent

IsFromMe(w, t) == Ins[t] \cap w.known \cap Mine # {}

\* Fault: whatever is spent is marked, whoever owns it.
WalletUpdateSpentAny(w, t, fBlock) ==
  [w EXCEPT !.spent = IF fBlock THEN (@ \cup Ins[t]) \ {t} ELSE @ \cup Ins[t]]

\* WalletUpdateSpent: the inputs are spent; the outputs of a transaction in a block
\* are not.
WalletUpdateSpent(w, t, fBlock) ==
  [w EXCEPT !.spent = LET marked == @ \cup (Ins[t] \cap w.known \cap Mine)
                      IN  IF fBlock THEN marked \ {t} ELSE marked]

AddToWallet(w, t, fBlock) == WalletUpdateSpent([w EXCEPT !.known = @ \cup {t}], t, fBlock)

\* AddToWalletIfInvolvingMe.
Sync(w, t, fBlock) ==
  IF t \in w.known \cup Mine \/ IsFromMe(w, t) THEN AddToWallet(w, t, fBlock) ELSE w

\* Fault: the coins of an orphaned coinstake are not given back.
DisableTransactionNot(w, t) == w

DisableTransaction(w, t) ==
  IF t \in Stakes /\ IsFromMe(w, t) THEN [w EXCEPT !.spent = @ \ Ins[t]] ELSE w

-----------------------------------------------------------------------------
(* The memory pool.                                                        *)

Accepts(pool, t) ==
  /\ t \notin pool \cup InIndex \cup Stakes
  /\ Ins[t] \cap SpentBy(pool \cup InIndex) = {}
  /\ Ins[t] \subseteq pool \cup InIndex

\* removeConflicts and the transactions that depend on them; bound: two levels.
WithoutConflicts(pool, ts) ==
  LET bad  == {p \in pool \ ts : Ins[p] \cap SpentBy(ts) # {}}
      bad2 == {p \in pool : Ins[p] \cap bad # {}}
  IN  pool \ (ts \cup bad \cup bad2 \cup {p \in pool : Ins[p] \cap bad2 # {}})

ReceiveTx(t) ==
  /\ Accepts(mempool, t)
  /\ mempool' = mempool \cup {t}
  /\ SetWallet(Sync(Wallet, t, FALSE))
  /\ UNCHANGED <<chain, postponed, refused, doubt>>

\* IsTrusted: in the chain (one that is postponed counts if a scan has found it; here
\* it always does), or unconfirmed and ours with all it depends on.
IsTrusted(t) ==
  \/ t \in InChain
  \/ \E own \in SUBSET mempool :
       t \in own /\ \A p \in own : IsFromMe(Wallet, p) /\ Ins[p] \subseteq own \cup InChain

\* CreateTransaction and CommitTransaction.  AvailableCoins goes by the marks.
CommitTransaction(t) ==
  /\ t \notin known \cup Stakes /\ Ins[t] # {}
  /\ \A i \in Ins[t] : i \in (known \cap Mine) \ spent /\ IsTrusted(i)
  /\ known' = known \cup {t}
  /\ spent' = spent \cup Ins[t]
  /\ mempool' = IF Accepts(mempool, t) THEN mempool \cup {t} ELSE mempool
  /\ refused' = (refused \/ (~Accepts(mempool, t) /\ doubt = {}))
  /\ UNCHANGED <<chain, postponed, doubt>>

-----------------------------------------------------------------------------
(* Blocks.                                                                 *)

\* The transaction t can be in a block on top of the chain c, and the node connects it
\* when those that t spends are in the index, which lacks p.
Connects(c, p, t) ==
  /\ t \notin Range(c)
  /\ Ins[t] \subseteq Range(c) \ (p \cup SpentBy(Range(c)))

\* The chains that extend c by at most n blocks.
Extensions(c, p, n) ==
  {s \in UNION {[1 .. k -> Txs \ Range(c)] : k \in 1 .. n} :
     \A i \in DOMAIN s : Connects(c \o SubSeq(s, 1, i - 1), p, s[i])}

\* A block on top of the best chain: SetBestChainInner.
ConnectBlock(t) ==
  /\ Connects(chain, postponed, t)
  /\ chain' = Append(chain, t)
  /\ mempool' = mempool \ {t}
  /\ SetWallet(Sync(Wallet, t, TRUE))
  /\ UNCHANGED <<postponed, refused, doubt>>

\* What the wallet is told by the step i of a reorganisation: of the blocks old that are
\* disconnected, the last one first, and of those of new that are connected.
Notified(w, old, new, i) ==
  IF i <= Len(old) THEN DisableTransaction(w, old[Len(old) + 1 - i])
  ELSE Sync(w, new[i - Len(old)], TRUE)

\* The wallet after all of them.
Told(w, old, new) ==
  LET steps == Len(old) + Len(new)
      told[i \in 0 .. steps] == IF i = 0 THEN w ELSE Notified(told[i - 1], old, new, i)
  IN  told[steps]

\* The branches of at most k blocks that may take the place of the last n blocks.
Kept(n) == SubSeq(chain, 1, Len(chain) - n)
Old(n)  == SubSeq(chain, Len(chain) - n + 1, Len(chain))
Branches(n, k) == Extensions(Kept(n), postponed \ Range(Old(n)), k)

\* SetBestChain: n blocks make way for the branch new.  Reorganize connects its blocks
\* up to the first that outweighs the tip, the one with number m; the rest is postponed.
\* The disconnected transactions return to the pool unchecked, unless it holds one that
\* conflicts.
Reorganize(n) ==
  \E new \in Branches(n, MaxReorg) : \E m \in 1 .. Len(new) :
    LET told == SubSeq(new, 1, m)
        rest == Range(SubSeq(new, m + 1, Len(new)))
        back == {t \in Range(Old(n)) \ Stakes : Ins[t] \cap SpentBy(mempool) = {}}
    IN  /\ IF n = 0 THEN m = 1 ELSE Head(new) # Head(Old(n))
        /\ SpentBy(Range(new)) \cap rest = {}
        /\ chain' = Kept(n) \o new
        /\ postponed' = (postponed \ Range(Old(n))) \cup rest
        /\ mempool' = WithoutConflicts(mempool \cup back, Range(told)) \ rest
        /\ SetWallet(Told(Wallet, Old(n), told))
        /\ UNCHANGED <<refused, doubt>>

\* Reorganize fails after the blocks new of the other branch: the database is left
\* as it was.
ReorganizeFails(n) ==
  \E new \in {<<>>} \cup Branches(n, MaxReorg - 1) :
    /\ SetWallet(Told(Wallet, Old(n), new))
    /\ doubt' = {"marks", "refunds"}
    /\ UNCHANGED <<chain, postponed, mempool, refused>>

-----------------------------------------------------------------------------
(* Start, and repair.                                                      *)

\* The blocks from number n on that a scan reads after the start: pnext comes from the
\* disk, where the link to a postponed block was not written.
ReadFrom(n) ==
  {k \in n .. Len(chain) : \A j \in n + 1 .. k : chain[j] \notin postponed}

\* Fault: the database is not asked for coins spent elsewhere.
ReacceptNot(w) == w

\* ReacceptWalletTransactions goes by the index.  A coinstake that is marked is not
\* looked at; a spender that is missing is looked for from the genesis block on.
Reaccept(w) ==
  LET read  == {chain[k] : k \in {j \in ReadFrom(1) : chain[1] \notin postponed}}
      found == {t \in read : t \in Mine \/ IsFromMe(w, t)}
  IN  [known |-> w.known \cup found,
       spent |-> w.spent \cup (SpentBy(InIndex) \cap w.known \cap Mine)]

\* The process ends and starts again: the last blocks are scanned, as far back as the
\* wallet was not saved, and unconfirmed transactions go to the pool, in some order.
Restart ==
  /\ \E n \in 1 .. Len(chain) + 1 : \E m \in n - 1 .. Len(chain) :
       /\ ReadFrom(n) = n .. m
       /\ SetWallet(Reaccept(Told(Wallet, <<>>, SubSeq(chain, n, m))))
  /\ \E pool \in SUBSET (known' \ (InIndex \cup Stakes)) :
       /\ \A t \in pool : /\ Ins[t] \cap (SpentBy(pool \ {t}) \cup SpentBy(InIndex)) = {}
                          /\ Ins[t] \subseteq pool \cup InIndex
       /\ \A t \in known' : ~Accepts(pool, t)
       /\ mempool' = pool
  /\ doubt' = doubt \ {"marks"}
  /\ UNCHANGED <<chain, postponed, refused>>

\* repairwallet: the coins that are in the index are marked by it.
FixSpentCoins ==
  /\ spent' = (spent \ InIndex) \cup (known \cap Mine \cap InIndex \cap SpentBy(InIndex))
  /\ doubt' = {}
  /\ UNCHANGED <<chain, postponed, mempool, known, refused>>

Next ==
  \/ \E t \in Txs : ReceiveTx(t) \/ CommitTransaction(t) \/ ConnectBlock(t)
  \/ \E n \in 0 .. Len(chain) : Reorganize(n) \/ ReorganizeFails(n)
  \/ Restart
  \/ FixSpentCoins

Spec == Init /\ [][Next]_vars

-----------------------------------------------------------------------------
\* Type invariant; only transactions of the chain are postponed.
WalletTypeOK ==
  /\ chain \in Seq(Txs) /\ postponed \subseteq InChain /\ mempool \subseteq Txs
  /\ known \subseteq Txs /\ spent \subseteq known \cap Mine
  /\ refused \in BOOLEAN /\ doubt \subseteq {"marks", "refunds"}

\* A coin that a transaction of the index spends is marked, through reorganisations with
\* postponed blocks, restarts and repairs; after a reorganisation that failed, from the
\* next start on.
ConfirmedSpendMarked ==
  "marks" \notin doubt => SpentBy(InIndex) \cap known \cap Mine \subseteq spent

\* A coin in the index that only coinstakes spent is free again once none of these is
\* in the chain; after a reorganisation that failed, from the next repair on.
StakeRefunded ==
  "refunds" \notin doubt =>
    \A i \in spent \cap InIndex :
      \E t \in known : i \in Ins[t] /\ (t \in Stakes => t \in InChain)

\* A coin that a transaction of the chain spends is marked, postponed blocks included.
\* The code does not keep this: README, section 7.
EverySpendMarked ==
  "marks" \notin doubt => SpentBy(InChain) \cap known \cap Mine \subseteq spent

\* What the wallet commits is accepted by the pool.
\* The code does not keep this: README, section 7.
CommitAccepted == ~refused
=============================================================================
