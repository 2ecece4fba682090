------------------------------ MODULE ChainTip ------------------------------
(***************************************************************************)
(* What the best-chain code promises, without saying how.  The node knows  *)
(* a growing tree of blocks, each with the trust of its chain.  stored is  *)
(* the tip a restart finds; tip is the one the running node shows.  The    *)
(* stored tip moves to a block with more trust, to a checkpoint, or back   *)
(* down its own chain once that chain is known to hold a flawed block; the *)
(* shown tip is only ever brought up to the stored one.                    *)
(***************************************************************************)
EXTENDS Integers

CONSTANTS Block, Genesis, Branch, Checkpoint

VARIABLES trust,   \* the chain trust of every known block
          tip,     \* the tip in memory
          stored,  \* the tip in the database
          flawed   \* the blocks found bad after they were accepted

vars == <<trust, tip, stored, flawed>>

known == DOMAIN trust

Init ==
  /\ known = {Genesis}
  /\ trust[Genesis] \in Nat
  /\ tip = Genesis
  /\ stored = Genesis
  /\ flawed = {}

\* A block joins the tree above all of its ancestors.
Learn(b) ==
  /\ b \notin known
  /\ Branch[b] \ {b} \subseteq known
  /\ known' = known \cup {b}
  /\ \A x \in known : trust'[x] = trust[x]
  /\ \A a \in Branch[b] \ {b} : trust'[b] > trust'[a]
  /\ UNCHANGED <<tip, stored, flawed>>

\* One database transaction moves the stored tip.
Store(b) ==
  /\ b \in known
  /\ \/ trust[b] > trust[stored]
     \/ b \in Checkpoint
     \/ b \in Branch[stored] /\ Branch[stored] \cap flawed # {}
  /\ stored' = b
  /\ UNCHANGED <<trust, tip, flawed>>

\* The running node, or the one that starts again, shows the stored tip.
Show ==
  /\ tip' = stored
  /\ flawed \subseteq flawed'
  /\ UNCHANGED <<trust, stored>>

Next == (\E b \in Block : Learn(b) \/ Store(b)) \/ Show

Spec == Init /\ [][Next]_vars
=============================================================================
