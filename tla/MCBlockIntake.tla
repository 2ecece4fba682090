--------------------------- MODULE MCBlockIntake ---------------------------
(***************************************************************************)
(* A block tree for model checking BlockIntake:                            *)
(*                                                                         *)
(*   g -- c -- a1 -- a2            trust of a2: 4                          *)
(*         \                                                               *)
(*          b1 -- b2 -- b3         trust of b1: 4, of b2: 5                *)
(*                                                                         *)
(* c is the last hardened checkpoint.  a1 and b1 are made with the same    *)
(* stake, a2 and b2 with another one, the rest is proof of work.  Every    *)
(* block has a coinbase only, named after the block.                       *)
(***************************************************************************)
EXTENDS BlockIntake

MCBlock == {"g", "c", "a1", "a2", "b1", "b2", "b3"}

MCPrev == [b \in MCBlock \ {"g"} |->
             CASE b = "c"  -> "g"
               [] b = "a1" -> "c"
               [] b = "a2" -> "a1"
               [] b = "b1" -> "c"
               [] b = "b2" -> "b1"
               [] b = "b3" -> "b2"]

MCBranch ==
  LET up[n \in 0..7, b \in MCBlock] ==
        IF n = 0 \/ b = "g" THEN {b} ELSE {b} \cup up[n - 1, MCPrev[b]]
  IN  [b \in MCBlock |-> up[7, b]]

MCTrust == [b \in MCBlock |-> IF b = "b1" THEN 2 ELSE 1]

MCVtx == [b \in MCBlock |-> <<b>>]

MCVin == [b \in MCBlock |-> <<>>]

MCNOut == [b \in MCBlock |-> 1]

\* A threshold below every count of postponed blocks: no payee is enforced.
NoPayee == -1

MCStake == [b \in MCBlock |->
              CASE b \in {"a1", "b1"} -> "s"
                [] b \in {"a2", "b2"} -> "r"
                [] OTHER              -> Null]
=============================================================================
