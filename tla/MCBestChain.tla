---------------------------- MODULE MCBestChain ----------------------------
(***************************************************************************)
(* A block tree for model checking BestChain.                              *)
(*                                                                         *)
(*   g -- c -- a1 -- a2 -- a3 -- a4        trust of a4: 6                  *)
(*         \                                                               *)
(*          b1 -- b2 -- x                  trust of b2: 6, of x: 7         *)
(*                                                                         *)
(* The coinbase of c has three outputs.  t1, t2 and t3 are a chain of      *)
(* payments in a1, a2 and a4 that starts at its first output; u in b1      *)
(* spends that output too; w, in a1 and in b2, spends the second one, and  *)
(* v in a1, a nonstandard transaction, the third; s in a2 spends v.        *)
(* Block x fails a contextual check and is never connected.                *)
(***************************************************************************)
EXTENDS BestChain

MCBlock == {"g", "c", "a1", "a2", "a3", "a4", "b1", "b2", "x"}

MCPrev == [b \in MCBlock \ {"g"} |->
             CASE b = "c"  -> "g"
               [] b = "a1" -> "c"
               [] b = "a2" -> "a1"
               [] b = "a3" -> "a2"
               [] b = "a4" -> "a3"
               [] b = "b1" -> "c"
               [] b = "b2" -> "b1"
               [] b = "x"  -> "b2"]

MCBranch ==
  LET up[n \in 0..9, b \in MCBlock] ==
        IF n = 0 \/ b = "g" THEN {b} ELSE {b} \cup up[n - 1, MCPrev[b]]
  IN  [b \in MCBlock |-> up[9, b]]

MCTrust == [b \in MCBlock |-> IF b \in {"b1", "b2"} THEN 2 ELSE 1]

\* The coinbase of block b is named after the block.
MCVtx == [b \in MCBlock |->
            CASE b = "a1" -> <<"a1", "t1", "w", "v">>
              [] b = "a2" -> <<"a2", "t2", "s">>
              [] b = "a4" -> <<"a4", "t3">>
              [] b = "b1" -> <<"b1", "u">>
              [] b = "b2" -> <<"b2", "w">>
              [] OTHER    -> <<b>>]

MCTx == MCBlock \cup {"t1", "t2", "t3", "u", "w", "v", "s"}

MCVin == [t \in MCTx |->
            CASE t = "t1" -> <<<<"c", 1>>>>
              [] t = "t2" -> <<<<"t1", 1>>>>
              [] t = "t3" -> <<<<"t2", 1>>>>
              [] t = "u"  -> <<<<"c", 1>>>>
              [] t = "w"  -> <<<<"c", 2>>>>
              [] t = "v"  -> <<<<"c", 3>>>>
              [] t = "s"  -> <<<<"v", 1>>>>
              [] OTHER    -> <<>>]

MCValid == MCBlock \ {"x"}

MCNOut == [t \in MCTx |-> IF t = "c" THEN 3 ELSE 1]

\* No branch spends an output twice; module MCDoubleSpend has one that does.
ASSUME MCHonest == HonestBlocks(Block)
=============================================================================
