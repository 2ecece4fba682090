--------------------------- MODULE MCDoubleSpend ---------------------------
(***************************************************************************)
(* A chain whose last block breaks the rule of the transaction index:      *)
(*                                                                         *)
(*   g -- c -- a -- d      a spends the output of the coinbase of c in t,  *)
(*                         d spends it again in u.                         *)
(***************************************************************************)
EXTENDS BestChain

MCBlock == {"g", "c", "a", "d"}

MCPrev == [b \in MCBlock \ {"g"} |->
             CASE b = "c" -> "g"
               [] b = "a" -> "c"
               [] OTHER   -> "a"]

MCBranch == [b \in MCBlock |->
               CASE b = "g" -> {"g"}
                 [] b = "c" -> {"g", "c"}
                 [] OTHER   -> {"g", "c", "a", b}]

MCTrust == [b \in MCBlock |-> 1]

MCVtx == [b \in MCBlock |->
            CASE b = "a" -> <<"a", "t">>
              [] b = "d" -> <<"d", "u">>
              [] OTHER   -> <<b>>]

MCTx == MCBlock \cup {"t", "u"}

MCVin == [t \in MCTx |-> IF t \in {"t", "u"} THEN <<<<"c", 1>>>> ELSE <<>>]

MCNOut == [t \in MCTx |-> 1]
=============================================================================
