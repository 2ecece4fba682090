----------------------------- MODULE MCOrphanTx -----------------------------
(***************************************************************************)
(* Parents p and q spend two confirmed coins; a spends p, b spends a and   *)
(* q, c spends the same output as a, and bad fails its own checks.  odd    *)
(* spends q and is nonstandard: only a block may hold it.                  *)
(***************************************************************************)
EXTENDS OrphanTx

MCTx == {"coin", "p", "q", "a", "b", "c", "bad", "odd"}

MCVin == [t \in MCTx |->
  CASE t = "coin" -> <<>>
    [] t = "p"    -> <<<<"coin", 1>>>>
    [] t = "q"    -> <<<<"coin", 2>>>>
    [] t = "a"    -> <<<<"p", 1>>>>
    [] t = "b"    -> <<<<"q", 1>>, <<"a", 1>>>>
    [] t = "c"    -> <<<<"p", 1>>>>
    [] t = "bad"  -> <<<<"p", 2>>>>
    [] t = "odd"  -> <<<<"q", 2>>>>]

MCNOut == [t \in MCTx |-> IF t \in {"coin", "p", "q"} THEN 2 ELSE 1]
MCVtx  == [blk \in {"blk"} |-> <<>>]
=============================================================================
