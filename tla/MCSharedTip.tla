---------------------------- MODULE MCSharedTip ----------------------------
(***************************************************************************)
(* Two blocks a1, a2 from a peer and one block m of this node, all above   *)
(* the genesis g: g -- a1 -- a2 and g -- m.                                *)
(***************************************************************************)
EXTENDS SharedTip

MCPrev == [b \in {"a1", "a2", "m"} |-> IF b = "a2" THEN "a1" ELSE "g"]

MCBranch == [b \in {"g", "a1", "a2", "m"} |->
               CASE b = "g"  -> {"g"}
                 [] b = "a1" -> {"g", "a1"}
                 [] b = "a2" -> {"g", "a1", "a2"}
                 [] b = "m"  -> {"g", "m"}]

MCTrust == [b \in {"g", "a1", "a2", "m"} |-> 1]
=============================================================================
