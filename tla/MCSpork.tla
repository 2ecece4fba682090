------------------------------ MODULE MCSpork ------------------------------
(***************************************************************************)
(* Two nodes that hold the key and whose clocks may disagree.              *)
(***************************************************************************)
EXTENDS Spork

MCLinks   == {<<"a", "b">>, <<"b", "a">>}
MCPadding == [n \in {"a", "b"} |-> IF n = "a" THEN {0} ELSE {0, 1}]
=============================================================================
