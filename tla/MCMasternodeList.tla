------------------------- MODULE MCMasternodeList -------------------------
(***************************************************************************)
(* A masternode and a peer.                                                *)
(***************************************************************************)
EXTENDS MasternodeList

MCLinks == {<<"o", "a">>, <<"a", "o">>}
=============================================================================
