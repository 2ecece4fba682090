--------------------------- MODULE MCWalletSpent ---------------------------
(***************************************************************************)
(* Two payments to the wallet, a payment by it that spends both and leaves *)
(* change, two payments that spend the change, a coinstake that spends one *)
(* of the coins received, and the one of others that paid the second coin. *)
(***************************************************************************)
EXTENDS WalletSpent

MCTxs == {"coin", "coin2", "pay", "pay2", "pay3", "stake", "other"}
MCIns == [t \in MCTxs |-> CASE t = "pay" -> {"coin", "coin2"}
                            [] t \in {"pay2", "pay3"} -> {"pay"}
                            [] t = "stake" -> {"coin"}
                            [] t = "coin2" -> {"other"}
                            [] OTHER -> {}]
MCMine == {"coin", "coin2", "pay", "stake"}
=============================================================================
