---------------------------- MODULE WalletFundsMC ----------------------------
(* Instances of WalletFunds for TLC. *)
EXTENDS WalletFunds

CONSTANTS s1, s2

=============================================================================
