------------------------------ MODULE MCWallet ------------------------------
(* WalletTransactions for TLC: two callers that compete for one wallet.     *)
EXTENDS WalletTransactions

MCAmounts == {1, 2}

=============================================================================
