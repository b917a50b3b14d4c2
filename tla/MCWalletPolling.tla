--------------------------- MODULE MCWalletPolling ---------------------------
(* Small instances of WalletPolling: one transaction t1 carries a native   *)
(* transfer and an ERC20 log, as a call of a token contract does; t2 is a  *)
(* plain native transfer.  All of them concern every wallet.               *)
EXTENDS WalletPolling

CONSTANTS w1, w2, n1, e1, n2, t1, t2

MCHash    == [t \in Transfer |-> IF t = n2 THEN t2 ELSE t1]
MCTouches == [t \in Transfer |-> Wallet]
=============================================================================
