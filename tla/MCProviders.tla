----------------------------- MODULE MCProviders -----------------------------
(* A small instance of Providers: chains of nine blocks with one gap in    *)
(* their times, between any two blocks.  Of the two Bitcoin transactions   *)
(* one pays the wallet, the other spends two satoshi of it and returns one *)
(* as change.                                                              *)
EXTENDS Providers

MCChains ==
  {[h \in 0 .. MaxLatest |-> IF h < g THEN h ELSE h + 1] : g \in 1 .. MaxLatest}

MCTx    == {"pay", "spend"}
MCPaid  == [t \in MCTx |-> 1]
MCSpent == [t \in MCTx |-> IF t = "spend" THEN 2 ELSE 0]
=============================================================================
