--------------------------- MODULE MCWalletDialog ---------------------------
(* Two chains with a coin each; x and y are texts, y is also read as CSV.  *)
EXTENDS WalletDialog, TLC

CONSTANTS k1, k2, s1, s2, x, y, cancel, blank, matic, btc, MATIC, BTC, usdt

MCLower == [t \in Text |-> t]
MCCsv == [t \in Text |-> IF t = y THEN Token ELSE {}]
MCBaseCoin == [c \in Chain |-> IF c = matic THEN MATIC ELSE BTC]
MCOptions == [c \in Chain |-> IF c = matic THEN Token ELSE {}]
Symmetry == Permutations(Worker) \cup Permutations(SetupId)
=============================================================================
