--------------------------- MODULE TransferLedger ---------------------------
(***************************************************************************)
(* What wallet tracking promises, whatever the polling does underneath: a  *)
(* ledger of (wallet, transfer) entries.  An entry is recorded only for a  *)
(* wallet that is tracked, of a transfer that concerns that wallet and     *)
(* that the chain can no longer revert; it then stays until its wallet is  *)
(* untracked, which takes all of the wallet's entries away at once.        *)
(***************************************************************************)
CONSTANTS Wallet,     \* rows of table wallets
          Transfer,   \* transfers the chain may carry
          Touches     \* Touches[t]: the wallets transfer t sends from or to

VARIABLES tracked,    \* wallets being tracked
          settled,    \* transfers the chain can no longer revert
          ledger      \* entries recorded so far

vars == <<tracked, settled, ledger>>

LedgerInit ==
  /\ tracked = {}
  /\ settled = {}
  /\ ledger = {}

Settle ==
  /\ \E T \in SUBSET Transfer : settled \subseteq T /\ settled' = T
  /\ UNCHANGED <<tracked, ledger>>

Track(w) ==
  /\ w \notin tracked
  /\ tracked' = tracked \cup {w}
  /\ UNCHANGED <<settled, ledger>>

Record(w, t) ==
  /\ w \in tracked \cap Touches[t]
  /\ t \in settled
  /\ ledger' = ledger \cup {<<w, t>>}
  /\ UNCHANGED <<tracked, settled>>

Untrack(W) ==
  /\ tracked' = tracked \ W
  /\ ledger' = {e \in ledger : e[1] \notin W}
  /\ UNCHANGED settled

LedgerNext ==
  \/ Settle
  \/ \E w \in Wallet : Track(w)
  \/ \E w \in Wallet, t \in Transfer : Record(w, t)
  \/ \E W \in SUBSET Wallet : Untrack(W)

LedgerSpec == LedgerInit /\ [][LedgerNext]_vars
=============================================================================
