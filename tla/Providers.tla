------------------------------ MODULE Providers ------------------------------
(***************************************************************************)
(* MultiChainProvider: the fetch of a wallet goes to the first provider    *)
(* that supports its chain.  On Polygon one fetch is followed through, on  *)
(* Bitcoin the polls of one wallet; a chain without a provider is an       *)
(* error at once.                                                          *)
(***************************************************************************)
EXTENDS ProviderFetch, BtcPolling

VARIABLE chain   \* wallet.Chain

allVars == <<vars, fetchVars, btcVars, chain>>

Polygon == "matic-mainnet"
Bitcoin == "btc-mainnet"

(* The provider that is not asked: any state of it will do.                *)
NoFetch ==
  /\ FetchInit /\ ~boot /\ latest = 0 /\ target = 0
  /\ time = CHOOSE f \in Chains : TRUE

ProvidersInit ==
  /\ chain \in {Polygon, Bitcoin, "other"}
  /\ BtcInit
  /\ IF chain = Polygon THEN FetchInit ELSE NoFetch

NoProvider ==
  /\ chain \notin {Polygon, Bitcoin} /\ stage = "search"
  /\ stage' = "failed"
  /\ UNCHANGED <<vars, boot, safe, from, to, bn, queue, read, null, logs, taken,
                 ranges, indexed, btcVars, chain>>

ProvidersNext ==
  \/ chain = Polygon /\ FetchNext /\ UNCHANGED <<btcVars, chain>>
  \/ chain = Bitcoin /\ BtcNext /\ UNCHANGED <<vars, fetchVars, chain>>
  \/ NoProvider

(* The node answers each call of a fetch in the end.                       *)
ProvidersSpec ==
  /\ ProvidersInit /\ [][ProvidersNext]_allVars
  /\ WF_allVars(chain = Polygon /\ FetchStep /\ UNCHANGED <<btcVars, chain>>)
  /\ WF_allVars(NoProvider)

-----------------------------------------------------------------------------
(* A Polygon fetch ends by itself, and not only by its 45 s: the search    *)
(* narrows, the chunks advance, and filterLogsChunked does not split a     *)
(* range for ever.                                                         *)
FetchEnds == chain = Bitcoin \/ <>Ended
=============================================================================
