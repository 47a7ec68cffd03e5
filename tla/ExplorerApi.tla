----------------------------- MODULE ExplorerApi ----------------------------
(***************************************************************************)
(* ExplorerApiService of the explorer: the network it talks to and the flag    *)
(* that says its last answer was made up.  Most reads ask the indexer's REST   *)
(* API first, the node's RPC next, and fall back on built-in sample data when  *)
(* neither answers.  Every fetch looks the network up when it is sent, so the   *)
(* second of the two may go to another network than the first.               *)
(***************************************************************************)
EXTENDS Naturals

CONSTANTS
    Networks,       \* the keys of NETWORK_CONFIG
    FirstNetwork    \* the network the service starts with

ASSUME NetworksAssumption ==
    FirstNetwork \in Networks /\ {"mock", "none"} \cap Networks = {}

VARIABLES apiNetwork, offline

apiVars == <<apiNetwork, offline>>

(* Where a value on the page comes from. *)
Sources == Networks \cup {"mock"}

(* A read under way: waiting for the API, then for the RPC, then settled. *)
Asks(at, n) == [at |-> at, from |-> n]
fetchJson == Asks("api", apiNetwork)
fetchRpcJson == Asks("rpc", apiNetwork)
Settled(src) == Asks("done", src)
Reads == [at : {"api", "rpc"}, from : Networks] \cup [at : {"done"}, from : Sources]

Outcome(read, flag) == [read |-> read, offline |-> flag]
Answers(c) == Outcome(Settled(c.from), FALSE)
TriesTheNode == Outcome(fetchRpcJson, offline)

(* What may come of a read that is waiting: both write the flag either way. *)
getStats(c) ==
    {Answers(c), IF c.at = "api" THEN TriesTheNode ELSE Outcome(Settled("mock"), TRUE)}
getBlocks(c) ==
    {Answers(c), IF c.at = "api" THEN TriesTheNode ELSE Outcome(Settled("mock"), TRUE)}

(* These ask the API only and leave the flag alone, whichever it was. *)
getTransactions(n) == {n, "mock"}
getValidators(n) == {n, "mock"}

ApiInit == apiNetwork = FirstNetwork /\ offline = FALSE

setNetwork(n) == apiNetwork' = n

ApiTypeOK == apiNetwork \in Networks /\ offline \in BOOLEAN

=============================================================================
