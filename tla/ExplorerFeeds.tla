---------------------------- MODULE ExplorerFeeds ---------------------------
(***************************************************************************)
(* The lists the explorer shows and how they are refreshed: loadAllData at     *)
(* the start, on a change of network and on a change of page, and the poll of   *)
(* every four seconds.  Several of these run at once and the last to finish    *)
(* wins, whatever network or page it asked for.                              *)
(***************************************************************************)
EXTENDS ExplorerApi, SequencesExt

CONSTANTS
    TotalPages,     \* pages of each list, by the source of the statistics shown
    MaxPage,        \* bound on those
    MaxRefreshes,   \* bound: refreshes under way at once
    MaxChanges      \* bound: changes of network or page by the user

ASSUME FeedsAssumption ==
    /\ {MaxPage, MaxRefreshes} \subseteq Nat \ {0} /\ MaxChanges \in Nat
    /\ TotalPages \in [Sources \cup {"none"} -> 1..MaxPage]

VARIABLES
    network,        \* App.network, what the header names
    blocksPage, txsPage,
    stats, blocks, transactions, validators,    \* where the shown data is from
    refreshes,      \* sequence of refreshes under way, oldest first
    changes         \* changes made so far

feedVars == <<network, blocksPage, txsPage, stats, blocks, transactions,
              validators, refreshes, changes, apiVars>>

RowsOf(src, page) == [src |-> src, page |-> page]
Rows == [src : Sources \cup {"none"}, page : 1..MaxPage]

(* All the calls of a refresh are made at once, to the same network. *)
Refresh(kind, n, bp, tp) ==
    [kind |-> kind, net |-> n, blocksPage |-> bp, txsPage |-> tp,
     stats |-> Asks("api", n), blocks |-> Asks("api", n)]

Begins(kind, n, bp, tp) ==
    /\ Len(refreshes) < MaxRefreshes
    /\ refreshes' = Append(refreshes, Refresh(kind, n, bp, tp))

(* The network shown is the one stored by an earlier visit, or mainnet. *)
FeedsInit ==
    /\ ApiInit
    /\ network \in Networks
    /\ blocksPage = 1 /\ txsPage = 1
    /\ stats = "none" /\ validators = "none"
    /\ blocks = RowsOf("none", 1) /\ transactions = RowsOf("none", 1)
    /\ refreshes = <<Refresh("load", FirstNetwork, 1, 1)>>
    /\ changes = 0

ListsShown == <<stats, blocks, transactions, validators>>

handleNetworkChange(n) ==
    /\ changes < MaxChanges
    /\ n # network
    /\ network' = n
    /\ setNetwork(n)
    /\ Begins("load", n, blocksPage, txsPage)
    /\ changes' = changes + 1
    /\ UNCHANGED <<blocksPage, txsPage, ListsShown, offline>>

(* The pages the four buttons of Pagination lead to.  It is not shown at all     *)
(* when there is one page, and nothing brings a page beyond the last back.    *)
Pagination(current, total) ==
    IF total <= 1 THEN {}
    ELSE (IF current > 1 THEN {1, current - 1} ELSE {})
         \cup (IF current < total THEN {current + 1, total} ELSE {})

onBlocksPageChange(p) ==
    /\ changes < MaxChanges
    /\ p \in Pagination(blocksPage, TotalPages[stats])
    /\ blocksPage' = p
    /\ Begins("load", apiNetwork, p, txsPage)
    /\ changes' = changes + 1
    /\ UNCHANGED <<network, txsPage, ListsShown, apiVars>>

onTxsPageChange(p) ==
    /\ changes < MaxChanges
    /\ p \in Pagination(txsPage, TotalPages[stats])
    /\ txsPage' = p
    /\ Begins("load", apiNetwork, blocksPage, p)
    /\ changes' = changes + 1
    /\ UNCHANGED <<network, blocksPage, ListsShown, apiVars>>

(* The interval is never set. *)
pollNeverFires == FALSE /\ UNCHANGED feedVars

(* The timer asks for the first page, whichever is shown. *)
pollFires ==
    /\ Begins("poll", apiNetwork, 1, 1)
    /\ UNCHANGED <<network, blocksPage, txsPage, ListsShown, changes, apiVars>>

Waits(c) == c.at # "done"

statsAnswered(i) ==
    /\ Waits(refreshes[i].stats)
    /\ \E o \in getStats(refreshes[i].stats) :
          /\ refreshes' = [refreshes EXCEPT ![i].stats = o.read]
          /\ offline' = o.offline
    /\ UNCHANGED <<network, blocksPage, txsPage, ListsShown, changes, apiNetwork>>

blocksAnswered(i) ==
    /\ Waits(refreshes[i].blocks)
    /\ \E o \in getBlocks(refreshes[i].blocks) :
          /\ refreshes' = [refreshes EXCEPT ![i].blocks = o.read]
          /\ offline' = o.offline
    /\ UNCHANGED <<network, blocksPage, txsPage, ListsShown, changes, apiNetwork>>

(* Promise.all resolves.  Nobody sees the answers to the transactions and        *)
(* validators calls before, so they are chosen here.                          *)
Resolves(i) ==
    LET r == refreshes[i] IN
    /\ ~Waits(r.stats) /\ ~Waits(r.blocks)
    /\ stats' = r.stats.from
    /\ blocks' = RowsOf(r.blocks.from, r.blocksPage)
    /\ \E src \in getTransactions(r.net) : transactions' = RowsOf(src, r.txsPage)
    /\ refreshes' = RemoveAt(refreshes, i)
    /\ UNCHANGED <<network, blocksPage, txsPage, changes, apiVars>>

loadAllData(i) ==
    /\ refreshes[i].kind = "load"
    /\ Resolves(i)
    /\ validators' \in getValidators(refreshes[i].net)

pollResolves(i) ==
    /\ refreshes[i].kind = "poll"
    /\ Resolves(i)
    /\ UNCHANGED validators

Progress(i) ==
    i \in DOMAIN refreshes
    /\ (statsAnswered(i) \/ blocksAnswered(i) \/ loadAllData(i) \/ pollResolves(i))

FeedsNext ==
    \/ \E n \in Networks : handleNetworkChange(n)
    \/ \E p \in 1..MaxPage : onBlocksPageChange(p) \/ onTxsPageChange(p)
    \/ pollFires
    \/ \E i \in 1..MaxRefreshes : Progress(i)

(* The interval keeps firing and the browser ends every request. *)
FeedsFairness == WF_feedVars(pollFires) /\ WF_feedVars(Progress(1))

FeedsTypeOK ==
    /\ ApiTypeOK
    /\ network \in Networks
    /\ {blocksPage, txsPage} \subseteq 1..MaxPage
    /\ {stats, validators} \subseteq Sources \cup {"none"}
    /\ {blocks, transactions} \subseteq Rows
    /\ changes \in 0..MaxChanges
    /\ Len(refreshes) <= MaxRefreshes
    /\ \A i \in DOMAIN refreshes :
          /\ refreshes[i].kind \in {"load", "poll"}
          /\ refreshes[i].net \in Networks
          /\ {refreshes[i].blocksPage, refreshes[i].txsPage} \subseteq 1..MaxPage
          /\ {refreshes[i].stats, refreshes[i].blocks} \subseteq Reads

(***************************************************************************)
(* When the service stays on one network, the statistics, blocks and          *)
(* transactions on the page are in the end those of that network, or sample     *)
(* data, for good: an answer of the old network that arrives late is overwritten *)
(* by a later poll.  The validators are not in it: no poll refreshes them.      *)
(***************************************************************************)
NetworkSettles ==
    \A n \in Networks :
        <>[](apiNetwork = n)
            => <>[]({stats, blocks.src, transactions.src} \subseteq {n, "mock"})

(***************************************************************************)
(* The roadmap's promise of the banner: sample data is never shown as live.    *)
(***************************************************************************)
BannerTellsSampleData ==
    "mock" \in {stats, blocks.src, transactions.src, validators} => offline

=============================================================================
