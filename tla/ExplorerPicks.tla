---------------------------- MODULE ExplorerPicks ---------------------------
(***************************************************************************)
(* The records the explorer opens.  A click on a block, transaction or address   *)
(* and a search each wait for one or more answers before they change the page,  *)
(* several can wait at once, and none is cancelled by a later one.            *)
(***************************************************************************)
EXTENDS ExplorerApi, FiniteSets, SequencesExt

CONSTANTS
    Ids,            \* what records are known by: heights, hashes, addresses
    MaxPicks        \* bound: clicks and searches made in all

ASSUME PicksAssumption == {"none", "undefined"} \cap Ids = {} /\ MaxPicks \in Nat

(* The kinds of records, by the word of their route. *)
Kinds == {"block", "tx", "address", "validator", "contract"}

(* What a query looks like to search, and the sort of fallback it gets. *)
Queries == {"number", "hash", "valoper", "contract", "address", "name"}

NoRoute == <<"none", "none">>
NotFound == <<"404", "none">>

VARIABLES
    current,            \* currentBlock, currentTx, ...: the id shown, by kind
    currentBlockTxs,    \* the list under the block: its own, or others in their place
    currentAccountTxs,  \* the account whose history is listed
    recordRoute,       \* the record the route names, if it names one
    waiting,            \* sequence of handlers waiting for an answer
    hasError,           \* ErrorBoundary: its page stands in place of the explorer
    picks,              \* clicks and searches so far
    overlapped          \* history: two handlers have waited at the same time

(* A handler that waits: who started it, the call it waits for and the argument. *)
Handler(by, call, id, read) == [by |-> by, call |-> call, id |-> id, read |-> read]

(* Opened at a list, or at the address of a record of which nothing is loaded. *)
PicksInit ==
    /\ ApiInit
    /\ current = [k \in Kinds |-> "none"]
    /\ currentBlockTxs = "none" /\ currentAccountTxs = "none"
    /\ recordRoute \in {NoRoute} \cup (Kinds \X Ids)
    /\ waiting = << >>
    /\ hasError = FALSE
    /\ picks = 0
    /\ overlapped = FALSE

Pick(h) ==
    /\ picks < MaxPicks
    /\ picks' = picks + 1
    /\ waiting' = Append(waiting, h)
    /\ overlapped' = (overlapped \/ waiting # << >>)
    /\ UNCHANGED <<current, currentBlockTxs, currentAccountTxs, recordRoute, apiVars>>

handleSelectBlock(id) == Pick(Handler("click", "getBlock", id, fetchJson))
handleSelectTx(id) == Pick(Handler("click", "getTransaction", id, fetchJson))
handleSelectAddress(id) == Pick(Handler("click", "getAddress", id, fetchJson))

(* An empty query does nothing; any other asks the API's own search first. *)
handleUniversalSearch(q, id) == Pick(Handler(q, "search", id, fetchJson))

(* navigateToPage, for the pages that show no record. *)
navigateToPage ==
    /\ picks < MaxPicks
    /\ picks' = picks + 1
    /\ recordRoute' = NoRoute
    /\ UNCHANGED <<current, currentBlockTxs, currentAccountTxs, waiting, overlapped, apiVars>>

(***************************************************************************)
(* What the handlers do with a record.                                      *)
(***************************************************************************)
(* The route is changed before the record is there. *)
ShowsBeforeItsData(kind, id) ==
    /\ recordRoute' = <<kind, id>>
    /\ UNCHANGED <<current, currentBlockTxs, currentAccountTxs>>

(* The record and the route change together.  The block's transactions are      *)
(* looked up in the list the page had when the handler started, which may have  *)
(* none of them: then the first ones of the list stand there.                  *)
Shows(kind, id) ==
    /\ current' = [current EXCEPT ![kind] = id]
    /\ recordRoute' = <<kind, id>>
    /\ IF kind = "block" THEN currentBlockTxs' \in {"own", "others"}
                         ELSE UNCHANGED currentBlockTxs
    /\ currentAccountTxs' = IF kind = "address" THEN id ELSE currentAccountTxs

(* A record that came wrapped: its own name is a field that is not there.  The   *)
(* history is of the address asked for.                                       *)
ShowsUnnamed(kind, id) ==
    /\ current' = [current EXCEPT ![kind] = "undefined"]
    /\ recordRoute' = <<kind, "undefined">>
    /\ currentAccountTxs' = IF kind = "address" THEN id ELSE currentAccountTxs
    /\ UNCHANGED currentBlockTxs

ShowsNotFound ==
    /\ recordRoute' = NotFound
    /\ UNCHANGED <<current, currentBlockTxs, currentAccountTxs>>

HandlerEnds(i) == waiting' = RemoveAt(waiting, i)
GoesOn(i, call, read) == waiting' = [waiting EXCEPT ![i].call = call, ![i].read = read]

(* The validators come from the list on the page, the contracts from a built-in   *)
(* list: no answer to wait for.                                              *)
handleSelectValidator(id, listed) ==
    /\ picks < MaxPicks
    /\ picks' = picks + 1
    /\ IF listed THEN Shows("validator", id) ELSE ShowsNotFound
    /\ UNCHANGED <<waiting, overlapped, apiVars>>

handleSelectContract(id, known) ==
    /\ picks < MaxPicks
    /\ picks' = picks + 1
    /\ IF known THEN Shows("contract", id) ELSE ShowsNotFound
    /\ UNCHANGED <<waiting, overlapped, apiVars>>

(***************************************************************************)
(* The answers.                                                             *)
(***************************************************************************)
(* The first call of the pair failed and the next one is tried. *)
callRetried(i) ==
    LET h == waiting[i] IN
    /\ h.call \in {"getBlock", "getTransaction", "getAddress"} /\ h.read.at = "api"
    /\ GoesOn(i, h.call, fetchRpcJson)
    /\ UNCHANGED <<current, currentBlockTxs, currentAccountTxs, recordRoute, picks, overlapped, apiVars>>

(* The records a call can end with, "none" among them, and the flag it leaves.   *)
(* The node answers with the fields of the record asked for; the backend wraps    *)
(* transactions and accounts, and the service takes the wrapper for the record.    *)
(* A block has no route in the backend: an answer is that of an indexer.  Of the   *)
(* fallbacks, a height makes a block up and what looks like an address makes an    *)
(* account up; a hash may match part of the hash of any sample transaction, or     *)
(* nothing; an operator address, which the pages link to as well, is no account.  *)
Found(id) == [id |-> id, offline |-> FALSE]
Fallback(ids) == [id : ids, offline : {offline}]
NoFallback == [id : {}, offline : {}]
Fallen(h, ids) == IF h.read.at = "rpc" THEN Fallback(ids) ELSE NoFallback
Served(h) == Found(IF h.read.at = "api" THEN "undefined" ELSE h.id)

getBlock(h) ==
    {Found(h.id)} \cup Fallen(h, IF h.by = "hash" THEN {h.id, "none"} ELSE {h.id})
getTransaction(h) == {Served(h)} \cup Fallen(h, Ids \cup {"none"})
getAddress(h) ==
    {Served(h)} \cup Fallen(h, IF h.by = "click" THEN {h.id, "none"} ELSE {h.id})

(* The account of a search is shown at once, its history and the route wait. *)
ShowsAccountFirst(i, id) ==
    /\ current' = [current EXCEPT !["address"] = id]
    /\ waiting' = [waiting EXCEPT ![i] = Handler(@.by, "getAddressTransactions", id, fetchJson)]
    /\ UNCHANGED <<recordRoute, currentBlockTxs, currentAccountTxs>>

(* Of an account that has no address the history cannot be asked for: the search  *)
(* throws there.                                                             *)
AccountUnnamed ==
    /\ current' = [current EXCEPT !["address"] = "undefined"]
    /\ UNCHANGED <<recordRoute, currentBlockTxs, currentAccountTxs>>

(* Of a hash that is no transaction, the block is asked for next. *)
recordAnswered(i) ==
    LET h == waiting[i] IN
    /\ h.call = "getBlock"
    /\ \E o \in getBlock(h) :
          /\ IF o.id = "none" THEN ShowsNotFound ELSE Shows("block", o.id)
          /\ HandlerEnds(i)
          /\ offline' = o.offline
    /\ UNCHANGED <<picks, overlapped, apiNetwork>>

txAnswered(i) ==
    LET h == waiting[i] IN
    /\ h.call = "getTransaction"
    /\ \E o \in getTransaction(h) :
          /\ offline' = o.offline
          /\ \/ o.id \in Ids /\ Shows("tx", o.id) /\ HandlerEnds(i)
             \/ o.id = "undefined" /\ ShowsUnnamed("tx", h.id) /\ HandlerEnds(i)
             \/ /\ o.id = "none" /\ h.by = "hash"
                /\ GoesOn(i, "getBlock", fetchJson)
                /\ UNCHANGED <<current, currentBlockTxs, currentAccountTxs, recordRoute>>
             \/ o.id = "none" /\ h.by # "hash" /\ ShowsNotFound /\ HandlerEnds(i)
    /\ UNCHANGED <<picks, overlapped, apiNetwork>>

addressAnswered(i) ==
    LET h == waiting[i] IN
    /\ h.call = "getAddress"
    /\ \E o \in getAddress(h) :
          /\ offline' = o.offline
          /\ \/ o.id = "none" /\ ShowsNotFound /\ HandlerEnds(i)
             \/ /\ o.id = "undefined" /\ h.by = "click"
                /\ ShowsUnnamed("address", h.id) /\ HandlerEnds(i)
             \/ o.id = "undefined" /\ h.by # "click" /\ AccountUnnamed /\ HandlerEnds(i)
             \/ o.id \in Ids /\ h.by = "click" /\ Shows("address", o.id) /\ HandlerEnds(i)
             \/ o.id \in Ids /\ h.by # "click" /\ ShowsAccountFirst(i, o.id)
    /\ UNCHANGED <<picks, overlapped, apiNetwork>>

historyAnswered(i) ==
    LET h == waiting[i] IN
    /\ h.call = "getAddressTransactions"
    /\ currentAccountTxs' = h.id
    /\ recordRoute' = <<"address", h.id>>
    /\ HandlerEnds(i)
    /\ UNCHANGED <<current, currentBlockTxs, picks, overlapped, apiVars>>

(* The search of an API that answers with a SearchResult, of whichever kind it    *)
(* took the query for.                                                       *)
searchAnswered(i) ==
    /\ waiting[i].call = "search"
    /\ \E kind \in Kinds, id \in Ids :
          IF kind = "address" THEN ShowsAccountFirst(i, id)
                              ELSE Shows(kind, id) /\ HandlerEnds(i)
    /\ UNCHANGED <<picks, overlapped, apiVars>>

(* The backend's answer is wrapped, with results or without: it is no record and   *)
(* no failure, and nothing happens.                                           *)
searchUntyped(i) ==
    /\ waiting[i].call = "search"
    /\ HandlerEnds(i)
    /\ UNCHANGED <<current, currentBlockTxs, currentAccountTxs, recordRoute, picks, overlapped, apiVars>>

(* The request failed: the query is resolved by what it looks like.  A contract   *)
(* that is not built in is looked up as an address.                           *)
searchFellBack(i) ==
    LET h == waiting[i]
        Asks1(call) == /\ GoesOn(i, call, fetchJson)
                       /\ UNCHANGED <<current, currentBlockTxs, currentAccountTxs, recordRoute>>
    IN
    /\ h.call = "search"
    /\ \/ h.by = "number" /\ Asks1("getBlock")
       \/ h.by = "hash" /\ Asks1("getTransaction")
       \/ h.by \in {"address", "contract"} /\ Asks1("getAddress")
       \/ h.by \in {"valoper", "name"} /\ Shows("validator", h.id) /\ HandlerEnds(i)
       \/ h.by = "contract" /\ Shows("contract", h.id) /\ HandlerEnds(i)
       \/ h.by \in {"valoper", "name"} /\ ShowsNotFound /\ HandlerEnds(i)
    /\ UNCHANGED <<picks, overlapped, apiVars>>

Answered(i) ==
    \/ callRetried(i) \/ recordAnswered(i) \/ txAnswered(i) \/ addressAnswered(i)
    \/ historyAnswered(i) \/ searchAnswered(i) \/ searchUntyped(i) \/ searchFellBack(i)

(***************************************************************************)
(* The page of the route.  TxDetailsPage and AddressPage print numbers that a    *)
(* wrapper does not have: they throw, and the error page replaces everything,    *)
(* until the explorer is loaded again.  A transaction page that was there before   *)
(* may be at a tab that prints none of them.                                  *)
(***************************************************************************)
Unreadable ==
    recordRoute[1] \in {"tx", "address"} /\ current[recordRoute[1]] = "undefined"

RendersRecord ==
    \/ hasError' = (hasError \/ Unreadable')
    \/ recordRoute[1] = "tx" /\ recordRoute'[1] = "tx" /\ UNCHANGED hasError

setTxTab ==
    /\ ~hasError /\ Unreadable
    /\ hasError' = TRUE
    /\ UNCHANGED <<current, currentBlockTxs, currentAccountTxs, recordRoute, waiting, picks,
                   overlapped, apiVars>>

(* The button of the error page: at the address in the browser, without the rest. *)
reload ==
    /\ hasError
    /\ hasError' = FALSE
    /\ current' = [k \in Kinds |-> "none"]
    /\ currentBlockTxs' = "none" /\ currentAccountTxs' = "none"
    /\ recordRoute' \in {NoRoute} \cup (Kinds \X Ids)
    /\ waiting' = << >>
    /\ overlapped' = FALSE
    /\ offline' = FALSE
    /\ UNCHANGED <<picks, apiNetwork>>

UserPicks ==
    \/ \E id \in Ids :
          \/ handleSelectBlock(id) \/ handleSelectTx(id) \/ handleSelectAddress(id)
          \/ \E b \in BOOLEAN : handleSelectValidator(id, b) \/ handleSelectContract(id, b)
          \/ \E q \in Queries : handleUniversalSearch(q, id)
    \/ navigateToPage

PicksNext ==
    \/ ~hasError /\ UserPicks /\ RendersRecord
    \/ (\E i \in DOMAIN waiting : Answered(i)) /\ RendersRecord
    \/ setTxTab
    \/ reload

PicksTypeOK ==
    /\ ApiTypeOK
    /\ current \in [Kinds -> Ids \cup {"none", "undefined"}]
    /\ currentBlockTxs \in {"none", "own", "others"}
    /\ currentAccountTxs \in Ids \cup {"none"}
    /\ recordRoute \in {NoRoute, NotFound} \cup (Kinds \X (Ids \cup {"undefined"}))
    /\ picks \in 0..MaxPicks
    /\ overlapped \in BOOLEAN /\ hasError \in BOOLEAN
    /\ Len(waiting) <= picks
    /\ \A i \in DOMAIN waiting : waiting[i].id \in Ids /\ waiting[i].read \in Reads

(***************************************************************************)
(* Whatever the order in which clicks and searches are answered, a route that   *)
(* names a block, transaction, validator or contract shows that record - or      *)
(* none, when the explorer was opened there and no such record was picked; a      *)
(* transaction that came wrapped has no name in the route either.  For an         *)
(* address the account, the history and the route agree unless the error page     *)
(* stands there, when no handler waits and no two ever waited together: a search   *)
(* shows its account first and sets the other two later, over whatever was        *)
(* picked in between (App.tsx:188-276).                                       *)
(***************************************************************************)
RouteShowsItsRecord ==
    /\ \A k \in Kinds \ {"address"} :
          recordRoute[1] = k => current[k] \in {recordRoute[2], "none"}
    /\ (recordRoute[1] = "address" /\ ~hasError /\ waiting = << >> /\ ~overlapped)
          => /\ current["address"] \in {recordRoute[2], "none"}
             /\ currentAccountTxs = current["address"]

(* A transaction or account that is opened can be seen: no answer replaces the     *)
(* explorer by its error page.                                               *)
RecordsCanBeSeen == ~hasError

=============================================================================
