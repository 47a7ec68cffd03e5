--------------------------- MODULE ExplorerProofs ---------------------------
(***************************************************************************)
(* Proofs about the explorer (MCExplorer), for every set of networks,      *)
(* records, wallets, methods, queries and opening paths, and for every     *)
(* bound. One part per component: the feeds, the records that are picked,  *)
(* the wallet dialog and the buttons, the recent queries, the routes and   *)
(* the header. A behaviour is of one part, and each has its own invariant. *)
(***************************************************************************)
EXTENDS MCExplorer, FoldProofs

(***************************************************************************)
(* What is left of a sequence without one of its elements.                 *)
(***************************************************************************)
(* It is one shorter and has no other elements.                            *)
LEMMA RemoveAtProperties ==
    ASSUME NEW A, NEW s \in Seq(A), NEW i \in DOMAIN s
    PROVE  /\ RemoveAt(s, i) \in Seq(A)
           /\ Len(RemoveAt(s, i)) = Len(s) - 1
           /\ \A j \in DOMAIN RemoveAt(s, i) : \E k \in DOMAIN s : RemoveAt(s, i)[j] = s[k]
<1> DEFINE n == Len(s)
           before == SubSeq(s, 1, i - 1)
           after == SubSeq(s, i + 1, n)
<1>1. n \in Nat /\ DOMAIN s = 1..n /\ i \in 1..n /\ \A j \in 1..n : s[j] \in A
  BY LenProperties, ElementOfSeq
<1> HIDE DEF n
<1>2. \A j \in 1..(i - 1) : s[j] \in A
  BY <1>1
<1>3. \A j \in (i + 1)..n : s[j] \in A
  BY <1>1
<1>4. i - 1 \in Int /\ i + 1 \in Int /\ n \in Int /\ 1 \in Int
  BY <1>1
<1>5. /\ before \in Seq(A) /\ Len(before) = i - 1
      /\ \A j \in 1..(i - 1) : before[j] = s[j]
  <2>1. /\ before \in Seq(A)
        /\ Len(before) = IF 1 <= i - 1 THEN (i - 1) - 1 + 1 ELSE 0
        /\ \A j \in 1..((i - 1) - 1 + 1) : before[j] = s[1 + j - 1]
    BY <1>2, <1>4, SubSeqProperties
  <2> HIDE DEF before
  <2> QED BY <1>1, <2>1
<1>6. /\ after \in Seq(A) /\ Len(after) = n - i
      /\ \A j \in 1..(n - i) : after[j] = s[i + j]
  <2>1. /\ after \in Seq(A)
        /\ Len(after) = IF i + 1 <= n THEN n - (i + 1) + 1 ELSE 0
        /\ \A j \in 1..(n - (i + 1) + 1) : after[j] = s[(i + 1) + j - 1]
    BY <1>3, <1>4, SubSeqProperties
  <2> HIDE DEF before, after
  <2>2. Len(after) = n - i
    BY <1>1, <2>1
  <2>3. ASSUME NEW j \in 1..(n - i) PROVE after[j] = s[i + j]
    <3>1. j \in 1..(n - (i + 1) + 1) /\ (i + 1) + j - 1 = i + j
      BY <1>1
    <3> QED BY <2>1, <3>1
  <2> QED BY <2>1, <2>2, <2>3
<1>7. RemoveAt(s, i) = before \o after
  BY DEF RemoveAt, n
<1> HIDE DEF before, after
<1>8. /\ before \o after \in Seq(A)
      /\ Len(before \o after) = Len(before) + Len(after)
      /\ \A j \in 1..Len(before) + Len(after) :
            (before \o after)[j] = IF j <= Len(before) THEN before[j] ELSE after[j - Len(before)]
  BY <1>5, <1>6, ConcatProperties
<1> DEFINE r == before \o after
<1>9. r \in Seq(A) /\ Len(r) = n - 1 /\ DOMAIN r = 1..(n - 1)
  BY <1>1, <1>5, <1>6, <1>8
<1>10. ASSUME NEW j \in 1..(n - 1)
       PROVE  \E k \in 1..n : r[j] = s[k]
  <2>1. CASE j <= i - 1
    <3>1. r[j] = s[j]
      BY <1>1, <1>5, <1>6, <1>8, <2>1
    <3>2. j \in 1..n
      BY <1>1
    <3> HIDE DEF r
    <3> QED BY <3>1, <3>2
  <2>2. CASE j > i - 1
    <3>1. r[j] = after[j - (i - 1)] /\ j - (i - 1) \in 1..(n - i)
      BY <1>1, <1>5, <1>6, <1>8, <2>2
    <3>2. i + (j - (i - 1)) = j + 1 /\ j + 1 \in 1..n
      BY <1>1
    <3>3. r[j] = s[j + 1]
      <4>1. after[j - (i - 1)] = s[i + (j - (i - 1))]
        BY <1>6, <3>1
      <4> QED BY <3>1, <3>2, <4>1, Zenon
    <3> HIDE DEF r
    <3> QED BY <3>2, <3>3
  <2> HIDE DEF r
  <2> QED BY <1>1, <2>1, <2>2
<1> HIDE DEF r
<1> QED BY <1>1, <1>7, <1>9, <1>10 DEF n, r

(***************************************************************************)
(* The feeds.                                                              *)
(***************************************************************************)
(* A refresh under way.                                                    *)
RefreshRecords ==
    [kind : {"load", "poll"}, net : Networks, blocksPage : 1..MaxPage, txsPage : 1..MaxPage,
     stats : Reads, blocks : Reads]

FeedsInv ==
    /\ ApiTypeOK
    /\ network \in Networks
    /\ blocksPage \in 1..MaxPage /\ txsPage \in 1..MaxPage
    /\ stats \in Sources \cup {"none"} /\ validators \in Sources \cup {"none"}
    /\ blocks \in Rows /\ transactions \in Rows
    /\ changes \in 0..MaxChanges
    /\ refreshes \in Seq(RefreshRecords) /\ Len(refreshes) <= MaxRefreshes

(* Its shape gives what the type invariant of the feeds says of each.      *)
LEMMA FeedsInvGivesType == FeedsInv => FeedsTypeOK
<1> SUFFICES ASSUME FeedsInv PROVE FeedsTypeOK
  OBVIOUS
<1>1. ASSUME NEW i \in DOMAIN refreshes PROVE refreshes[i] \in RefreshRecords
  BY LenProperties, ElementOfSeq DEF FeedsInv
<1>2. ASSUME NEW r \in RefreshRecords
      PROVE  /\ r.kind \in {"load", "poll"} /\ r.net \in Networks
             /\ {r.blocksPage, r.txsPage} \subseteq 1..MaxPage
             /\ {r.stats, r.blocks} \subseteq Reads
  BY DEF RefreshRecords
<1> QED BY <1>1, <1>2 DEF FeedsInv, FeedsTypeOK

(* A refresh begins as a record of that shape.                             *)
LEMMA RefreshType ==
    ASSUME NEW kind \in {"load", "poll"}, NEW n \in Networks,
           NEW bp \in 1..MaxPage, NEW tp \in 1..MaxPage
    PROVE  Refresh(kind, n, bp, tp) \in RefreshRecords
BY DEF Refresh, RefreshRecords, Reads, Asks

(* It begins at the end of the sequence, while there is room.              *)
LEMMA BeginsKeepsShape ==
    ASSUME FeedsInv, NEW kind \in {"load", "poll"}, NEW n \in Networks,
           NEW bp \in 1..MaxPage, NEW tp \in 1..MaxPage, Begins(kind, n, bp, tp)
    PROVE  refreshes' \in Seq(RefreshRecords) /\ Len(refreshes') <= MaxRefreshes
<1> DEFINE r == Refresh(kind, n, bp, tp)
<1>1. r \in RefreshRecords
  BY RefreshType
<1> HIDE DEF r
<1>2. refreshes' = Append(refreshes, r) /\ Len(refreshes) < MaxRefreshes
  BY DEF Begins, r
<1>3. Append(refreshes, r) \in Seq(RefreshRecords) /\ Len(Append(refreshes, r)) = Len(refreshes) + 1
  BY <1>1, AppendProperties DEF FeedsInv
<1> QED BY <1>2, <1>3, LenProperties, FeedsAssumption DEF FeedsInv

(* What comes of a read is a read, and a flag.                             *)
LEMMA OutcomeTypes ==
    ASSUME ApiTypeOK, NEW c \in Reads
    PROVE  \A o \in getStats(c) \cup getBlocks(c) : o.read \in Reads /\ o.offline \in BOOLEAN
<1>1. c.from \in Sources
  BY DEF Reads, Sources
<1>2. Settled(c.from) \in Reads /\ Settled("mock") \in Reads /\ fetchRpcJson \in Reads
  BY <1>1 DEF Settled, fetchRpcJson, Asks, Reads, Sources, ApiTypeOK
<1>3. /\ Answers(c).read = Settled(c.from) /\ Answers(c).offline = FALSE
      /\ TriesTheNode.read = fetchRpcJson /\ TriesTheNode.offline = offline
      /\ Outcome(Settled("mock"), TRUE).read = Settled("mock")
      /\ Outcome(Settled("mock"), TRUE).offline = TRUE
  BY DEF Answers, TriesTheNode, Outcome
<1>4. getStats(c) \cup getBlocks(c)
        \subseteq {Answers(c), TriesTheNode, Outcome(Settled("mock"), TRUE)}
  BY DEF getStats, getBlocks
<1> QED BY <1>2, <1>3, <1>4 DEF ApiTypeOK

(* An answer goes into its refresh.                                        *)
LEMMA AnswerKeepsShape ==
    ASSUME FeedsInv, NEW i \in DOMAIN refreshes, NEW c \in Reads,
           \/ refreshes' = [refreshes EXCEPT ![i].stats = c]
           \/ refreshes' = [refreshes EXCEPT ![i].blocks = c]
    PROVE  refreshes' \in Seq(RefreshRecords) /\ Len(refreshes') = Len(refreshes)
<1>1. i \in 1..Len(refreshes) /\ refreshes[i] \in RefreshRecords
  BY LenProperties, ElementOfSeq DEF FeedsInv
<1>2. ASSUME NEW r \in RefreshRecords
      PROVE  [r EXCEPT !.stats = c] \in RefreshRecords /\ [r EXCEPT !.blocks = c] \in RefreshRecords
  BY DEF RefreshRecords
<1>3. PICK r \in RefreshRecords : refreshes' = [refreshes EXCEPT ![i] = r]
  BY <1>1, <1>2
<1> QED BY <1>1, <1>3, ExceptSeq DEF FeedsInv

(* Promise.all resolves: the lists are filled and the refresh is over.     *)
LEMMA ResolvesKeepsShape ==
    ASSUME FeedsInv, NEW i \in DOMAIN refreshes, Resolves(i)
    PROVE  /\ refreshes' \in Seq(RefreshRecords) /\ Len(refreshes') <= MaxRefreshes
           /\ stats' \in Sources \cup {"none"}
           /\ blocks' \in Rows /\ transactions' \in Rows
           /\ getValidators(refreshes[i].net) \subseteq Sources
<1>1. i \in 1..Len(refreshes) /\ refreshes[i] \in RefreshRecords
  BY LenProperties, ElementOfSeq DEF FeedsInv
<1>2. /\ refreshes' \in Seq(RefreshRecords) /\ Len(refreshes') = Len(refreshes) - 1
  BY RemoveAtProperties DEF FeedsInv, Resolves
<1>3. Len(refreshes') <= MaxRefreshes
  BY <1>2, LenProperties, FeedsAssumption DEF FeedsInv
<1>4. PICK r \in RefreshRecords : r = refreshes[i]
  BY <1>1
<1>5. r.net \in Networks /\ r.blocksPage \in 1..MaxPage /\ r.txsPage \in 1..MaxPage
      /\ r.stats.from \in Sources /\ r.blocks.from \in Sources
  BY <1>4 DEF RefreshRecords, Reads, Sources
<1>6. stats' \in Sources \cup {"none"} /\ blocks' \in Rows
  BY <1>4, <1>5 DEF Resolves, RowsOf, Rows
<1>7. transactions' \in Rows
  BY <1>4, <1>5 DEF Resolves, RowsOf, Rows, getTransactions, Sources
<1>8. getValidators(refreshes[i].net) \subseteq Sources
  BY <1>4, <1>5 DEF getValidators, Sources
<1> QED BY <1>2, <1>3, <1>6, <1>7, <1>8

(* The feeds keep their shape.                                             *)
LEMMA FeedsStep == FeedsInv /\ FeedsNext => FeedsInv'
<1> SUFFICES ASSUME FeedsInv, FeedsNext PROVE FeedsInv'
  OBVIOUS
<1> USE DEF ApiTypeOK, apiVars, ListsShown
<1>1. ASSUME NEW n \in Networks, handleNetworkChange(n) PROVE FeedsInv'
  <2>1. refreshes' \in Seq(RefreshRecords) /\ Len(refreshes') <= MaxRefreshes
    BY <1>1, BeginsKeepsShape DEF handleNetworkChange, FeedsInv
  <2> QED BY <1>1, <2>1, FeedsAssumption DEF handleNetworkChange, setNetwork, FeedsInv
<1>2. ASSUME NEW p \in 1..MaxPage, onBlocksPageChange(p) PROVE FeedsInv'
  <2>1. refreshes' \in Seq(RefreshRecords) /\ Len(refreshes') <= MaxRefreshes
    BY <1>2, BeginsKeepsShape DEF onBlocksPageChange, FeedsInv
  <2> QED BY <1>2, <2>1, FeedsAssumption DEF onBlocksPageChange, FeedsInv
<1>3. ASSUME NEW p \in 1..MaxPage, onTxsPageChange(p) PROVE FeedsInv'
  <2>1. refreshes' \in Seq(RefreshRecords) /\ Len(refreshes') <= MaxRefreshes
    BY <1>3, BeginsKeepsShape DEF onTxsPageChange, FeedsInv
  <2> QED BY <1>3, <2>1, FeedsAssumption DEF onTxsPageChange, FeedsInv
<1>4. CASE pollFires
  <2>1. 1 \in 1..MaxPage
    BY FeedsAssumption
  <2>2. refreshes' \in Seq(RefreshRecords) /\ Len(refreshes') <= MaxRefreshes
    BY <1>4, <2>1, BeginsKeepsShape DEF pollFires, FeedsInv
  <2> QED BY <1>4, <2>2 DEF pollFires, FeedsInv
<1>5. ASSUME NEW i \in 1..MaxRefreshes, Progress(i) PROVE FeedsInv'
  <2>1. i \in DOMAIN refreshes
    BY <1>5 DEF Progress
  <2>2. PICK r \in RefreshRecords : r = refreshes[i]
    BY <2>1, LenProperties, ElementOfSeq DEF FeedsInv
  <2>3. r.stats \in Reads /\ r.blocks \in Reads
    BY DEF RefreshRecords
  <2>4. CASE statsAnswered(i)
    <3>1. PICK o \in getStats(r.stats) :
             refreshes' = [refreshes EXCEPT ![i].stats = o.read] /\ offline' = o.offline
      BY <2>2, <2>4 DEF statsAnswered
    <3>2. o.read \in Reads /\ o.offline \in BOOLEAN
      BY <2>3, <3>1, OutcomeTypes DEF FeedsInv
    <3>3. refreshes' \in Seq(RefreshRecords) /\ Len(refreshes') = Len(refreshes)
      BY <2>1, <3>1, <3>2, AnswerKeepsShape
    <3> QED BY <2>4, <3>1, <3>2, <3>3 DEF statsAnswered, FeedsInv
  <2>5. CASE blocksAnswered(i)
    <3>1. PICK o \in getBlocks(r.blocks) :
             refreshes' = [refreshes EXCEPT ![i].blocks = o.read] /\ offline' = o.offline
      BY <2>2, <2>5 DEF blocksAnswered
    <3>2. o.read \in Reads /\ o.offline \in BOOLEAN
      BY <2>3, <3>1, OutcomeTypes DEF FeedsInv
    <3>3. refreshes' \in Seq(RefreshRecords) /\ Len(refreshes') = Len(refreshes)
      BY <2>1, <3>1, <3>2, AnswerKeepsShape
    <3> QED BY <2>5, <3>1, <3>2, <3>3 DEF blocksAnswered, FeedsInv
  <2>6. CASE loadAllData(i)
    <3>1. Resolves(i) /\ validators' \in getValidators(refreshes[i].net)
      BY <2>6 DEF loadAllData
    <3>2. /\ refreshes' \in Seq(RefreshRecords) /\ Len(refreshes') <= MaxRefreshes
          /\ stats' \in Sources \cup {"none"} /\ blocks' \in Rows /\ transactions' \in Rows
          /\ validators' \in Sources
      BY <2>1, <3>1, ResolvesKeepsShape
    <3> QED BY <3>1, <3>2 DEF Resolves, FeedsInv
  <2>7. CASE pollResolves(i)
    <3>1. Resolves(i) /\ validators' = validators
      BY <2>7 DEF pollResolves
    <3>2. /\ refreshes' \in Seq(RefreshRecords) /\ Len(refreshes') <= MaxRefreshes
          /\ stats' \in Sources \cup {"none"} /\ blocks' \in Rows /\ transactions' \in Rows
      BY <2>1, <3>1, ResolvesKeepsShape
    <3> QED BY <3>1, <3>2 DEF Resolves, FeedsInv
  <2> QED BY <1>5, <2>4, <2>5, <2>6, <2>7 DEF Progress
<1> QED BY <1>1, <1>2, <1>3, <1>4, <1>5 DEF FeedsNext

(* The feeds start in that shape.                                          *)
LEMMA FeedsStart == FeedsInit => FeedsInv
<1> SUFFICES ASSUME FeedsInit PROVE FeedsInv
  OBVIOUS
<1>1. 1 \in 1..MaxPage /\ FirstNetwork \in Networks /\ MaxRefreshes >= 1 /\ 0 \in 0..MaxChanges
  BY FeedsAssumption, NetworksAssumption
<1>2. Refresh("load", FirstNetwork, 1, 1) \in RefreshRecords
  BY <1>1, RefreshType
<1>3. refreshes \in Seq(RefreshRecords) /\ Len(refreshes) <= MaxRefreshes
  BY <1>1, <1>2 DEF FeedsInit
<1>4. blocks \in Rows /\ transactions \in Rows
  BY <1>1 DEF FeedsInit, Rows, RowsOf
<1> QED BY <1>1, <1>3, <1>4 DEF FeedsInit, ApiInit, FeedsInv, ApiTypeOK

(***************************************************************************)
(* The records that are picked.                                            *)
(***************************************************************************)
Calls == {"getBlock", "getTransaction", "getAddress", "search", "getAddressTransactions"}

(* A handler that waits.                                                   *)
Handlers == [by : {"click"} \cup Queries, call : Calls, id : Ids, read : Reads]

(* What may be shown of a kind, and the routes to a record.                *)
Records == Ids \cup {"none", "undefined"}
RecordRoutes == Kinds \X (Ids \cup {"undefined"})

PicksShape ==
    /\ ApiTypeOK
    /\ current \in [Kinds -> Records]
    /\ currentBlockTxs \in {"none", "own", "others"}
    /\ currentAccountTxs \in Ids \cup {"none"}
    /\ recordRoute \in {NoRoute, NotFound} \cup RecordRoutes
    /\ picks \in 0..MaxPicks
    /\ overlapped \in BOOLEAN /\ hasError \in BOOLEAN
    /\ waiting \in Seq(Handlers) /\ Len(waiting) <= picks

(* A route to a record other than an account shows that record.            *)
RecordAgrees ==
    \A k \in Kinds \ {"address"} :
        recordRoute[1] = k => current[k] \in {recordRoute[2], "none"}

(* A search that has shown its account and waits for the history.          *)
InHistory(i) == waiting[i].call = "getAddressTransactions"

(* The account of the route is shown with its own history.                 *)
AccountShown ==
    recordRoute[1] = "address" /\ ~hasError
        => current["address"] \in {recordRoute[2], "none"} /\ currentAccountTxs = current["address"]

(* As long as no two handlers have waited together: one that waits for a   *)
(* history shows its account already, and otherwise the account, its        *)
(* history and the route agree.                                            *)
AccountAgrees ==
    ~overlapped =>
        /\ Len(waiting) <= 1
        /\ \A i \in DOMAIN waiting : InHistory(i) => current["address"] = waiting[i].id
        /\ (\A i \in DOMAIN waiting : ~InHistory(i)) => AccountShown

PicksInv == PicksShape /\ RecordAgrees /\ AccountAgrees

(* The shape gives the type invariant of the picks.                        *)
LEMMA PicksInvGivesType == PicksInv => PicksTypeOK
<1> SUFFICES ASSUME PicksInv PROVE PicksTypeOK
  OBVIOUS
<1>1. ASSUME NEW i \in DOMAIN waiting PROVE waiting[i] \in Handlers
  BY LenProperties, ElementOfSeq DEF PicksInv, PicksShape
<1>2. ASSUME NEW h \in Handlers PROVE h.id \in Ids /\ h.read \in Reads
  BY DEF Handlers
<1> QED BY <1>1, <1>2 DEF PicksInv, PicksShape, PicksTypeOK, Records, RecordRoutes

(* It gives what is checked of the routes, too.                            *)
LEMMA PicksInvGivesRecord == PicksInv => RouteShowsItsRecord
<1> SUFFICES ASSUME PicksInv PROVE RouteShowsItsRecord
  OBVIOUS
<1>1. ASSUME waiting = << >> PROVE DOMAIN waiting = {}
  BY <1>1
<1> QED BY <1>1 DEF PicksInv, RecordAgrees, AccountAgrees, AccountShown, RouteShowsItsRecord

(* The page is rendered: an error page stays, and an account that cannot   *)
(* be read brings it.                                                      *)
Rendered ==
    /\ hasError' \in BOOLEAN /\ (hasError => hasError')
    /\ recordRoute'[1] = "address" /\ current'["address"] = "undefined" => hasError'

(* That is what RendersRecord does.                                              *)
LEMMA RendersRecordProperties ==
    ASSUME PicksShape, RendersRecord
    PROVE  Rendered
<1>1. hasError \in BOOLEAN
  BY DEF PicksShape
<1>2. CASE hasError' = (hasError \/ Unreadable')
  BY <1>1, <1>2 DEF Rendered, Unreadable
<1>3. CASE recordRoute'[1] = "tx" /\ UNCHANGED hasError
  BY <1>1, <1>3 DEF Rendered
<1> QED BY <1>2, <1>3 DEF RendersRecord

(* What a waiting handler is made of.                                      *)
LEMMA HandlerFields ==
    ASSUME PicksShape, NEW i \in DOMAIN waiting
    PROVE  /\ waiting[i].by \in {"click"} \cup Queries /\ waiting[i].call \in Calls
           /\ waiting[i].id \in Ids /\ waiting[i].read \in Reads
<1>1. PICK h \in Handlers : h = waiting[i]
  BY LenProperties, ElementOfSeq DEF PicksShape
<1> QED BY <1>1 DEF Handlers

(* Before any two have waited together, the handler that is answered is    *)
(* the only one.                                                           *)
LEMMA AnsweredAlone ==
    ASSUME PicksInv, ~overlapped, NEW i \in DOMAIN waiting
    PROVE  i = 1 /\ DOMAIN waiting = {1} /\ Len(waiting) = 1
<1>1. Len(waiting) \in Nat /\ DOMAIN waiting = 1..Len(waiting) /\ Len(waiting) <= 1
  BY LenProperties DEF PicksInv, PicksShape, AccountAgrees
<1>2. Len(waiting) = 1
  BY <1>1
<1>3. 1..1 = {1}
  OBVIOUS
<1> QED BY <1>1, <1>2, <1>3

(* A handler ends: the others stay, and when it was alone none is left.    *)
LEMMA HandlerEndsProperties ==
    ASSUME PicksInv, NEW i \in DOMAIN waiting, HandlerEnds(i)
    PROVE  /\ waiting' \in Seq(Handlers) /\ Len(waiting') <= picks
           /\ ~overlapped => Len(waiting') <= 1 /\ DOMAIN waiting' = {}
<1>1. waiting' \in Seq(Handlers) /\ Len(waiting') = Len(waiting) - 1
  BY RemoveAtProperties DEF PicksInv, PicksShape, HandlerEnds
<1>2. Len(waiting) \in Nat /\ Len(waiting) <= picks /\ picks \in Nat
  BY LenProperties, PicksAssumption DEF PicksInv, PicksShape
<1>3. ASSUME ~overlapped PROVE Len(waiting') <= 1 /\ DOMAIN waiting' = {}
  <2>1. Len(waiting) = 1
    BY <1>3, AnsweredAlone
  <2>2. Len(waiting') = 0 /\ DOMAIN waiting' = 1..Len(waiting')
    BY <1>1, <2>1, LenProperties
  <2> QED BY <2>2
<1> QED BY <1>1, <1>2, <1>3

(* A handler goes on to another call, and stays the same otherwise.        *)
LEMMA GoesOnProperties ==
    ASSUME PicksShape, NEW i \in DOMAIN waiting, NEW call \in Calls, NEW read \in Reads,
           GoesOn(i, call, read)
    PROVE  /\ waiting' \in Seq(Handlers) /\ Len(waiting') = Len(waiting)
           /\ waiting'[i].call = call
<1> DEFINE h == [waiting[i] EXCEPT !.call = call, !.read = read]
<1>1. i \in 1..Len(waiting) /\ waiting[i] \in Handlers
  BY LenProperties, ElementOfSeq DEF PicksShape
<1>2. ASSUME NEW g \in Handlers
      PROVE  /\ [g EXCEPT !.call = call, !.read = read] \in Handlers
             /\ [g EXCEPT !.call = call, !.read = read].call = call
  BY DEF Handlers
<1>3. h \in Handlers /\ h.call = call
  BY <1>1, <1>2
<1>4. waiting' = [waiting EXCEPT ![i] = h]
  BY <1>1 DEF GoesOn
<1> HIDE DEF h
<1>5. /\ waiting' \in Seq(Handlers) /\ Len(waiting') = Len(waiting)
      /\ \A j \in 1..Len(waiting) : waiting'[j] = IF j = i THEN h ELSE waiting[j]
  BY <1>1, <1>3, <1>4, ExceptSeq DEF PicksShape
<1> QED BY <1>1, <1>3, <1>5

(* What is shown, in a state of its type.                                  *)
ShownType ==
    /\ current \in [Kinds -> Records]
    /\ currentBlockTxs \in {"none", "own", "others"}
    /\ currentAccountTxs \in Ids \cup {"none"}
    /\ recordRoute \in {NoRoute, NotFound} \cup RecordRoutes

(* A record is shown with its route; an account with its history, and no   *)
(* other record touches the account.                                       *)
LEMMA ShowsProperties ==
    ASSUME PicksInv, NEW kind \in Kinds, NEW id \in Ids, Shows(kind, id)
    PROVE  /\ ShownType' /\ RecordAgrees' /\ AccountShown'
           /\ kind # "address" => current'["address"] = current["address"]
<1>1. current' = [current EXCEPT ![kind] = id] /\ recordRoute' = <<kind, id>>
  BY DEF Shows
<1>2. "address" \in Kinds
  BY DEF Kinds
<1>3. ShownType'
  BY <1>1 DEF Shows, ShownType, PicksInv, PicksShape, Records, RecordRoutes
<1>4. recordRoute'[1] = kind /\ recordRoute'[2] = id
  BY <1>1
<1>5. current'[kind] = id /\ \A k \in Kinds \ {kind} : current'[k] = current[k]
  BY <1>1 DEF PicksInv, PicksShape
<1>6. RecordAgrees'
  BY <1>4, <1>5 DEF RecordAgrees
<1>7. AccountShown'
  BY <1>4, <1>5 DEF AccountShown, Shows
<1> QED BY <1>2, <1>3, <1>5, <1>6, <1>7

(* A record without a name: its route has none either, and an account      *)
(* without one brings the error page.                                      *)
LEMMA UnnamedProperties ==
    ASSUME PicksInv, NEW kind \in {"tx", "address"}, NEW id \in Ids, ShowsUnnamed(kind, id),
           Rendered
    PROVE  ShownType' /\ RecordAgrees' /\ AccountShown'
<1>1. current' = [current EXCEPT ![kind] = "undefined"] /\ recordRoute' = <<kind, "undefined">>
  BY DEF ShowsUnnamed
<1>2. kind \in Kinds
  BY DEF Kinds
<1>3. ShownType'
  BY <1>1, <1>2 DEF ShowsUnnamed, ShownType, PicksInv, PicksShape, Records, RecordRoutes
<1>4. recordRoute'[1] = kind /\ recordRoute'[2] = "undefined" /\ current'[kind] = "undefined"
  BY <1>1, <1>2 DEF PicksInv, PicksShape
<1>5. RecordAgrees'
  BY <1>4 DEF RecordAgrees
<1>6. AccountShown'
  BY <1>4 DEF AccountShown, Rendered
<1> QED BY <1>3, <1>5, <1>6

(* An account without a name, shown by a search that ends there.           *)
LEMMA AccountUnnamedProperties ==
    ASSUME PicksInv, AccountUnnamed, Rendered
    PROVE  ShownType' /\ RecordAgrees' /\ AccountShown'
<1>1. "address" \in Kinds
  BY DEF Kinds
<1>2. /\ current'["address"] = "undefined"
      /\ \A k \in Kinds \ {"address"} : current'[k] = current[k]
      /\ UNCHANGED <<recordRoute, currentBlockTxs, currentAccountTxs>>
      /\ current' \in [Kinds -> Records]
  BY <1>1 DEF AccountUnnamed, PicksInv, PicksShape, Records
<1>3. ShownType'
  BY <1>2 DEF ShownType, PicksInv, PicksShape
<1>4. RecordAgrees'
  BY <1>2 DEF PicksInv, RecordAgrees
<1>5. AccountShown'
  BY <1>2 DEF AccountShown, Rendered
<1> QED BY <1>3, <1>4, <1>5

(* A route to no record shows none.                                        *)
LEMMA NoRecordProperties ==
    ASSUME PicksInv, recordRoute' \in {NoRoute, NotFound},
           UNCHANGED <<current, currentBlockTxs, currentAccountTxs>>
    PROVE  ShownType' /\ RecordAgrees' /\ AccountShown'
<1>1. recordRoute'[1] \notin Kinds /\ "address" \in Kinds
  BY DEF NoRoute, NotFound, Kinds
<1>2. ShownType'
  BY DEF ShownType, PicksInv, PicksShape
<1> QED BY <1>1, <1>2 DEF RecordAgrees, AccountShown

(* What a click or a search starts with keeps the invariant: a handler     *)
(* that starts has shown nothing yet.                                      *)
LEMMA PickStep ==
    ASSUME PicksInv, NEW h \in Handlers, h.call # "getAddressTransactions", Pick(h), Rendered
    PROVE  PicksInv'
<1>1. /\ waiting' \in Seq(Handlers) /\ Len(waiting') = Len(waiting) + 1
      /\ waiting'[Len(waiting) + 1] = h
  BY AppendProperties DEF Pick, PicksInv, PicksShape
<1>2. Len(waiting) \in Nat /\ picks' = picks + 1 /\ picks' \in 0..MaxPicks
  BY LenProperties, PicksAssumption DEF PicksInv, PicksShape, Pick
<1>3. PicksShape'
  BY <1>1, <1>2 DEF PicksInv, PicksShape, Pick, ApiTypeOK, apiVars, Rendered
<1>4. RecordAgrees'
  BY DEF PicksInv, RecordAgrees, Pick
<1>5. ASSUME ~overlapped' PROVE ~overlapped /\ waiting = << >>
  BY <1>5 DEF Pick
<1>6. ASSUME waiting = << >>
      PROVE  Len(waiting') = 1 /\ \A i \in DOMAIN waiting' : waiting'[i] = h
  <2>1. Len(waiting) = 0
    BY <1>6
  <2>2. Len(waiting') = 1 /\ waiting'[1] = h /\ DOMAIN waiting' = 1..Len(waiting')
    BY <1>1, <2>1, LenProperties
  <2> QED BY <2>2
<1>7. ASSUME waiting = << >> PROVE DOMAIN waiting = {}
  BY <1>7
<1>8. AccountAgrees'
  <2> SUFFICES ASSUME ~overlapped'
               PROVE  /\ Len(waiting') <= 1
                      /\ \A i \in DOMAIN waiting' : ~ (waiting'[i].call = "getAddressTransactions")
                      /\ AccountShown'
    BY DEF AccountAgrees, InHistory
  <2>1. AccountShown
    BY <1>5, <1>7 DEF PicksInv, AccountAgrees
  <2>2. AccountShown'
    BY <2>1 DEF AccountShown, Pick, Rendered
  <2>3. Len(waiting') = 1 /\ \A i \in DOMAIN waiting' : waiting'[i] = h
    BY <1>5, <1>6
  <2> QED BY <2>2, <2>3
<1> QED BY <1>3, <1>4, <1>8 DEF PicksInv

(* The route changes while the handlers wait, and the account stays.       *)
LEMMA RouteStep ==
    ASSUME PicksInv, picks < MaxPicks, picks' = picks + 1,
           UNCHANGED <<waiting, overlapped, apiVars>>,
           ShownType', RecordAgrees', AccountShown', current'["address"] = current["address"],
           Rendered
    PROVE  PicksInv'
<1>1. Len(waiting) \in Nat /\ picks' \in 0..MaxPicks /\ Len(waiting) <= picks'
  BY LenProperties, PicksAssumption DEF PicksInv, PicksShape
<1>2. PicksShape'
  BY <1>1 DEF PicksInv, PicksShape, ShownType, ApiTypeOK, apiVars, Rendered
<1>3. AccountAgrees'
  BY DEF PicksInv, AccountAgrees, InHistory
<1> QED BY <1>2, <1>3 DEF PicksInv

(* A handler ends with a record, or with none.                             *)
LEMMA EndsStep ==
    ASSUME PicksInv, NEW i \in DOMAIN waiting, HandlerEnds(i),
           UNCHANGED <<picks, overlapped>>, ApiTypeOK', Rendered,
           ShownType', RecordAgrees', ~overlapped => AccountShown'
    PROVE  PicksInv'
<1>1. /\ waiting' \in Seq(Handlers) /\ Len(waiting') <= picks
      /\ ~overlapped => Len(waiting') <= 1 /\ DOMAIN waiting' = {}
  BY HandlerEndsProperties
<1>2. PicksShape'
  BY <1>1 DEF PicksInv, PicksShape, ShownType, Rendered
<1>3. AccountAgrees'
  BY <1>1 DEF AccountAgrees
<1> QED BY <1>2, <1>3 DEF PicksInv

(* A handler asks on and shows nothing.                                    *)
LEMMA AsksOnStep ==
    ASSUME PicksInv, NEW i \in DOMAIN waiting, ~InHistory(i), NEW call \in Calls,
           call # "getAddressTransactions", NEW read \in Reads, GoesOn(i, call, read),
           UNCHANGED <<current, currentBlockTxs, currentAccountTxs, recordRoute, picks, overlapped>>,
           ApiTypeOK', Rendered
    PROVE  PicksInv'
<1>1. /\ waiting' \in Seq(Handlers) /\ Len(waiting') = Len(waiting)
      /\ waiting'[i].call = call
  BY GoesOnProperties DEF PicksInv
<1>2. PicksShape'
  BY <1>1 DEF PicksInv, PicksShape, Rendered
<1>3. RecordAgrees'
  BY DEF PicksInv, RecordAgrees
<1>4. ASSUME ~overlapped
      PROVE  i = 1 /\ DOMAIN waiting = {1} /\ DOMAIN waiting' = {1} /\ Len(waiting') = 1
  <2>1. i = 1 /\ DOMAIN waiting = {1} /\ Len(waiting) = 1
    BY <1>4, AnsweredAlone
  <2>2. Len(waiting') = 1 /\ DOMAIN waiting' = 1..Len(waiting')
    BY <1>1, <2>1, LenProperties
  <2> QED BY <2>1, <2>2
<1>5. AccountAgrees'
  <2> SUFFICES ASSUME ~overlapped
               PROVE  /\ Len(waiting') <= 1
                      /\ \A j \in DOMAIN waiting' : ~ (waiting'[j].call = "getAddressTransactions")
                      /\ AccountShown'
    BY DEF AccountAgrees, InHistory
  <2>1. AccountShown
    BY <1>4 DEF PicksInv, AccountAgrees
  <2>2. AccountShown'
    BY <2>1 DEF AccountShown, Rendered
  <2>3. ASSUME NEW j \in DOMAIN waiting' PROVE waiting'[j].call = call
    <3>1. j = i
      BY <1>4
    <3> QED BY <1>1, <3>1
  <2>4. Len(waiting') <= 1
    BY <1>4
  <2> QED BY <2>2, <2>3, <2>4
<1> QED BY <1>2, <1>3, <1>5 DEF PicksInv

(* A search shows its account and asks for the history.                    *)
LEMMA AccountFirstStep ==
    ASSUME PicksInv, NEW i \in DOMAIN waiting, NEW id \in Ids, ShowsAccountFirst(i, id),
           UNCHANGED <<picks, overlapped>>, ApiTypeOK', Rendered
    PROVE  PicksInv'
<1> DEFINE h == Handler(waiting[i].by, "getAddressTransactions", id, fetchJson)
<1>1. i \in 1..Len(waiting) /\ waiting[i].by \in {"click"} \cup Queries
  BY HandlerFields, LenProperties DEF PicksInv, PicksShape
<1>2. fetchJson \in Reads
  BY DEF fetchJson, Asks, Reads, PicksInv, PicksShape, ApiTypeOK
<1>3. h \in Handlers /\ h.call = "getAddressTransactions" /\ h.id = id
  BY <1>1, <1>2 DEF Handler, Handlers, Calls
<1>4. waiting' = [waiting EXCEPT ![i] = h]
  BY <1>1 DEF ShowsAccountFirst
<1> HIDE DEF h
<1>5. /\ waiting' \in Seq(Handlers) /\ Len(waiting') = Len(waiting)
      /\ \A j \in 1..Len(waiting) : waiting'[j] = IF j = i THEN h ELSE waiting[j]
  BY <1>1, <1>3, <1>4, ExceptSeq DEF PicksInv, PicksShape
<1>6. "address" \in Kinds
  BY DEF Kinds
<1>7. /\ current' \in [Kinds -> Records] /\ current'["address"] = id
      /\ \A k \in Kinds \ {"address"} : current'[k] = current[k]
  BY <1>6 DEF ShowsAccountFirst, PicksInv, PicksShape, Records
<1>8. PicksShape'
  BY <1>5, <1>7 DEF PicksInv, PicksShape, ShowsAccountFirst, Rendered
<1>9. RecordAgrees'
  BY <1>7 DEF PicksInv, RecordAgrees, ShowsAccountFirst
<1>10. AccountAgrees'
  <2> SUFFICES ASSUME ~overlapped
               PROVE  /\ Len(waiting') <= 1
                      /\ 1 \in DOMAIN waiting' /\ InHistory(1)'
                      /\ \A j \in DOMAIN waiting' : current'["address"] = waiting'[j].id
    BY DEF AccountAgrees, InHistory
  <2>1. i = 1 /\ Len(waiting) = 1
    BY AnsweredAlone
  <2>2. DOMAIN waiting' = 1..1 /\ waiting'[1] = h
    BY <1>1, <1>5, <2>1, LenProperties
  <2> QED BY <1>3, <1>5, <1>7, <2>1, <2>2 DEF InHistory
<1> QED BY <1>8, <1>9, <1>10 DEF PicksInv

(* The history arrives: it is that of the account its handler showed.      *)
LEMMA HistoryStep ==
    ASSUME PicksInv, NEW i \in DOMAIN waiting, historyAnswered(i), Rendered
    PROVE  PicksInv'
<1>1. waiting[i].id \in Ids /\ "address" \in Kinds
  BY HandlerFields DEF PicksInv, Kinds
<1>2. /\ waiting' \in Seq(Handlers) /\ Len(waiting') <= picks
      /\ ~overlapped => Len(waiting') <= 1 /\ DOMAIN waiting' = {}
  BY HandlerEndsProperties DEF historyAnswered
<1>3. PicksShape'
  BY <1>1, <1>2 DEF historyAnswered, PicksInv, PicksShape, ApiTypeOK, apiVars, Rendered, RecordRoutes
<1>4. recordRoute'[1] = "address" /\ recordRoute'[2] = waiting[i].id
  BY DEF historyAnswered
<1>5. RecordAgrees'
  BY <1>4 DEF RecordAgrees
<1>6. ASSUME ~overlapped PROVE current["address"] = waiting[i].id
  BY <1>6 DEF PicksInv, AccountAgrees, InHistory, historyAnswered
<1>7. AccountAgrees'
  BY <1>2, <1>4, <1>6 DEF AccountAgrees, AccountShown, historyAnswered
<1> QED BY <1>3, <1>5, <1>7 DEF PicksInv

(* What the three lookups of a record may end with.                        *)
LEMMA LookupTypes ==
    ASSUME PicksInv, NEW i \in DOMAIN waiting
    PROVE  /\ \A o \in getBlock(waiting[i]) : o.id \in Ids \cup {"none"} /\ o.offline \in BOOLEAN
           /\ \A o \in getTransaction(waiting[i]) : o.id \in Records /\ o.offline \in BOOLEAN
           /\ \A o \in getAddress(waiting[i]) : o.id \in Records /\ o.offline \in BOOLEAN
<1> DEFINE Results == [id : Ids \cup {"none"}, offline : BOOLEAN]
           AllResults == [id : Records, offline : BOOLEAN]
<1>1. waiting[i].id \in Ids /\ offline \in BOOLEAN
  BY HandlerFields DEF PicksInv, PicksShape, ApiTypeOK
<1>2. Found(waiting[i].id) \in Results /\ Served(waiting[i]) \in AllResults
  BY <1>1 DEF Found, Served, Records
<1>3. ASSUME NEW ids \in SUBSET (Ids \cup {"none"})
      PROVE  Fallen(waiting[i], ids) \subseteq Results
  BY <1>1 DEF Fallen, Fallback, NoFallback
<1>4. /\ \A o \in Results : o.id \in Ids \cup {"none"} /\ o.offline \in BOOLEAN
      /\ \A o \in AllResults : o.id \in Records /\ o.offline \in BOOLEAN
  OBVIOUS
<1>8. Results \subseteq AllResults
  BY DEF Records
<1> HIDE DEF Results, AllResults
<1>5. getBlock(waiting[i]) \subseteq Results
  <2>1. PICK ids \in SUBSET (Ids \cup {"none"}) :
           getBlock(waiting[i]) = {Found(waiting[i].id)} \cup Fallen(waiting[i], ids)
    BY <1>1 DEF getBlock
  <2> QED BY <1>2, <1>3, <2>1
<1>6. getTransaction(waiting[i]) \subseteq AllResults
  <2>1. Ids \cup {"none"} \in SUBSET (Ids \cup {"none"})
    OBVIOUS
  <2> QED BY <1>2, <1>3, <1>8, <2>1 DEF getTransaction
<1>7. getAddress(waiting[i]) \subseteq AllResults
  <2>1. PICK ids \in SUBSET (Ids \cup {"none"}) :
           getAddress(waiting[i]) = {Served(waiting[i])} \cup Fallen(waiting[i], ids)
    BY <1>1 DEF getAddress
  <2> QED BY <1>2, <1>3, <1>8, <2>1
<1> QED BY <1>4, <1>5, <1>6, <1>7

(* Every answer keeps the invariant.                                       *)
LEMMA AnsweredStep ==
    ASSUME PicksInv, NEW i \in DOMAIN waiting, Answered(i), Rendered
    PROVE  PicksInv'
<1>1. /\ waiting[i].by \in {"click"} \cup Queries /\ waiting[i].call \in Calls
      /\ waiting[i].id \in Ids /\ waiting[i].read \in Reads
  BY HandlerFields DEF PicksInv
<1>2. fetchJson \in Reads /\ fetchRpcJson \in Reads
  BY DEF fetchJson, fetchRpcJson, Asks, Reads, PicksInv, PicksShape, ApiTypeOK
<1>3. /\ \A o \in getBlock(waiting[i]) : o.id \in Ids \cup {"none"} /\ o.offline \in BOOLEAN
      /\ \A o \in getTransaction(waiting[i]) \cup getAddress(waiting[i]) :
            o.id \in Records /\ o.offline \in BOOLEAN
  BY LookupTypes
<1>4. {"block", "tx", "address", "validator", "contract"} \subseteq Kinds
  BY DEF Kinds
<1>5. {"getBlock", "getTransaction", "getAddress"} \subseteq Calls
  BY DEF Calls
<1>6. apiNetwork \in Networks /\ offline \in BOOLEAN
  BY DEF PicksInv, PicksShape, ApiTypeOK
<1>7. ASSUME ShowsNotFound PROVE ShownType' /\ RecordAgrees' /\ AccountShown'
  BY <1>7, NoRecordProperties DEF ShowsNotFound
<1>8. CASE callRetried(i)
  <2>1. /\ waiting[i].call \in {"getBlock", "getTransaction", "getAddress"}
        /\ GoesOn(i, waiting[i].call, fetchRpcJson)
        /\ UNCHANGED <<current, currentBlockTxs, currentAccountTxs, recordRoute, picks, overlapped>>
        /\ ApiTypeOK'
    BY <1>6, <1>8 DEF callRetried, ApiTypeOK, apiVars
  <2>2. ~InHistory(i) /\ waiting[i].call # "getAddressTransactions"
    BY <2>1 DEF InHistory
  <2> QED BY <1>1, <1>2, <2>1, <2>2, AsksOnStep
<1>9. CASE recordAnswered(i)
  <2>1. PICK o \in getBlock(waiting[i]) :
           /\ IF o.id = "none" THEN ShowsNotFound ELSE Shows("block", o.id)
           /\ HandlerEnds(i) /\ offline' = o.offline
    BY <1>9 DEF recordAnswered
  <2>2. ApiTypeOK' /\ UNCHANGED <<picks, overlapped>>
    BY <1>3, <1>6, <1>9, <2>1 DEF recordAnswered, ApiTypeOK
  <2>3. ShownType' /\ RecordAgrees' /\ AccountShown'
    BY <1>3, <1>4, <1>7, <2>1, ShowsProperties
  <2> QED BY <2>1, <2>2, <2>3, EndsStep
<1>10. CASE txAnswered(i)
  <2>1. waiting[i].call = "getTransaction" /\ UNCHANGED <<picks, overlapped, apiNetwork>>
    BY <1>10 DEF txAnswered
  <2>2. PICK o \in getTransaction(waiting[i]) :
           /\ offline' = o.offline
           /\ \/ o.id \in Ids /\ Shows("tx", o.id) /\ HandlerEnds(i)
              \/ ShowsUnnamed("tx", waiting[i].id) /\ HandlerEnds(i)
              \/ /\ GoesOn(i, "getBlock", fetchJson)
                 /\ UNCHANGED <<current, currentBlockTxs, currentAccountTxs, recordRoute>>
              \/ ShowsNotFound /\ HandlerEnds(i)
    BY <1>10 DEF txAnswered
  <2>3. ApiTypeOK'
    BY <1>3, <1>6, <2>1, <2>2 DEF ApiTypeOK
  <2>7. CASE ShowsUnnamed("tx", waiting[i].id) /\ HandlerEnds(i)
    <3>1. ShownType' /\ RecordAgrees' /\ AccountShown'
      BY <1>1, <2>7, UnnamedProperties
    <3> QED BY <2>1, <2>3, <2>7, <3>1, EndsStep
  <2>4. CASE o.id \in Ids /\ Shows("tx", o.id) /\ HandlerEnds(i)
    <3>1. ShownType' /\ RecordAgrees' /\ AccountShown'
      BY <1>3, <1>4, <2>4, ShowsProperties
    <3> QED BY <2>1, <2>3, <2>4, <3>1, EndsStep
  <2>5. CASE /\ GoesOn(i, "getBlock", fetchJson)
             /\ UNCHANGED <<current, currentBlockTxs, currentAccountTxs, recordRoute>>
    <3>1. ~InHistory(i)
      BY <2>1 DEF InHistory
    <3> QED BY <1>2, <1>5, <2>1, <2>3, <2>5, <3>1, AsksOnStep
  <2>6. CASE ShowsNotFound /\ HandlerEnds(i)
    BY <1>7, <2>1, <2>3, <2>6, EndsStep
  <2> QED BY <2>2, <2>4, <2>5, <2>6, <2>7
<1>11. CASE addressAnswered(i)
  <2>1. UNCHANGED <<picks, overlapped, apiNetwork>>
    BY <1>11 DEF addressAnswered
  <2>2. PICK o \in getAddress(waiting[i]) :
           /\ offline' = o.offline
           /\ \/ ShowsNotFound /\ HandlerEnds(i)
              \/ ShowsUnnamed("address", waiting[i].id) /\ HandlerEnds(i)
              \/ AccountUnnamed /\ HandlerEnds(i)
              \/ o.id \in Ids /\ Shows("address", o.id) /\ HandlerEnds(i)
              \/ o.id \in Ids /\ ShowsAccountFirst(i, o.id)
    BY <1>11 DEF addressAnswered
  <2>3. ApiTypeOK'
    BY <1>3, <1>6, <2>1, <2>2 DEF ApiTypeOK
  <2>4. CASE ShowsNotFound /\ HandlerEnds(i)
    BY <1>7, <2>1, <2>3, <2>4, EndsStep
  <2>7. CASE (ShowsUnnamed("address", waiting[i].id) \/ AccountUnnamed) /\ HandlerEnds(i)
    <3>1. ShownType' /\ RecordAgrees' /\ AccountShown'
      BY <1>1, <2>7, UnnamedProperties, AccountUnnamedProperties
    <3> QED BY <2>1, <2>3, <2>7, <3>1, EndsStep
  <2>5. CASE o.id \in Ids /\ Shows("address", o.id) /\ HandlerEnds(i)
    <3>1. ShownType' /\ RecordAgrees' /\ AccountShown'
      BY <1>3, <1>4, <2>5, ShowsProperties
    <3> QED BY <2>1, <2>3, <2>5, <3>1, EndsStep
  <2>6. CASE o.id \in Ids /\ ShowsAccountFirst(i, o.id)
    BY <2>1, <2>3, <2>6, AccountFirstStep
  <2> QED BY <2>2, <2>4, <2>5, <2>6, <2>7
<1>12. CASE historyAnswered(i)
  BY <1>12, HistoryStep
<1>13. CASE searchAnswered(i)
  <2>1. UNCHANGED <<picks, overlapped>> /\ ApiTypeOK'
    BY <1>6, <1>13 DEF searchAnswered, ApiTypeOK, apiVars
  <2>2. PICK kind \in Kinds, id \in Ids :
           IF kind = "address" THEN ShowsAccountFirst(i, id) ELSE Shows(kind, id) /\ HandlerEnds(i)
    BY <1>13 DEF searchAnswered
  <2>3. CASE kind = "address"
    BY <2>1, <2>2, <2>3, AccountFirstStep
  <2>4. CASE kind # "address"
    <3>1. ShownType' /\ RecordAgrees' /\ AccountShown'
      BY <2>2, <2>4, ShowsProperties
    <3> QED BY <2>1, <2>2, <2>4, <3>1, EndsStep
  <2> QED BY <2>3, <2>4
<1>15. CASE searchUntyped(i)
  <2>1. /\ waiting[i].call = "search" /\ HandlerEnds(i) /\ UNCHANGED <<picks, overlapped>>
        /\ UNCHANGED <<current, currentBlockTxs, currentAccountTxs, recordRoute>> /\ ApiTypeOK'
    BY <1>6, <1>15 DEF searchUntyped, ApiTypeOK, apiVars
  <2>2. ShownType' /\ RecordAgrees'
    BY <2>1 DEF ShownType, RecordAgrees, PicksInv, PicksShape
  <2>3. ASSUME ~overlapped PROVE AccountShown'
    <3>1. DOMAIN waiting = {i}
      BY <2>3, AnsweredAlone
    <3>2. AccountShown
      BY <2>1, <2>3, <3>1 DEF PicksInv, AccountAgrees, InHistory
    <3> QED BY <2>1, <3>2 DEF AccountShown, Rendered
  <2> QED BY <2>1, <2>2, <2>3, EndsStep
<1>14. CASE searchFellBack(i)
  <2>1. waiting[i].call = "search" /\ UNCHANGED <<picks, overlapped>> /\ ApiTypeOK'
    BY <1>6, <1>14 DEF searchFellBack, ApiTypeOK, apiVars
  <2>2. \/ \E call \in {"getBlock", "getTransaction", "getAddress"} :
             /\ GoesOn(i, call, fetchJson)
             /\ UNCHANGED <<current, currentBlockTxs, currentAccountTxs, recordRoute>>
        \/ (Shows("validator", waiting[i].id) \/ Shows("contract", waiting[i].id)
              \/ ShowsNotFound) /\ HandlerEnds(i)
    BY <1>14 DEF searchFellBack
  <2>3. CASE \E call \in {"getBlock", "getTransaction", "getAddress"} :
               /\ GoesOn(i, call, fetchJson)
               /\ UNCHANGED <<current, currentBlockTxs, currentAccountTxs, recordRoute>>
    <3>1. ~InHistory(i)
      BY <2>1 DEF InHistory
    <3>2. PICK call \in {"getBlock", "getTransaction", "getAddress"} : GoesOn(i, call, fetchJson)
      BY <2>3
    <3>3. call \in Calls /\ call # "getAddressTransactions"
      BY <1>5
    <3> QED BY <1>2, <2>1, <2>3, <3>1, <3>2, <3>3, AsksOnStep
  <2>4. CASE (Shows("validator", waiting[i].id) \/ Shows("contract", waiting[i].id)
                \/ ShowsNotFound) /\ HandlerEnds(i)
    <3>1. ShownType' /\ RecordAgrees' /\ AccountShown'
      BY <1>1, <1>4, <1>7, <2>4, ShowsProperties
    <3> QED BY <2>1, <2>4, <3>1, EndsStep
  <2> QED BY <2>2, <2>3, <2>4
<1> QED BY <1>8, <1>9, <1>10, <1>11, <1>12, <1>13, <1>14, <1>15 DEF Answered

(* The picks keep their invariant.                                         *)
LEMMA PicksStep == PicksInv /\ PicksNext => PicksInv'
<1> SUFFICES ASSUME PicksInv, PicksNext PROVE PicksInv'
  OBVIOUS
<1>1. fetchJson \in Reads
  BY DEF fetchJson, Asks, Reads, PicksInv, PicksShape, ApiTypeOK
<1>2. {"validator", "contract"} \subseteq Kinds \ {"address"}
  BY DEF Kinds
<1>3. ASSUME NEW id \in Ids, NEW by \in {"click"} \cup Queries,
             NEW call \in Calls \ {"getAddressTransactions"},
             Pick(Handler(by, call, id, fetchJson)), Rendered
      PROVE  PicksInv'
  <2>1. /\ Handler(by, call, id, fetchJson) \in Handlers
        /\ Handler(by, call, id, fetchJson).call = call
    BY <1>1 DEF Handler, Handlers
  <2> QED BY <1>3, <2>1, PickStep
<1>4. {"getBlock", "getTransaction", "getAddress", "search"}
        \subseteq Calls \ {"getAddressTransactions"}
  BY DEF Calls
<1>5. ASSUME NEW id \in Ids, handleSelectBlock(id) \/ handleSelectTx(id) \/ handleSelectAddress(id),
             Rendered
      PROVE  PicksInv'
  BY <1>3, <1>4, <1>5 DEF handleSelectBlock, handleSelectTx, handleSelectAddress
<1>6. ASSUME NEW id \in Ids, NEW q \in Queries, handleUniversalSearch(q, id), Rendered
      PROVE  PicksInv'
  BY <1>3, <1>4, <1>6 DEF handleUniversalSearch
<1>7. ASSUME NEW id \in Ids, NEW b \in BOOLEAN,
             handleSelectValidator(id, b) \/ handleSelectContract(id, b), Rendered
      PROVE  PicksInv'
  <2>1. /\ picks < MaxPicks /\ picks' = picks + 1 /\ UNCHANGED <<waiting, overlapped, apiVars>>
        /\ Shows("validator", id) \/ Shows("contract", id) \/ ShowsNotFound
    BY <1>7 DEF handleSelectValidator, handleSelectContract
  <2>2. CASE ShowsNotFound
    <3>1. ShownType' /\ RecordAgrees' /\ AccountShown'
      BY <2>2, NoRecordProperties DEF ShowsNotFound
    <3>2. current'["address"] = current["address"]
      BY <2>2 DEF ShowsNotFound
    <3> QED BY <1>7, <2>1, <3>1, <3>2, RouteStep
  <2>3. ASSUME NEW kind \in Kinds \ {"address"}, Shows(kind, id) PROVE PicksInv'
    <3>1. /\ ShownType' /\ RecordAgrees' /\ AccountShown'
          /\ current'["address"] = current["address"]
      BY <2>3, ShowsProperties
    <3> QED BY <1>7, <2>1, <3>1, RouteStep
  <2> QED BY <1>2, <2>1, <2>2, <2>3
<1>8. ASSUME navigateToPage, Rendered PROVE PicksInv'
  <2>1. /\ picks < MaxPicks /\ picks' = picks + 1 /\ UNCHANGED <<waiting, overlapped, apiVars>>
        /\ UNCHANGED <<current, currentBlockTxs, currentAccountTxs>> /\ recordRoute' = NoRoute
    BY <1>8 DEF navigateToPage
  <2>2. ShownType' /\ RecordAgrees' /\ AccountShown'
    BY <2>1, NoRecordProperties
  <2>3. current'["address"] = current["address"]
    BY <2>1
  <2> QED BY <1>8, <2>1, <2>2, <2>3, RouteStep
<1>9. ASSUME NEW i \in DOMAIN waiting, Answered(i), Rendered PROVE PicksInv'
  BY <1>9, AnsweredStep
<1>10. CASE setTxTab
  <2>1. /\ hasError' = TRUE /\ UNCHANGED <<current, currentBlockTxs, currentAccountTxs, recordRoute>>
        /\ UNCHANGED <<waiting, picks, overlapped>> /\ UNCHANGED apiVars
    BY <1>10 DEF setTxTab
  <2>2. PicksShape' /\ RecordAgrees'
    BY <2>1 DEF PicksInv, PicksShape, RecordAgrees, ApiTypeOK, apiVars
  <2>3. AccountShown'
    BY <2>1 DEF AccountShown
  <2>4. AccountAgrees'
    BY <2>1, <2>3 DEF PicksInv, AccountAgrees, InHistory
  <2> QED BY <2>2, <2>4 DEF PicksInv
<1>11. CASE reload
  <2>1. waiting' \in Seq(Handlers) /\ Len(waiting') = 0 /\ DOMAIN waiting' = {}
    BY <1>11 DEF reload
  <2>2. /\ current' = [k \in Kinds |-> "none"] /\ hasError' = FALSE /\ overlapped' = FALSE
        /\ currentBlockTxs' = "none" /\ currentAccountTxs' = "none"
        /\ recordRoute' \in {NoRoute} \cup (Kinds \X Ids) /\ picks' = picks /\ ApiTypeOK'
    BY <1>11 DEF reload, ApiTypeOK, PicksInv, PicksShape
  <2>3. picks \in 0..MaxPicks /\ 0 <= picks
    BY PicksAssumption DEF PicksInv, PicksShape
  <2>4. PicksShape'
    BY <2>1, <2>2, <2>3 DEF PicksShape, Records, RecordRoutes
  <2>5. \A k \in Kinds : current'[k] = "none"
    BY <2>2
  <2>6. RecordAgrees' /\ AccountShown'
    BY <2>2, <2>5 DEF RecordAgrees, AccountShown, Kinds
  <2>7. AccountAgrees'
    BY <2>1, <2>6 DEF AccountAgrees
  <2> QED BY <2>4, <2>6, <2>7 DEF PicksInv
<1>12. ASSUME RendersRecord PROVE Rendered
  BY <1>12, RendersRecordProperties DEF PicksInv
<1> QED BY <1>5, <1>6, <1>7, <1>8, <1>9, <1>10, <1>11, <1>12 DEF PicksNext, UserPicks

(* Opened at a list or at a record, nothing is shown and nobody waits.     *)
LEMMA PicksStart == PicksInit => PicksInv
<1> SUFFICES ASSUME PicksInit PROVE PicksInv
  OBVIOUS
<1>1. /\ waiting \in Seq(Handlers) /\ Len(waiting) = 0 /\ DOMAIN waiting = {}
  BY DEF PicksInit
<1>2. 0 \in 0..MaxPicks /\ FirstNetwork \in Networks /\ "address" \in Kinds
  BY PicksAssumption, NetworksAssumption DEF Kinds
<1>3. PicksShape
  <2>1. ApiTypeOK
    BY <1>2 DEF PicksInit, ApiInit, ApiTypeOK
  <2>2. current \in [Kinds -> Records]
    BY DEF PicksInit, Records
  <2>3. recordRoute \in {NoRoute, NotFound} \cup RecordRoutes
    BY DEF PicksInit, RecordRoutes
  <2>4. /\ currentBlockTxs \in {"none", "own", "others"} /\ currentAccountTxs \in Ids \cup {"none"}
        /\ picks = 0 /\ overlapped \in BOOLEAN /\ hasError \in BOOLEAN
    BY DEF PicksInit, Records
  <2> QED BY <1>1, <1>2, <2>1, <2>2, <2>3, <2>4 DEF PicksShape
<1>4. \A k \in Kinds : current[k] = "none"
  BY DEF PicksInit
<1>5. RecordAgrees
  BY <1>4 DEF RecordAgrees
<1>6. AccountShown
  BY <1>2, <1>4 DEF AccountShown, PicksInit
<1> QED BY <1>1, <1>3, <1>5, <1>6 DEF PicksInv, AccountAgrees

(***************************************************************************)
(* The wallet dialog.                                                      *)
(***************************************************************************)
(* While timers run, the last of them is that of the wallet picked last.   *)
LastTimerAsked == connecting # << >> => connecting[Len(connecting)] = asked

WalletInv ==
    /\ connectWalletModalOpen \in BOOLEAN /\ otherWrote \in BOOLEAN
    /\ {connectingId, connectedAddress, connectedWallet, storedWallet, asked}
          \subseteq Wallets \cup {"none"}
    /\ connecting \in Seq(Wallets)
    /\ LastTimerAsked
    /\ WalletViewsAgree

(* The timers fire in the order of the clicks, and each writes the dialog,  *)
(* the header and the storage; a disconnect the dialog and the storage;    *)
(* another window the storage alone.                                       *)
LEMMA WalletStep == WalletInv /\ WalletNext => WalletInv'
<1> SUFFICES ASSUME WalletInv, WalletNext PROVE WalletInv'
  OBVIOUS
<1> USE DEF WalletInv, WalletViewsAgree, LastTimerAsked
<1>1. CASE openConnectWallet
  BY <1>1 DEF openConnectWallet
<1>2. CASE closeConnectWallet
  BY <1>2 DEF closeConnectWallet
<1>3. CASE connectTimeout
  <2>1. connecting # << >> /\ Len(connecting) \in Nat \ {0}
    BY <1>3 DEF connectTimeout
  <2>2. /\ Head(connecting) \in Wallets /\ Tail(connecting) \in Seq(Wallets)
        /\ Head(connecting) = connecting[1]
        /\ Len(Tail(connecting)) = Len(connecting) - 1
        /\ \A k \in 1..Len(Tail(connecting)) : Tail(connecting)[k] = connecting[k + 1]
    BY <2>1, HeadTailProperties
  <2>3. /\ connecting' = Tail(connecting) /\ asked' = asked /\ otherWrote' = FALSE
        /\ connectingId' = "none" /\ connectWalletModalOpen' = FALSE
        /\ connectedAddress' = Head(connecting) /\ storedWallet' = Head(connecting)
        /\ connectedWallet' = Head(connecting)
    BY <1>3 DEF connectTimeout
  <2>4. LastTimerAsked'
    <3>1. ASSUME connecting' # << >> PROVE connecting'[Len(connecting')] = connecting[Len(connecting)]
      <4>1. Len(connecting') \in 1..Len(connecting')
        BY <2>2, <2>3, <3>1, EmptySeq
      <4> QED BY <2>1, <2>2, <2>3, <4>1
    <3> QED BY <2>1, <2>3, <3>1
  <2>5. connecting' = << >> => Head(connecting) = asked
    <3>1. ASSUME connecting' = << >> PROVE Len(connecting) = 1
      <4>1. Len(Tail(connecting)) = 0
        BY <2>3, <3>1, EmptySeq
      <4>2. Len(Tail(connecting)) = Len(connecting) - 1
        BY <2>2
      <4>3. Len(connecting) - 1 = 0 /\ Len(connecting) \in Nat
        BY <2>1, <4>1, <4>2, Zenon
      <4> HIDE DEF WalletInv, WalletViewsAgree, LastTimerAsked
      <4> QED BY <4>3
    <3> QED BY <2>1, <2>2, <3>1
  <2>6. WalletViewsAgree'
    BY <2>3, <2>5
  <2> QED BY <2>2, <2>3, <2>4, <2>6
<1>4. CASE handleDisconnect
  BY <1>4 DEF handleDisconnect
<1>5. ASSUME NEW w \in Wallets, handleConnect(w) PROVE WalletInv'
  <2>1. /\ Append(connecting, w) \in Seq(Wallets) /\ Append(connecting, w) # << >>
        /\ Append(connecting, w)[Len(Append(connecting, w))] = w
    BY AppendProperties
  <2> QED BY <1>5, <2>1 DEF handleConnect
<1>6. ASSUME NEW w \in Wallets \cup {"none"}, otherWindowStores(w) PROVE WalletInv'
  BY <1>6 DEF otherWindowStores
<1>7. CASE loadAgain
  BY <1>7, EmptySeq DEF loadAgain
<1> QED BY <1>1, <1>2, <1>3, <1>4, <1>5, <1>6, <1>7 DEF WalletNext

(***************************************************************************)
(* The buttons with a timer.                                               *)
(***************************************************************************)
ButtonsInv ==
    /\ busy \subseteq mounted /\ mounted \subseteq Buttons
    /\ timers \in [Buttons -> Nat]
    /\ selectedMethod \in Methods /\ rpcResponse \in Methods \cup {"none"}
    /\ calledMethods \in Seq(Methods) /\ Len(calledMethods) = timers["console"]
    /\ ButtonHasOneTimer

(* A press starts the one timer of a button that has none.                 *)
LEMMA PressKeepsTimers ==
    ASSUME ButtonsInv, NEW b \in Buttons, b \notin busy, ButtonStarts(b)
    PROVE  /\ busy' \subseteq mounted' /\ mounted' \subseteq Buttons
           /\ timers' \in [Buttons -> Nat] /\ ButtonHasOneTimer'
           /\ timers'[b] = timers[b] + 1
           /\ \A c \in Buttons \ {b} : timers'[c] = timers[c]
<1>1. /\ timers' \in [Buttons -> Nat] /\ timers'[b] = timers[b] + 1
      /\ \A c \in Buttons \ {b} : timers'[c] = timers[c]
  BY DEF ButtonsInv, ButtonStarts
<1>2. timers[b] = 0 /\ timers'[b] = 1
  BY <1>1 DEF ButtonsInv, ButtonHasOneTimer
<1>3. ButtonHasOneTimer'
  BY <1>1, <1>2 DEF ButtonsInv, ButtonHasOneTimer, ButtonStarts
<1> QED BY <1>1, <1>3 DEF ButtonsInv, ButtonStarts

(* A timer that fires is the only one, and frees the button.               *)
LEMMA TimerKeepsTimers ==
    ASSUME ButtonsInv, NEW b \in Buttons, TimerEnds(b)
    PROVE  /\ busy' \subseteq mounted' /\ mounted' \subseteq Buttons
           /\ timers' \in [Buttons -> Nat] /\ ButtonHasOneTimer'
           /\ timers[b] = 1 /\ timers'[b] = 0
           /\ \A c \in Buttons \ {b} : timers'[c] = timers[c]
<1>1. timers[b] = 1
  BY DEF ButtonsInv, ButtonHasOneTimer, TimerEnds
<1>2. /\ timers' \in [Buttons -> Nat] /\ timers'[b] = 0
      /\ \A c \in Buttons \ {b} : timers'[c] = timers[c]
  BY <1>1 DEF ButtonsInv, TimerEnds
<1>3. ButtonHasOneTimer'
  BY <1>2 DEF ButtonsInv, ButtonHasOneTimer, TimerEnds
<1> QED BY <1>1, <1>2, <1>3 DEF ButtonsInv, TimerEnds

(* A press of another button than the console's calls no method.           *)
LEMMA OtherButtonStep ==
    ASSUME ButtonsInv, NEW b \in Buttons \ {"console"}, UNCHANGED calledMethods,
           \/ b \notin busy /\ ButtonStarts(b)
           \/ TimerEnds(b) /\ UNCHANGED rpcResponse
    PROVE  ButtonsInv'
<1>1. "console" \in Buttons \ {b}
  BY DEF Buttons
<1>2. CASE b \notin busy /\ ButtonStarts(b)
  BY <1>1, <1>2, PressKeepsTimers DEF ButtonsInv, ButtonStarts
<1>3. CASE TimerEnds(b) /\ UNCHANGED rpcResponse
  BY <1>1, <1>3, TimerKeepsTimers DEF ButtonsInv, TimerEnds
<1> QED BY <1>2, <1>3

(* The buttons keep their invariant.                                       *)
LEMMA ButtonsStep == ButtonsInv /\ ButtonsNext => ButtonsInv'
<1> SUFFICES ASSUME ButtonsInv, ButtonsNext PROVE ButtonsInv'
  OBVIOUS
<1>1. "console" \in Buttons /\ {"playground", "faucet"} \subseteq Buttons \ {"console"}
  BY DEF Buttons
<1>2. FirstMethod \in Methods
  BY WidgetsAssumption DEF FirstMethod
<1>3. ASSUME NEW b \in Buttons, mount(b) PROVE ButtonsInv'
  BY <1>2, <1>3 DEF mount, ButtonsInv, ButtonHasOneTimer
<1>4. ASSUME NEW b \in Buttons, unmount(b) PROVE ButtonsInv'
  <2>1. /\ timers' \in [Buttons -> Nat] /\ timers'[b] = 0
        /\ \A c \in Buttons \ {b} : timers'[c] = timers[c]
    BY <1>4 DEF unmount, ButtonsInv
  <2>2. ButtonHasOneTimer'
    BY <1>4, <2>1 DEF unmount, ButtonsInv, ButtonHasOneTimer
  <2>3. calledMethods' \in Seq(Methods) /\ Len(calledMethods') = timers'["console"]
    BY <1>1, <1>4, <2>1 DEF unmount, ButtonsInv
  <2> QED BY <1>4, <2>1, <2>2, <2>3 DEF unmount, ButtonsInv
<1>5. CASE handleRunRpc
  <2>1. "console" \notin busy /\ ButtonStarts("console")
    BY <1>5 DEF handleRunRpc
  <2>2. /\ calledMethods' \in Seq(Methods) /\ Len(calledMethods') = Len(calledMethods) + 1
    BY <1>5, AppendProperties DEF handleRunRpc, ButtonsInv
  <2> QED BY <1>1, <2>1, <2>2, PressKeepsTimers DEF ButtonsInv, ButtonStarts
<1>6. CASE rpcTimeout
  <2>1. timers["console"] = 1 /\ TimerEnds("console")
    BY <1>1, <1>6, TimerKeepsTimers DEF rpcTimeout
  <2>2. calledMethods # << >>
    <3>1. Len(calledMethods) = 1
      BY <2>1 DEF ButtonsInv
    <3> QED BY <3>1
  <2>3. /\ rpcResponse' \in Methods /\ calledMethods' \in Seq(Methods)
        /\ Len(calledMethods') = Len(calledMethods) - 1
    BY <1>6, <2>2, HeadTailProperties DEF rpcTimeout, ButtonsInv
  <2> QED BY <1>1, <2>1, <2>3, TimerKeepsTimers DEF ButtonsInv, TimerEnds
<1>7. CASE handleRun
  BY <1>1, <1>7, OtherButtonStep DEF handleRun
<1>8. CASE runTimeout
  BY <1>1, <1>8, OtherButtonStep DEF runTimeout
<1>9. CASE handleClaim
  BY <1>1, <1>9, OtherButtonStep DEF handleClaim
<1>10. CASE claimTimeout
  BY <1>1, <1>10, OtherButtonStep DEF claimTimeout
<1>11. ASSUME NEW m \in Methods, handleSelectMethod(m) PROVE ButtonsInv'
  BY <1>11 DEF handleSelectMethod, ButtonsInv, ButtonHasOneTimer
<1> QED BY <1>3, <1>4, <1>5, <1>6, <1>7, <1>8, <1>9, <1>10, <1>11 DEF ButtonsNext

(***************************************************************************)
(* The recent queries.                                                     *)
(***************************************************************************)
(* A list with no query twice, and no more than are kept.                  *)
RecentLists == {list \in Seq(Words) : IsInjective(list) /\ Len(list) <= RecentsKept}

SearchInv ==
    /\ searchModalOpen \in BOOLEAN
    /\ recents \in RecentLists /\ storedRecents \in RecentLists

(* g solves the recursion of Others for the first n places of the list.    *)
Keeps(g, q, list, n) ==
    g = [k \in 0..n |->
           IF k = 0 THEN << >>
           ELSE IF list[k] = q THEN g[k - 1] ELSE Append(g[k - 1], list[k])]

(* The recursion has a solution.                                           *)
LEMMA KeepsExist ==
    ASSUME NEW q, NEW list, NEW n \in Nat
    PROVE  \E g : Keeps(g, q, list, n)
<1> DEFINE Q == {k \in Nat : \E g : Keeps(g, q, list, k)}
<1>1. 0 \in Q
  <2> DEFINE g == [k \in 0..0 |-> << >>]
  <2>1. \A k \in 0..0 : k = 0
    OBVIOUS
  <2>2. Keeps(g, q, list, 0)
    BY <2>1 DEF Keeps
  <2> QED BY <2>2
<1>2. ASSUME NEW m \in Nat, m \in Q PROVE m + 1 \in Q
  <2>1. PICK h : Keeps(h, q, list, m)
    BY <1>2
  <2> DEFINE g == [k \in 0..m + 1 |->
                     IF k = m + 1
                     THEN IF list[m + 1] = q THEN h[m] ELSE Append(h[m], list[m + 1])
                     ELSE h[k]]
  <2>2. ASSUME NEW k \in 0..m + 1
        PROVE  g[k] = IF k = 0 THEN << >>
                      ELSE IF list[k] = q THEN g[k - 1] ELSE Append(g[k - 1], list[k])
    <3>1. CASE k = m + 1
      <4>1. k # 0 /\ k - 1 = m /\ m \in 0..m + 1 /\ m # m + 1
        BY <3>1
      <4>2. g[k - 1] = h[m]
        BY <4>1
      <4>3. g[k] = IF list[m + 1] = q THEN h[m] ELSE Append(h[m], list[m + 1])
        BY <3>1
      <4> HIDE DEF g
      <4> QED BY <3>1, <4>1, <4>2, <4>3
    <3>2. CASE k # m + 1
      <4>1. k \in 0..m
        BY <3>2
      <4>2. g[k] = h[k]
        BY <3>2
      <4>3. h[k] = IF k = 0 THEN << >>
                   ELSE IF list[k] = q THEN h[k - 1] ELSE Append(h[k - 1], list[k])
        BY <2>1, <4>1 DEF Keeps
      <4>4. ASSUME k # 0 PROVE g[k - 1] = h[k - 1]
        <5>1. k - 1 \in 0..m + 1 /\ k - 1 # m + 1
          BY <4>1, <4>4
        <5> QED BY <5>1
      <4> HIDE DEF g
      <4> QED BY <4>2, <4>3, <4>4
    <3> QED BY <3>1, <3>2
  <2>3. g = [k \in 0..m + 1 |-> g[k]]
    OBVIOUS
  <2> HIDE DEF g
  <2>4. Keeps(g, q, list, m + 1)
    BY <2>2, <2>3 DEF Keeps
  <2> QED BY <2>4
<1>3. Nat \subseteq Q
  <2> HIDE DEF Q
  <2> QED BY <1>1, <1>2, NaturalInduction
<1>4. n \in Q
  BY <1>3
<1> QED BY <1>4

(* r holds queries of the first n places of the list, none of them q, and   *)
(* none twice.                                                             *)
OthersUpTo(r, q, list, n) ==
    /\ r \in Seq(Words)
    /\ \A j \in 1..Len(r) : r[j] # q /\ \E k \in 1..n : r[j] = list[k]
    /\ \A a, b \in 1..Len(r) : r[a] = r[b] => a = b

(* One more place: its query is new.                                       *)
LEMMA OthersNext ==
    ASSUME NEW q, NEW list \in Seq(Words), IsInjective(list), NEW n \in Nat, n + 1 \in 1..Len(list),
           NEW r, OthersUpTo(r, q, list, n)
    PROVE  OthersUpTo(IF list[n + 1] = q THEN r ELSE Append(r, list[n + 1]), q, list, n + 1)
<1>1. CASE list[n + 1] = q
  <2>1. \A k \in 1..n : k \in 1..n + 1
    OBVIOUS
  <2> QED BY <1>1, <2>1 DEF OthersUpTo
<1>2. CASE list[n + 1] # q
  <2> DEFINE x == list[n + 1]
             s == Append(r, x)
             m == Len(r)
  <2>1. x \in Words /\ r \in Seq(Words)
    BY ElementOfSeq DEF OthersUpTo
  <2> HIDE DEF x
  <2>2. /\ s \in Seq(Words) /\ Len(s) = m + 1 /\ s[m + 1] = x /\ m \in Nat
        /\ \A j \in 1..m : s[j] = r[j]
    BY <2>1, AppendProperties, LenProperties
  <2> HIDE DEF s
  <2>3. ASSUME NEW j \in 1..m PROVE r[j] # q /\ r[j] # x /\ \E k \in 1..n + 1 : r[j] = list[k]
    <3>1. r[j] # q
      BY DEF OthersUpTo
    <3>2. PICK k \in 1..n : r[j] = list[k]
      BY DEF OthersUpTo
    <3>3. k \in DOMAIN list /\ n + 1 \in DOMAIN list /\ k # n + 1 /\ k \in 1..n + 1
      BY LenProperties
    <3>4. r[j] # x
      BY <3>2, <3>3 DEF IsInjective, x
    <3> QED BY <3>1, <3>2, <3>3, <3>4
  <2> HIDE DEF m
  <2>4. \A j \in 1..m + 1 : j \in 1..m \/ j = m + 1
    BY <2>2
  <2>5. ASSUME NEW j \in 1..m + 1 PROVE s[j] # q /\ \E k \in 1..n + 1 : s[j] = list[k]
    <3>1. CASE j \in 1..m
      BY <2>2, <2>3, <3>1
    <3>2. CASE j = m + 1
      <4>1. s[j] = list[n + 1] /\ n + 1 \in 1..n + 1
        BY <2>2, <3>2 DEF x
      <4> QED BY <1>2, <4>1
    <3> QED BY <2>4, <3>1, <3>2
  <2>6. ASSUME NEW a \in 1..m + 1, NEW b \in 1..m + 1, s[a] = s[b] PROVE a = b
    <3>1. CASE a \in 1..m /\ b \in 1..m
      BY <2>2, <2>6, <3>1 DEF OthersUpTo, m
    <3>2. CASE a = m + 1 /\ b \in 1..m
      BY <2>2, <2>3, <2>6, <3>2
    <3>3. CASE a \in 1..m /\ b = m + 1
      BY <2>2, <2>3, <2>6, <3>3
    <3> QED BY <2>4, <3>1, <3>2, <3>3
  <2>7. OthersUpTo(s, q, list, n + 1)
    BY <2>2, <2>5, <2>6 DEF OthersUpTo
  <2> QED BY <1>2, <2>7 DEF s, x
<1> QED BY <1>1, <1>2

(* The filter of the code keeps queries of the list, in a list of the kind. *)
LEMMA OthersProperties ==
    ASSUME NEW q, NEW list \in Seq(Words), IsInjective(list)
    PROVE  OthersUpTo(Others(q, list), q, list, Len(list))
<1> DEFINE N == Len(list)
           g == CHOOSE f : Keeps(f, q, list, N)
           Q == {n \in Nat : n <= N => OthersUpTo(g[n], q, list, n)}
<1>1. N \in Nat
  BY LenProperties
<1>2. Others(q, list) = g[N]
  BY DEF Others, Keeps
<1> HIDE DEF N
<1>3. Keeps(g, q, list, N)
  BY <1>1, KeepsExist
<1> HIDE DEF g
<1>4. 0 \in Q
  <2>1. g[0] = << >>
    BY <1>1, <1>3 DEF Keeps
  <2>2. << >> \in Seq(Words) /\ 1..Len(<< >>) = {}
    OBVIOUS
  <2>3. OthersUpTo(<< >>, q, list, 0)
    BY <2>2 DEF OthersUpTo
  <2> QED BY <2>1, <2>3
<1>5. ASSUME NEW n \in Nat, n \in Q PROVE n + 1 \in Q
  <2> SUFFICES ASSUME n + 1 <= N PROVE OthersUpTo(g[n + 1], q, list, n + 1)
    OBVIOUS
  <2>1. OthersUpTo(g[n], q, list, n)
    BY <1>1, <1>5
  <2>2. n + 1 \in 0..N /\ n + 1 # 0 /\ (n + 1) - 1 = n /\ n + 1 \in 1..N
    BY <1>1
  <2>3. g[n + 1] = IF list[n + 1] = q THEN g[n] ELSE Append(g[n], list[n + 1])
    BY <1>3, <2>2 DEF Keeps
  <2>4. OthersUpTo(IF list[n + 1] = q THEN g[n] ELSE Append(g[n], list[n + 1]), q, list, n + 1)
    BY <2>1, <2>2, OthersNext DEF N
  <2> QED BY <2>3, <2>4
<1>6. Nat \subseteq Q
  <2> HIDE DEF Q
  <2> QED BY <1>4, <1>5, NaturalInduction
<1>7. OthersUpTo(g[N], q, list, N)
  BY <1>1, <1>6
<1> QED BY <1>2, <1>7 DEF N

(* The beginning of a list without repetitions has none.                   *)
LEMMA LatestIsRecent ==
    ASSUME NEW q \in Words, NEW list \in RecentLists
    PROVE  Latest(q, list) \in RecentLists
<1> DEFINE rest == Others(q, list)
           all == <<q>> \o rest
           n == IF Len(all) > RecentsKept THEN RecentsKept ELSE Len(all)
           r == SubSeq(all, 1, n)
<1>1. list \in Seq(Words) /\ IsInjective(list)
  BY DEF RecentLists
<1>2. Latest(q, list) = r
  BY DEF Latest
<1>3. OthersUpTo(rest, q, list, Len(list))
  BY <1>1, OthersProperties
<1> HIDE DEF rest
<1>4. /\ rest \in Seq(Words) /\ Len(rest) \in Nat
      /\ \A j \in 1..Len(rest) : rest[j] # q
      /\ \A a, b \in 1..Len(rest) : rest[a] = rest[b] => a = b
  BY <1>3, LenProperties DEF OthersUpTo
<1>5. /\ all \in Seq(Words) /\ Len(all) = 1 + Len(rest)
      /\ \A j \in 1..1 + Len(rest) : all[j] = IF j <= 1 THEN <<q>>[j] ELSE rest[j - 1]
  <2>1. <<q>> \in Seq(Words) /\ Len(<<q>>) = 1
    OBVIOUS
  <2> QED BY <1>4, <2>1, ConcatProperties
<1> HIDE DEF all
<1>6. all[1] = q /\ \A j \in 2..1 + Len(rest) : all[j] = rest[j - 1]
  BY <1>4, <1>5
<1>7. ASSUME NEW a \in 1..1 + Len(rest), NEW b \in 1..1 + Len(rest), all[a] = all[b] PROVE a = b
  <2>1. ASSUME NEW j \in 2..1 + Len(rest) PROVE all[j] = rest[j - 1] /\ j - 1 \in 1..Len(rest) /\ all[j] # q
    <3>1. j - 1 \in 1..Len(rest)
      BY <1>4
    <3> QED BY <1>4, <1>6, <3>1
  <2>2. (a = 1 \/ a \in 2..1 + Len(rest)) /\ (b = 1 \/ b \in 2..1 + Len(rest))
    BY <1>4
  <2>3. CASE a = 1 \/ b = 1
    BY <1>6, <1>7, <2>1, <2>2, <2>3
  <2>4. CASE a \in 2..1 + Len(rest) /\ b \in 2..1 + Len(rest)
    <3>1. rest[a - 1] = rest[b - 1] /\ a - 1 \in 1..Len(rest) /\ b - 1 \in 1..Len(rest)
      BY <1>7, <2>1, <2>4
    <3>2. a - 1 = b - 1
      BY <1>4, <3>1
    <3> QED BY <1>4, <2>4, <3>2
  <2> QED BY <2>2, <2>3, <2>4
<1>8. n \in Nat /\ n <= RecentsKept /\ n <= 1 + Len(rest)
  BY <1>4, <1>5, WidgetsAssumption
<1> HIDE DEF n
<1>9. \A j \in 1..n : j \in 1..1 + Len(rest)
  BY <1>4, <1>8
<1>10. /\ r \in Seq(Words) /\ Len(r) = n
       /\ \A j \in 1..n : r[j] = all[j]
  <2>1. \A j \in 1..n : all[j] \in Words
    BY <1>5, <1>9, ElementOfSeq
  <2>2. 1 \in Int /\ n \in Int
    BY <1>8
  <2>3. /\ r \in Seq(Words) /\ Len(r) = IF 1 <= n THEN n - 1 + 1 ELSE 0
        /\ \A j \in 1..n - 1 + 1 : r[j] = all[1 + j - 1]
    BY <2>1, <2>2, SubSeqProperties
  <2> HIDE DEF r
  <2>4. Len(r) = n
    BY <1>8, <2>3
  <2>5. ASSUME NEW j \in 1..n PROVE r[j] = all[j]
    <3>1. j \in 1..n - 1 + 1 /\ 1 + j - 1 = j
      BY <1>8
    <3> QED BY <2>3, <3>1
  <2> QED BY <2>3, <2>4, <2>5
<1> HIDE DEF r
<1>11. DOMAIN r = 1..n
  BY <1>10
<1>12. IsInjective(r)
  <2> SUFFICES ASSUME NEW a \in 1..n, NEW b \in 1..n, r[a] = r[b] PROVE a = b
    BY <1>11 DEF IsInjective
  <2>1. all[a] = all[b] /\ a \in 1..1 + Len(rest) /\ b \in 1..1 + Len(rest)
    BY <1>9, <1>10
  <2> QED BY <1>7, <2>1
<1> QED BY <1>2, <1>8, <1>10, <1>12 DEF RecentLists

(* The lists keep their shape, whichever window writes them.               *)
LEMMA SearchStep == SearchInv /\ SearchNext => SearchInv'
<1> SUFFICES ASSUME SearchInv, SearchNext PROVE SearchInv'
  OBVIOUS
<1>1. << >> \in RecentLists
  BY WidgetsAssumption DEF RecentLists, IsInjective
<1>2. CASE toggleSearch
  BY <1>2 DEF toggleSearch, SearchInv
<1>3. CASE clearRecents
  BY <1>1, <1>3 DEF clearRecents, SearchInv
<1>4. ASSUME NEW q \in Words, handleExecute(q) PROVE SearchInv'
  BY <1>4, LatestIsRecent DEF handleExecute, SearchInv
<1>5. ASSUME NEW q \in Words, otherWindowSearches(q) PROVE SearchInv'
  BY <1>5, LatestIsRecent DEF otherWindowSearches, SearchInv
<1> QED BY <1>2, <1>3, <1>4, <1>5 DEF SearchNext

(* The three dialogs and parts start in their shape,                       *)
LEMMA WidgetsStart == WidgetsInit => WalletInv /\ ButtonsInv /\ SearchInv
<1> SUFFICES ASSUME WidgetsInit PROVE WalletInv /\ ButtonsInv /\ SearchInv
  OBVIOUS
<1>1. WalletInv
  <2>1. /\ connecting \in Seq(Wallets) /\ connectWalletModalOpen \in BOOLEAN
        /\ otherWrote \in BOOLEAN /\ LastTimerAsked
    <3>1. connecting = << >> /\ connectWalletModalOpen = FALSE /\ otherWrote = FALSE
      BY DEF WidgetsInit
    <3> QED BY <3>1, EmptySeq DEF LastTimerAsked
  <2>2. {connectingId, connectedAddress, connectedWallet, storedWallet, asked}
          \subseteq Wallets \cup {"none"}
    BY DEF WidgetsInit
  <2>3. WalletViewsAgree
    BY DEF WidgetsInit, WalletViewsAgree
  <2> QED BY <2>1, <2>2, <2>3 DEF WalletInv
<1>2. FirstMethod \in Methods
  BY WidgetsAssumption DEF FirstMethod
<1>3. "console" \in Buttons
  BY DEF Buttons
<1>4. timers \in [Buttons -> Nat] /\ \A b \in Buttons : timers[b] = 0
  BY DEF WidgetsInit
<1>5. ButtonsInv
  BY <1>2, <1>3, <1>4 DEF WidgetsInit, ButtonsInv, ButtonHasOneTimer
<1>6. << >> \in RecentLists
  BY WidgetsAssumption DEF RecentLists, IsInjective
<1>7. SearchInv
  BY <1>6 DEF WidgetsInit, SearchInv
<1> QED BY <1>1, <1>5, <1>7

(* and that gives their type.                                              *)
LEMMA WidgetsInvGivesType == WalletInv /\ ButtonsInv /\ SearchInv => WidgetsTypeOK
<1> SUFFICES ASSUME WalletInv, ButtonsInv, SearchInv PROVE WidgetsTypeOK
  OBVIOUS
<1>1. ASSUME NEW A, NEW s \in Seq(A) PROVE Range(s) \subseteq A
  BY LenProperties, ElementOfSeq DEF Range
<1>2. Range(connecting) \subseteq Wallets
  BY <1>1 DEF WalletInv
<1>3. ASSUME NEW list \in RecentLists
      PROVE  Range(list) \subseteq Words /\ IsInjective(list) /\ Len(list) <= RecentsKept
  BY <1>1 DEF RecentLists
<1> QED BY <1>2, <1>3 DEF WalletInv, ButtonsInv, SearchInv, WidgetsTypeOK

(***************************************************************************)
(* The routes and the pages.                                               *)
(***************************************************************************)
(* The page a route belongs to, by its first word.                         *)
WordOwner(w) ==
    CASE w = "blocks" -> "Blocks"
      [] w = "transactions" -> "Transactions"
      [] w = "validators" -> "Validators"
      [] w = "staking" -> "Staking"
      [] w = "contracts" -> "Contracts"
      [] w = "analytics" -> "Analytics"
      [] w = "faucet" -> "Faucet"
      [] w = "whitepaper" -> "Whitepaper"
      [] w = "about" -> "About"
      [] w = "brand" -> "BrandKit"
      [] w = "404" -> "NotFound"
      [] w = "block" -> "BlockDetails"
      [] w = "tx" -> "TxDetails"
      [] w = "address" -> "Address"
      [] w = "validator" -> "ValidatorDetails"
      [] w = "contract" -> "ContractDetails"
      [] w = "explorer" -> "Home"
      [] w = "research" -> "Research"
      [] w = "network" -> "NetworkStatus"
      [] w = "learn" -> "Learn"
      [] w = "developers" -> "DevelopersPortal"
      [] w = "ecosystem" \/ w = "discover" \/ w = "markets" -> "Ecosystem"
      [] w = "governance" \/ w = "sips" \/ w = "community" \/ w = "security" -> "Governance"
      [] OTHER -> "none"

(* The words of the routes that are linked, tested and opened.              *)
RouteWords ==
    {"blocks", "transactions", "validators", "staking", "contracts", "analytics",
     "faucet", "whitepaper", "about", "brand", "404", "block", "tx", "address",
     "validator", "contract", "id", "explorer", "research", "network", "learn",
     "developers", "ecosystem", "discover", "markets", "governance", "sips",
     "community", "security", "what-is-sprx", "real-world-x", "tokenomics",
     "consensus", "wallets", "rpc", "smart-contracts", "nodes", "grants", "bug-bounty"}

AllWords == RouteWords \cup UNION {Range(o) : o \in Openings}

(* The paths the browser opens are routes of such words.                   *)
LEMMA OpeningsAreRoutes == Openings \subseteq Seq(AllWords)
<1> SUFFICES ASSUME NEW o \in Openings PROVE o \in Seq(AllWords)
  OBVIOUS
<1>1. o \in Seq(STRING)
  BY OpeningsAssumption
<1> DEFINE n == Len(o)
<1>2. n \in Nat /\ DOMAIN o = 1..n /\ o = [i \in 1..n |-> o[i]]
  BY <1>1, LenProperties
<1>3. \A i \in 1..n : o[i] \in AllWords
  BY <1>2 DEF AllWords, Range
<1> HIDE DEF n
<1>4. o \in [1..n -> AllWords]
  BY <1>2, <1>3
<1> QED BY <1>2, <1>4

OwnerOf(route) == IF route = << >> THEN "Home" ELSE WordOwner(route[1])

(* The test App makes for a page.                                          *)
Passes(page, route) == route \in page.exact \/ \E u \in page.under : IsPrefix(u, route)

(* The links there are.                                                    *)
KnownLinks ==
    {<< >>, <<"explorer">>, <<"blocks">>, <<"transactions">>, <<"contracts">>, <<"analytics">>,
     <<"validators">>, <<"staking">>, <<"network">>, <<"faucet">>, <<"whitepaper">>, <<"brand">>,
     <<"about">>, <<"discover">>, <<"markets">>, <<"ecosystem">>, <<"governance">>, <<"sips">>,
     <<"research">>, <<"learn">>, <<"developers">>,
     <<"learn", "what-is-sprx">>, <<"learn", "real-world-x">>, <<"learn", "tokenomics">>,
     <<"learn", "consensus">>, <<"learn", "wallets">>, <<"developers", "rpc">>,
     <<"developers", "smart-contracts">>, <<"developers", "nodes">>,
     <<"community", "grants">>, <<"security", "bug-bounty">>}

(* A page passes only routes of its own, has a tab, and its links are       *)
(* known.                                                                  *)
Sound(p, page) ==
    /\ \A route \in Seq(AllWords) : Passes(page, route) => OwnerOf(route) = p
    /\ 1 \in DOMAIN page.tabs
    /\ \A i \in DOMAIN page.links : page.links[i] \subseteq KnownLinks

(* One word and two words make a route.                                    *)
LEMMA ShortRoutes ==
    ASSUME NEW w \in AllWords, NEW v \in AllWords
    PROVE  /\ <<w>> \in Seq(AllWords) \ {<< >>} /\ <<w, v>> \in Seq(AllWords) \ {<< >>}
           /\ <<w>>[1] = w /\ <<w, v>>[1] = w
<1>1. <<w>> \in Seq(AllWords) /\ <<w, v>> \in Seq(AllWords)
  OBVIOUS
<1>2. Len(<<w>>) = 1 /\ Len(<<w, v>>) = 2 /\ Len(<< >>) = 0
  OBVIOUS
<1>3. <<w>> # << >> /\ <<w, v>> # << >>
  BY <1>2
<1> QED BY <1>1, <1>3

(* A beginning of a route has the same first word.                         *)
LEMMA PrefixFirst ==
    ASSUME NEW u \in Seq(AllWords), NEW route \in Seq(AllWords), u # << >>, IsPrefix(u, route)
    PROVE  route # << >> /\ route[1] = u[1]
<1>1. Len(u) \in Nat \ {0} /\ Len(route) \in Nat /\ Len(u) <= Len(route)
  BY EmptySeq, LenProperties DEF IsPrefix
<1>2. route # << >>
  BY <1>1
<1> DEFINE n == Len(u)
<1>3. \A i \in 1..n : u[i] \in AllWords /\ route[i] \in AllWords
  BY <1>1, ElementOfSeq
<1>4. 1 \in Int /\ n \in Int /\ 1 \in 1..(n - 1 + 1) /\ 1 + 1 - 1 = 1
  BY <1>1
<1>5. SubSeq(u, 1, n) = SubSeq(route, 1, n)
  BY DEF IsPrefix
<1> HIDE DEF n
<1>6. SubSeq(u, 1, n)[1] = u[1 + 1 - 1]
  BY <1>3, <1>4, SubSeqProperties
<1>7. SubSeq(route, 1, n)[1] = route[1 + 1 - 1]
  BY <1>3, <1>4, SubSeqProperties
<1> QED BY <1>2, <1>4, <1>5, <1>6, <1>7

(* A sequence is a beginning of itself,                                    *)
LEMMA PrefixSelf ==
    ASSUME NEW u \in Seq(AllWords) PROVE IsPrefix(u, u)
<1>1. Len(u) \in Nat
  BY LenProperties
<1> QED BY <1>1 DEF IsPrefix

(* and a word is one of every route it begins.                             *)
LEMMA PrefixWord ==
    ASSUME NEW w \in AllWords, NEW v \in AllWords
    PROVE  IsPrefix(<<w>>, <<w, v>>)
<1>1. Len(<<w>>) = 1 /\ Len(<<w, v>>) = 2 /\ <<w>> \in Seq(AllWords)
  BY ShortRoutes
<1>2. ASSUME NEW s, s[1] = w PROVE SubSeq(s, 1, 1) = <<w>>
  <2>1. \A i \in 1..1 : s[i] \in AllWords
    BY <1>2
  <2>2. /\ SubSeq(s, 1, 1) \in Seq(AllWords)
        /\ Len(SubSeq(s, 1, 1)) = IF 1 <= 1 THEN 1 - 1 + 1 ELSE 0
        /\ \A i \in 1..1 - 1 + 1 : SubSeq(s, 1, 1)[i] = s[1 + i - 1]
    BY <2>1, SubSeqProperties
  <2> DEFINE r == SubSeq(s, 1, 1)
  <2>3. r \in Seq(AllWords) /\ Len(r) = 1 /\ r[1] = w
    BY <1>2, <2>2
  <2> HIDE DEF r
  <2>4. \A i \in 1..Len(r) : r[i] = <<w>>[i]
    BY <2>3
  <2>5. r = <<w>>
    BY <1>1, <2>3, <2>4, SeqEqual
  <2> QED BY <2>5 DEF r
<1>3. SubSeq(<<w>>, 1, 1) = <<w>> /\ SubSeq(<<w, v>>, 1, 1) = <<w>>
  <2>1. <<w>>[1] = w /\ <<w, v>>[1] = w
    OBVIOUS
  <2> QED BY <1>2, <2>1
<1> QED BY <1>1, <1>3 DEF IsPrefix

(* What makes a page sound.                                                *)
LEMMA PageIsSound ==
    ASSUME NEW p, NEW exact \in SUBSET Seq(AllWords), NEW under \in SUBSET (Seq(AllWords) \ {<< >>}),
           NEW needs, NEW tabs, NEW links, NEW opens,
           \A e \in exact : OwnerOf(e) = p,
           \A u \in under : WordOwner(u[1]) = p,
           1 \in DOMAIN tabs,
           \A i \in DOMAIN links : links[i] \subseteq KnownLinks
    PROVE  Sound(p, Page(exact, under, needs, tabs, links, opens))
<1> DEFINE page == Page(exact, under, needs, tabs, links, opens)
<1>1. page.exact = exact /\ page.under = under /\ page.tabs = tabs /\ page.links = links
  BY DEF Page
<1> HIDE DEF page
<1>2. ASSUME NEW route \in Seq(AllWords), Passes(page, route) PROVE OwnerOf(route) = p
  <2>1. CASE route \in exact
    BY <2>1
  <2>2. CASE route \notin exact
    <3>1. PICK u \in under : IsPrefix(u, route)
      BY <1>1, <1>2, <2>2 DEF Passes
    <3>2. route # << >> /\ route[1] = u[1]
      BY <3>1, PrefixFirst
    <3> QED BY <3>1, <3>2 DEF OwnerOf
  <2> QED BY <2>1, <2>2
<1>3. Sound(p, page)
  BY <1>1, <1>2 DEF Sound
<1> QED BY <1>3 DEF page

(* One word, one page.                                                     *)
LEMMA PlainIsSound ==
    ASSUME NEW p, NEW word \in RouteWords, NEW links \in SUBSET KnownLinks, NEW opens, WordOwner(word) = p
    PROVE  Sound(p, Plain(word, links, opens))
<1>1. {<<word>>} \in SUBSET Seq(AllWords) /\ {} \in SUBSET (Seq(AllWords) \ {<< >>})
  BY ShortRoutes DEF AllWords
<1>2. OwnerOf(<<word>>) = p
  BY ShortRoutes DEF OwnerOf, AllWords
<1>3. DOMAIN OneTab = {1}
  BY DEF OneTab
<1>4. \A i \in DOMAIN Anywhere(OneTab, links) : Anywhere(OneTab, links)[i] \subseteq KnownLinks
  BY DEF Anywhere
<1> HIDE DEF KnownLinks
<1> QED BY <1>1, <1>2, <1>3, <1>4, PageIsSound DEF Plain

(* The page of a kind of record.                                           *)
LEMMA DetailsIsSound ==
    ASSUME NEW p, NEW kind \in RouteWords, NEW tabs, 1 \in DOMAIN tabs, NEW back \in KnownLinks,
           NEW opens, WordOwner(kind) = p
    PROVE  Sound(p, Details(kind, tabs, back, opens))
<1>1. {} \in SUBSET Seq(AllWords) /\ {<<kind, "id">>} \in SUBSET (Seq(AllWords) \ {<< >>})
  <2>1. "id" \in AllWords /\ kind \in AllWords
    BY DEF AllWords, RouteWords
  <2> QED BY <2>1, ShortRoutes
<1>2. \A u \in {<<kind, "id">>} : WordOwner(u[1]) = p
  OBVIOUS
<1>3. \A i \in DOMAIN Anywhere(tabs, {back}) : Anywhere(tabs, {back})[i] \subseteq KnownLinks
  BY DEF Anywhere
<1> QED BY <1>1, <1>2, <1>3, PageIsSound DEF Details

PageNames ==
    {"Blocks", "Transactions", "Validators", "Staking", "Contracts", "Analytics",
     "Faucet", "Whitepaper", "About", "BrandKit", "NotFound", "BlockDetails",
     "TxDetails", "Address", "ValidatorDetails", "ContractDetails", "Home",
     "Research", "NetworkStatus", "Learn", "DevelopersPortal", "Ecosystem",
     "Governance"}

(* The table of the pages.                                                 *)
LEMMA PagesTable ==
    /\ DOMAIN pages = PageNames
    /\ pages["Blocks"] = BlocksPage
    /\ pages["Transactions"] = TransactionsPage
    /\ pages["Validators"] = ValidatorsPage
    /\ pages["Staking"] = StakingPage
    /\ pages["Contracts"] = ContractsPage
    /\ pages["Analytics"] = AnalyticsPage
    /\ pages["Faucet"] = FaucetPage
    /\ pages["Whitepaper"] = WhitepaperPage
    /\ pages["About"] = AboutPage
    /\ pages["BrandKit"] = BrandKitPage
    /\ pages["NotFound"] = NotFoundPage
    /\ pages["BlockDetails"] = BlockDetailsPage
    /\ pages["TxDetails"] = TxDetailsPage
    /\ pages["Address"] = AddressPage
    /\ pages["ValidatorDetails"] = ValidatorDetailsPage
    /\ pages["ContractDetails"] = ContractDetailsPage
    /\ pages["Home"] = HomePage
    /\ pages["Research"] = ResearchPage
    /\ pages["NetworkStatus"] = NetworkStatusPage
    /\ pages["Learn"] = LearnPage
    /\ pages["DevelopersPortal"] = DevelopersPortalPage
    /\ pages["Ecosystem"] = EcosystemPage
    /\ pages["Governance"] = GovernancePage
BY DEF pages, PageNames

(* The pages of one word.                                                  *)
LEMMA PlainPagesSound ==
    /\ Sound("Blocks", BlocksPage)
    /\ Sound("Transactions", TransactionsPage)
    /\ Sound("Validators", ValidatorsPage)
    /\ Sound("Staking", StakingPage)
    /\ Sound("Contracts", ContractsPage)
    /\ Sound("Analytics", AnalyticsPage)
    /\ Sound("Faucet", FaucetPage)
    /\ Sound("Whitepaper", WhitepaperPage)
    /\ Sound("About", AboutPage)
    /\ Sound("BrandKit", BrandKitPage)
    /\ Sound("NotFound", NotFoundPage)
<1>1. {} \in SUBSET KnownLinks /\ {<< >>} \in SUBSET KnownLinks
  BY DEF KnownLinks
<1>2. /\ WordOwner("blocks") = "Blocks"
      /\ WordOwner("transactions") = "Transactions"
      /\ WordOwner("validators") = "Validators"
      /\ WordOwner("staking") = "Staking"
      /\ WordOwner("contracts") = "Contracts"
      /\ WordOwner("analytics") = "Analytics"
      /\ WordOwner("faucet") = "Faucet"
      /\ WordOwner("whitepaper") = "Whitepaper"
      /\ WordOwner("about") = "About"
      /\ WordOwner("brand") = "BrandKit"
      /\ WordOwner("404") = "NotFound"
  BY DEF WordOwner
<1>3. {"blocks", "transactions", "validators", "staking", "contracts", "analytics",
       "faucet", "whitepaper", "about", "brand", "404"} \subseteq RouteWords
  BY DEF RouteWords
<1>4. Sound("Blocks", BlocksPage)
  BY <1>1, <1>2, <1>3, PlainIsSound, Zenon DEF BlocksPage
<1>5. Sound("Transactions", TransactionsPage)
  BY <1>1, <1>2, <1>3, PlainIsSound, Zenon DEF TransactionsPage
<1>6. Sound("Validators", ValidatorsPage)
  BY <1>1, <1>2, <1>3, PlainIsSound, Zenon DEF ValidatorsPage
<1>7. Sound("Staking", StakingPage)
  BY <1>1, <1>2, <1>3, PlainIsSound, Zenon DEF StakingPage
<1>8. Sound("Contracts", ContractsPage)
  BY <1>1, <1>2, <1>3, PlainIsSound, Zenon DEF ContractsPage
<1>9. Sound("Analytics", AnalyticsPage)
  BY <1>1, <1>2, <1>3, PlainIsSound, Zenon DEF AnalyticsPage
<1>10. Sound("Faucet", FaucetPage)
  BY <1>1, <1>2, <1>3, PlainIsSound, Zenon DEF FaucetPage
<1>11. Sound("Whitepaper", WhitepaperPage)
  BY <1>1, <1>2, <1>3, PlainIsSound, Zenon DEF WhitepaperPage
<1>12. Sound("About", AboutPage)
  BY <1>1, <1>2, <1>3, PlainIsSound, Zenon DEF AboutPage
<1>13. Sound("BrandKit", BrandKitPage)
  BY <1>1, <1>2, <1>3, PlainIsSound, Zenon DEF BrandKitPage
<1>14. Sound("NotFound", NotFoundPage)
  BY <1>1, <1>2, <1>3, PlainIsSound, Zenon DEF NotFoundPage
<1> QED BY <1>4, <1>5, <1>6, <1>7, <1>8, <1>9, <1>10, <1>11, <1>12, <1>13, <1>14

(* The pages of the records.                                               *)
LEMMA DetailsPagesSound ==
    /\ Sound("BlockDetails", BlockDetailsPage)
    /\ Sound("TxDetails", TxDetailsPage)
    /\ Sound("Address", AddressPage)
    /\ Sound("ValidatorDetails", ValidatorDetailsPage)
    /\ Sound("ContractDetails", ContractDetailsPage)
<1>1. {<<"blocks">>, <<"transactions">>, << >>, <<"validators">>, <<"contracts">>} \subseteq KnownLinks
  BY DEF KnownLinks
<1>2. /\ WordOwner("block") = "BlockDetails"
      /\ WordOwner("tx") = "TxDetails"
      /\ WordOwner("address") = "Address"
      /\ WordOwner("validator") = "ValidatorDetails"
      /\ WordOwner("contract") = "ContractDetails"
  BY DEF WordOwner
<1>3. /\ 1 \in DOMAIN <<"txs", "raw">> /\ 1 \in DOMAIN <<"overview", "raw", "logs">>
      /\ 1 \in DOMAIN <<"txs", "staking", "raw">> /\ 1 \in DOMAIN <<"overview", "delegations">>
      /\ 1 \in DOMAIN <<"overview", "code", "abi">>
  OBVIOUS
<1>9. {"block", "tx", "address", "validator", "contract"} \subseteq RouteWords
  BY DEF RouteWords
<1>4. Sound("BlockDetails", BlockDetailsPage)
  BY <1>1, <1>2, <1>3, <1>9, DetailsIsSound, Zenon DEF BlockDetailsPage
<1>5. Sound("TxDetails", TxDetailsPage)
  BY <1>1, <1>2, <1>3, <1>9, DetailsIsSound, Zenon DEF TxDetailsPage
<1>6. Sound("Address", AddressPage)
  BY <1>1, <1>2, <1>3, <1>9, DetailsIsSound, Zenon DEF AddressPage
<1>7. Sound("ValidatorDetails", ValidatorDetailsPage)
  BY <1>1, <1>2, <1>3, <1>9, DetailsIsSound, Zenon DEF ValidatorDetailsPage
<1>8. Sound("ContractDetails", ContractDetailsPage)
  BY <1>1, <1>2, <1>3, <1>9, DetailsIsSound, Zenon DEF ContractDetailsPage
<1> QED BY <1>4, <1>5, <1>6, <1>7, <1>8

(* The same links at every tab.                                            *)
LEMMA AnywhereKnown ==
    ASSUME NEW tabs, NEW links \in SUBSET KnownLinks
    PROVE  \A i \in DOMAIN Anywhere(tabs, links) : Anywhere(tabs, links)[i] \subseteq KnownLinks
BY DEF Anywhere

(* The pages with routes of several words, or of several beginnings.       *)
LEMMA OtherPagesSound ==
    /\ Sound("Home", HomePage) /\ Sound("Research", ResearchPage)
    /\ Sound("NetworkStatus", NetworkStatusPage) /\ Sound("Learn", LearnPage)
    /\ Sound("DevelopersPortal", DevelopersPortalPage) /\ Sound("Ecosystem", EcosystemPage)
    /\ Sound("Governance", GovernancePage)
<1>1. {"explorer", "research", "network", "learn", "developers", "ecosystem", "discover", "markets",
       "governance", "sips", "community", "grants", "security", "bug-bounty"} \subseteq AllWords
  BY DEF AllWords, RouteWords
<1>2. << >> \in Seq(AllWords)
  BY EmptySeq
<1>3. /\ {<<"explorer">>, <<"research">>, <<"network">>, <<"learn">>, <<"developers">>,
           <<"ecosystem">>, <<"discover">>, <<"markets">>, <<"governance">>, <<"sips">>}
            \subseteq Seq(AllWords) \ {<< >>}
      /\ {<<"community", "grants">>, <<"security", "bug-bounty">>} \subseteq Seq(AllWords) \ {<< >>}
  BY <1>1, ShortRoutes
<1>4. /\ WordOwner("explorer") = "Home" /\ WordOwner("research") = "Research"
      /\ WordOwner("network") = "NetworkStatus" /\ WordOwner("learn") = "Learn"
      /\ WordOwner("developers") = "DevelopersPortal"
  BY DEF WordOwner
<1>5. /\ WordOwner("ecosystem") = "Ecosystem" /\ WordOwner("discover") = "Ecosystem"
      /\ WordOwner("markets") = "Ecosystem" /\ WordOwner("governance") = "Governance"
      /\ WordOwner("sips") = "Governance" /\ WordOwner("community") = "Governance"
      /\ WordOwner("security") = "Governance"
  BY DEF WordOwner
<1>6. 1 \in DOMAIN OneTab /\ 1 \in DOMAIN LearnTabs /\ 1 \in DOMAIN DeveloperTabs
      /\ 1 \in DOMAIN EcosystemTabs /\ 1 \in DOMAIN GovernanceTabs
  BY DEF OneTab, LearnTabs, DeveloperTabs, EcosystemTabs, GovernanceTabs
<1>7. {} \in SUBSET Seq(AllWords) /\ {} \in SUBSET (Seq(AllWords) \ {<< >>}) /\ {} \in SUBSET KnownLinks
  OBVIOUS
<1>8. Sound("Home", HomePage)
  <2> DEFINE links == HomeHero \cup HomeMetrics \cup LiveNetworkStrip \cup HomeUseCases
                        \cup ProtocolVisualizer \cup HomeActivity
             exact == {<< >>, <<"explorer">>}
  <2>1. links \in SUBSET KnownLinks
    BY DEF HomeHero, HomeMetrics, LiveNetworkStrip, HomeUseCases, ProtocolVisualizer, HomeActivity,
           KnownLinks
  <2>2. exact \in SUBSET Seq(AllWords)
    BY <1>2, <1>3
  <2>3. \A e \in exact : OwnerOf(e) = "Home"
    <3>1. <<"explorer">> # << >> /\ <<"explorer">>[1] = "explorer"
      BY <1>3
    <3> QED BY <1>4, <3>1 DEF OwnerOf
  <2> HIDE DEF links, exact
  <2>4. \A i \in DOMAIN Anywhere(OneTab, links) : Anywhere(OneTab, links)[i] \subseteq KnownLinks
    BY <2>1, AnywhereKnown
  <2>5. Sound("Home", Page(exact, {}, "stats", OneTab, Anywhere(OneTab, links), {"block", "tx"}))
    BY <1>6, <1>7, <2>2, <2>3, <2>4, PageIsSound
  <2> QED BY <2>5 DEF HomePage, links, exact
<1>9. Sound("Research", ResearchPage)
  <2> DEFINE under == {<<"research">>}
             links == {<<"whitepaper">>}
  <2>1. links \in SUBSET KnownLinks
    BY DEF KnownLinks
  <2>2. under \in SUBSET (Seq(AllWords) \ {<< >>}) /\ \A u \in under : WordOwner(u[1]) = "Research"
    BY <1>3, <1>4
  <2> HIDE DEF links, under
  <2>3. \A i \in DOMAIN Anywhere(OneTab, links) : Anywhere(OneTab, links)[i] \subseteq KnownLinks
    BY <2>1, AnywhereKnown
  <2>4. Sound("Research", Page({}, under, "nothing", OneTab, Anywhere(OneTab, links), {}))
    BY <1>6, <1>7, <2>2, <2>3, PageIsSound
  <2> QED BY <2>4 DEF ResearchPage, links, under
<1>10. Sound("NetworkStatus", NetworkStatusPage)
  <2> DEFINE exact == {<<"network">>}
  <2>1. exact \in SUBSET Seq(AllWords)
    BY <1>3
  <2>2. \A e \in exact : OwnerOf(e) = "NetworkStatus"
    <3>1. <<"network">> # << >> /\ <<"network">>[1] = "network"
      BY <1>3
    <3> QED BY <1>4, <3>1 DEF OwnerOf
  <2> HIDE DEF exact
  <2>3. \A i \in DOMAIN Anywhere(OneTab, {}) : Anywhere(OneTab, {})[i] \subseteq KnownLinks
    BY <1>7, AnywhereKnown
  <2>4. Sound("NetworkStatus", Page(exact, {}, "stats", OneTab, Anywhere(OneTab, {}), {}))
    BY <1>6, <1>7, <2>1, <2>2, <2>3, PageIsSound
  <2> QED BY <2>4 DEF NetworkStatusPage, exact
<1>11. Sound("Learn", LearnPage)
  <2> DEFINE under == {<<"learn">>}
             links == [i \in DOMAIN LearnTabs |->
                         IF LearnTabs[i] = "security" THEN {<<"security", "bug-bounty">>} ELSE {}]
  <2>1. \A i \in DOMAIN links : links[i] \subseteq KnownLinks
    <3>1. <<"security", "bug-bounty">> \in KnownLinks
      BY DEF KnownLinks
    <3> QED BY <3>1
  <2>2. under \in SUBSET (Seq(AllWords) \ {<< >>}) /\ \A u \in under : WordOwner(u[1]) = "Learn"
    BY <1>3, <1>4
  <2> HIDE DEF links, under
  <2>3. Sound("Learn", Page({}, under, "nothing", LearnTabs, links, {}))
    BY <1>6, <1>7, <2>1, <2>2, PageIsSound
  <2> QED BY <2>3 DEF LearnPage, links, under
<1>12. Sound("DevelopersPortal", DevelopersPortalPage)
  <2> DEFINE under == {<<"developers">>}
             links == {<<"faucet">>}
  <2>1. links \in SUBSET KnownLinks
    BY DEF KnownLinks
  <2>2. /\ under \in SUBSET (Seq(AllWords) \ {<< >>})
        /\ \A u \in under : WordOwner(u[1]) = "DevelopersPortal"
    BY <1>3, <1>4
  <2> HIDE DEF links, under
  <2>3. \A i \in DOMAIN Anywhere(DeveloperTabs, links) :
           Anywhere(DeveloperTabs, links)[i] \subseteq KnownLinks
    BY <2>1, AnywhereKnown
  <2>4. Sound("DevelopersPortal",
              Page({}, under, "nothing", DeveloperTabs, Anywhere(DeveloperTabs, links), {}))
    BY <1>6, <1>7, <2>2, <2>3, PageIsSound
  <2> QED BY <2>4 DEF DevelopersPortalPage, links, under
<1>13. Sound("Ecosystem", EcosystemPage)
  <2> DEFINE exact == {<<"discover">>, <<"markets">>}
             under == {<<"ecosystem">>}
  <2>1. exact \in SUBSET Seq(AllWords)
    BY <1>3
  <2>2. \A e \in exact : OwnerOf(e) = "Ecosystem"
    <3>1. /\ <<"discover">> # << >> /\ <<"discover">>[1] = "discover"
          /\ <<"markets">> # << >> /\ <<"markets">>[1] = "markets"
      BY <1>3
    <3> QED BY <1>5, <3>1 DEF OwnerOf
  <2>3. under \in SUBSET (Seq(AllWords) \ {<< >>}) /\ \A u \in under : WordOwner(u[1]) = "Ecosystem"
    BY <1>3, <1>5
  <2> HIDE DEF exact, under
  <2>4. \A i \in DOMAIN Anywhere(EcosystemTabs, {}) : Anywhere(EcosystemTabs, {})[i] \subseteq KnownLinks
    BY <1>7, AnywhereKnown
  <2>5. Sound("Ecosystem", Page(exact, under, "nothing", EcosystemTabs, Anywhere(EcosystemTabs, {}), {}))
    BY <1>6, <2>1, <2>2, <2>3, <2>4, PageIsSound
  <2> QED BY <2>5 DEF EcosystemPage, exact, under
<1>14. Sound("Governance", GovernancePage)
  <2> DEFINE under == {<<"governance">>, <<"sips">>, <<"community", "grants">>,
                       <<"security", "bug-bounty">>}
  <2>1. under \in SUBSET (Seq(AllWords) \ {<< >>})
    BY <1>3
  <2>2. \A u \in under : WordOwner(u[1]) = "Governance"
    BY <1>5
  <2> HIDE DEF under
  <2>3. \A i \in DOMAIN Anywhere(GovernanceTabs, {}) :
           Anywhere(GovernanceTabs, {})[i] \subseteq KnownLinks
    BY <1>7, AnywhereKnown
  <2>4. Sound("Governance", Page({}, under, "nothing", GovernanceTabs, Anywhere(GovernanceTabs, {}), {}))
    BY <1>6, <1>7, <2>1, <2>2, <2>3, PageIsSound
  <2> QED BY <2>4 DEF GovernancePage, under
<1> QED BY <1>8, <1>9, <1>10, <1>11, <1>12, <1>13, <1>14

(* So every page is.                                                       *)
LEMMA PagesSound == \A p \in DOMAIN pages : Sound(p, pages[p])
<1>1. \A p \in PageNames : Sound(p, pages[p])
  BY PagesTable, PlainPagesSound, DetailsPagesSound, OtherPagesSound DEF PageNames
<1> QED BY <1>1, PagesTable

(* A route leads to the page it belongs to, which waits for no record.     *)
Leads(route) ==
    /\ OwnerOf(route) \in DOMAIN pages
    /\ Passes(pages[OwnerOf(route)], route)
    /\ pages[OwnerOf(route)].needs # "record"

(* One word leads to its page.                                             *)
LEMMA PlainLeads ==
    ASSUME NEW p \in DOMAIN pages, NEW word \in RouteWords, NEW links, NEW opens,
           WordOwner(word) = p, pages[p] = Plain(word, links, opens)
    PROVE  Leads(<<word>>)
<1>1. OwnerOf(<<word>>) = p
  BY ShortRoutes DEF OwnerOf, AllWords
<1>2. pages[p].exact = {<<word>>} /\ pages[p].needs = "nothing"
  BY DEF Plain, Page
<1> QED BY <1>1, <1>2 DEF Leads, Passes

(* The links of one word.                                                  *)
LEMMA PlainLinksLead ==
    /\ Leads(<<"blocks">>)
    /\ Leads(<<"transactions">>)
    /\ Leads(<<"validators">>)
    /\ Leads(<<"staking">>)
    /\ Leads(<<"contracts">>)
    /\ Leads(<<"analytics">>)
    /\ Leads(<<"faucet">>)
    /\ Leads(<<"whitepaper">>)
    /\ Leads(<<"about">>)
    /\ Leads(<<"brand">>)
    /\ Leads(<<"404">>)
<1>1. /\ WordOwner("blocks") = "Blocks"
      /\ WordOwner("transactions") = "Transactions"
      /\ WordOwner("validators") = "Validators"
      /\ WordOwner("staking") = "Staking"
      /\ WordOwner("contracts") = "Contracts"
      /\ WordOwner("analytics") = "Analytics"
      /\ WordOwner("faucet") = "Faucet"
      /\ WordOwner("whitepaper") = "Whitepaper"
      /\ WordOwner("about") = "About"
      /\ WordOwner("brand") = "BrandKit"
      /\ WordOwner("404") = "NotFound"
  BY DEF WordOwner
<1>2. {"blocks", "transactions", "validators", "staking", "contracts", "analytics",
       "faucet", "whitepaper", "about", "brand", "404"} \subseteq RouteWords
  BY DEF RouteWords
<1>3. {"Blocks", "Transactions", "Validators", "Staking", "Contracts",
       "Analytics", "Faucet", "Whitepaper", "About", "BrandKit", "NotFound"} \subseteq DOMAIN pages
  BY PagesTable DEF PageNames
<1>4. Leads(<<"blocks">>)
  BY <1>1, <1>2, <1>3, PagesTable, PlainLeads, Zenon DEF BlocksPage
<1>5. Leads(<<"transactions">>)
  BY <1>1, <1>2, <1>3, PagesTable, PlainLeads, Zenon DEF TransactionsPage
<1>6. Leads(<<"validators">>)
  BY <1>1, <1>2, <1>3, PagesTable, PlainLeads, Zenon DEF ValidatorsPage
<1>7. Leads(<<"staking">>)
  BY <1>1, <1>2, <1>3, PagesTable, PlainLeads, Zenon DEF StakingPage
<1>8. Leads(<<"contracts">>)
  BY <1>1, <1>2, <1>3, PagesTable, PlainLeads, Zenon DEF ContractsPage
<1>9. Leads(<<"analytics">>)
  BY <1>1, <1>2, <1>3, PagesTable, PlainLeads, Zenon DEF AnalyticsPage
<1>10. Leads(<<"faucet">>)
  BY <1>1, <1>2, <1>3, PagesTable, PlainLeads, Zenon DEF FaucetPage
<1>11. Leads(<<"whitepaper">>)
  BY <1>1, <1>2, <1>3, PagesTable, PlainLeads, Zenon DEF WhitepaperPage
<1>12. Leads(<<"about">>)
  BY <1>1, <1>2, <1>3, PagesTable, PlainLeads, Zenon DEF AboutPage
<1>13. Leads(<<"brand">>)
  BY <1>1, <1>2, <1>3, PagesTable, PlainLeads, Zenon DEF BrandKitPage
<1>14. Leads(<<"404">>)
  BY <1>1, <1>2, <1>3, PagesTable, PlainLeads, Zenon DEF NotFoundPage
<1> QED BY <1>4, <1>5, <1>6, <1>7, <1>8, <1>9, <1>10, <1>11, <1>12, <1>13, <1>14

(* A route that begins as a page of its owner does.                        *)
LEMMA UnderLeads ==
    ASSUME NEW p \in DOMAIN pages, NEW u, NEW route, OwnerOf(route) = p,
           u \in pages[p].under, IsPrefix(u, route), pages[p].needs = "nothing"
    PROVE  Leads(route)
BY DEF Leads, Passes

(* A word leads to a page that it begins, alone and with another.          *)
LEMMA WordLeads ==
    ASSUME NEW p \in DOMAIN pages, NEW w \in RouteWords, WordOwner(w) = p,
           <<w>> \in pages[p].under, pages[p].needs = "nothing"
    PROVE  Leads(<<w>>) /\ \A v \in RouteWords : Leads(<<w, v>>)
<1>1. Leads(<<w>>)
  <2>1. <<w>> \in Seq(AllWords) /\ OwnerOf(<<w>>) = p
    BY ShortRoutes DEF OwnerOf, AllWords
  <2> QED BY <2>1, PrefixSelf, UnderLeads
<1>2. ASSUME NEW v \in RouteWords PROVE Leads(<<w, v>>)
  <2>1. OwnerOf(<<w, v>>) = p
    BY ShortRoutes DEF OwnerOf, AllWords
  <2>2. IsPrefix(<<w>>, <<w, v>>)
    BY PrefixWord DEF AllWords
  <2> QED BY <2>1, <2>2, UnderLeads
<1> QED BY <1>1, <1>2

(* Every link there is leads to a page.                                    *)
LEMMA KnownLinksLead == \A route \in KnownLinks : Leads(route)
<1>1. {"explorer", "research", "network", "learn", "developers", "ecosystem", "discover", "markets",
       "governance", "sips", "community", "grants", "security", "bug-bounty", "what-is-sprx",
       "real-world-x", "tokenomics", "consensus", "wallets", "rpc", "smart-contracts", "nodes"}
         \subseteq RouteWords
  BY DEF RouteWords
<1>2. {"Home", "Research", "NetworkStatus", "Learn", "DevelopersPortal", "Ecosystem", "Governance"}
        \subseteq DOMAIN pages
  BY PagesTable DEF PageNames
<1>3. /\ WordOwner("explorer") = "Home" /\ WordOwner("research") = "Research"
      /\ WordOwner("network") = "NetworkStatus" /\ WordOwner("learn") = "Learn"
      /\ WordOwner("developers") = "DevelopersPortal"
  BY DEF WordOwner
<1>4. /\ WordOwner("ecosystem") = "Ecosystem" /\ WordOwner("discover") = "Ecosystem"
      /\ WordOwner("markets") = "Ecosystem" /\ WordOwner("governance") = "Governance"
      /\ WordOwner("sips") = "Governance" /\ WordOwner("community") = "Governance"
      /\ WordOwner("security") = "Governance"
  BY DEF WordOwner
<1>5. Leads(<< >>) /\ Leads(<<"explorer">>)
  <2>1. OwnerOf(<< >>) = "Home" /\ OwnerOf(<<"explorer">>) = "Home"
    BY <1>1, <1>3, ShortRoutes DEF OwnerOf, AllWords
  <2>2. /\ << >> \in pages["Home"].exact /\ <<"explorer">> \in pages["Home"].exact
        /\ pages["Home"].needs = "stats"
    BY PagesTable DEF HomePage, Page
  <2> QED BY <1>2, <2>1, <2>2 DEF Leads, Passes
<1>6. Leads(<<"network">>)
  <2>1. OwnerOf(<<"network">>) = "NetworkStatus"
    BY <1>1, <1>3, ShortRoutes DEF OwnerOf, AllWords
  <2>2. <<"network">> \in pages["NetworkStatus"].exact /\ pages["NetworkStatus"].needs = "stats"
    BY PagesTable DEF NetworkStatusPage, Page
  <2> QED BY <1>2, <2>1, <2>2 DEF Leads, Passes
<1>7. Leads(<<"discover">>) /\ Leads(<<"markets">>)
  <2>1. OwnerOf(<<"discover">>) = "Ecosystem" /\ OwnerOf(<<"markets">>) = "Ecosystem"
    BY <1>1, <1>4, ShortRoutes DEF OwnerOf, AllWords
  <2>2. /\ <<"discover">> \in pages["Ecosystem"].exact /\ <<"markets">> \in pages["Ecosystem"].exact
        /\ pages["Ecosystem"].needs = "nothing"
    BY PagesTable DEF EcosystemPage, Page
  <2> QED BY <1>2, <2>1, <2>2 DEF Leads, Passes
<1>8. Leads(<<"research">>)
  <2>1. <<"research">> \in pages["Research"].under /\ pages["Research"].needs = "nothing"
    BY PagesTable DEF ResearchPage, Page
  <2> QED BY <1>1, <1>2, <1>3, <2>1, WordLeads
<1>9. Leads(<<"ecosystem">>)
  <2>1. <<"ecosystem">> \in pages["Ecosystem"].under /\ pages["Ecosystem"].needs = "nothing"
    BY PagesTable DEF EcosystemPage, Page
  <2> QED BY <1>1, <1>2, <1>4, <2>1, WordLeads
<1>10. Leads(<<"learn">>) /\ \A v \in RouteWords : Leads(<<"learn", v>>)
  <2>1. <<"learn">> \in pages["Learn"].under /\ pages["Learn"].needs = "nothing"
    BY PagesTable DEF LearnPage, Page
  <2> QED BY <1>1, <1>2, <1>3, <2>1, WordLeads
<1>11. Leads(<<"developers">>) /\ \A v \in RouteWords : Leads(<<"developers", v>>)
  <2>1. <<"developers">> \in pages["DevelopersPortal"].under
        /\ pages["DevelopersPortal"].needs = "nothing"
    BY PagesTable DEF DevelopersPortalPage, Page
  <2> QED BY <1>1, <1>2, <1>3, <2>1, WordLeads
<1>12. /\ Leads(<<"governance">>) /\ Leads(<<"sips">>)
       /\ Leads(<<"community", "grants">>) /\ Leads(<<"security", "bug-bounty">>)
  <2>1. /\ {<<"governance">>, <<"sips">>, <<"community", "grants">>, <<"security", "bug-bounty">>}
              \subseteq pages["Governance"].under
        /\ pages["Governance"].needs = "nothing"
    BY PagesTable DEF GovernancePage, Page
  <2>2. Leads(<<"governance">>)
    BY <1>1, <1>2, <1>4, <2>1, WordLeads
  <2>3. Leads(<<"sips">>)
    BY <1>1, <1>2, <1>4, <2>1, WordLeads
  <2>4. /\ <<"community", "grants">> \in Seq(AllWords) /\ <<"security", "bug-bounty">> \in Seq(AllWords)
        /\ OwnerOf(<<"community", "grants">>) = "Governance"
        /\ OwnerOf(<<"security", "bug-bounty">>) = "Governance"
    <3>1. {"community", "grants", "security", "bug-bounty"} \subseteq AllWords
      BY <1>1 DEF AllWords
    <3> QED BY <1>4, <3>1, ShortRoutes DEF OwnerOf
  <2>5. Leads(<<"community", "grants">>)
    BY <1>2, <2>1, <2>4, PrefixSelf, UnderLeads
  <2>6. Leads(<<"security", "bug-bounty">>)
    BY <1>2, <2>1, <2>4, PrefixSelf, UnderLeads
  <2> QED BY <2>2, <2>3, <2>5, <2>6
<1>13. /\ Leads(<<"learn", "what-is-sprx">>) /\ Leads(<<"learn", "real-world-x">>)
       /\ Leads(<<"learn", "tokenomics">>) /\ Leads(<<"learn", "consensus">>)
       /\ Leads(<<"learn", "wallets">>)
  BY <1>1, <1>10
<1>14. /\ Leads(<<"developers", "rpc">>) /\ Leads(<<"developers", "smart-contracts">>)
       /\ Leads(<<"developers", "nodes">>)
  BY <1>1, <1>11
<1> QED BY <1>5, <1>6, <1>7, <1>8, <1>9, <1>10, <1>11, <1>12, <1>13, <1>14, PlainLinksLead
    DEF KnownLinks

(* And there are no others.                                                *)
LEMMA LinksKnown == Links \subseteq KnownLinks
<1>1. HeaderBar \cup MobileMenu \cup AppFooter \cup GetStartedModal \subseteq KnownLinks
  <2>1. HeaderBar \subseteq KnownLinks
    BY DEF HeaderBar, KnownLinks
  <2>2. MobileMenu \subseteq KnownLinks
    BY DEF MobileMenu, KnownLinks
  <2>3. AppFooter \subseteq KnownLinks
    BY DEF AppFooter, KnownLinks
  <2>4. GetStartedModal \subseteq KnownLinks
    BY DEF GetStartedModal, KnownLinks
  <2> QED BY <2>1, <2>2, <2>3, <2>4
<1>2. \A k \in DOMAIN menus : menus[k] \subseteq KnownLinks
  <2>1. /\ ExploreMenu \subseteq KnownLinks /\ LearnMenu \subseteq KnownLinks
        /\ DevsMenu \subseteq KnownLinks /\ NetworkMenu \subseteq KnownLinks
        /\ EcosystemMenu \subseteq KnownLinks /\ GovMenu \subseteq KnownLinks
    BY DEF ExploreMenu, LearnMenu, DevsMenu, NetworkMenu, EcosystemMenu, GovMenu, KnownLinks
  <2> QED BY <2>1 DEF menus
<1>3. \A p \in DOMAIN pages : \A l \in Range(pages[p].links) : l \subseteq KnownLinks
  BY PagesSound DEF Sound, Range
<1> DEFINE inMenus == UNION {menus[k] : k \in DOMAIN menus}
           inPages == UNION UNION {Range(pages[p].links) : p \in DOMAIN pages}
<1>4. ASSUME NEW route \in inMenus PROVE route \in KnownLinks
  <2>1. PICK k \in DOMAIN menus : route \in menus[k]
    BY <1>4
  <2> QED BY <1>2, <2>1
<1>5. ASSUME NEW route \in inPages PROVE route \in KnownLinks
  <2>1. PICK l \in UNION {Range(pages[p].links) : p \in DOMAIN pages} : route \in l
    BY <1>5
  <2>2. PICK p \in DOMAIN pages : l \in Range(pages[p].links)
    BY <2>1
  <2> QED BY <1>3, <2>1, <2>2
<1>6. Links = HeaderBar \cup MobileMenu \cup AppFooter \cup GetStartedModal \cup inMenus \cup inPages
  BY DEF Links
<1> HIDE DEF inMenus, inPages
<1> QED BY <1>1, <1>4, <1>5, <1>6

(* The routes of the records lead to the page of their kind.               *)
LEMMA RecordsLead ==
    ASSUME NEW kind \in RecordKinds
    PROVE  /\ <<kind, "id">> \in Seq(AllWords)
           /\ OwnerOf(<<kind, "id">>) \in DOMAIN pages
           /\ Passes(pages[OwnerOf(<<kind, "id">>)], <<kind, "id">>)
           /\ pages[OwnerOf(<<kind, "id">>)].needs = "record"
<1>1. kind \in AllWords /\ "id" \in AllWords
  BY DEF RecordKinds, AllWords, RouteWords
<1>2. <<kind, "id">> \in Seq(AllWords) /\ OwnerOf(<<kind, "id">>) = WordOwner(kind)
  BY <1>1, ShortRoutes DEF OwnerOf
<1>3. \/ WordOwner(kind) = "BlockDetails" /\ kind = "block"
      \/ WordOwner(kind) = "TxDetails" /\ kind = "tx"
      \/ WordOwner(kind) = "Address" /\ kind = "address"
      \/ WordOwner(kind) = "ValidatorDetails" /\ kind = "validator"
      \/ WordOwner(kind) = "ContractDetails" /\ kind = "contract"
  BY DEF WordOwner, RecordKinds
<1>4. WordOwner(kind) \in DOMAIN pages
  BY <1>3, PagesTable DEF PageNames
<1>5. /\ pages[WordOwner(kind)].under = {<<kind, "id">>}
      /\ pages[WordOwner(kind)].needs = "record"
  BY <1>3, PagesTable DEF BlockDetailsPage, TxDetailsPage, AddressPage, ValidatorDetailsPage,
     ContractDetailsPage, Details, Page
<1>6. IsPrefix(<<kind, "id">>, <<kind, "id">>)
  BY <1>2, PrefixSelf
<1> QED BY <1>2, <1>4, <1>5, <1>6 DEF Passes

(* The routes are made of words.                                           *)
LEMMA RoutesAreWords == Routes \subseteq Seq(AllWords)
<1>1. KnownLinks \subseteq Seq(AllWords)
  <2>1. RouteWords \subseteq AllWords
    BY DEF AllWords
  <2>2. << >> \in Seq(AllWords)
    BY EmptySeq
  <2>3. \A w \in RouteWords, v \in RouteWords : <<w>> \in Seq(AllWords) /\ <<w, v>> \in Seq(AllWords)
    BY <2>1, ShortRoutes
  <2> QED BY <2>2, <2>3 DEF KnownLinks, RouteWords
<1>2. <<"404">> \in Seq(AllWords)
  <2>1. "404" \in AllWords
    BY DEF AllWords, RouteWords
  <2> QED BY <2>1, ShortRoutes
<1>3. \A kind \in RecordKinds : <<kind, "id">> \in Seq(AllWords)
  BY RecordsLead
<1>4. ASSUME NEW route \in RecordKinds \X {"id"} PROVE route \in Seq(AllWords)
  <2>1. PICK kind \in RecordKinds : route = <<kind, "id">>
    OBVIOUS
  <2> QED BY <1>3, <2>1
<1> QED BY <1>1, <1>2, <1>4, OpeningsAreRoutes, LinksKnown DEF Routes

(* Only the page a route belongs to is shown at it.                        *)
LEMMA OnePage ==
    ASSUME NEW route \in Routes, NEW loaded, NEW found, NEW p \in Shown(route, loaded, found)
    PROVE  p \in DOMAIN pages /\ p = OwnerOf(route)
<1>1. p \in Tested[route]
  BY DEF Shown
<1>2. p \in DOMAIN pages /\ Passes(pages[p], route)
  BY <1>1 DEF Tested, Passes
<1>3. route \in Seq(AllWords) /\ Sound(p, pages[p])
  BY <1>2, RoutesAreWords, PagesSound
<1> QED BY <1>2, <1>3 DEF Sound

(* With the statistics, a link shows one page,                             *)
LEMMA LinkShown ==
    ASSUME NEW route \in Links \cup {<<"404">>}, NEW found
    PROVE  Cardinality(Shown(route, TRUE, found)) = 1
<1>1. route \in Routes
  BY DEF Routes
<1>2. Leads(route)
  BY KnownLinksLead, LinksKnown, PlainLinksLead
<1>3. OwnerOf(route) \in Shown(route, TRUE, found)
  BY <1>1, <1>2 DEF Leads, Passes, Shown, Tested
<1>4. Shown(route, TRUE, found) = {OwnerOf(route)}
  BY <1>1, <1>3, OnePage
<1> QED BY <1>4, FS_Singleton

(* and so does a record that is there.                                     *)
LEMMA RecordShown ==
    ASSUME NEW route \in RecordKinds \X {"id"}
    PROVE  Cardinality(Shown(route, TRUE, TRUE)) = 1
<1>1. PICK kind \in RecordKinds : route = <<kind, "id">>
  OBVIOUS
<1>2. route \in Routes
  BY DEF Routes
<1>3. OwnerOf(route) \in DOMAIN pages /\ Passes(pages[OwnerOf(route)], route)
  BY <1>1, RecordsLead
<1>4. OwnerOf(route) \in Shown(route, TRUE, TRUE)
  BY <1>2, <1>3 DEF Passes, Shown, Tested
<1>5. Shown(route, TRUE, TRUE) = {OwnerOf(route)}
  BY <1>2, <1>4, OnePage
<1> QED BY <1>5, FS_Singleton

(* The tab a page is mounted with is one of its own.                       *)
LEMMA TabOfPage ==
    ASSUME NEW p \in DOMAIN pages, NEW route
    PROVE  TabOf(p, route) \in DOMAIN pages[p].tabs
<1>1. 1 \in DOMAIN pages[p].tabs
  BY PagesSound DEF Sound
<1> DEFINE named == {i \in DOMAIN pages[p].tabs :
                       route # << >> /\ pages[p].tabs[i] = Last(route)}
<1>2. TabOf(p, route) = IF named = {} THEN 1 ELSE CHOOSE i \in named : TRUE
  BY DEF TabOf
<1>3. named \subseteq DOMAIN pages[p].tabs
  OBVIOUS
<1> HIDE DEF named
<1> QED BY <1>1, <1>2, <1>3

(* Where the user is: where the browser was opened, or where a link, the    *)
(* page of missing records or a record led.                                *)
Arrived ==
    \/ currentRoute = openedAt
    \/ currentRoute \in Links \cup {<<"404">>}
    \/ currentRoute \in RecordKinds \X {"id"} /\ recordLoaded

(* The pointer is over a menu only when no timer runs, and no two do.      *)
OneClosing == closing \in {0, 1} /\ (hovered # "none" => closing = 0)

RouterInv == RouterTypeOK /\ Arrived /\ OneClosing

(* Where the user has arrived one page is shown.                           *)
LEMMA RouterInvGivesPage == RouterInv => PageRendered
<1> SUFFICES ASSUME RouterInv, statsLoaded, currentRoute # openedAt \/ openedAt \in Links
             PROVE  Cardinality(PagesShown) = 1
  BY DEF PageRendered
<1>1. statsLoaded = TRUE
  BY DEF RouterInv, RouterTypeOK
<1>2. PagesShown = Shown(currentRoute, TRUE, recordLoaded)
  BY <1>1 DEF PagesShown
<1>3. CASE currentRoute \in Links \cup {<<"404">>}
  BY <1>2, <1>3, LinkShown
<1>4. CASE currentRoute \in RecordKinds \X {"id"} /\ recordLoaded
  <2>1. recordLoaded = TRUE
    BY <1>4 DEF RouterInv, RouterTypeOK
  <2> QED BY <1>2, <1>4, <2>1, RecordShown
<1> QED BY <1>3, <1>4 DEF RouterInv, Arrived

(* App renders anew: the tab is one of the page that is shown then.        *)
LEMMA RendersTab ==
    ASSUME RouterTypeOK, NEW route \in Routes, NEW loaded, NEW found, Renders(route, loaded, found)
    PROVE  \A p \in PagesShown' : activeTab' \in DOMAIN pages[p].tabs
<1> DEFINE now == Shown(route, loaded, found)
<1>1. PagesShown' = now
  BY DEF Renders, PagesShown
<1>2. activeTab' = IF now = PagesShown THEN activeTab
                   ELSE IF now = {} THEN 1 ELSE TabOf(CHOOSE p \in now : TRUE, route)
  BY DEF Renders
<1>3. \A p \in now : p \in DOMAIN pages /\ p = OwnerOf(route)
  BY OnePage
<1> HIDE DEF now
<1> SUFFICES ASSUME NEW p \in now PROVE activeTab' \in DOMAIN pages[p].tabs
  BY <1>1
<1>4. CASE now = PagesShown
  BY <1>2, <1>4 DEF RouterTypeOK
<1>5. CASE now # PagesShown
  <2>1. (CHOOSE q \in now : TRUE) = p
    BY <1>3
  <2>2. activeTab' = TabOf(p, route)
    BY <1>2, <1>5, <2>1
  <2> QED BY <1>3, <2>2, TabOfPage
<1> QED BY <1>4, <1>5

(* App renders a route the user may be led to.                             *)
LEMMA RendersStep ==
    ASSUME RouterInv, NEW route \in Routes, NEW loaded \in BOOLEAN, NEW found \in BOOLEAN,
           Renders(route, loaded, found),
           \/ route \in Links \cup {<<"404">>}
           \/ route \in RecordKinds \X {"id"} /\ found
           \/ route = currentRoute /\ found = recordLoaded,
           {hovered', activeDropdown'} \subseteq DOMAIN menus \cup {"none"},
           {mobileMenuOpen', getStartedModalOpen'} \subseteq BOOLEAN,
           closing' \in Nat, OneClosing'
    PROVE  RouterInv'
<1>1. \A p \in PagesShown' : activeTab' \in DOMAIN pages[p].tabs
  BY RendersTab DEF RouterInv
<1>2. /\ openedAt' = openedAt /\ wide' = wide /\ currentRoute' = route
      /\ statsLoaded' = loaded /\ recordLoaded' = found
  BY DEF Renders
<1>3. RouterTypeOK'
  BY <1>1, <1>2 DEF RouterInv, RouterTypeOK
<1>4. Arrived'
  BY <1>2 DEF RouterInv, Arrived
<1> QED BY <1>3, <1>4 DEF RouterInv

(* The header and the dialog change over a page that stays.                *)
LEMMA HeaderStep ==
    ASSUME RouterInv, UNCHANGED pageVars,
           {hovered', activeDropdown'} \subseteq DOMAIN menus \cup {"none"},
           {mobileMenuOpen', getStartedModalOpen'} \subseteq BOOLEAN,
           OneClosing'
    PROVE  RouterInv'
<1>1. PagesShown' = PagesShown
  BY DEF PagesShown, pageVars
<1>2. closing' \in Nat
  BY DEF OneClosing
<1>3. RouterTypeOK'
  BY <1>1, <1>2 DEF RouterInv, RouterTypeOK, pageVars
<1>4. Arrived'
  BY DEF RouterInv, Arrived, pageVars
<1> QED BY <1>3, <1>4 DEF RouterInv

(* The routes and the header keep their invariant.                         *)
LEMMA RouterStep == RouterInv /\ RouterNext => RouterInv'
<1> SUFFICES ASSUME RouterInv, RouterNext PROVE RouterInv'
  OBVIOUS
<1>1. /\ {hovered, activeDropdown} \subseteq DOMAIN menus \cup {"none"}
      /\ {statsLoaded, recordLoaded, mobileMenuOpen, getStartedModalOpen} \subseteq BOOLEAN
      /\ closing \in Nat /\ currentRoute \in Routes /\ OneClosing
      /\ TRUE \in BOOLEAN /\ FALSE \in BOOLEAN
  BY DEF RouterInv, RouterTypeOK
<1>2. Links \subseteq Routes /\ <<"404">> \in Routes /\ GetStartedModal \subseteq Links
  BY DEF Routes, Links
<1>3. \A kind \in RecordKinds : <<kind, "id">> \in RecordKinds \X {"id"} /\ <<kind, "id">> \in Routes
  BY DEF Routes
<1>4. ASSUME UNCHANGED <<headerVars, getStartedModalOpen>>
      PROVE  /\ {hovered', activeDropdown'} \subseteq DOMAIN menus \cup {"none"}
             /\ {mobileMenuOpen', getStartedModalOpen'} \subseteq BOOLEAN
             /\ closing' \in Nat /\ OneClosing'
  BY <1>1, <1>4 DEF headerVars, OneClosing
<1>5. CASE setStats
  BY <1>1, <1>4, <1>5, RendersStep DEF setStats
<1>6. ASSUME NEW r \in Links, navigateTo(r) PROVE RouterInv'
  BY <1>1, <1>2, <1>4, <1>6, RendersStep DEF navigateTo
<1>7. ASSUME NEW r \in Links, handleNav(r) PROVE RouterInv'
  <2>1. /\ {hovered', activeDropdown'} \subseteq DOMAIN menus \cup {"none"}
        /\ {mobileMenuOpen', getStartedModalOpen'} \subseteq BOOLEAN
        /\ closing' \in Nat /\ OneClosing'
    BY <1>1, <1>7 DEF handleNav, OneClosing
  <2> QED BY <1>1, <1>2, <1>7, <2>1, RendersStep DEF handleNav
<1>8. ASSUME NEW kind \in RecordKinds, clickOpens(kind) \/ searchOpens(kind) PROVE RouterInv'
  <2>1. /\ UNCHANGED <<headerVars, getStartedModalOpen>>
        /\ \/ Renders(<<kind, "id">>, statsLoaded, TRUE)
           \/ Renders(<<"404">>, statsLoaded, FALSE)
    BY <1>8 DEF clickOpens, searchOpens
  <2>2. CASE Renders(<<kind, "id">>, statsLoaded, TRUE)
    BY <1>1, <1>3, <1>4, <2>1, <2>2, RendersStep
  <2>3. CASE Renders(<<"404">>, statsLoaded, FALSE)
    BY <1>1, <1>2, <1>4, <2>1, <2>3, RendersStep
  <2> QED BY <2>1, <2>2, <2>3
<1>9. ASSUME NEW i \in 1..7, setActiveTab(i) PROVE RouterInv'
  <2>1. PagesShown' = PagesShown /\ activeTab' = i
    BY <1>9 DEF PagesShown, setActiveTab
  <2>2. PICK q \in PagesShown : i \in DOMAIN pages[q].tabs
    BY <1>9 DEF setActiveTab
  <2>3. \A p \in PagesShown : p = q
    BY <1>1, <2>2, OnePage DEF PagesShown
  <2>4. \A p \in PagesShown' : activeTab' \in DOMAIN pages[p].tabs
    BY <2>1, <2>2, <2>3
  <2>5. RouterTypeOK'
    BY <1>9, <2>4 DEF RouterInv, RouterTypeOK, setActiveTab, headerVars
  <2> QED BY <1>9, <2>5 DEF RouterInv, Arrived, OneClosing, setActiveTab, headerVars
<1>10. ASSUME NEW k \in DOMAIN menus, handleMouseEnter(k) PROVE RouterInv'
  <2>1. OneClosing'
    BY <1>1, <1>10 DEF handleMouseEnter, OneClosing
  <2> QED BY <1>1, <1>10, <2>1, HeaderStep DEF handleMouseEnter
<1>11. CASE handleMouseLeave
  <2>1. OneClosing'
    BY <1>1, <1>11 DEF handleMouseLeave, OneClosing
  <2> QED BY <1>1, <1>11, <2>1, HeaderStep DEF handleMouseLeave
<1>12. CASE dropdownTimeout
  <2>1. OneClosing'
    BY <1>1, <1>12 DEF dropdownTimeout, OneClosing
  <2> QED BY <1>1, <1>12, <2>1, HeaderStep DEF dropdownTimeout
<1>13. CASE toggleMobileMenu
  <2>1. OneClosing'
    BY <1>1, <1>13 DEF toggleMobileMenu, OneClosing
  <2> QED BY <1>1, <1>13, <2>1, HeaderStep DEF toggleMobileMenu
<1>14. CASE openGetStarted
  <2>1. OneClosing'
    BY <1>1, <1>14 DEF openGetStarted, headerVars, OneClosing
  <2> QED BY <1>1, <1>14, <2>1, HeaderStep DEF openGetStarted, headerVars
<1>15. CASE closeGetStarted
  <2>1. OneClosing'
    BY <1>1, <1>15 DEF closeGetStarted, headerVars, OneClosing
  <2> QED BY <1>1, <1>15, <2>1, HeaderStep DEF closeGetStarted, headerVars
<1>16. ASSUME NEW r \in GetStartedModal, handleSelect(r) PROVE RouterInv'
  <2>1. /\ {hovered', activeDropdown'} \subseteq DOMAIN menus \cup {"none"}
        /\ {mobileMenuOpen', getStartedModalOpen'} \subseteq BOOLEAN
        /\ closing' \in Nat /\ OneClosing'
    BY <1>1, <1>16 DEF handleSelect, headerVars, OneClosing
  <2>2. r \in Links /\ r \in Routes
    BY <1>2
  <2> QED BY <1>1, <1>16, <2>1, <2>2, RendersStep DEF handleSelect
<1> QED BY <1>5, <1>6, <1>7, <1>8, <1>9, <1>10, <1>11, <1>12, <1>13, <1>14, <1>15, <1>16
    DEF RouterNext

(* The browser opens the explorer in a state of the kind.                  *)
LEMMA RouterStart == RouterInit => RouterInv
<1> SUFFICES ASSUME RouterInit PROVE RouterInv
  OBVIOUS
<1>1. currentRoute = openedAt /\ openedAt \in Openings /\ currentRoute \in Routes
  BY DEF RouterInit, Routes
<1>2. \A p \in PagesShown : p \in DOMAIN pages /\ p = OwnerOf(currentRoute)
  BY <1>1, OnePage DEF PagesShown
<1>3. ASSUME NEW p \in PagesShown PROVE activeTab \in DOMAIN pages[p].tabs
  <2>1. (CHOOSE q \in PagesShown : TRUE) = p /\ PagesShown # {}
    BY <1>2
  <2>2. activeTab = TabOf(p, openedAt)
    BY <2>1 DEF RouterInit
  <2> QED BY <1>2, <2>2, TabOfPage
<1>4. /\ statsLoaded = FALSE /\ recordLoaded = FALSE /\ mobileMenuOpen = FALSE
      /\ getStartedModalOpen = FALSE /\ wide \in BOOLEAN
      /\ hovered = "none" /\ activeDropdown = "none" /\ closing = 0
  BY DEF RouterInit
<1>5. RouterTypeOK
  BY <1>1, <1>3, <1>4 DEF RouterTypeOK
<1> QED BY <1>1, <1>4, <1>5 DEF RouterInv, Arrived, OneClosing

(***************************************************************************)
(* The explorer.                                                           *)
(***************************************************************************)
ExplorerInv ==
    FeedsInv /\ PicksInv /\ RouterInv /\ WalletInv /\ ButtonsInv /\ SearchInv

(* It holds at the start.                                                  *)
LEMMA ExplorerStart == Init => ExplorerInv
BY FeedsStart, PicksStart, RouterStart, WidgetsStart DEF Init, ExplorerInv

(* A part that does not run stays as it is: the feeds and the picks read    *)
(* the service the other one changes,                                      *)
LEMMA FeedsStill == FeedsInv /\ UNCHANGED ownFeedVars /\ ApiTypeOK' => FeedsInv'
BY DEF FeedsInv, ownFeedVars, Rows

(* A step of another part leaves the picked records and the route alone.   *)
LEMMA PicksStill == PicksInv /\ UNCHANGED ownPickVars /\ ApiTypeOK' => PicksInv'
<1> SUFFICES ASSUME PicksInv, UNCHANGED ownPickVars, ApiTypeOK' PROVE PicksInv'
  OBVIOUS
<1>1. PicksShape'
  BY DEF PicksInv, PicksShape, ownPickVars
<1>2. RecordAgrees'
  BY DEF PicksInv, RecordAgrees, ownPickVars
<1>3. AccountAgrees'
  BY DEF PicksInv, AccountAgrees, AccountShown, InHistory, ownPickVars
<1> QED BY <1>1, <1>2, <1>3 DEF PicksInv

(* the others only themselves.                                             *)
LEMMA RouterStill == RouterInv /\ UNCHANGED routerVars => RouterInv'
<1> SUFFICES ASSUME RouterInv, UNCHANGED routerVars PROVE RouterInv'
  OBVIOUS
<1>1. PagesShown' = PagesShown
  BY DEF PagesShown, routerVars
<1>2. RouterTypeOK'
  BY <1>1 DEF RouterInv, RouterTypeOK, routerVars, headerVars
<1> QED BY <1>2 DEF RouterInv, Arrived, OneClosing, routerVars, headerVars

(* The dialogs do not run: the wallet's,                                   *)
LEMMA WalletStill == WalletInv /\ UNCHANGED walletVars => WalletInv'
BY DEF WalletInv, WalletViewsAgree, LastTimerAsked, walletVars

(* the buttons,                                                            *)
LEMMA ButtonsStill == ButtonsInv /\ UNCHANGED buttonVars => ButtonsInv'
BY DEF ButtonsInv, ButtonHasOneTimer, buttonVars

(* and the search.                                                         *)
LEMMA SearchStill == SearchInv /\ UNCHANGED searchVars => SearchInv'
BY DEF SearchInv, searchVars

(* A step of the explorer is one of each part, or leaves it alone.         *)
LEMMA StepOfParts ==
    ASSUME [Next]_vars
    PROVE  /\ FeedsNext \/ UNCHANGED ownFeedVars
           /\ PicksNext \/ UNCHANGED ownPickVars
           /\ FeedsNext \/ PicksNext \/ UNCHANGED apiVars
           /\ RouterNext \/ UNCHANGED routerVars
           /\ WalletNext \/ UNCHANGED walletVars
           /\ ButtonsNext \/ UNCHANGED buttonVars
           /\ SearchNext \/ UNCHANGED searchVars
<1>1. CASE Next
  BY <1>1 DEF Next
<1>2. CASE UNCHANGED vars
  BY <1>2 DEF vars
<1> QED BY <1>1, <1>2

(* Every step keeps the invariant.                                         *)
LEMMA ExplorerStep == ExplorerInv /\ [Next]_vars => ExplorerInv'
<1> SUFFICES ASSUME ExplorerInv, [Next]_vars PROVE ExplorerInv'
  OBVIOUS
<1>1. FeedsInv /\ PicksInv /\ RouterInv /\ WalletInv /\ ButtonsInv /\ SearchInv
  BY DEF ExplorerInv
<1>2. ApiTypeOK'
  <2>1. CASE FeedsNext
    BY <1>1, <2>1, FeedsStep DEF FeedsInv
  <2>2. CASE PicksNext
    BY <1>1, <2>2, PicksStep DEF PicksInv, PicksShape
  <2>3. CASE UNCHANGED apiVars
    BY <1>1, <2>3 DEF FeedsInv, ApiTypeOK, apiVars
  <2> QED BY <2>1, <2>2, <2>3, StepOfParts
<1>3. FeedsInv'
  BY <1>1, <1>2, StepOfParts, FeedsStep, FeedsStill
<1>4. PicksInv'
  BY <1>1, <1>2, StepOfParts, PicksStep, PicksStill
<1>5. RouterInv'
  BY <1>1, StepOfParts, RouterStep, RouterStill
<1>6. WalletInv' /\ ButtonsInv' /\ SearchInv'
  BY <1>1, StepOfParts, WalletStep, WalletStill, ButtonsStep, ButtonsStill, SearchStep, SearchStill
<1> QED BY <1>3, <1>4, <1>5, <1>6 DEF ExplorerInv

(* The invariant of the explorer.                                          *)
THEOREM ExplorerInvariant == Spec => []ExplorerInv
BY ExplorerStart, ExplorerStep, PTL DEF Spec

(* What it says of the types,                                              *)
LEMMA ExplorerTypes == ExplorerInv => ExplorerTypeOK
BY FeedsInvGivesType, PicksInvGivesType, WidgetsInvGivesType
   DEF ExplorerInv, RouterInv, ExplorerTypeOK

(* the records,                                                            *)
LEMMA ExplorerRecords == ExplorerInv => RouteShowsItsRecord
BY PicksInvGivesRecord DEF ExplorerInv

(* the pages,                                                              *)
LEMMA ExplorerPages == ExplorerInv => PageRendered
BY RouterInvGivesPage DEF ExplorerInv

(* the wallet dialog                                                       *)
LEMMA ExplorerWallet == ExplorerInv => WalletViewsAgree
BY DEF ExplorerInv, WalletInv

(* and the buttons.                                                        *)
LEMMA ExplorerButtons == ExplorerInv => ButtonHasOneTimer
BY DEF ExplorerInv, ButtonsInv

(* The menu under the pointer is closed, by a click on one of its links.   *)
MenuClosesByClick ==
    hovered # "none" /\ activeDropdown = hovered /\ hovered' = hovered
      /\ activeDropdown' # activeDropdown
    => \E r \in Links : handleNav(r)

(* While the pointer is over a menu no timer runs, so none closes it.      *)
LEMMA ExplorerMenus == ExplorerInv /\ [Next]_vars => [MenuClosesByClick]_routerVars
<1> SUFFICES ASSUME ExplorerInv, RouterNext,
                    hovered # "none", activeDropdown = hovered, hovered' = hovered,
                    activeDropdown' # activeDropdown
             PROVE  \E r \in Links : handleNav(r)
  BY StepOfParts DEF MenuClosesByClick
<1>1. closing = 0
  BY DEF ExplorerInv, RouterInv, OneClosing
<1>2. ~setStats /\ \A r \in Links : ~navigateTo(r)
  BY DEF setStats, navigateTo, headerVars
<1>3. \A kind \in RecordKinds : ~clickOpens(kind) /\ ~searchOpens(kind)
  BY DEF clickOpens, searchOpens, headerVars
<1>4. \A i \in 1..7 : ~setActiveTab(i)
  BY DEF setActiveTab, headerVars
<1>5. \A k \in DOMAIN menus : ~handleMouseEnter(k)
  BY DEF handleMouseEnter
<1>6. ~handleMouseLeave /\ ~dropdownTimeout /\ ~toggleMobileMenu
  BY <1>1 DEF handleMouseLeave, dropdownTimeout, toggleMobileMenu
<1>7. ~openGetStarted /\ ~closeGetStarted /\ \A r \in GetStartedModal : ~handleSelect(r)
  BY DEF openGetStarted, closeGetStarted, handleSelect, headerVars
<1> QED BY <1>2, <1>3, <1>4, <1>5, <1>6, <1>7 DEF RouterNext

(***************************************************************************)
(* Every part of the explorer stays in its types, for every bound on what  *)
(* the user does: the lists that loadAllData and the poll fill             *)
(* (App.tsx:135-178) hold only what some read of a network answered, a     *)
(* picked record is one the service knows, a route is one of the router's, *)
(* and the recent queries of the search (SearchModal.tsx:49-63) are never  *)
(* more than it keeps and never name a query twice.                        *)
(***************************************************************************)
THEOREM ExplorerTypeCorrect == Spec => []ExplorerTypeOK
BY ExplorerInvariant, ExplorerTypes, PTL

(***************************************************************************)
(* However the answers to clicks and to searches interleave                *)
(* (handleSelectAddress App.tsx:211-223, handleUniversalSearch 250-277), a *)
(* route that names a block, a transaction, a validator or a contract      *)
(* shows that record or none, and an address shows its own account and     *)
(* history once no two handlers waited together. The last clause is what   *)
(* the invariant AccountAgrees strengthens: it follows the one handler     *)
(* that may wait.                                                          *)
(***************************************************************************)
THEOREM RoutesShowTheirRecords == Spec => []RouteShowsItsRecord
BY ExplorerInvariant, ExplorerRecords, PTL

(***************************************************************************)
(* At every route a link leads to, exactly one of the pages of App         *)
(* (App.tsx:319-522) is rendered, whatever path the explorer was opened    *)
(* at. The invariant is Arrived: a route other than the opening one is a   *)
(* link's or a record's, and a record that is linked to was loaded.        *)
(***************************************************************************)
THEOREM EveryLinkShowsOnePage == Spec => []PageRendered
BY ExplorerInvariant, ExplorerPages, PTL

(***************************************************************************)
(* However clicks, timers, other windows and reloads interleave            *)
(* (ConnectWalletModal.tsx:24-26, 69-83): once no timer runs, the dialog    *)
(* names the wallet picked last in this window; while it names one, the    *)
(* header names the same; and the storage holds what the dialog names      *)
(* unless another window wrote it since.  After a disconnect the header     *)
(* goes on naming the old wallet: the theorem does not say otherwise.      *)
(***************************************************************************)
THEOREM WalletViewsStayTogether == Spec => []WalletViewsAgree
BY ExplorerInvariant, ExplorerWallet, PTL

(***************************************************************************)
(* A busy button has exactly one timer that frees it and an idle one has   *)
(* none, also across leaving and reopening its page                        *)
(* (DevelopersPortalPage.tsx:123-140, CodePlayground.tsx:149-253,          *)
(* FaucetPage.tsx:16-36).                                                  *)
(***************************************************************************)
THEOREM BusyButtonsAreFreed == Spec => []ButtonHasOneTimer
BY ExplorerInvariant, ExplorerButtons, PTL

(***************************************************************************)
(* No timer of AppHeader (AppHeader.tsx:67-82) closes the menu the pointer *)
(* is over; only a click on a link does. It rests on OneClosing:           *)
(* handleMouseEnter clears the one timer that may run, so none runs while  *)
(* the pointer is over a menu.                                             *)
(***************************************************************************)
THEOREM MenusStayUnderPointer == Spec => MenuStaysUnderPointer
BY ExplorerInvariant, ExplorerMenus, PTL DEF Spec, MenuStaysUnderPointer, MenuClosesByClick

=============================================================================
