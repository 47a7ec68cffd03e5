----------------------------- MODULE MCExplorer -----------------------------
(***************************************************************************)
(* The explorer for TLC.  Its parts touch each other only in what a part reads   *)
(* as any value (which record a click leads to, whether the statistics are      *)
(* there), so a behaviour is of one of them: `part' is chosen at the start and    *)
(* the states explored are the sum of the parts, not the product.             *)
(***************************************************************************)
EXTENDS ExplorerFeeds, ExplorerPicks, ExplorerRouter, ExplorerWidgets

VARIABLE part

ownFeedVars == <<network, blocksPage, txsPage, stats, blocks, transactions, validators,
                 refreshes, changes>>
ownPickVars == <<current, currentBlockTxs, currentAccountTxs, recordRoute, waiting, hasError,
                 picks, overlapped>>
vars == <<ownFeedVars, ownPickVars, apiVars, routerVars, walletVars, buttonVars, searchVars, part>>

MCTotalPages == [s \in Sources \cup {"none"} |-> IF s = "mock" THEN 1 ELSE 2]
MCOpenings == {<<"learn", "tokenomics">>, <<"block", "id">>}

(* The parts that do not run stay in one state. *)
Init ==
    /\ part \in {"feeds", "picks", "router", "wallet", "buttons", "search"}
    /\ FeedsInit /\ PicksInit /\ RouterInit /\ WidgetsInit
    /\ part = "feeds" \/ network = FirstNetwork
    /\ part = "picks" \/ recordRoute = NoRoute
    /\ part = "router" \/ (openedAt = <<"block", "id">> /\ wide)
    /\ part = "wallet" \/ storedWallet = "none"

Next ==
    \/ /\ part = "feeds" /\ FeedsNext
       /\ UNCHANGED <<ownPickVars, routerVars, walletVars, buttonVars, searchVars, part>>
    \/ /\ part = "picks" /\ PicksNext
       /\ UNCHANGED <<ownFeedVars, routerVars, walletVars, buttonVars, searchVars, part>>
    \/ /\ part = "router" /\ RouterNext
       /\ UNCHANGED <<ownFeedVars, ownPickVars, apiVars, walletVars, buttonVars, searchVars, part>>
    \/ /\ part = "wallet" /\ WalletNext
       /\ UNCHANGED <<ownFeedVars, ownPickVars, apiVars, routerVars, buttonVars, searchVars, part>>
    \/ /\ part = "buttons" /\ ButtonsNext
       /\ UNCHANGED <<ownFeedVars, ownPickVars, apiVars, routerVars, walletVars, searchVars, part>>
    \/ /\ part = "search" /\ SearchNext
       /\ UNCHANGED <<ownFeedVars, ownPickVars, apiVars, routerVars, walletVars, buttonVars, part>>

Spec == Init /\ [][Next]_vars /\ (part = "feeds" => FeedsFairness)

(* Every part is in a state of its type. *)
ExplorerTypeOK == FeedsTypeOK /\ PicksTypeOK /\ RouterTypeOK /\ WidgetsTypeOK

(***************************************************************************)
(* In a behaviour that refreshes the lists they settle on the network the        *)
(* service stays on (NetworkSettles), whatever late answers of the other one     *)
(* the refreshes under way at the change still bring.                          *)
(***************************************************************************)
FeedsSettle == part = "feeds" => NetworkSettles

=============================================================================
