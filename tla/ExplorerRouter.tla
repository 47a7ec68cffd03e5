---------------------------- MODULE ExplorerRouter --------------------------
(***************************************************************************)
(* Routes and pages of the explorer.  A route is the sequence of the words of   *)
(* its path, "id" standing for any record; App shows every page whose test the   *)
(* route passes, so a route nobody tests for shows nothing.  A page reads the   *)
(* route when it is mounted, to choose its tab, and not again.  The header      *)
(* holds the menus, opened by the pointer and closed by a timer.              *)
(***************************************************************************)
EXTENDS Naturals, FiniteSets, SequencesExt

CONSTANT Openings       \* paths the browser may open the explorer at

ASSUME OpeningsAssumption == Openings \subseteq Seq(STRING)

(***************************************************************************)
(* The pages.  exact and under: the routes, and the beginnings of routes, a page   *)
(* is shown at; needs: what must be loaded; tabs, the first of which is the      *)
(* default; links, by tab; opens: the records a click leads to.               *)
(***************************************************************************)
Page(exact, under, needs, tabs, links, opens) ==
    [exact |-> exact, under |-> under, needs |-> needs,
     tabs |-> tabs, links |-> links, opens |-> opens]

OneTab == <<"-">>
Anywhere(tabs, links) == [i \in DOMAIN tabs |-> links]
Plain(word, links, opens) ==
    Page({<<word>>}, {}, "nothing", OneTab, Anywhere(OneTab, links), opens)
Details(kind, tabs, back, opens) ==
    Page({}, {<<kind, "id">>}, "record", tabs, Anywhere(tabs, {back}), opens)

(* HomePage from the top: banner, metrics and strip, uses, layers, lists, end. *)
HomeHero == {<<"learn", "what-is-sprx">>, <<"developers">>, <<"developers", "rpc">>}
HomeMetrics == {<<"blocks">>, <<"learn", "consensus">>, <<"analytics">>,
                <<"validators">>, <<"staking">>, <<"transactions">>}
LiveNetworkStrip == {<<"blocks">>, <<"validators">>, <<"staking">>, <<"network">>}
HomeUseCases == {<<"learn", "real-world-x">>, <<"ecosystem">>}
ProtocolVisualizer == {<<"learn", "real-world-x">>, <<"developers", "rpc">>,
                       <<"developers", "smart-contracts">>, <<"learn", "consensus">>,
                       <<"developers", "nodes">>}
HomeActivity == {<<"developers">>, <<"blocks">>, <<"transactions">>, <<"faucet">>}
HomePage ==
    Page({<< >>, <<"explorer">>}, {}, "stats", OneTab,
         Anywhere(OneTab, HomeHero \cup HomeMetrics \cup LiveNetworkStrip \cup HomeUseCases
                            \cup ProtocolVisualizer \cup HomeActivity),
         {"block", "tx"})

BlocksPage == Plain("blocks", {}, {"block", "address"})
TransactionsPage == Plain("transactions", {}, {"tx", "block", "address"})
ValidatorsPage == Plain("validators", {}, {"validator"})
StakingPage == Plain("staking", {}, {"validator"})
ContractsPage == Plain("contracts", {}, {"contract", "address", "block"})
AnalyticsPage == Plain("analytics", {}, {})
FaucetPage == Plain("faucet", {}, {})
ResearchPage == Page({}, {<<"research">>}, "nothing", OneTab,
                     Anywhere(OneTab, {<<"whitepaper">>}), {})
WhitepaperPage == Plain("whitepaper", {<< >>}, {})
AboutPage == Plain("about", {}, {})
BrandKitPage == Plain("brand", {}, {})
NotFoundPage == Plain("404", {<< >>}, {})
NetworkStatusPage == Page({<<"network">>}, {}, "stats", OneTab, Anywhere(OneTab, {}), {})

BlockDetailsPage == Details("block", <<"txs", "raw">>, <<"blocks">>, {"block", "tx", "address"})
TxDetailsPage ==
    Details("tx", <<"overview", "raw", "logs">>, <<"transactions">>, {"block", "address"})
AddressPage ==
    Details("address", <<"txs", "staking", "raw">>, << >>, {"tx", "block", "address"})
ValidatorDetailsPage ==
    Details("validator", <<"overview", "delegations">>, <<"validators">>, {"address"})
ContractDetailsPage ==
    Details("contract", <<"overview", "code", "abi">>, <<"contracts">>, {"address", "block"})

LearnTabs == <<"hub", "what-is-sprx", "real-world-x", "tokenomics", "consensus", "wallets",
               "security">>
LearnPage ==
    Page({}, {<<"learn">>}, "nothing", LearnTabs,
         [i \in DOMAIN LearnTabs |->
            IF LearnTabs[i] = "security" THEN {<<"security", "bug-bounty">>} ELSE {}], {})

DeveloperTabs == <<"overview", "rpc", "smart-contracts", "nodes", "standards">>
DevelopersPortalPage ==
    Page({}, {<<"developers">>}, "nothing", DeveloperTabs,
         Anywhere(DeveloperTabs, {<<"faucet">>}), {})

EcosystemTabs == <<"directory", "discover", "markets">>
EcosystemPage ==
    Page({<<"discover">>, <<"markets">>}, {<<"ecosystem">>}, "nothing", EcosystemTabs,
         Anywhere(EcosystemTabs, {}), {})

GovernanceTabs == <<"voting", "sips", "grants", "bug-bounty">>

(* The routes outside /governance are forgotten. *)
GovernancePageByItsName ==
    Page({}, {<<"governance">>, <<"sips">>}, "nothing", GovernanceTabs,
         Anywhere(GovernanceTabs, {}), {})

GovernancePage ==
    Page({}, {<<"governance">>, <<"sips">>, <<"community", "grants">>,
              <<"security", "bug-bounty">>}, "nothing", GovernanceTabs,
         Anywhere(GovernanceTabs, {}), {})

pages ==
    [Home |-> HomePage, Blocks |-> BlocksPage, BlockDetails |-> BlockDetailsPage,
     Transactions |-> TransactionsPage, TxDetails |-> TxDetailsPage, Address |-> AddressPage,
     Learn |-> LearnPage, DevelopersPortal |-> DevelopersPortalPage,
     NetworkStatus |-> NetworkStatusPage, Validators |-> ValidatorsPage,
     ValidatorDetails |-> ValidatorDetailsPage, Staking |-> StakingPage,
     Contracts |-> ContractsPage, ContractDetails |-> ContractDetailsPage,
     Ecosystem |-> EcosystemPage, Governance |-> GovernancePage, Research |-> ResearchPage,
     Whitepaper |-> WhitepaperPage, About |-> AboutPage, BrandKit |-> BrandKitPage,
     Analytics |-> AnalyticsPage, Faucet |-> FaucetPage, NotFound |-> NotFoundPage]

(***************************************************************************)
(* The links outside the pages.                                             *)
(***************************************************************************)
ExploreMenu == {<<"explorer">>, <<"blocks">>, <<"transactions">>, <<"contracts">>, <<"analytics">>}
LearnMenu == {<<"learn">>, <<"learn", "what-is-sprx">>, <<"learn", "real-world-x">>,
              <<"learn", "tokenomics">>, <<"learn", "wallets">>}
DevsMenu == {<<"developers">>, <<"developers", "rpc">>, <<"developers", "smart-contracts">>,
             <<"developers", "nodes">>, <<"faucet">>}
NetworkMenu == {<<"network">>, <<"validators">>, <<"staking">>}
EcosystemMenu == {<<"ecosystem">>, <<"discover">>, <<"markets">>}
GovMenu == {<<"governance">>, <<"sips">>, <<"community", "grants">>}

menus == [explore |-> ExploreMenu, learn |-> LearnMenu, devs |-> DevsMenu,
          network |-> NetworkMenu, ecosystem |-> EcosystemMenu, gov |-> GovMenu]

HeaderBar == {<< >>, <<"research">>}

MobileMenu == {<< >>, <<"explorer">>, <<"learn">>, <<"developers">>, <<"network">>,
               <<"ecosystem">>, <<"governance">>, <<"sips">>, <<"markets">>, <<"research">>,
               <<"faucet">>, <<"whitepaper">>}

AppFooter ==
    {<< >>, <<"explorer">>, <<"blocks">>, <<"transactions">>, <<"validators">>, <<"staking">>,
     <<"network">>, <<"learn", "what-is-sprx">>, <<"learn", "real-world-x">>,
     <<"learn", "tokenomics">>, <<"developers">>, <<"developers", "rpc">>,
     <<"developers", "smart-contracts">>, <<"faucet">>, <<"ecosystem">>, <<"discover">>,
     <<"markets">>, <<"governance">>, <<"sips">>, <<"research">>, <<"whitepaper">>,
     <<"security", "bug-bounty">>, <<"brand">>, <<"about">>}

GetStartedModal ==
    {<<"ecosystem">>, <<"developers">>, <<"staking">>, <<"governance">>,
     <<"learn", "wallets">>, <<"learn", "what-is-sprx">>}

Links ==
    HeaderBar \cup MobileMenu \cup AppFooter \cup GetStartedModal
    \cup (UNION {menus[k] : k \in DOMAIN menus})
    \cup (UNION UNION {Range(pages[p].links) : p \in DOMAIN pages})

RecordKinds == {"block", "tx", "address", "validator", "contract"}

Routes == Openings \cup Links \cup {<<"404">>} \cup (RecordKinds \X {"id"})

(* The tests on the route in what App renders. *)
Tested ==
    [route \in Routes |->
        {p \in DOMAIN pages :
            route \in pages[p].exact \/ \E u \in pages[p].under : IsPrefix(u, route)}]

VARIABLES
    openedAt,           \* the path the browser opened
    wide,               \* the window is wide enough for the menus of the header
    currentRoute,
    statsLoaded,        \* App.stats is not null
    recordLoaded,       \* the record a details route names is there
    activeTab,          \* of the page shown: an index into its tabs
    hovered,            \* the menu under the pointer, or "none"
    activeDropdown,     \* the menu that is open, or "none"
    closing,            \* timers of handleMouseLeave still to fire
    mobileMenuOpen,
    getStartedModalOpen

headerVars == <<hovered, activeDropdown, closing, mobileMenuOpen>>
routerVars == <<openedAt, wide, currentRoute, statsLoaded, recordLoaded, activeTab, headerVars,
                getStartedModalOpen>>

Shown(route, loaded, found) ==
    {p \in Tested[route] :
        /\ pages[p].needs = "stats" => loaded
        /\ pages[p].needs = "record" => found}

PagesShown == Shown(currentRoute, statsLoaded, recordLoaded)

(* The state initialiser of the pages: the tab named by the end of the route.    *)
TabOf(p, route) ==
    LET tabs == pages[p].tabs
        named == {i \in DOMAIN tabs : route # << >> /\ tabs[i] = Last(route)}
    IN  IF named = {} THEN 1 ELSE CHOOSE i \in named : TRUE

(* The tab is left as it was, whatever page is shown. *)
RendersKeepingTab(route, loaded, found) ==
    /\ currentRoute' = route
    /\ statsLoaded' = loaded
    /\ recordLoaded' = found
    /\ UNCHANGED <<openedAt, wide, activeTab>>

(* App renders anew: a page that was shown already keeps its tab. *)
Renders(route, loaded, found) ==
    LET now == Shown(route, loaded, found) IN
    /\ currentRoute' = route
    /\ statsLoaded' = loaded
    /\ recordLoaded' = found
    /\ activeTab' = IF now = PagesShown THEN activeTab
                    ELSE IF now = {} THEN 1 ELSE TabOf(CHOOSE p \in now : TRUE, route)
    /\ UNCHANGED <<openedAt, wide>>

RouterInit ==
    /\ openedAt \in Openings
    /\ wide \in BOOLEAN
    /\ currentRoute = openedAt
    /\ statsLoaded = FALSE
    /\ recordLoaded = FALSE
    /\ activeTab = (IF PagesShown = {} THEN 1
                    ELSE TabOf(CHOOSE p \in PagesShown : TRUE, openedAt))
    /\ hovered = "none" /\ activeDropdown = "none" /\ closing = 0
    /\ mobileMenuOpen = FALSE
    /\ getStartedModalOpen = FALSE

setStats ==
    /\ ~statsLoaded
    /\ Renders(currentRoute, TRUE, recordLoaded)
    /\ UNCHANGED <<headerVars, getStartedModalOpen>>

navigateTo(r) ==
    /\ ~getStartedModalOpen
    /\ \/ r \in AppFooter
       \/ \E p \in PagesShown : r \in pages[p].links[activeTab]
    /\ Renders(r, statsLoaded, FALSE)
    /\ UNCHANGED <<headerVars, getStartedModalOpen>>

(* A record is opened by a click on the page, or by a search, which is at hand     *)
(* everywhere; a search that finds nothing ends at /404, and so may a click.     *)
clickOpens(kind) ==
    /\ \E p \in PagesShown : kind \in pages[p].opens
    /\ \/ Renders(<<kind, "id">>, statsLoaded, TRUE)
       \/ Renders(<<"404">>, statsLoaded, FALSE)
    /\ UNCHANGED <<headerVars, getStartedModalOpen>>

searchOpens(kind) ==
    /\ \/ Renders(<<kind, "id">>, statsLoaded, TRUE)
       \/ Renders(<<"404">>, statsLoaded, FALSE)
    /\ UNCHANGED <<headerVars, getStartedModalOpen>>

setActiveTab(i) ==
    /\ ~getStartedModalOpen
    /\ \E p \in PagesShown : i \in DOMAIN pages[p].tabs
    /\ activeTab' = i
    /\ UNCHANGED <<openedAt, wide, currentRoute, statsLoaded, recordLoaded, headerVars,
                   getStartedModalOpen>>

handleNav(r) ==
    /\ ~getStartedModalOpen
    /\ \/ r \in HeaderBar
       \/ activeDropdown # "none" /\ r \in menus[activeDropdown]
       \/ mobileMenuOpen /\ r \in MobileMenu
    /\ Renders(r, statsLoaded, FALSE)
    /\ mobileMenuOpen' = FALSE
    /\ activeDropdown' = "none"
    /\ UNCHANGED <<hovered, closing, getStartedModalOpen>>

pageVars == <<openedAt, wide, currentRoute, statsLoaded, recordLoaded, activeTab>>

(* The timer is left to run. *)
handleMouseEnterOnly(k) ==
    /\ wide /\ ~getStartedModalOpen /\ hovered = "none"
    /\ hovered' = k
    /\ activeDropdown' = k
    /\ UNCHANGED <<pageVars, closing, mobileMenuOpen, getStartedModalOpen>>

(* The last timer set is cancelled if it has not fired. *)
handleMouseEnter(k) ==
    /\ wide /\ ~getStartedModalOpen /\ hovered = "none"
    /\ hovered' = k
    /\ activeDropdown' = k
    /\ closing' = IF closing > 0 THEN closing - 1 ELSE 0
    /\ UNCHANGED <<pageVars, mobileMenuOpen, getStartedModalOpen>>

handleMouseLeave ==
    /\ hovered # "none"
    /\ hovered' = "none"
    /\ closing' = closing + 1
    /\ UNCHANGED <<pageVars, activeDropdown, mobileMenuOpen, getStartedModalOpen>>

dropdownTimeout ==
    /\ closing > 0
    /\ closing' = closing - 1
    /\ activeDropdown' = "none"
    /\ UNCHANGED <<pageVars, hovered, mobileMenuOpen, getStartedModalOpen>>

toggleMobileMenu ==
    /\ ~wide /\ ~getStartedModalOpen
    /\ mobileMenuOpen' = ~mobileMenuOpen
    /\ UNCHANGED <<pageVars, hovered, activeDropdown, closing, getStartedModalOpen>>

(* The dialog covers the page: nothing under it can be clicked. *)
openGetStarted ==
    /\ ~getStartedModalOpen
    /\ getStartedModalOpen' = TRUE
    /\ UNCHANGED <<pageVars, headerVars>>

closeGetStarted ==
    /\ getStartedModalOpen
    /\ getStartedModalOpen' = FALSE
    /\ UNCHANGED <<pageVars, headerVars>>

(* GetStartedModal.handleSelect: go there and close. *)
handleSelect(r) ==
    /\ getStartedModalOpen
    /\ Renders(r, statsLoaded, FALSE)
    /\ getStartedModalOpen' = FALSE
    /\ UNCHANGED headerVars

RouterNext ==
    \/ setStats
    \/ \E r \in Links : navigateTo(r) \/ handleNav(r)
    \/ \E kind \in RecordKinds : clickOpens(kind) \/ searchOpens(kind)
    \/ \E i \in 1..7 : setActiveTab(i)
    \/ \E k \in DOMAIN menus : handleMouseEnter(k)
    \/ handleMouseLeave \/ dropdownTimeout \/ toggleMobileMenu
    \/ openGetStarted \/ closeGetStarted
    \/ \E r \in GetStartedModal : handleSelect(r)

(* The tab is always one of the page that is shown. *)
RouterTypeOK ==
    /\ openedAt \in Openings
    /\ currentRoute \in Routes
    /\ {statsLoaded, recordLoaded, mobileMenuOpen, getStartedModalOpen} \subseteq BOOLEAN
    /\ wide \in BOOLEAN
    /\ \A p \in PagesShown : activeTab \in DOMAIN pages[p].tabs
    /\ {hovered, activeDropdown} \subseteq DOMAIN menus \cup {"none"}
    /\ closing \in Nat

(***************************************************************************)
(* Once the statistics are there, exactly one page is shown at every route the   *)
(* explorer brings the user to: every link of the header, the footer, the        *)
(* dialogs and the pages is to a route that App tests for, and no route passes   *)
(* the tests of two pages.  Only a path typed into the browser that no link       *)
(* leads to, or that of a record, shows an empty page.                         *)
(***************************************************************************)
PageRendered ==
    statsLoaded /\ (currentRoute # openedAt \/ openedAt \in Links)
        => Cardinality(PagesShown) = 1

(***************************************************************************)
(* The menu under the pointer is closed by a click on a link and by nothing     *)
(* else: a timer started when the pointer left some menu never closes the one   *)
(* it has moved to.                                                          *)
(***************************************************************************)
MenuStaysUnderPointer ==
    [][ hovered # "none" /\ activeDropdown = hovered /\ hovered' = hovered
          /\ activeDropdown' # activeDropdown
        => \E r \in Links : handleNav(r) ]_routerVars

=============================================================================
