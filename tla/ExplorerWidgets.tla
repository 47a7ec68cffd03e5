--------------------------- MODULE ExplorerWidgets --------------------------
(***************************************************************************)
(* Dialogs and page parts of the explorer that work with timers nobody          *)
(* cancels: the wallet dialog, which stays mounted while it is closed and keeps   *)
(* its timers; the RPC console, the code playground and the faucet form, whose     *)
(* timers do nothing once their page is left; and the search dialog with its     *)
(* list of recent queries, which other windows write as well.                 *)
(***************************************************************************)
EXTENDS Naturals, SequencesExt

CONSTANTS
    Wallets,        \* walletOptions, by their address
    Methods,        \* rpcMethods
    Words,          \* queries typed into the search dialog
    RecentsKept,    \* how many recent queries are kept
    MaxTimers       \* bound: timers of the wallet dialog at once

ASSUME WidgetsAssumption ==
    /\ "none" \notin Wallets \cup Methods /\ Methods # {}
    /\ {RecentsKept, MaxTimers} \subseteq Nat

(* The parts with a button that is disabled while it is busy. *)
Buttons == {"console", "playground", "faucet"}

VARIABLES
    connectWalletModalOpen,
    connectingId,       \* ConnectWalletModal: the wallet being connected, or "none"
    connectedAddress,   \* ConnectWalletModal: the wallet connected, or "none"
    connectedWallet,    \* App: the wallet the header names
    storedWallet,       \* localStorage sprx_connected_wallet
    connecting,         \* the timers of handleConnect, in the order they fire
    asked,              \* history: the wallet picked last, "none" after a disconnect that
                        \* no timer is going to undo
    otherWrote,         \* history: another window has written storedWallet since this one did
    mounted,            \* the parts of Buttons whose page is shown
    busy,               \* isExecutingRpc, isExecuting, isSubmitting
    timers,             \* number of timers that end that state
    selectedMethod,     \* the method chosen in the console
    calledMethods,      \* the methods its timers were started with
    rpcResponse,        \* the method whose sample result is shown, or "none"
    searchModalOpen,
    recents,            \* SearchModal.recents, latest first
    storedRecents       \* localStorage sprx_recent_searches

walletVars == <<connectWalletModalOpen, connectingId, connectedAddress, connectedWallet,
                storedWallet, connecting, asked, otherWrote>>
buttonVars == <<mounted, busy, timers, selectedMethod, calledMethods, rpcResponse>>
searchVars == <<searchModalOpen, recents, storedRecents>>

FirstMethod == CHOOSE m \in Methods : TRUE

WidgetsInit ==
    /\ connectWalletModalOpen = FALSE
    /\ connectingId = "none"
    /\ storedWallet \in Wallets \cup {"none"}
    /\ connectedAddress = storedWallet /\ connectedWallet = storedWallet
    /\ connecting = << >>
    /\ asked = storedWallet /\ otherWrote = FALSE
    /\ mounted = {} /\ busy = {}
    /\ timers = [b \in Buttons |-> 0]
    /\ selectedMethod = FirstMethod /\ calledMethods = << >> /\ rpcResponse = "none"
    /\ searchModalOpen = FALSE
    /\ recents = << >> /\ storedRecents = << >>

(***************************************************************************)
(* ConnectWalletModal.                                                      *)
(***************************************************************************)
(* The header opens it by the button that names the connected wallet.  Without     *)
(* one the button there opens the Get Started dialog, which leads to pages only.  *)
openConnectWallet ==
    /\ ~connectWalletModalOpen /\ connectedWallet # "none"
    /\ connectWalletModalOpen' = TRUE
    /\ UNCHANGED <<connectingId, connectedAddress, connectedWallet, storedWallet, connecting,
                   asked, otherWrote>>

closeConnectWallet ==
    /\ connectWalletModalOpen
    /\ connectWalletModalOpen' = FALSE
    /\ UNCHANGED <<connectingId, connectedAddress, connectedWallet, storedWallet, connecting,
                   asked, otherWrote>>

(* Nothing is disabled while a wallet is being connected. *)
handleConnect(w) ==
    /\ connectWalletModalOpen /\ Len(connecting) < MaxTimers
    /\ connectingId' = w
    /\ connecting' = Append(connecting, w)
    /\ asked' = w
    /\ UNCHANGED <<connectWalletModalOpen, connectedAddress, connectedWallet, storedWallet,
                   otherWrote>>

(* onConnected is not called. *)
connectTimeoutUntold ==
    /\ connecting # << >>
    /\ connectingId' = "none"
    /\ connectedAddress' = Head(connecting)
    /\ storedWallet' = Head(connecting)
    /\ connectWalletModalOpen' = FALSE
    /\ connecting' = Tail(connecting)
    /\ otherWrote' = FALSE
    /\ UNCHANGED <<connectedWallet, asked>>

connectTimeout ==
    /\ connecting # << >>
    /\ connectingId' = "none"
    /\ connectedAddress' = Head(connecting)
    /\ storedWallet' = Head(connecting)
    /\ connectedWallet' = Head(connecting)
    /\ connectWalletModalOpen' = FALSE
    /\ connecting' = Tail(connecting)
    /\ otherWrote' = FALSE
    /\ UNCHANGED asked

(* App is not told: the header goes on naming the wallet. *)
handleDisconnect ==
    /\ connectWalletModalOpen /\ connectedAddress # "none"
    /\ connectedAddress' = "none"
    /\ storedWallet' = "none"
    /\ asked' = IF connecting = << >> THEN "none" ELSE asked
    /\ otherWrote' = FALSE
    /\ UNCHANGED <<connectWalletModalOpen, connectingId, connectedWallet, connecting>>

(* Another window of the explorer connects a wallet, or disconnects: the dialog   *)
(* and the header of this one have read the storage when they were mounted.      *)
otherWindowStores(w) ==
    /\ storedWallet' = w
    /\ otherWrote' = TRUE
    /\ UNCHANGED <<connectWalletModalOpen, connectingId, connectedAddress, connectedWallet,
                   connecting, asked>>

(* The explorer is loaded again, in the same window. *)
loadAgain ==
    /\ connectWalletModalOpen' = FALSE
    /\ connectingId' = "none"
    /\ connectedAddress' = storedWallet /\ connectedWallet' = storedWallet
    /\ connecting' = << >>
    /\ asked' = storedWallet /\ otherWrote' = FALSE
    /\ UNCHANGED storedWallet

(***************************************************************************)
(* The buttons with a timer.                                                *)
(***************************************************************************)
(* A page is shown: its parts start afresh. *)
mount(b) ==
    /\ b \notin mounted
    /\ mounted' = mounted \cup {b}
    /\ IF b = "console"
       THEN selectedMethod' = FirstMethod /\ rpcResponse' = "none"
       ELSE UNCHANGED <<selectedMethod, rpcResponse>>
    /\ UNCHANGED <<busy, timers, calledMethods>>

(* A page is left: React ignores what the timers of its parts set. *)
unmount(b) ==
    /\ b \in mounted
    /\ mounted' = mounted \ {b}
    /\ busy' = busy \ {b}
    /\ timers' = [timers EXCEPT ![b] = 0]
    /\ calledMethods' = IF b = "console" THEN << >> ELSE calledMethods
    /\ UNCHANGED <<selectedMethod, rpcResponse>>

ButtonStarts(b) ==
    /\ b \in mounted
    /\ busy' = busy \cup {b}
    /\ timers' = [timers EXCEPT ![b] = @ + 1]
    /\ UNCHANGED <<mounted, selectedMethod, rpcResponse>>

TimerEnds(b) ==
    /\ timers[b] > 0
    /\ busy' = busy \ {b}
    /\ timers' = [timers EXCEPT ![b] = @ - 1]
    /\ UNCHANGED <<mounted, selectedMethod>>

(* The button of the console is not disabled. *)
handleRunRpcAgain ==
    /\ timers["console"] < 2
    /\ ButtonStarts("console")
    /\ calledMethods' = Append(calledMethods, selectedMethod)

handleRunRpc ==
    /\ "console" \notin busy
    /\ ButtonStarts("console")
    /\ calledMethods' = Append(calledMethods, selectedMethod)

(* The result is that of the method chosen when the call was made. *)
rpcTimeout ==
    /\ TimerEnds("console")
    /\ rpcResponse' = Head(calledMethods)
    /\ calledMethods' = Tail(calledMethods)

handleSelectMethod(m) ==
    /\ "console" \in mounted
    /\ selectedMethod' = m
    /\ rpcResponse' = "none"
    /\ UNCHANGED <<mounted, busy, timers, calledMethods>>

handleRun ==
    /\ "playground" \notin busy
    /\ ButtonStarts("playground")
    /\ UNCHANGED calledMethods

runTimeout == TimerEnds("playground") /\ UNCHANGED <<rpcResponse, calledMethods>>

(* With an address of the right form; another one only sets a message. *)
handleClaim ==
    /\ "faucet" \notin busy
    /\ ButtonStarts("faucet")
    /\ UNCHANGED calledMethods

claimTimeout == TimerEnds("faucet") /\ UNCHANGED <<rpcResponse, calledMethods>>

(***************************************************************************)
(* SearchModal.                                                             *)
(***************************************************************************)
(* Opened by the header or the keyboard, closed by the keyboard, the background   *)
(* or a search: the list is read again either way.                            *)
toggleSearch ==
    /\ searchModalOpen' = ~searchModalOpen
    /\ recents' = IF storedRecents = << >> THEN recents ELSE storedRecents
    /\ UNCHANGED <<storedRecents>>

(* The queries of the list other than q. *)
Others(q, list) ==
    LET kept[n \in 0..Len(list)] ==
          IF n = 0 THEN << >>
          ELSE IF list[n] = q THEN kept[n - 1] ELSE Append(kept[n - 1], list[n])
    IN  kept[Len(list)]

Latest(q, list) ==
    LET all == <<q>> \o Others(q, list)
    IN  SubSeq(all, 1, IF Len(all) > RecentsKept THEN RecentsKept ELSE Len(all))

handleExecute(q) ==
    /\ searchModalOpen
    /\ storedRecents' = Latest(q, recents)
    /\ recents' = Latest(q, recents)
    /\ searchModalOpen' = FALSE

clearRecents ==
    /\ searchModalOpen /\ recents # << >>
    /\ storedRecents' = << >>
    /\ recents' = << >>
    /\ UNCHANGED <<searchModalOpen>>

(* Another window of the explorer runs a search of its own. *)
otherWindowSearches(q) ==
    /\ storedRecents' = Latest(q, storedRecents)
    /\ UNCHANGED <<searchModalOpen, recents>>

WalletNext ==
    \/ openConnectWallet \/ closeConnectWallet \/ connectTimeout \/ handleDisconnect
    \/ \E w \in Wallets : handleConnect(w)
    \/ \E w \in Wallets \cup {"none"} : otherWindowStores(w)
    \/ loadAgain

ButtonsNext ==
    \/ \E b \in Buttons : mount(b) \/ unmount(b)
    \/ handleRunRpc \/ rpcTimeout \/ handleRun \/ runTimeout \/ handleClaim \/ claimTimeout
    \/ \E m \in Methods : handleSelectMethod(m)

SearchNext ==
    \/ toggleSearch \/ clearRecents
    \/ \E q \in Words : handleExecute(q) \/ otherWindowSearches(q)

(* No query is kept twice, in the dialog or in the browser's storage. *)
WidgetsTypeOK ==
    /\ connectWalletModalOpen \in BOOLEAN /\ searchModalOpen \in BOOLEAN
    /\ otherWrote \in BOOLEAN
    /\ {connectingId, connectedAddress, connectedWallet, storedWallet, asked}
          \subseteq Wallets \cup {"none"}
    /\ Range(connecting) \subseteq Wallets
    /\ busy \subseteq mounted /\ mounted \subseteq Buttons
    /\ timers \in [Buttons -> Nat]
    /\ selectedMethod \in Methods /\ rpcResponse \in Methods \cup {"none"}
    /\ \A list \in {recents, storedRecents} :
          /\ Range(list) \subseteq Words /\ IsInjective(list)
          /\ Len(list) <= RecentsKept

(***************************************************************************)
(* However clicks, timers, other windows and reloads interleave: once no timer     *)
(* runs, the dialog names the wallet the user picked last in this window; while    *)
(* it names one the header names the same; and the storage holds what the dialog    *)
(* names unless another window wrote it since (ConnectWalletModal.tsx:24-26,       *)
(* 69-83).  Two things it does not say, because the code does not do them: after     *)
(* a disconnect the header goes on naming the old wallet, and a disconnect that     *)
(* is pressed while a wallet is being connected is undone by the timer.           *)
(***************************************************************************)
WalletViewsAgree ==
    /\ connecting = << >> => connectedAddress = asked
    /\ connectedAddress # "none" => connectedWallet = connectedAddress
    /\ ~otherWrote => storedWallet = connectedAddress

(***************************************************************************)
(* A button is busy exactly while one timer that will free it is running: it       *)
(* neither stays disabled for good nor is it freed by the timer of an earlier      *)
(* press of the same page (DevelopersPage.tsx, CodePlayground.tsx, FaucetPage.tsx).  *)
(***************************************************************************)
ButtonHasOneTimer ==
    \A b \in Buttons : timers[b] = IF b \in busy THEN 1 ELSE 0

=============================================================================
