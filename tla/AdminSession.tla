---------------------------- MODULE AdminSession ----------------------------
(***************************************************************************)
(* The session of the admin panel (apps/admin-panel): the token in the        *)
(* browser's storage, the profile AuthContext holds, the splash and login     *)
(* screens, and the pages of the shell as far as they send requests.          *)
(*                                                                         *)
(* One window is modelled in full.  Other windows of the browser share its     *)
(* storage and not its events (sprax_auth_changed is an event of one window):  *)
(* they are the two actions OtherWindowLogin and OtherWindowLogout.           *)
(*                                                                         *)
(* Requests are counted by kind, by the token they carry and by how far they    *)
(* have come: sent, or answered by the server and not yet delivered.  Tokens   *)
(* are numbered in the order of issue; 0 is no token.                         *)
(***************************************************************************)
EXTENDS Naturals, Sequences, FiniteSets, BagImages

CONSTANTS
    Admins,         \* admin accounts
    Grants,         \* Grants[u]: pairs of domain and verb, "*" for any
    Barred,         \* those whose role require_admin does not let through
    Tabs,           \* the tabs a run visits, a subset of DOMAIN navItems
    MaxTokens,      \* bound: successful logins, the one before the window opened included
    MaxCalls        \* bound: requests under way at once

ASSUME SessionAssumption ==
    /\ MaxTokens \in Nat \ {0} /\ MaxCalls \in Nat
    /\ IsFiniteSet(Admins) /\ "nobody" \notin Admins

nobody == "nobody"

(***************************************************************************)
(* The pages: the permission the sidebar asks for, whether the page reads      *)
(* when it is mounted, whether an interval repeats the read, and whether its    *)
(* endpoint is one of the explorer's, which ask for no token.                 *)
(***************************************************************************)
Free == << >>
Page(perm, reads, polls) ==
    [permission |-> perm, reads |-> reads, polls |-> polls, public |-> FALSE]
PublicPage(perm) == [permission |-> perm, reads |-> TRUE, polls |-> FALSE, public |-> TRUE]

DashboardPage == Page(Free, TRUE, TRUE)
AppUsersPage == Page(<<"users", "read">>, TRUE, FALSE)
AppVersionsPage == Page(<<"users", "manage">>, TRUE, FALSE)
BlockchainOverviewPage == Page(<<"blockchain", "read">>, TRUE, FALSE)
BlocksPage == PublicPage(<<"blockchain", "read">>)
TransactionsPage == PublicPage(<<"blockchain", "read">>)
IndexerMonitorPage == Page(<<"explorer", "read">>, TRUE, TRUE)
MarketsPage == Page(<<"markets", "read">>, TRUE, FALSE)
DiscoverPage == Page(<<"discover", "read">>, TRUE, FALSE)
SearchIndexPage == Page(Free, FALSE, FALSE)
ValidatorsPage == Page(<<"validators", "read">>, TRUE, FALSE)
StakingPage == Page(<<"staking", "read">>, TRUE, FALSE)
PerpsRiskPage == Page(<<"perps", "read">>, TRUE, FALSE)
NotificationsPage == Page(<<"notifications", "read">>, TRUE, FALSE)
OperationsPage == Page(<<"operations", "read">>, TRUE, TRUE)
SecurityAdminsPage == Page(<<"admin", "manage">>, TRUE, FALSE)
AuditLogsPage == Page(<<"admin", "read">>, TRUE, FALSE)
FeatureFlagsPage == Page(<<"feature_flags", "read">>, TRUE, FALSE)

(* The switch of renderContent over the ids of the sidebar. *)
navItems ==
    [dashboard |-> DashboardPage, app_users |-> AppUsersPage,
     app_versions |-> AppVersionsPage, blockchain |-> BlockchainOverviewPage,
     blocks |-> BlocksPage, transactions |-> TransactionsPage,
     indexer |-> IndexerMonitorPage, markets |-> MarketsPage,
     discover |-> DiscoverPage, search_index |-> SearchIndexPage,
     validators |-> ValidatorsPage, staking |-> StakingPage,
     perps_risk |-> PerpsRiskPage, notifications |-> NotificationsPage,
     operations |-> OperationsPage, security_admins |-> SecurityAdminsPage,
     audit_logs |-> AuditLogsPage, feature_flags |-> FeatureFlagsPage]

ASSUME TabsAssumption == Tabs \subseteq DOMAIN navItems /\ "dashboard" \in Tabs

VARIABLES
    token,          \* localStorage sprax_admin_token
    owner,          \* the admin of every token issued so far
    live,           \* the tokens the server still accepts
    user,           \* AuthContext.user
    isLoading,      \* AuthContext.isLoading: the splash screen
    submitting,     \* LoginPage.isSubmitting
    activeTab,      \* App.activeTab; it outlives a logout
    loading,        \* isLoading of the page of activeTab
    calls           \* the bag of requests under way: [kind, token, at]

svars == <<token, owner, live, user, isLoading, submitting, activeTab, loading, calls>>

Issued == 1..Len(owner)

(* me: getMe of an event; loginMe: getMe that handleSubmit awaits; read: a     *)
(* page's request; stray: one of a page that is gone; login: the POST of the    *)
(* login page; oldLogin: that of a login page that is gone.                   *)
Kinds == {"me", "loginMe", "read", "stray", "login", "oldLogin"}
Stages == {"sent", "ok", "401", "failed"}
Call(k, t, s) == [kind |-> k, token |-> t, at |-> s]

(* What a request is judged by: its token, or nothing. *)
Public == MaxTokens + 1
Credentials == 0..Public
Calls == [kind : Kinds, token : Credentials, at : Stages]

Room == BagCardinality(calls) < MaxCalls

Send(c, k, t) == c (+) SetToBag({Call(k, t, "sent")})

(* Every call of one kind becomes another: its component is gone. *)
Reclassify(c, from, to) ==
    Renamed(c, [x \in BagToSet(c) |-> IF x.kind = from THEN [x EXCEPT !.kind = to] ELSE x])

(* The shell is removed, or the login page is. *)
ShellGone(c) == Reclassify(c, "read", "stray")
LoginGone(c) == Reclassify(Reclassify(c, "loginMe", "me"), "login", "oldLogin")

(* The role super_admin counts as the grant of everything. *)
hasPermission(u, perm) ==
    perm # Free => {<<"*", "*">>, perm, <<perm[1], "*">>} \cap Grants[u] # {}

Reads(tab) == navItems[tab].reads
Polls(tab) == navItems[tab].polls
Credential(tab) == IF navItems[tab].public THEN Public ELSE token

(***************************************************************************)
(* AuthContext.                                                             *)
(***************************************************************************)
(* setUser(null): the login page shows, with nothing typed or submitted if     *)
(* the shell showed before.                                                  *)
ShowLogin(c, busy) ==
    /\ user' = nobody
    /\ isLoading' = FALSE
    /\ submitting' = (user = nobody /\ busy)
    /\ loading' = FALSE
    /\ calls' = IF user = nobody THEN c ELSE ShellGone(c)

(* setUser(u): the shell shows; if it did not before, the page of the tab left  *)
(* over from the last session is mounted and reads.                          *)
ShowShell(u, c) ==
    /\ user' = u
    /\ isLoading' = FALSE
    /\ submitting' = FALSE
    /\ loading' = IF user = nobody THEN Reads(activeTab) ELSE loading
    /\ calls' = IF user # nobody THEN c
                ELSE IF Reads(activeTab) THEN Send(LoginGone(c), "read", Credential(activeTab))
                ELSE LoginGone(c)

(* request() on status 401: whatever token is stored now is removed, and the    *)
(* event makes checkAuth find none.                                          *)
Unauthorized(c, busy) ==
    /\ token' = 0
    /\ ShowLogin(c, busy)

Delivered(k, t, s) == calls (-) SetToBag({Call(k, t, s)})
Arrives(k, t, s) == BagIn(Call(k, t, s), calls)

(* As if checkAuth had no finally. *)
checkAuthNeverDone(k, t, s) ==
    /\ k \in {"me", "loginMe"} /\ s # "sent" /\ Arrives(k, t, s)
    /\ calls' = Delivered(k, t, s)
    /\ UNCHANGED <<token, owner, live, user, isLoading, submitting, activeTab, loading>>

(* getMe answers checkAuth. *)
checkAuthAnswered(k, t, s) ==
    /\ k \in {"me", "loginMe"} /\ s # "sent" /\ Arrives(k, t, s)
    /\ LET c == Delivered(k, t, s)
           busy == submitting /\ k # "loginMe"
       IN  \/ s = "ok" /\ ShowShell(owner[t], c) /\ UNCHANGED token
           \/ s = "401" /\ Unauthorized(c, busy)
           \/ s = "failed" /\ ShowLogin(c, busy) /\ UNCHANGED token
    /\ UNCHANGED <<owner, live, activeTab>>

(***************************************************************************)
(* The login page.                                                          *)
(***************************************************************************)
handleSubmit ==
    /\ user = nobody /\ ~isLoading /\ ~submitting /\ Room
    /\ submitting' = TRUE
    /\ calls' = Send(calls, "login", 0)
    /\ UNCHANGED <<token, owner, live, user, isLoading, activeTab, loading>>

(* api.login stores the token and fires the event, whose checkAuth asks for the *)
(* profile; then AuthContext.login awaits a checkAuth of its own.  A shell that  *)
(* shows by now (an older profile arrived) stays.                             *)
loginAccepted(k, u) ==
    LET t == Len(owner) + 1 IN
    /\ k \in {"login", "oldLogin"} /\ Arrives(k, 0, "sent")
    /\ Len(owner) < MaxTokens
    /\ owner' = Append(owner, u)
    /\ live' = live \cup {t}
    /\ token' = t
    /\ calls' = Send(Send(Delivered(k, 0, "sent"), "me", t),
                     IF k = "login" THEN "loginMe" ELSE "me", t)
    /\ UNCHANGED <<user, isLoading, submitting, activeTab, loading>>

loginRefused(k) ==
    /\ k \in {"login", "oldLogin"} /\ Arrives(k, 0, "sent")
    /\ submitting' = (submitting /\ k # "login")
    /\ calls' = Delivered(k, 0, "sent")
    /\ UNCHANGED <<token, owner, live, user, isLoading, activeTab, loading>>

(***************************************************************************)
(* The shell.                                                               *)
(***************************************************************************)
Shell == user # nobody /\ ~isLoading

(* The profile menu: storage cleared, event, setUser(null). *)
logout ==
    /\ Shell
    /\ token' = 0
    /\ ShowLogin(calls, FALSE)
    /\ UNCHANGED <<owner, live, activeTab>>

(* The sidebar offers the tabs the profile has the permission for. *)
onSelectTab(tab) ==
    /\ Shell /\ tab # activeTab
    /\ hasPermission(user, navItems[tab].permission)
    /\ Reads(tab) => Room
    /\ activeTab' = tab
    /\ loading' = Reads(tab)
    /\ calls' = IF Reads(tab) THEN Send(ShellGone(calls), "read", Credential(tab))
                ELSE ShellGone(calls)
    /\ UNCHANGED <<token, owner, live, user, isLoading, submitting>>

(* As if the page read once and set no interval. *)
pageReadsOnce == FALSE /\ UNCHANGED svars

(* The interval of a page that polls, or its refresh button. *)
pagePolls ==
    /\ Shell /\ Polls(activeTab) /\ Room
    /\ loading' = TRUE
    /\ calls' = Send(calls, "read", Credential(activeTab))
    /\ UNCHANGED <<token, owner, live, user, isLoading, submitting, activeTab>>

(* A page keeps its data on a failure; a page that is gone only matters for its *)
(* 401.                                                                     *)
pageAnswered(k, t, s) ==
    /\ k \in {"read", "stray"} /\ s # "sent" /\ Arrives(k, t, s)
    /\ LET c == Delivered(k, t, s)
       IN  \/ s = "401" /\ Unauthorized(c, submitting)
           \/ /\ s # "401"
              /\ calls' = c
              /\ loading' = (loading /\ k # "read")
              /\ UNCHANGED <<token, user, isLoading, submitting>>
    /\ UNCHANGED <<owner, live, activeTab>>

(***************************************************************************)
(* The server and the other windows.                                        *)
(***************************************************************************)
Moved(k, t, s) == Delivered(k, t, "sent") (+) SetToBag({Call(k, t, s)})

Requests == Kinds \ {"login", "oldLogin"}

(* get_current_user: 401 for a token that is not accepted; then require_admin,   *)
(* which is not asked of the profile: 403, which to request() is a failure.      *)
StatusOf(k, t) ==
    CASE t = Public -> "ok"
      [] t \notin live /\ t # Public -> "401"
      [] t \in live -> IF owner[t] \in Barred /\ k \in {"read", "stray"} THEN "failed"
                       ELSE "ok"

Serve(k, t) ==
    /\ k \in Requests /\ Arrives(k, t, "sent")
    /\ calls' = Moved(k, t, StatusOf(k, t))
    /\ UNCHANGED <<token, owner, live, user, isLoading, submitting, activeTab, loading>>

(* The connection fails, or the server does for another reason. *)
Fail(k, t) ==
    /\ k \in Requests /\ Arrives(k, t, "sent")
    /\ calls' = Moved(k, t, "failed")
    /\ UNCHANGED <<token, owner, live, user, isLoading, submitting, activeTab, loading>>

Expire(t) ==
    /\ t \in live
    /\ live' = live \ {t}
    /\ UNCHANGED <<token, owner, user, isLoading, submitting, activeTab, loading, calls>>

OtherWindowLogin(u) ==
    /\ Len(owner) < MaxTokens
    /\ owner' = Append(owner, u)
    /\ live' = live \cup {Len(owner) + 1}
    /\ token' = Len(owner) + 1
    /\ UNCHANGED <<user, isLoading, submitting, activeTab, loading, calls>>

OtherWindowLogout ==
    /\ token # 0
    /\ token' = 0
    /\ UNCHANGED <<owner, live, user, isLoading, submitting, activeTab, loading, calls>>

(***************************************************************************)
(* The window is opened with or without a token left over from before.         *)
(***************************************************************************)
SessionInit ==
    /\ \/ token = 0 /\ owner = << >> /\ isLoading = FALSE
       \/ token = 1 /\ isLoading = TRUE /\ \E u \in Admins : owner = <<u>>
    /\ live = {token} \ {0}
    /\ user = nobody
    /\ submitting = FALSE
    /\ activeTab = "dashboard"
    /\ loading = FALSE
    /\ calls = IF token = 1 THEN SetToBag({Call("me", 1, "sent")}) ELSE EmptyBag

Served == \E k \in Kinds, t \in Credentials : Serve(k, t) \/ Fail(k, t)

ServerNext ==
    \/ Served
    \/ \E t \in 1..MaxTokens : Expire(t)
    \/ \E u \in Admins : OtherWindowLogin(u)
    \/ OtherWindowLogout

Answers ==
    \/ \E k \in Kinds, t \in Credentials, s \in Stages :
         checkAuthAnswered(k, t, s) \/ pageAnswered(k, t, s)
    \/ \E k \in Kinds : loginRefused(k) \/ \E u \in Admins : loginAccepted(k, u)

SessionNext ==
    \/ handleSubmit
    \/ logout
    \/ \E tab \in Tabs : onSelectTab(tab)
    \/ pagePolls
    \/ Answers
    \/ ServerNext

(* A request is answered or fails, its answer is delivered, an interval fires     *)
(* again, and a page that goes on asking reaches the server in the end.          *)
SessionFairness ==
    /\ WF_svars(pagePolls)
    /\ WF_svars(Served)
    /\ WF_svars(Answers)
    /\ SF_svars(Serve("read", 0))
    /\ WF_svars(pageAnswered("read", 0, "401"))

(***************************************************************************)
(* Properties.                                                              *)
(***************************************************************************)
(* The variables hold what the code can put in them. *)
SessionTypeOK ==
    /\ owner \in Seq(Admins) /\ Len(owner) <= MaxTokens
    /\ token \in 0..Len(owner)
    /\ live \subseteq Issued
    /\ user \in Admins \cup {nobody}
    /\ {isLoading, submitting, loading} \subseteq BOOLEAN
    /\ activeTab \in Tabs
    /\ BagToSet(calls) \subseteq Calls /\ IsABag(calls)

(* No screen waits for an answer that nobody is going to send: the splash       *)
(* screen, the disabled login button and the spinner of a page each have a       *)
(* request under way that ends them, through logouts, expired tokens and pages    *)
(* that were left (AuthContext.tsx:32-34, LoginPage.tsx:20-22).                *)
WaitsForSomething ==
    LET UnderWay(K) == \E x \in BagToSet(calls) : x.kind \in K
    IN  /\ isLoading => UnderWay({"me"})
        /\ submitting => UnderWay({"login", "loginMe"})
        /\ loading => UnderWay({"read"})

(* A window whose session has ended elsewhere finds out: when the token is gone  *)
(* for good, a page that polls brings the window back to the login page, whatever *)
(* profile a late answer has put there (api.ts:46-51, DashboardPage.tsx:43-47).  *)
EndedSessionNoticed ==
    <>[](token = 0 /\ Polls(activeTab)) => []<>(user = nobody)

=============================================================================
