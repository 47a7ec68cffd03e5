---------------------------- MODULE AdminProofs -----------------------------
(***************************************************************************)
(* Theorems of the admin panel, for every set of admins, tabs, flags,       *)
(* projects and names and every bound.  Requests under way are bags: the    *)
(* first section says what adding, removing and renaming do to a bag, the    *)
(* following ones prove the session, the feature flag page and the pages    *)
(* that write, and the last puts them together.                            *)
(***************************************************************************)
EXTENDS MCAdmin, FoldProofs

-----------------------------------------------------------------------------
(***************************************************************************)
(* Bags.                                                                    *)
(***************************************************************************)
FiniteBag(B) == IsABag(B) /\ IsFiniteSet(BagToSet(B))

Plus(B, x) == B (+) SetToBag({x})
Minus(B, x) == B (-) SetToBag({x})

(* A request is added: one more copy of it, and of nothing else. *)
LEMMA PlusBag ==
    ASSUME NEW B, FiniteBag(B), NEW x
    PROVE  /\ FiniteBag(Plus(B, x))
           /\ BagToSet(Plus(B, x)) = BagToSet(B) \cup {x}
           /\ \A y \in BagToSet(B) : y # x => Plus(B, x)[y] = B[y]
           /\ x \notin BagToSet(B) => Plus(B, x)[x] = 1
<1>1. IsABag(B)
  BY DEF FiniteBag
<1>2. BagToSet(Plus(B, x)) = BagToSet(B) \cup {x}
  BY DEF BagToSet, SetToBag, (+), Plus
<1>3. IsABag(Plus(B, x))
  BY <1>1 DEF IsABag, BagToSet, SetToBag, (+), Plus
<1>4. IsFiniteSet(BagToSet(Plus(B, x)))
  BY <1>2, FS_AddElement DEF FiniteBag
<1>5. \A y \in BagToSet(B) : y # x => Plus(B, x)[y] = B[y]
  BY <1>1 DEF IsABag, BagToSet, SetToBag, (+), Plus
<1>6. x \notin BagToSet(B) => Plus(B, x)[x] = 1
  BY <1>1 DEF IsABag, BagToSet, SetToBag, (+), Plus
<1> QED BY <1>2, <1>3, <1>4, <1>5, <1>6 DEF FiniteBag

(* A request is removed: one copy less of it, and of nothing else. *)
LEMMA MinusBag ==
    ASSUME NEW B, FiniteBag(B), NEW x
    PROVE  /\ FiniteBag(Minus(B, x))
           /\ BagToSet(Minus(B, x)) \subseteq BagToSet(B)
           /\ BagToSet(B) \ {x} \subseteq BagToSet(Minus(B, x))
           /\ \A y \in BagToSet(B) : y # x => Minus(B, x)[y] = B[y]
           /\ x \in BagToSet(B) /\ B[x] = 1 => BagToSet(Minus(B, x)) = BagToSet(B) \ {x}
<1>1. IsABag(B)
  BY DEF FiniteBag
<1>2. BagToSet(Minus(B, x)) \subseteq BagToSet(B)
  BY DEF BagToSet, SetToBag, (-), Minus
<1>3. BagToSet(B) \ {x} \subseteq BagToSet(Minus(B, x))
  BY <1>1 DEF IsABag, BagToSet, SetToBag, (-), Minus
<1>4. IsABag(Minus(B, x))
  BY <1>1 DEF IsABag, BagToSet, SetToBag, (-), Minus
<1>5. IsFiniteSet(BagToSet(Minus(B, x)))
  BY <1>2, FS_Subset DEF FiniteBag
<1>6. \A y \in BagToSet(B) : y # x => Minus(B, x)[y] = B[y]
  BY <1>1 DEF IsABag, BagToSet, SetToBag, (-), Minus
<1>7. x \in BagToSet(B) /\ B[x] = 1 => x \notin BagToSet(Minus(B, x))
  BY <1>1 DEF IsABag, BagToSet, SetToBag, (-), Minus
<1> QED BY <1>2, <1>3, <1>4, <1>5, <1>6, <1>7 DEF FiniteBag

(* The bag of one request. *)
LEMMA SingletonBag ==
    ASSUME NEW x
    PROVE  /\ FiniteBag(SetToBag({x}))
           /\ BagToSet(SetToBag({x})) = {x}
           /\ SetToBag({x})[x] = 1
<1>1. BagToSet(SetToBag({x})) = {x} /\ IsABag(SetToBag({x})) /\ SetToBag({x})[x] = 1
  BY DEF IsABag, SetToBag, BagToSet
<1> QED BY <1>1, FS_Singleton DEF FiniteBag

(* The bag of none. *)
LEMMA NoBag == FiniteBag(EmptyBag) /\ BagToSet(EmptyBag) = {}
<1>1. BagToSet(EmptyBag) = {} /\ IsABag(EmptyBag)
  BY DEF IsABag, EmptyBag, SetToBag, BagToSet
<1> QED BY <1>1, FS_EmptySet DEF FiniteBag

(* Renaming the requests of a bag keeps it a bag. *)
LEMMA RenamedBag ==
    ASSUME NEW B, FiniteBag(B), NEW f
    PROVE  /\ FiniteBag(Renamed(B, f))
           /\ BagToSet(Renamed(B, f)) = {f[x] : x \in BagToSet(B)}
<1>1. BagToSet(Renamed(B, f)) = {f[x] : x \in BagToSet(B)}
  BY DEF BagToSet, Renamed
<1>2. IsFiniteSet({f[x] : x \in BagToSet(B)})
  <2> DEFINE g == [x \in BagToSet(B) |-> f[x]]
  <2>1. g \in Surjection(BagToSet(B), {f[x] : x \in BagToSet(B)})
    BY DEF Surjection
  <2> HIDE DEF g
  <2> QED BY <2>1, FS_Surjection DEF FiniteBag
<1>3. ASSUME NEW y \in {f[x] : x \in BagToSet(B)}
      PROVE  Renamed(B, f)[y] \in {n \in Nat : n > 0}
  <2> DEFINE S == {x \in BagToSet(B) : f[x] = y}
  <2>1. S \subseteq BagToSet(B) /\ S # {}
    OBVIOUS
  <2>2. Renamed(B, f)[y] = Sum(B, S)
    BY DEF Renamed
  <2>3. \A x \in BagToSet(B) : B[x] \in Nat /\ B[x] > 0
    BY DEF FiniteBag, IsABag, BagToSet
  <2> HIDE DEF S
  <2>4. PICK x \in S : TRUE
    BY <2>1
  <2>5. IsFiniteSet(S) /\ \A z \in S : B[z] \in Nat
    BY <2>1, <2>3, FS_Subset DEF FiniteBag
  <2>6. Sum(B, S) \in Nat /\ B[x] <= Sum(B, S)
    BY <2>4, <2>5, SumNat, SumAtLeast
  <2>7. B[x] \in Nat /\ B[x] > 0
    BY <2>1, <2>3, <2>4
  <2> QED BY <2>2, <2>6, <2>7
<1>4. IsABag(Renamed(B, f))
  <2>1. Renamed(B, f) = [y \in DOMAIN Renamed(B, f) |-> Renamed(B, f)[y]]
    BY DEF Renamed
  <2>2. \A y \in DOMAIN Renamed(B, f) : Renamed(B, f)[y] \in {n \in Nat : n > 0}
    BY <1>1, <1>3 DEF BagToSet
  <2> QED BY <2>1, <2>2 DEF IsABag
<1> QED BY <1>1, <1>2, <1>4 DEF FiniteBag

(* A request that no other is renamed to keeps its count. *)
LEMMA RenamedCount ==
    ASSUME NEW B, FiniteBag(B), NEW f, NEW x \in BagToSet(B),
           \A z \in BagToSet(B) : f[z] = f[x] => z = x
    PROVE  Renamed(B, f)[f[x]] = B[x]
<1> DEFINE S == {z \in BagToSet(B) : f[z] = f[x]}
<1>1. S = {x}
  OBVIOUS
<1>2. Renamed(B, f)[f[x]] = Sum(B, S)
  BY DEF Renamed
<1>3. B[x] \in Nat
  BY DEF FiniteBag, IsABag, BagToSet
<1> HIDE DEF S
<1>4. Sum(B, {x}) = B[x] + Sum(B, {})
  <2>1. IsFiniteSet({x}) /\ {x} \ {x} = {}
    BY FS_Singleton
  <2>2. Sum(B, {x}) = B[x] + Sum(B, {x} \ {x})
    BY <1>3, <2>1, SumRemove
  <2> QED BY <2>1, <2>2
<1> QED BY <1>1, <1>2, <1>3, <1>4, SumEmpty

-----------------------------------------------------------------------------
(***************************************************************************)
(* The session.                                                             *)
(***************************************************************************)
Has(c, k) == \E x \in BagToSet(c) : x.kind = k

(* A bag of requests when n tokens are issued: only a token that was issued is *)
(* answered with a profile, and only pages read without one.                  *)
PageKinds == {"read", "stray"}

SoundCalls(c, n) ==
    /\ FiniteBag(c)
    /\ BagToSet(c) \subseteq Calls
    /\ \A x \in BagToSet(c) : x.at = "ok" => x.token \in 1..n \/ x.token = Public
    /\ \A x \in BagToSet(c) : x.token = Public => x.kind \in PageKinds

Waits ==
    /\ isLoading => Has(calls, "me")
    /\ submitting => Has(calls, "login") \/ Has(calls, "loginMe")
    /\ loading => Has(calls, "read")

SessionShape ==
    /\ owner \in Seq(Admins) /\ Len(owner) <= MaxTokens
    /\ token \in 0..Len(owner)
    /\ live \subseteq Issued
    /\ user \in Admins \cup {nobody}
    /\ isLoading \in BOOLEAN /\ submitting \in BOOLEAN /\ loading \in BOOLEAN
    /\ activeTab \in Tabs

SessionInv == SessionShape /\ SoundCalls(calls, Len(owner)) /\ Waits

(* A request sent joins the others. *)
LEMMA SendSound ==
    ASSUME NEW c, NEW n, SoundCalls(c, n), NEW k \in Kinds, NEW t \in Credentials,
           t = Public => k \in PageKinds
    PROVE  /\ SoundCalls(Send(c, k, t), n)
           /\ Has(Send(c, k, t), k)
           /\ \A j : Has(c, j) => Has(Send(c, k, t), j)
<1> DEFINE x == Call(k, t, "sent")
<1>1. x \in Calls /\ x.at = "sent" /\ x.kind = k /\ x.token = t
  BY DEF Call, Calls, Stages
<1>2. Send(c, k, t) = Plus(c, x)
  BY DEF Send, Plus
<1> HIDE DEF x
<1>3. FiniteBag(Plus(c, x)) /\ BagToSet(Plus(c, x)) = BagToSet(c) \cup {x}
  BY PlusBag DEF SoundCalls
<1> QED BY <1>1, <1>2, <1>3 DEF SoundCalls, Has

(* A request answered is taken from the others; those of other kinds stay. *)
LEMMA TakenSound ==
    ASSUME NEW c, NEW n, SoundCalls(c, n), NEW x
    PROVE  /\ SoundCalls(Minus(c, x), n)
           /\ \A j : Has(c, j) /\ j # x.kind => Has(Minus(c, x), j)
<1>1. /\ FiniteBag(Minus(c, x)) /\ BagToSet(Minus(c, x)) \subseteq BagToSet(c)
      /\ BagToSet(c) \ {x} \subseteq BagToSet(Minus(c, x))
  BY MinusBag DEF SoundCalls
<1> QED BY <1>1 DEF SoundCalls, Has

(* A request reaches the server: it is answered, of the same kind. *)
LEMMA MovedSound ==
    ASSUME NEW n, SoundCalls(calls, n), NEW k \in Kinds, NEW t \in Credentials, NEW s \in Stages,
           s = "ok" => t \in 1..n \/ t = Public, t = Public => k \in PageKinds
    PROVE  /\ SoundCalls(Moved(k, t, s), n)
           /\ \A j : Has(calls, j) => Has(Moved(k, t, s), j)
<1> DEFINE x == Call(k, t, "sent")
           y == Call(k, t, s)
           c == Minus(calls, x)
<1>1. y \in Calls /\ y.at = s /\ y.token = t /\ y.kind = k /\ x.kind = k
  BY DEF Call, Calls
<1>2. Moved(k, t, s) = Plus(c, y)
  BY DEF Moved, Delivered, Plus, Minus
<1>3. SoundCalls(c, n) /\ \A j : Has(calls, j) /\ j # x.kind => Has(c, j)
  BY TakenSound
<1> HIDE DEF c, x, y
<1>4. FiniteBag(Plus(c, y)) /\ BagToSet(Plus(c, y)) = BagToSet(c) \cup {y}
  BY <1>3, PlusBag DEF SoundCalls
<1> QED BY <1>1, <1>2, <1>3, <1>4 DEF SoundCalls, Has

(* A component is gone: its requests are of another kind, the others stay. *)
LEMMA ReclassifySound ==
    ASSUME NEW c, NEW n, SoundCalls(c, n), NEW from \in Kinds, NEW to \in Kinds,
           from \in PageKinds => to \in PageKinds
    PROVE  /\ SoundCalls(Reclassify(c, from, to), n)
           /\ \A j : Has(c, j) /\ j # from => Has(Reclassify(c, from, to), j)
<1> DEFINE f == [x \in BagToSet(c) |-> IF x.kind = from THEN [x EXCEPT !.kind = to] ELSE x]
<1>1. Reclassify(c, from, to) = Renamed(c, f)
  BY DEF Reclassify
<1>2. \A x \in BagToSet(c) : /\ x \in Calls => f[x] \in Calls /\ f[x].at = x.at /\ f[x].token = x.token
                             /\ x.kind # from => f[x] = x
                             /\ x \in Calls /\ x.kind \in PageKinds => f[x].kind \in PageKinds
  BY DEF Calls
<1> HIDE DEF f
<1>3. FiniteBag(Renamed(c, f)) /\ BagToSet(Renamed(c, f)) = {f[x] : x \in BagToSet(c)}
  BY RenamedBag DEF SoundCalls
<1> QED BY <1>1, <1>2, <1>3 DEF SoundCalls, Has

(* The shell is gone: what was read for it is read in vain. *)
LEMMA ShellGoneSound ==
    ASSUME NEW c, NEW n, SoundCalls(c, n)
    PROVE  /\ SoundCalls(ShellGone(c), n)
           /\ \A j : Has(c, j) /\ j # "read" => Has(ShellGone(c), j)
BY ReclassifySound DEF ShellGone, Kinds, PageKinds

(* The login page is gone, with what it waited for. *)
LEMMA LoginGoneSound ==
    ASSUME NEW c, NEW n, SoundCalls(c, n)
    PROVE  SoundCalls(LoginGone(c), n)
<1> DEFINE d == Reclassify(c, "loginMe", "me")
<1>1. SoundCalls(d, n)
  BY ReclassifySound DEF Kinds, PageKinds
<1> HIDE DEF d
<1>2. SoundCalls(Reclassify(d, "login", "oldLogin"), n)
  BY <1>1, ReclassifySound DEF Kinds, PageKinds
<1> QED BY <1>2 DEF LoginGone, d

(* More tokens issued. *)
LEMMA SoundLater ==
    ASSUME NEW c, NEW n \in Nat, SoundCalls(c, n)
    PROVE  SoundCalls(c, n + 1)
BY DEF SoundCalls

(* A page is read with the stored token or with none. *)
LEMMA CredentialTyped ==
    ASSUME SessionShape, NEW tab
    PROVE  Credential(tab) \in Credentials
<1>1. Len(owner) \in Nat /\ MaxTokens \in Nat /\ token \in 0..Len(owner) /\ Len(owner) <= MaxTokens
  BY SessionAssumption DEF SessionShape
<1> QED BY <1>1 DEF Credential, Credentials, Public

(* Every token is a credential, and none of them is the lack of one. *)
LEMMA TokensAreCredentials ==
    ASSUME NEW t \in 0..MaxTokens
    PROVE  t \in Credentials /\ t # Public
BY SessionAssumption DEF Credentials, Public

(* The window as it is opened. *)
LEMMA SessionInitial == SessionInit => SessionInv
<1> SUFFICES ASSUME SessionInit PROVE SessionInv
  OBVIOUS
<1>2. ASSUME token = 1, NEW u \in Admins, owner = <<u>>, isLoading = TRUE PROVE SessionInv
  <2> DEFINE x == Call("me", 1, "sent")
  <2>0. MaxTokens \in Nat /\ MaxTokens >= 1
    BY SessionAssumption
  <2>1. x \in Calls /\ x.kind = "me" /\ x.at = "sent" /\ x.token # Public
    BY <2>0 DEF Call, Calls, Kinds, Stages, Credentials, Public
  <2>2. FiniteBag(SetToBag({x})) /\ BagToSet(SetToBag({x})) = {x}
    BY SingletonBag
  <2>3. calls = SetToBag({x})
    BY <1>2 DEF SessionInit
  <2> HIDE DEF x
  <2>4. SoundCalls(calls, Len(owner)) /\ Waits
    BY <1>2, <2>1, <2>2, <2>3 DEF SessionInit, SoundCalls, Waits, Has
  <2>5. SessionShape
    <3>1. owner \in Seq(Admins) /\ Len(owner) = 1
      BY <1>2
    <3>2. live = {1}
      BY <1>2 DEF SessionInit
    <3>3. activeTab \in Tabs /\ isLoading \in BOOLEAN /\ submitting \in BOOLEAN /\ loading \in BOOLEAN
      BY <1>2, TabsAssumption DEF SessionInit
    <3>4. user = nobody
      BY DEF SessionInit
    <3> QED BY <1>2, <2>0, <3>1, <3>2, <3>3, <3>4 DEF SessionShape, Issued
  <2> QED BY <2>4, <2>5 DEF SessionInv
<1>3. ASSUME token = 0, owner = << >>, isLoading = FALSE PROVE SessionInv
  <2>1. SoundCalls(calls, Len(owner)) /\ Waits
    BY <1>3, NoBag DEF SessionInit, SoundCalls, Waits
  <2>2. SessionShape
    <3>1. owner \in Seq(Admins) /\ Len(owner) = 0
      BY <1>3
    <3>2. live = {}
      BY <1>3 DEF SessionInit
    <3>3. activeTab \in Tabs /\ isLoading \in BOOLEAN /\ submitting \in BOOLEAN /\ loading \in BOOLEAN
      BY <1>3, TabsAssumption DEF SessionInit
    <3>4. user = nobody
      BY DEF SessionInit
    <3> QED BY <1>3, <3>1, <3>2, <3>3, <3>4, SessionAssumption DEF SessionShape, Issued
  <2> QED BY <2>1, <2>2 DEF SessionInv
<1> QED BY <1>2, <1>3 DEF SessionInit

(* Whether a page reads when it is mounted is known for every tab. *)
LEMMA TabReads == \A tab \in Tabs : Reads(tab) \in BOOLEAN /\ Polls(tab) \in BOOLEAN
<1> DEFINE Known(p) == p.reads \in BOOLEAN /\ p.polls \in BOOLEAN
           AllPages == {DashboardPage, AppUsersPage, AppVersionsPage,
                        BlockchainOverviewPage, BlocksPage, TransactionsPage,
                        IndexerMonitorPage, MarketsPage, DiscoverPage, SearchIndexPage,
                        ValidatorsPage, StakingPage, PerpsRiskPage, NotificationsPage,
                        OperationsPage, SecurityAdminsPage, AuditLogsPage,
                        FeatureFlagsPage}
<1>1. \A perm : \A r \in BOOLEAN : \A p \in BOOLEAN : Known(Page(perm, r, p))
  BY DEF Page
<1>5. \A perm : Known(PublicPage(perm))
  BY DEF PublicPage
<1>2. \A tab \in DOMAIN navItems : navItems[tab] \in AllPages
  BY DEF navItems
<1> HIDE DEF Known
<1>3. \A p \in AllPages : Known(p)
  BY <1>1, <1>5 DEF DashboardPage, AppUsersPage, AppVersionsPage, BlockchainOverviewPage,
              BlocksPage, TransactionsPage, IndexerMonitorPage, MarketsPage,
              DiscoverPage, SearchIndexPage, ValidatorsPage, StakingPage, PerpsRiskPage,
              NotificationsPage, OperationsPage, SecurityAdminsPage, AuditLogsPage,
              FeatureFlagsPage
<1>4. \A tab \in DOMAIN navItems : Known(navItems[tab])
  BY <1>2, <1>3
<1> QED BY <1>4, TabsAssumption DEF Reads, Polls, Known

(* What ShowLogin leaves behind, given the requests c it starts from. *)
LEMMA ShowLoginSound ==
    ASSUME SessionInv, NEW c, SoundCalls(c, Len(owner)), NEW busy \in BOOLEAN, ShowLogin(c, busy),
           busy => Has(c, "login") \/ Has(c, "loginMe")
    PROVE  /\ user' = nobody /\ isLoading' = FALSE /\ loading' = FALSE /\ submitting' \in BOOLEAN
           /\ SoundCalls(calls', Len(owner)) /\ Waits'
<1>1. user' = nobody /\ isLoading' = FALSE /\ loading' = FALSE /\ submitting' = (user = nobody /\ busy)
  BY DEF ShowLogin
<1>2. user = nobody => calls' = c
  BY DEF ShowLogin
<1>3. user # nobody => calls' = ShellGone(c)
  BY DEF ShowLogin
<1>4. SoundCalls(calls', Len(owner))
  BY <1>2, <1>3, ShellGoneSound
<1>5. submitting' \in BOOLEAN /\ (submitting' => user = nobody /\ busy)
  BY <1>1
<1>6. submitting' => Has(calls', "login") \/ Has(calls', "loginMe")
  BY <1>2, <1>5
<1>7. Waits'
  BY <1>1, <1>6 DEF Waits
<1> QED BY <1>1, <1>4, <1>5, <1>7

(* What ShowShell leaves behind. *)
LEMMA ShowShellSound ==
    ASSUME SessionInv, NEW c, SoundCalls(c, Len(owner)), NEW u \in Admins, ShowShell(u, c),
           \A j : Has(calls, j) /\ j \notin {"me", "loginMe"} => Has(c, j)
    PROVE  /\ user' = u /\ isLoading' = FALSE /\ submitting' = FALSE /\ loading' \in BOOLEAN
           /\ SoundCalls(calls', Len(owner)) /\ Waits'
<1> DEFINE t == Credential(activeTab)
<1>1. user' = u /\ isLoading' = FALSE /\ submitting' = FALSE
  BY DEF ShowShell
<1>2. loading' = IF user = nobody THEN Reads(activeTab) ELSE loading
  BY DEF ShowShell
<1>3. calls' = IF user # nobody THEN c
               ELSE IF Reads(activeTab) THEN Send(LoginGone(c), "read", t)
               ELSE LoginGone(c)
  BY DEF ShowShell
<1>4. Reads(activeTab) \in BOOLEAN
  BY TabReads DEF SessionInv, SessionShape
<1>5. t \in Credentials
  BY CredentialTyped DEF SessionInv
<1>6. SoundCalls(LoginGone(c), Len(owner))
  BY LoginGoneSound
<1> HIDE DEF t
<1>7. /\ SoundCalls(Send(LoginGone(c), "read", t), Len(owner))
      /\ Has(Send(LoginGone(c), "read", t), "read")
  BY <1>5, <1>6, SendSound DEF Kinds, PageKinds
<1>8. SoundCalls(calls', Len(owner))
  BY <1>3, <1>6, <1>7
<1>9. loading' \in BOOLEAN /\ (loading' => Has(calls', "read"))
  <2>1. CASE user = nobody
    BY <1>2, <1>3, <1>4, <1>7, <2>1
  <2>2. CASE user # nobody
    BY <1>2, <1>3, <2>2 DEF SessionInv, SessionShape, Waits
  <2> QED BY <2>1, <2>2
<1>10. Waits'
  BY <1>1, <1>9 DEF Waits
<1> QED BY <1>1, <1>8, <1>9, <1>10

(* A request is taken from those under way. *)
LEMMA DeliveredSound ==
    ASSUME NEW n, SoundCalls(calls, n), NEW k, NEW t, NEW s
    PROVE  /\ SoundCalls(Delivered(k, t, s), n)
           /\ \A j : Has(calls, j) /\ j # k => Has(Delivered(k, t, s), j)
<1>1. Call(k, t, s).kind = k
  BY DEF Call
<1> QED BY <1>1, TakenSound DEF Delivered, Minus

(* An answered request carries a token that was issued, if it was accepted. *)
LEMMA ArrivedSound ==
    ASSUME NEW n, SoundCalls(calls, n), NEW k, NEW t, NEW s, Arrives(k, t, s)
    PROVE  /\ s = "ok" => t \in 1..n \/ t = Public
           /\ t = Public => k \in PageKinds
<1>1. Call(k, t, s) \in BagToSet(calls)
  BY DEF Arrives, BagIn
<1>2. Call(k, t, s).at = s /\ Call(k, t, s).token = t /\ Call(k, t, s).kind = k
  BY DEF Call
<1> QED BY <1>1, <1>2 DEF SoundCalls

(* The session ends: no token is stored, no profile is held. *)
LEMMA EndedShape ==
    ASSUME SessionShape, token' \in {0, token}, user' = nobody,
           isLoading' \in BOOLEAN, loading' \in BOOLEAN, submitting' \in BOOLEAN,
           UNCHANGED <<owner, live, activeTab>>
    PROVE  SessionShape'
<1>1. Len(owner) \in Nat
  BY DEF SessionShape
<1>2. token' \in 0..Len(owner')
  BY <1>1 DEF SessionShape
<1>3. live' \subseteq Issued'
  BY DEF SessionShape, Issued
<1>4. user' \in Admins \cup {nobody}
  OBVIOUS
<1> QED BY <1>2, <1>3, <1>4 DEF SessionShape

(* A token is issued and stored. *)
LEMMA IssuedShape ==
    ASSUME SessionShape, NEW u \in Admins, Len(owner) < MaxTokens, owner' = Append(owner, u),
           live' = live \cup {Len(owner) + 1}, token' = Len(owner) + 1,
           UNCHANGED <<user, isLoading, submitting, activeTab, loading>>
    PROVE  SessionShape' /\ Len(owner') = Len(owner) + 1
<1>1. Len(owner) \in Nat /\ MaxTokens \in Nat /\ owner \in Seq(Admins)
  BY SessionAssumption DEF SessionShape
<1>2. owner' \in Seq(Admins) /\ Len(owner') = Len(owner) + 1
  BY <1>1
<1>3. live' \subseteq Issued' /\ token' \in 0..Len(owner') /\ Len(owner') <= MaxTokens
  <2>1. PICK n \in Nat : n = Len(owner)
    BY <1>1
  <2>2. live \subseteq 1..n
    BY <2>1 DEF SessionShape, Issued
  <2>3. Issued' = 1..(n + 1) /\ Len(owner') = n + 1
    BY <1>2, <2>1 DEF Issued
  <2>4. live' = live \cup {n + 1} /\ token' = n + 1 /\ n < MaxTokens
    BY <2>1
  <2>5. live' \subseteq 1..(n + 1)
    <3>1. \A i \in 1..n : i \in 1..(n + 1)
      OBVIOUS
    <3>2. n + 1 \in 1..(n + 1)
      OBVIOUS
    <3> QED BY <2>2, <2>4, <3>1, <3>2, Zenon
  <2>6. token' \in 0..(n + 1)
    BY <2>4
  <2>7. n + 1 <= MaxTokens
    BY <1>1, <2>4
  <2> QED BY <2>3, <2>5, <2>6, <2>7
<1> QED BY <1>2, <1>3 DEF SessionShape

(* An answer of the profile request keeps the invariant. *)
LEMMA CheckAuthStep ==
    ASSUME SessionInv, NEW k, NEW t, NEW s, checkAuthAnswered(k, t, s)
    PROVE  SessionInv'
<1> DEFINE c == Delivered(k, t, s)
           busy == submitting /\ k # "loginMe"
<1>0. SessionShape /\ SoundCalls(calls, Len(owner)) /\ Waits
  BY DEF SessionInv
<1>1. k \in {"me", "loginMe"} /\ Arrives(k, t, s) /\ UNCHANGED <<owner, live, activeTab>>
  BY DEF checkAuthAnswered
<1>2. \/ s = "ok" /\ ShowShell(owner[t], c) /\ UNCHANGED token
      \/ s = "401" /\ Unauthorized(c, busy)
      \/ s = "failed" /\ ShowLogin(c, busy) /\ UNCHANGED token
  BY DEF checkAuthAnswered
<1>3. SoundCalls(c, Len(owner)) /\ \A j : Has(calls, j) /\ j # k => Has(c, j)
  BY <1>0, DeliveredSound
<1>4. s = "ok" => t \in 1..Len(owner)
  BY <1>0, <1>1, ArrivedSound DEF PageKinds
<1>5. busy \in BOOLEAN /\ (busy => Has(c, "login") \/ Has(c, "loginMe"))
  BY <1>0, <1>1, <1>3 DEF Waits, SessionShape
<1> HIDE DEF c, busy
<1>6. CASE s = "ok" /\ ShowShell(owner[t], c) /\ UNCHANGED token
  <2>1. owner[t] \in Admins
    BY <1>0, <1>4, <1>6 DEF SessionShape
  <2>2. \A j : Has(calls, j) /\ j \notin {"me", "loginMe"} => Has(c, j)
    BY <1>1, <1>3
  <2>3. /\ user' = owner[t] /\ isLoading' = FALSE /\ submitting' = FALSE /\ loading' \in BOOLEAN
        /\ SoundCalls(calls', Len(owner)) /\ Waits'
    BY <1>3, <1>6, <2>1, <2>2, ShowShellSound
  <2>4. SessionShape'
    BY <1>0, <1>1, <1>6, <2>1, <2>3 DEF SessionShape, Issued
  <2> QED BY <1>1, <2>3, <2>4 DEF SessionInv
<1>7. CASE ShowLogin(c, busy) /\ token' \in {0, token}
  <2>1. /\ user' = nobody /\ isLoading' = FALSE /\ loading' = FALSE /\ submitting' \in BOOLEAN
        /\ SoundCalls(calls', Len(owner)) /\ Waits'
    BY <1>3, <1>5, <1>7, ShowLoginSound
  <2>2. SessionShape'
    BY <1>0, <1>1, <1>7, <2>1, EndedShape
  <2> QED BY <1>1, <2>1, <2>2 DEF SessionInv
<1> QED BY <1>2, <1>6, <1>7 DEF Unauthorized

(* An answer of a page's request keeps the invariant. *)
LEMMA PageStep ==
    ASSUME SessionInv, NEW k, NEW t, NEW s, pageAnswered(k, t, s)
    PROVE  SessionInv'
<1> DEFINE c == Delivered(k, t, s)
<1>0. SessionShape /\ SoundCalls(calls, Len(owner)) /\ Waits
  BY DEF SessionInv
<1>1. k \in {"read", "stray"} /\ UNCHANGED <<owner, live, activeTab>>
  BY DEF pageAnswered
<1>2. \/ Unauthorized(c, submitting)
      \/ /\ calls' = c
         /\ loading' = (loading /\ k # "read")
         /\ UNCHANGED <<token, user, isLoading, submitting>>
  BY DEF pageAnswered
<1>3. SoundCalls(c, Len(owner)) /\ \A j : Has(calls, j) /\ j # k => Has(c, j)
  BY <1>0, DeliveredSound
<1>4. submitting \in BOOLEAN /\ (submitting => Has(c, "login") \/ Has(c, "loginMe"))
  BY <1>0, <1>1, <1>3 DEF Waits, SessionShape
<1> HIDE DEF c
<1>5. CASE Unauthorized(c, submitting)
  <2>1. token' = 0 /\ ShowLogin(c, submitting)
    BY <1>5 DEF Unauthorized
  <2>2. /\ user' = nobody /\ isLoading' = FALSE /\ loading' = FALSE /\ submitting' \in BOOLEAN
        /\ SoundCalls(calls', Len(owner)) /\ Waits'
    BY <1>3, <1>4, <2>1, ShowLoginSound
  <2>3. SessionShape'
    BY <1>0, <1>1, <2>1, <2>2, EndedShape
  <2> QED BY <1>1, <2>2, <2>3 DEF SessionInv
<1>6. CASE /\ calls' = c
           /\ loading' = (loading /\ k # "read")
           /\ UNCHANGED <<token, user, isLoading, submitting>>
  <2>1. loading' \in BOOLEAN /\ (loading' => loading /\ k # "read")
    BY <1>0, <1>6 DEF SessionShape
  <2>2. SessionShape'
    BY <1>0, <1>1, <1>6, <2>1 DEF SessionShape, Issued
  <2>3. Waits'
    BY <1>0, <1>1, <1>3, <1>4, <1>6, <2>1 DEF Waits
  <2> QED BY <1>1, <1>3, <1>6, <2>2, <2>3 DEF SessionInv
<1> QED BY <1>2, <1>5, <1>6

(* The login page's steps keep the invariant. *)
LEMMA LoginStep ==
    ASSUME SessionInv,
           handleSubmit \/ \E k \in Kinds : loginRefused(k) \/ \E u \in Admins : loginAccepted(k, u)
    PROVE  SessionInv'
<1>0. SessionShape /\ SoundCalls(calls, Len(owner)) /\ Waits
  BY DEF SessionInv
<1>a. Len(owner) \in Nat /\ MaxTokens \in Nat
  BY <1>0, SessionAssumption DEF SessionShape
<1>1. CASE handleSubmit
  <2>1. /\ SoundCalls(Send(calls, "login", 0), Len(owner))
        /\ Has(Send(calls, "login", 0), "login")
        /\ \A j : Has(calls, j) => Has(Send(calls, "login", 0), j)
    <3>1. 0 \in Credentials /\ 0 # Public
      BY <1>a, TokensAreCredentials
    <3> QED BY <1>0, <3>1, SendSound DEF Kinds
  <2>2. /\ submitting' = TRUE /\ calls' = Send(calls, "login", 0)
        /\ UNCHANGED <<token, owner, live, user, isLoading, activeTab, loading>>
    BY <1>1 DEF handleSubmit
  <2>3. SessionShape'
    BY <1>0, <2>2 DEF SessionShape, Issued
  <2>4. Waits'
    BY <1>0, <2>1, <2>2 DEF Waits
  <2> QED BY <2>1, <2>2, <2>3, <2>4 DEF SessionInv
<1>2. ASSUME NEW k \in Kinds, loginRefused(k) PROVE SessionInv'
  <2> DEFINE c == Delivered(k, 0, "sent")
  <2>1. SoundCalls(c, Len(owner)) /\ \A j : Has(calls, j) /\ j # k => Has(c, j)
    BY <1>0, DeliveredSound
  <2>2. /\ k \in {"login", "oldLogin"} /\ submitting' = (submitting /\ k # "login") /\ calls' = c
        /\ UNCHANGED <<token, owner, live, user, isLoading, activeTab, loading>>
    BY <1>2 DEF loginRefused
  <2> HIDE DEF c
  <2>3. submitting' \in BOOLEAN /\ (submitting' => submitting /\ k # "login")
    BY <1>0, <2>2 DEF SessionShape
  <2>4. SessionShape'
    BY <1>0, <2>2, <2>3 DEF SessionShape, Issued
  <2>5. Waits'
    BY <1>0, <2>1, <2>2, <2>3 DEF Waits
  <2> QED BY <2>1, <2>2, <2>4, <2>5 DEF SessionInv
<1>3. ASSUME NEW k \in Kinds, NEW u \in Admins, loginAccepted(k, u) PROVE SessionInv'
  <2> DEFINE n == Len(owner)
             t == n + 1
             c == Delivered(k, 0, "sent")
             d == Send(c, "me", t)
             m == IF k = "login" THEN "loginMe" ELSE "me"
             e == Send(d, m, t)
  <2>1. /\ k \in {"login", "oldLogin"} /\ n < MaxTokens
        /\ owner' = Append(owner, u) /\ live' = live \cup {t} /\ token' = t
        /\ calls' = e
        /\ UNCHANGED <<user, isLoading, submitting, activeTab, loading>>
    BY <1>3 DEF loginAccepted
  <2>2. Len(owner') = t /\ t \in 1..MaxTokens /\ n \in Nat
    BY <1>0, <1>a, <2>1 DEF SessionShape
  <2>3. SoundCalls(c, n) /\ \A j : Has(calls, j) /\ j # k => Has(c, j)
    BY <1>0, DeliveredSound
  <2>4. SoundCalls(c, t)
    BY <2>2, <2>3, SoundLater
  <2>5. m \in Kinds /\ "me" \in Kinds /\ (k = "login" => m = "loginMe")
    BY DEF Kinds
  <2>10. t \in Credentials /\ t # Public
    <3>1. t \in 0..MaxTokens
      BY <2>2
    <3> HIDE DEF t
    <3> QED BY <3>1, TokensAreCredentials
  <2> HIDE DEF c, m, t
  <2>6. SoundCalls(d, t) /\ \A j : Has(c, j) => Has(d, j)
    BY <2>4, <2>5, <2>10, SendSound
  <2> HIDE DEF d
  <2>7. SoundCalls(e, t) /\ Has(e, m) /\ \A j : Has(d, j) => Has(e, j)
    BY <2>5, <2>6, <2>10, SendSound
  <2> HIDE DEF e
  <2>8. SessionShape'
    BY <1>0, <2>1, IssuedShape DEF t
  <2>9. Waits'
    BY <1>0, <2>1, <2>3, <2>5, <2>6, <2>7 DEF Waits
  <2> QED BY <2>1, <2>2, <2>7, <2>8, <2>9 DEF SessionInv
<1> QED BY <1>1, <1>2, <1>3

(* The shell's steps keep the invariant. *)
LEMMA ShellStep ==
    ASSUME SessionInv, logout \/ (\E tab \in Tabs : onSelectTab(tab)) \/ pagePolls
    PROVE  SessionInv'
<1>0. SessionShape /\ SoundCalls(calls, Len(owner)) /\ Waits
  BY DEF SessionInv
<1>a. Len(owner) \in Nat /\ MaxTokens \in Nat /\ token \in 0..MaxTokens
  BY <1>0, SessionAssumption DEF SessionShape
<1>1. CASE logout
  <2>1. token' = 0 /\ ShowLogin(calls, FALSE) /\ UNCHANGED <<owner, live, activeTab>>
    BY <1>1 DEF logout
  <2>2. /\ user' = nobody /\ isLoading' = FALSE /\ loading' = FALSE /\ submitting' \in BOOLEAN
        /\ SoundCalls(calls', Len(owner)) /\ Waits'
    BY <1>0, <2>1, ShowLoginSound
  <2>3. SessionShape'
    BY <1>0, <2>1, <2>2, EndedShape
  <2> QED BY <2>1, <2>2, <2>3 DEF SessionInv
<1>2. ASSUME NEW tab \in Tabs, onSelectTab(tab) PROVE SessionInv'
  <2> DEFINE c == ShellGone(calls)
             t == Credential(tab)
  <2>1. SoundCalls(c, Len(owner)) /\ \A j : Has(calls, j) /\ j # "read" => Has(c, j)
    BY <1>0, ShellGoneSound
  <2>2. /\ ~isLoading /\ activeTab' = tab /\ loading' = Reads(tab)
        /\ calls' = IF Reads(tab) THEN Send(c, "read", t) ELSE c
        /\ UNCHANGED <<token, owner, live, user, isLoading, submitting>>
    BY <1>2 DEF onSelectTab, Shell
  <2>0. t \in Credentials
    BY <1>0, CredentialTyped
  <2> HIDE DEF c, t
  <2>3. /\ SoundCalls(Send(c, "read", t), Len(owner))
        /\ Has(Send(c, "read", t), "read")
        /\ \A j : Has(c, j) => Has(Send(c, "read", t), j)
    BY <2>0, <2>1, SendSound DEF Kinds, PageKinds
  <2>4. Reads(tab) \in BOOLEAN
    BY TabReads
  <2>5. SessionShape'
    BY <1>0, <2>2, <2>4 DEF SessionShape, Issued
  <2>6. SoundCalls(calls', Len(owner))
    BY <2>1, <2>2, <2>3
  <2>7. Waits'
    BY <1>0, <2>1, <2>2, <2>3, <2>4 DEF Waits
  <2> QED BY <2>2, <2>5, <2>6, <2>7 DEF SessionInv
<1>3. CASE pagePolls
  <2> DEFINE t == Credential(activeTab)
  <2>0. t \in Credentials
    BY <1>0, CredentialTyped
  <2>1. /\ SoundCalls(Send(calls, "read", t), Len(owner))
        /\ Has(Send(calls, "read", t), "read")
        /\ \A j : Has(calls, j) => Has(Send(calls, "read", t), j)
    <3> HIDE DEF t
    <3> QED BY <1>0, <2>0, SendSound DEF Kinds, PageKinds
  <2>2. /\ loading' = TRUE /\ calls' = Send(calls, "read", t)
        /\ UNCHANGED <<token, owner, live, user, isLoading, submitting, activeTab>>
    BY <1>3 DEF pagePolls
  <2>3. SessionShape'
    BY <1>0, <2>2 DEF SessionShape, Issued
  <2>4. Waits'
    BY <1>0, <2>1, <2>2 DEF Waits
  <2> QED BY <2>1, <2>2, <2>3, <2>4 DEF SessionInv
<1> QED BY <1>1, <1>2, <1>3

(* The server's steps and those of other windows keep the invariant. *)
LEMMA ServerStep ==
    ASSUME SessionInv, ServerNext
    PROVE  SessionInv'
<1>0. SessionShape /\ SoundCalls(calls, Len(owner)) /\ Waits
  BY DEF SessionInv
<1>a. Len(owner) \in Nat /\ MaxTokens \in Nat
  BY <1>0, SessionAssumption DEF SessionShape
<1>1. ASSUME NEW k \in Kinds, NEW t \in Credentials, Serve(k, t) \/ Fail(k, t)
      PROVE  SessionInv'
  <2>1. PICK s \in Stages : calls' = Moved(k, t, s) /\ (s = "ok" => t \in live \/ t = Public)
    BY <1>1 DEF Serve, Fail, Stages, StatusOf
  <2>7. t = Public => k \in PageKinds
    BY <1>0, <1>1, ArrivedSound DEF Serve, Fail
  <2>2. UNCHANGED <<token, owner, live, user, isLoading, submitting, activeTab, loading>>
    BY <1>1 DEF Serve, Fail
  <2>3. s = "ok" => t \in 1..Len(owner) \/ t = Public
    BY <1>0, <2>1 DEF SessionShape, Issued
  <2>4. /\ SoundCalls(Moved(k, t, s), Len(owner))
        /\ \A j : Has(calls, j) => Has(Moved(k, t, s), j)
    BY <1>0, <2>3, <2>7, MovedSound
  <2>5. SessionShape'
    BY <1>0, <2>2 DEF SessionShape, Issued
  <2>6. Waits'
    BY <1>0, <2>1, <2>2, <2>4 DEF Waits
  <2> QED BY <2>1, <2>2, <2>4, <2>5, <2>6 DEF SessionInv
<1>2. ASSUME NEW t \in 1..MaxTokens, Expire(t) PROVE SessionInv'
  BY <1>0, <1>2 DEF Expire, SessionInv, SessionShape, Issued, Waits
<1>3. ASSUME NEW u \in Admins, OtherWindowLogin(u) PROVE SessionInv'
  <2>1. /\ Len(owner) < MaxTokens /\ owner' = Append(owner, u)
        /\ live' = live \cup {Len(owner) + 1} /\ token' = Len(owner) + 1
        /\ UNCHANGED <<user, isLoading, submitting, activeTab, loading, calls>>
    BY <1>3 DEF OtherWindowLogin
  <2>2. Len(owner') = Len(owner) + 1
    BY <1>0, <2>1, IssuedShape
  <2>3. SessionShape'
    BY <1>0, <2>1, IssuedShape
  <2>4. SoundCalls(calls, Len(owner) + 1)
    BY <1>0, <1>a, SoundLater
  <2>5. Waits'
    BY <1>0, <2>1 DEF Waits
  <2> QED BY <2>1, <2>2, <2>3, <2>4, <2>5 DEF SessionInv
<1>4. CASE OtherWindowLogout
  BY <1>0, <1>4 DEF OtherWindowLogout, SessionInv, SessionShape, Issued, Waits
<1> QED BY <1>1, <1>2, <1>3, <1>4 DEF ServerNext, Served

(* Every step of the session keeps the invariant. *)
LEMMA SessionStep == SessionInv /\ SessionNext => SessionInv'
BY CheckAuthStep, PageStep, LoginStep, ShellStep, ServerStep DEF SessionNext, Answers

(* What the session's run checks follows. *)
LEMMA SessionInvImplies == SessionInv => SessionTypeOK /\ WaitsForSomething
<1> SUFFICES ASSUME SessionInv PROVE SessionTypeOK /\ WaitsForSomething
  OBVIOUS
<1>1. SessionTypeOK
  BY DEF SessionInv, SessionShape, SoundCalls, FiniteBag, SessionTypeOK
<1>2. WaitsForSomething
  BY DEF SessionInv, Waits, Has, WaitsForSomething
<1> QED BY <1>1, <1>2

-----------------------------------------------------------------------------
(***************************************************************************)
(* The feature flag page.                                                   *)
(***************************************************************************)
Changes == [name : Flags, targetState : BOOLEAN]
Phrases == Critical \cup {"", "other"}
Outcomes == {"sent", "ok", "failed"}
Patches == [op : {"patch", "orphan"}, change : Changes, phrase : Phrases, at : Outcomes]
Gets == [op : {"get"}, flags : Snapshot \cup {Nothing}, at : Outcomes]

(* A PATCH that was confirmed in a dialog of its own flag. *)
Confirmed(r) == r.change.name \in Critical => r.phrase = r.change.name

SoundRequests(c) ==
    /\ BagToSet(c) \subseteq Patches \cup Gets
    /\ \A r \in BagToSet(c) : r.op # "get" => Confirmed(r)

FlagsShape ==
    /\ server \in Snapshot
    /\ listed \in Snapshot \cup {Nothing}
    /\ pendingFlag \subseteq Changes
    /\ typedValue \in Phrases

FlagsInv == FlagsShape /\ SoundRequests(requests)

(* The two kinds of requests are told apart by op. *)
LEMMA RequestKinds ==
    ASSUME NEW r \in Patches \cup Gets
    PROVE  /\ r.op # "get" => r \in Patches
           /\ r.op = "get" => r \in Gets
BY DEF Patches, Gets

(* A read of the list, at any stage. *)
LEMMA GetSound ==
    ASSUME NEW snap \in Snapshot \cup {Nothing}, NEW at \in Outcomes
    PROVE  Get(snap, at) \in Gets /\ Get(snap, at).op = "get"
BY DEF Get, Gets

(* A PATCH that moves on is the same change with the same phrase. *)
LEMMA PatchMoves ==
    ASSUME NEW r \in Patches, Confirmed(r)
    PROVE  /\ \A a \in Outcomes : [r EXCEPT !.at = a] \in Patches /\ Confirmed([r EXCEPT !.at = a])
           /\ [r EXCEPT !.op = "orphan"] \in Patches /\ Confirmed([r EXCEPT !.op = "orphan"])
BY DEF Patches, Confirmed

(* Requests that come and go one at a time. *)
LEMMA RequestSets ==
    ASSUME SoundRequests(requests), NEW r
    PROVE  /\ SoundRequests(requests (-) SetToBag({r}))
           /\ \A q : q \in Gets \/ (q \in Patches /\ Confirmed(q)) =>
                       SoundRequests(Begin(q)) /\ SoundRequests(Replace(r, q))
<1> DEFINE c == requests (-) SetToBag({r})
<1>1. BagToSet(c) \subseteq BagToSet(requests)
  BY DEF BagToSet, SetToBag, (-)
<1>2. SoundRequests(c)
  BY <1>1 DEF SoundRequests
<1>3. \A q : /\ BagToSet(Begin(q)) = BagToSet(requests) \cup {q}
             /\ BagToSet(Replace(r, q)) = BagToSet(c) \cup {q}
  BY DEF BagToSet, SetToBag, (+), Begin, Replace
<1> HIDE DEF c
<1>4. \A q \in Gets : q.op = "get"
  BY DEF Gets
<1>5. ASSUME NEW q, q \in Gets \/ (q \in Patches /\ Confirmed(q))
      PROVE  SoundRequests(Begin(q)) /\ SoundRequests(Replace(r, q))
  BY <1>2, <1>3, <1>4, <1>5 DEF SoundRequests
<1> QED BY <1>2, <1>5 DEF c

(* The page as it is opened. *)
LEMMA FlagsInitial == FlagsInit => FlagsInv
<1> SUFFICES ASSUME FlagsInit PROVE FlagsInv
  OBVIOUS
<1>1. Get(Nothing, "sent") \in Gets /\ Get(Nothing, "sent").op = "get"
  BY GetSound DEF Outcomes
<1>2. BagToSet(requests) = {Get(Nothing, "sent")}
  BY SingletonBag DEF FlagsInit
<1>3. SoundRequests(requests)
  BY <1>1, <1>2 DEF SoundRequests
<1>4. FlagsShape
  BY DEF FlagsInit, FlagsShape, Phrases
<1> QED BY <1>3, <1>4 DEF FlagsInv

(* Leaving the page orphans the PATCHes on their way. *)
LEMMA RemountSound ==
    ASSUME FlagsInv, remount
    PROVE  FlagsInv'
<1> DEFINE U == {r \in BagToSet(requests) : r.op # "get" /\ r.at = "sent"}
           B == [r \in U |-> requests[r]]
           f == [r \in U |-> [r EXCEPT !.op = "orphan"]]
           g == Get(Nothing, "sent")
<1>1. Orphans = Renamed(B, f)
  BY DEF Orphans
<1>2. BagToSet(Renamed(B, f)) = {[r EXCEPT !.op = "orphan"] : r \in U}
  BY DEF BagToSet, Renamed
<1>3. \A r \in U : r \in Patches /\ Confirmed(r)
  BY RequestKinds DEF FlagsInv, SoundRequests
<1>4. \A r \in U : [r EXCEPT !.op = "orphan"] \in Patches /\ Confirmed([r EXCEPT !.op = "orphan"])
  BY <1>3, PatchMoves
<1>5. requests' = Orphans (+) SetToBag({g})
  BY DEF remount
<1>6. BagToSet(requests') = BagToSet(Orphans) \cup {g}
  BY <1>5 DEF BagToSet, SetToBag, (+)
<1>7. g \in Gets /\ g.op = "get"
  BY GetSound DEF Outcomes
<1> HIDE DEF U, g, B, f
<1>8. SoundRequests(requests')
  BY <1>1, <1>2, <1>4, <1>6, <1>7 DEF SoundRequests
<1>9. FlagsShape'
  BY DEF remount, FlagsInv, FlagsShape, Phrases
<1> QED BY <1>8, <1>9 DEF FlagsInv

(* Every step of the page keeps the invariant. *)
LEMMA FlagsStep == FlagsInv /\ FlagsNext => FlagsInv'
<1> SUFFICES ASSUME FlagsInv, FlagsNext PROVE FlagsInv'
  OBVIOUS
<1>0. FlagsShape /\ SoundRequests(requests)
  BY DEF FlagsInv
<1>1. ASSUME NEW f \in Flags, handleToggleAttempt(f) PROVE FlagsInv'
  <2>1. f \in DOMAIN listed /\ pendingFlag' = {[name |-> f, targetState |-> ~listed[f]]}
    BY <1>1 DEF handleToggleAttempt
  <2>2. listed[f] \in BOOLEAN
    BY <1>0, <2>1 DEF FlagsShape, Snapshot, Nothing
  <2>3. [name |-> f, targetState |-> ~listed[f]] \in Changes
    BY <2>2 DEF Changes
  <2> QED BY <1>0, <1>1, <2>1, <2>3 DEF handleToggleAttempt, FlagsInv, FlagsShape
<1>2. ASSUME NEW v \in Critical \cup {"", "other"}, typePhrase(v) PROVE FlagsInv'
  BY <1>0, <1>2 DEF typePhrase, FlagsInv, FlagsShape, Phrases
<1>3. CASE onCancel
  BY <1>0, <1>3 DEF onCancel, FlagsInv, FlagsShape
<1>4. CASE handleConfirmToggle
  <2>1. PICK p \in pendingFlag : isConfirmed(p) /\ requests' = Begin(Patch(p, typedValue))
    BY <1>4 DEF handleConfirmToggle
  <2>2. p \in Changes /\ typedValue \in Phrases
    BY <1>0 DEF FlagsShape
  <2>3. Patch(p, typedValue) \in Patches /\ Confirmed(Patch(p, typedValue))
    BY <2>1, <2>2 DEF Patch, Patches, Outcomes, Confirmed, isConfirmed
  <2>4. SoundRequests(requests')
    BY <1>0, <2>1, <2>3, RequestSets
  <2> QED BY <1>0, <1>4, <2>4 DEF handleConfirmToggle, FlagsInv, FlagsShape, Phrases
<1>5. ASSUME NEW r \in BagToSet(requests), serverTakes(r) PROVE FlagsInv'
  <2>1. r \in Patches \cup Gets /\ (r.op # "get" => Confirmed(r))
    BY <1>0 DEF SoundRequests
  <2>2. CASE /\ r.op = "patch"
             /\ update_feature_flag(r.change)
             /\ requests' = Replace(r, [r EXCEPT !.at = IF Blocked(r.change) THEN "failed"
                                                        ELSE "ok"])
    <3> DEFINE a == IF Blocked(r.change) THEN "failed" ELSE "ok"
    <3>1. r \in Patches /\ Confirmed(r)
      BY <2>1, <2>2, RequestKinds
    <3>2. [r EXCEPT !.at = a] \in Patches /\ Confirmed([r EXCEPT !.at = a])
      BY <3>1, PatchMoves DEF Outcomes
    <3>3. SoundRequests(requests')
      BY <1>0, <2>2, <3>2, RequestSets
    <3>4. server' \in Snapshot
      BY <1>0, <2>2, <3>1 DEF update_feature_flag, FlagsShape, Snapshot, Patches, Changes
    <3> QED BY <1>0, <1>5, <3>3, <3>4 DEF serverTakes, FlagsInv, FlagsShape
  <2>3. CASE r.op = "get" /\ requests' = Replace(r, Get(server, "ok")) /\ UNCHANGED server
    <3>1. Get(server, "ok") \in Gets
      BY <1>0, GetSound DEF FlagsShape, Outcomes
    <3>2. SoundRequests(requests')
      BY <1>0, <2>3, <3>1, RequestSets
    <3> QED BY <1>0, <1>5, <2>3, <3>2 DEF serverTakes, FlagsInv, FlagsShape
  <2> QED BY <1>5, <2>2, <2>3 DEF serverTakes
<1>6. ASSUME NEW r \in BagToSet(requests), orphanTaken(r) PROVE FlagsInv'
  <2>1. r \in Patches
    BY <1>0, <1>6, RequestKinds DEF SoundRequests, orphanTaken
  <2>2. SoundRequests(requests')
    BY <1>0, <1>6, RequestSets DEF orphanTaken
  <2>3. server' \in Snapshot
    BY <1>0, <1>6, <2>1 DEF orphanTaken, update_feature_flag, FlagsShape, Snapshot, Patches,
       Changes
  <2> QED BY <1>0, <1>6, <2>2, <2>3 DEF orphanTaken, FlagsInv, FlagsShape
<1>7. ASSUME NEW r \in BagToSet(requests), connectionFails(r) PROVE FlagsInv'
  <2>1. r \in Patches \cup Gets /\ (r.op # "get" => Confirmed(r))
    BY <1>0 DEF SoundRequests
  <2> DEFINE q == IF r.op = "get" THEN Get(Nothing, "failed") ELSE [r EXCEPT !.at = "failed"]
  <2>2. q \in Gets \/ (q \in Patches /\ Confirmed(q))
    BY <2>1, RequestKinds, GetSound, PatchMoves DEF Outcomes
  <2>3. requests' = Replace(r, q)
    BY <1>7 DEF connectionFails
  <2> HIDE DEF q
  <2>4. SoundRequests(requests')
    BY <1>0, <2>2, <2>3, RequestSets
  <2> QED BY <1>0, <1>7, <2>4 DEF connectionFails, FlagsInv, FlagsShape
<1>8. ASSUME NEW r \in BagToSet(requests), patchAnswered(r) PROVE FlagsInv'
  <2>1. Get(Nothing, "sent") \in Gets
    BY GetSound DEF Outcomes
  <2>2. SoundRequests(requests')
    BY <1>0, <1>8, <2>1, RequestSets DEF patchAnswered
  <2> QED BY <1>0, <1>8, <2>2 DEF patchAnswered, FlagsInv, FlagsShape
<1>9. ASSUME NEW r \in BagToSet(requests), fetchFlagsAnswered(r) PROVE FlagsInv'
  <2>1. r \in Gets
    BY <1>0, <1>9, RequestKinds DEF SoundRequests, fetchFlagsAnswered
  <2>2. r.flags \in Snapshot \cup {Nothing}
    BY <2>1 DEF Gets
  <2>3. SoundRequests(requests')
    BY <1>0, <1>9, RequestSets DEF fetchFlagsAnswered
  <2> QED BY <1>0, <1>9, <2>2, <2>3 DEF fetchFlagsAnswered, FlagsInv, FlagsShape
<1>10. CASE remount
  BY <1>10, RemountSound
<1> QED BY <1>1, <1>2, <1>3, <1>4, <1>5, <1>6, <1>7, <1>8, <1>9, <1>10 DEF FlagsNext

(* A PATCH taken changes the flag it names, to the value it names. *)
LEMMA TakenChange ==
    ASSUME FlagsInv, NEW r \in BagToSet(requests), r.op # "get",
           server' = [server EXCEPT ![r.change.name] = r.change.targetState]
    PROVE  OnlyConfirmedChange
<1>1. r \in Patches /\ Confirmed(r)
  BY RequestKinds DEF FlagsInv, SoundRequests
<1>2. server \in [Flags -> BOOLEAN] /\ r.change \in Changes
  BY <1>1 DEF FlagsInv, FlagsShape, Snapshot, Patches
<1>3. ASSUME NEW f \in Flags, server'[f] # server[f]
      PROVE  /\ r.change = [name |-> f, targetState |-> server'[f]]
             /\ f \in Critical => r.phrase = f
  <2>1. f = r.change.name /\ server'[f] = r.change.targetState
    BY <1>2, <1>3 DEF Changes
  <2> QED BY <1>1, <1>2, <2>1 DEF Confirmed, Changes
<1> QED BY <1>3 DEF OnlyConfirmedChange

(* Only a request the server takes changes a flag. *)
LEMMA FlagsOnlyConfirmed == FlagsInv /\ FlagsNext => OnlyConfirmedChange
<1> SUFFICES ASSUME FlagsInv, FlagsNext PROVE OnlyConfirmedChange
  OBVIOUS
<1>1. ASSUME NEW r \in BagToSet(requests), serverTakes(r) \/ orphanTaken(r) PROVE OnlyConfirmedChange
  <2>1. CASE server' = server
    BY <2>1 DEF OnlyConfirmedChange
  <2>2. CASE r.op # "get" /\ server' = [server EXCEPT ![r.change.name] = r.change.targetState]
    BY <2>2, TakenChange
  <2> QED BY <1>1, <2>1, <2>2 DEF serverTakes, orphanTaken, update_feature_flag
<1>2. CASE server' = server
  BY <1>2 DEF OnlyConfirmedChange
<1>3. \/ server' = server
      \/ \E r \in BagToSet(requests) : serverTakes(r) \/ orphanTaken(r)
  BY DEF FlagsNext, handleToggleAttempt, typePhrase, onCancel, handleConfirmToggle, connectionFails,
         patchAnswered, fetchFlagsAnswered, remount
<1> QED BY <1>1, <1>2, <1>3

-----------------------------------------------------------------------------
(***************************************************************************)
(* The pages that write.  The parts of the invariant: what is under way     *)
(* belongs to the page; at most one save, and it is of the config last      *)
(* saved; at most one request per announcement, counted against the        *)
(* failures told; a list that is coming, or there.                         *)
(***************************************************************************)
(* The write each page sends. *)
WriteOf(p) ==
    CASE p = "app_versions" -> "save"
      [] p = "notifications" -> "broadcast"
      [] p = "discover" -> "patch"
      [] p = "security_admins" -> "create"

IsPost(r) == r \in [op : {r.op}, value : {r.value}, at : {r.at}, left : {r.left}]

SoundPost(p, r) ==
    /\ IsPost(r)
    /\ r.op \in {"read", WriteOf(p)}
    /\ r.at \in Outcomes
    /\ r.left \in BOOLEAN
    /\ r.left => r.at = "sent" /\ r.op # "read"

SoundPosts ==
    /\ FiniteBag(posts)
    /\ \A r \in BagToSet(posts) : SoundPost(page, r)
    /\ calm => \A r \in BagToSet(posts) : ~r.left

Tables == EditPages \cup {"audited"}

EditsShape ==
    /\ page \in EditPages
    /\ DOMAIN stored = Tables
    /\ stored = [p \in Tables |-> stored[p]]
    /\ sending \in BOOLEAN /\ saveSuccess \in BOOLEAN /\ calm \in BOOLEAN
    /\ draft # 0 => page = "notifications"
    /\ createFor # {} => page = "security_admins"
    /\ saveSuccess => page = "app_versions"

(* While a config is being saved there is one request with it, and it is the one *)
(* saved last.                                                               *)
SavingOne(r) ==
    /\ r.op = "save" /\ posts[r] = 1 /\ r.value = {lastSaved}
    /\ r.at = "ok" => stored["audited"] = lastSaved
    /\ \A q \in BagToSet(posts) : q.op = "save" => q = r

SaveInv ==
    page = "app_versions" =>
        /\ \A r \in BagToSet(posts) : r.op = "save" => \E c \in r.value : r.value = {c}
        /\ calm /\ ~sending => \A r \in BagToSet(posts) : r.op # "save"
        /\ calm /\ sending => ~saveSuccess /\ \E r \in BagToSet(posts) : SavingOne(r)
        /\ calm /\ saveSuccess => stored["audited"] = lastSaved

(* The requests with announcement d. *)
About(d, r) == r.op = "broadcast" /\ r.value = {d}
InFlight(d) == \E r \in BagToSet(posts) : About(d, r)
Unsent(d) == \E r \in BagToSet(posts) : About(d, r) /\ r.at = "sent"

Counts ==
    /\ typed \in 0..MaxTyped /\ draft \in 0..typed
    /\ stored["notifications"] \in [Drafts -> Nat] /\ told \in [Drafts -> Nat]

Broadcasts ==
    /\ \A r \in BagToSet(posts) : r.op = "broadcast" =>
         /\ posts[r] = 1
         /\ \E d \in 1..typed : r.value = {d}
         /\ ~r.left => sending
    /\ \A r, q \in BagToSet(posts) :
         r.op = "broadcast" /\ q.op = "broadcast" /\ (r.value = q.value \/ (~r.left /\ ~q.left)) => r = q
    /\ \A r \in BagToSet(posts) : r.op = "broadcast" /\ r.left => r.value # {draft}

Repeats ==
    \A d \in Drafts :
        /\ d > typed => stored["notifications"][d] = 0
        /\ stored["notifications"][d] <= told[d] + 1
        /\ Unsent(d) => stored["notifications"][d] <= told[d]
        /\ draft = d /\ ~InFlight(d) => stored["notifications"][d] <= told[d]

BroadcastInv == Counts /\ Broadcasts /\ Repeats

(* Something under way will bring the list, or it is there. *)
ListComes ==
    \/ \E r \in BagToSet(posts) : r.at = "failed"
    \/ \E r \in BagToSet(posts) : r.op # "read" /\ r.at = "ok"
    \/ \E r \in BagToSet(posts) : r.op = "read" /\ r.at = "sent"
    \/ \E r \in BagToSet(posts) : r.op = "read" /\ r.at = "ok" /\ r.value = {stored[page]}
    \/ shown = {stored[page]} /\ ~Reading(posts)

OneRead ==
    /\ \A r \in BagToSet(posts) : r.op = "read" => posts[r] = 1
    /\ \A r, q \in BagToSet(posts) : r.op = "read" /\ q.op = "read" => r = q

ListInv == page # "app_versions" /\ calm => OneRead /\ ListComes

EditsInv == EditsShape /\ SoundPosts /\ SaveInv /\ BroadcastInv /\ ListInv

(* A request replaced by another. *)
LEMMA InsteadBag ==
    ASSUME FiniteBag(posts), NEW r \in BagToSet(posts), NEW q
    PROVE  /\ FiniteBag(Instead(r, q))
           /\ q \in BagToSet(Instead(r, q))
           /\ BagToSet(Instead(r, q)) \subseteq BagToSet(posts) \cup {q}
           /\ BagToSet(posts) \ {r} \subseteq BagToSet(Instead(r, q))
           /\ \A y \in BagToSet(posts) : y # r /\ y # q => Instead(r, q)[y] = posts[y]
           /\ posts[r] = 1 => BagToSet(Instead(r, q)) = (BagToSet(posts) \ {r}) \cup {q}
           /\ q \notin BagToSet(posts) => Instead(r, q)[q] = 1
<1> DEFINE c == Minus(posts, r)
<1>1. /\ FiniteBag(c) /\ BagToSet(c) \subseteq BagToSet(posts)
      /\ BagToSet(posts) \ {r} \subseteq BagToSet(c)
      /\ \A y \in BagToSet(posts) : y # r => c[y] = posts[y]
      /\ posts[r] = 1 => BagToSet(c) = BagToSet(posts) \ {r}
  BY MinusBag
<1>2. Instead(r, q) = Plus(c, q)
  BY DEF Instead, Without, Plus, Minus
<1> HIDE DEF c
<1>3. /\ FiniteBag(Plus(c, q)) /\ BagToSet(Plus(c, q)) = BagToSet(c) \cup {q}
      /\ \A y \in BagToSet(c) : y # q => Plus(c, q)[y] = c[y]
      /\ q \notin BagToSet(c) => Plus(c, q)[q] = 1
  BY <1>1, PlusBag
<1> QED BY <1>1, <1>2, <1>3

(* A request removed. *)
LEMMA WithoutBag ==
    ASSUME FiniteBag(posts), NEW r \in BagToSet(posts)
    PROVE  /\ FiniteBag(Without(r))
           /\ BagToSet(Without(r)) \subseteq BagToSet(posts)
           /\ BagToSet(posts) \ {r} \subseteq BagToSet(Without(r))
           /\ \A y \in BagToSet(posts) : y # r => Without(r)[y] = posts[y]
           /\ posts[r] = 1 => BagToSet(Without(r)) = BagToSet(posts) \ {r}
BY MinusBag DEF Without, Minus

(* What a request becomes when its page is left. *)
AsLeft(r) == [r EXCEPT !.left = TRUE]
SentWrites == {r \in BagToSet(posts) : r.op # "read" /\ r.at = "sent"}

(* The writes that are left behind: those sent, marked as left. *)
LEMMA LeftBag ==
    ASSUME FiniteBag(posts)
    PROVE  /\ FiniteBag(LeftBehind)
           /\ BagToSet(LeftBehind) = {AsLeft(r) : r \in SentWrites}
           /\ \A r \in SentWrites : (\A q \in SentWrites : AsLeft(q) = AsLeft(r) => q = r)
                                    => LeftBehind[AsLeft(r)] = posts[r]
<1> DEFINE B == [r \in SentWrites |-> posts[r]]
           f == [r \in SentWrites |-> AsLeft(r)]
<1>1. LeftBehind = Renamed(B, f)
  BY DEF LeftBehind, SentWrites, AsLeft
<1>2. FiniteBag(B) /\ BagToSet(B) = SentWrites
  <2>1. BagToSet(B) = SentWrites /\ IsABag(B)
    BY DEF FiniteBag, IsABag, BagToSet, SentWrites
  <2>2. IsFiniteSet(SentWrites)
    BY FS_Subset DEF FiniteBag, SentWrites
  <2> QED BY <2>1, <2>2 DEF FiniteBag
<1>3. \A r \in SentWrites : f[r] = AsLeft(r) /\ B[r] = posts[r]
  OBVIOUS
<1> HIDE DEF B, f
<1>4. FiniteBag(Renamed(B, f)) /\ BagToSet(Renamed(B, f)) = {f[x] : x \in SentWrites}
  BY <1>2, RenamedBag
<1>5. {f[x] : x \in SentWrites} = {AsLeft(r) : r \in SentWrites}
  BY <1>3
<1>6. ASSUME NEW r \in SentWrites, \A q \in SentWrites : AsLeft(q) = AsLeft(r) => q = r
      PROVE  LeftBehind[AsLeft(r)] = posts[r]
  <2>1. \A z \in BagToSet(B) : f[z] = f[r] => z = r
    BY <1>2, <1>3, <1>6
  <2>2. Renamed(B, f)[f[r]] = B[r]
    BY <1>2, <2>1, RenamedCount
  <2> QED BY <1>1, <1>3, <2>2
<1> QED BY <1>1, <1>4, <1>5, <1>6

(* A request of the right form. *)
LEMMA PostForms ==
    ASSUME NEW p
    PROVE  /\ SoundPost(p, ReadOf) /\ ReadOf.op = "read" /\ ReadOf.at = "sent" /\ ~ReadOf.left
           /\ \A v : /\ SoundPost(p, Post(WriteOf(p), v)) /\ Post(WriteOf(p), v).op = WriteOf(p)
                     /\ Post(WriteOf(p), v).value = {v} /\ Post(WriteOf(p), v).at = "sent"
                     /\ ~Post(WriteOf(p), v).left
BY DEF SoundPost, IsPost, ReadOf, Post, Outcomes

(* A request at a later stage. *)
Later(r, a, v) == [r EXCEPT !.at = a, !.value = v]

(* Its four fields. *)
LEMMA LaterFields ==
    ASSUME NEW r, IsPost(r), NEW a, NEW v
    PROVE  /\ IsPost(Later(r, a, v)) /\ Later(r, a, v).op = r.op /\ Later(r, a, v).value = v
           /\ Later(r, a, v).at = a /\ Later(r, a, v).left = r.left
BY DEF IsPost, Later

(* The four fields of a request left behind. *)
LEMMA LeftFields ==
    ASSUME NEW r, IsPost(r)
    PROVE  /\ IsPost(AsLeft(r)) /\ AsLeft(r).op = r.op /\ AsLeft(r).value = r.value
           /\ AsLeft(r).at = r.at /\ AsLeft(r).left = TRUE
BY DEF IsPost, AsLeft

(* The stages of a request keep its form. *)
LEMMA LaterSound ==
    ASSUME NEW p, NEW r, SoundPost(p, r), ~r.left, NEW a \in Outcomes, NEW v
    PROVE  SoundPost(p, Later(r, a, v)) /\ ~Later(r, a, v).left
<1>1. /\ IsPost(Later(r, a, v)) /\ Later(r, a, v).op = r.op
      /\ Later(r, a, v).at = a /\ Later(r, a, v).left = r.left
  BY LaterFields DEF SoundPost
<1>2. r.op \in {"read", WriteOf(p)} /\ r.left \in BOOLEAN
  BY DEF SoundPost
<1> QED BY <1>1, <1>2, Zenon DEF SoundPost

(* So does leaving a write behind. *)
LEMMA LeftSound ==
    ASSUME NEW p, NEW r, SoundPost(p, r), r.op # "read", r.at = "sent"
    PROVE  SoundPost(p, AsLeft(r))
<1>1. IsPost(AsLeft(r)) /\ AsLeft(r).op = r.op /\ AsLeft(r).at = r.at /\ AsLeft(r).left = TRUE
  BY LeftFields DEF SoundPost
<1> QED BY <1>1 DEF SoundPost

(* What each request can be on the page it is sent from. *)
LEMMA PageWrites ==
    /\ WriteOf("app_versions") = "save" /\ WriteOf("notifications") = "broadcast"
    /\ WriteOf("discover") = "patch" /\ WriteOf("security_admins") = "create"
    /\ \A p \in EditPages : WriteOf(p) # "read"
BY DEF WriteOf, EditPages

(* The page as it is opened first. *)
LEMMA EditsInitial == EditsInit => EditsInv
<1> SUFFICES ASSUME EditsInit PROVE EditsInv
  OBVIOUS
<1>1. FiniteBag(posts) /\ BagToSet(posts) = {ReadOf} /\ posts[ReadOf] = 1
  BY SingletonBag DEF EditsInit
<1>2. SoundPost(page, ReadOf) /\ ReadOf.op = "read" /\ ReadOf.at = "sent" /\ ~ReadOf.left
  BY PostForms
<1>3. EditsShape
  BY DEF EditsInit, EditsShape, EditPages, Tables
<1>4. SoundPosts
  BY <1>1, <1>2 DEF SoundPosts
<1>5. SaveInv
  BY <1>1, <1>2 DEF EditsInit, SaveInv
<1>6. BroadcastInv
  <2>1. stored["notifications"] = [d \in Drafts |-> 0] /\ told = [d \in Drafts |-> 0] /\ typed = 0 /\ draft = 0
    BY DEF EditsInit
  <2>2. MaxTyped \in Nat
    BY EditsAssumption
  <2>3. Counts
    BY <2>1, <2>2 DEF Counts
  <2>4. Broadcasts
    BY <1>1, <1>2 DEF Broadcasts
  <2>5. Repeats
    BY <1>1, <1>2, <2>1 DEF Repeats, Unsent, InFlight, About, Drafts
  <2> QED BY <2>3, <2>4, <2>5 DEF BroadcastInv
<1>7. ListInv
  BY <1>1, <1>2 DEF ListInv, OneRead, ListComes
<1> QED BY <1>3, <1>4, <1>5, <1>6, <1>7 DEF EditsInv

(* Requests that go, and one that comes, keep the bag sound. *)
LEMMA SoundChange ==
    ASSUME SoundPosts, NEW q, SoundPost(page, q), ~q.left, page' = page, FiniteBag(posts'),
           BagToSet(posts') \subseteq BagToSet(posts) \cup {q}, calm' => calm
    PROVE  SoundPosts'
BY DEF SoundPosts

(* A write sent from the page. *)
LEMMA SoundSend ==
    ASSUME SoundPosts, NEW v, posts' = posts (+) SetToBag({Post(WriteOf(page), v)}), page' = page,
           calm' => calm
    PROVE  SoundPosts'
<1> DEFINE q == Post(WriteOf(page), v)
<1>1. SoundPost(page, q) /\ ~q.left
  BY PostForms
<1> HIDE DEF q
<1>2. FiniteBag(Plus(posts, q)) /\ BagToSet(Plus(posts, q)) = BagToSet(posts) \cup {q}
  BY PlusBag DEF SoundPosts
<1>3. posts' = Plus(posts, q)
  BY DEF Plus, q
<1> QED BY <1>1, <1>2, <1>3, SoundChange

(* A request taken away. *)
LEMMA SoundRemove ==
    ASSUME SoundPosts, NEW r \in BagToSet(posts), posts' = Without(r), page' = page, calm' => calm
    PROVE  SoundPosts'
<1>1. FiniteBag(Without(r)) /\ BagToSet(Without(r)) \subseteq BagToSet(posts)
  BY WithoutBag DEF SoundPosts
<1>2. SoundPost(page, ReadOf) /\ ~ReadOf.left
  BY PostForms
<1> QED BY <1>1, <1>2, SoundChange

(* A request that moves on. *)
LEMMA SoundInstead ==
    ASSUME SoundPosts, NEW r \in BagToSet(posts), NEW q, posts' = Instead(r, q), SoundPost(page, q), ~q.left,
           page' = page, calm' => calm
    PROVE  SoundPosts'
<1>1. FiniteBag(Instead(r, q)) /\ BagToSet(Instead(r, q)) \subseteq BagToSet(posts) \cup {q}
  BY InsteadBag DEF SoundPosts
<1> QED BY <1>1, SoundChange

(* What taking a request does to those under way. *)
LEMMA TakenPosts ==
    ASSUME NEW r, requestTaken(r)
    PROVE  /\ r.at = "sent" /\ (r.left => posts' = Without(r))
           /\ ~r.left => \E a \in {"ok", "failed"}, v \in {r.value, {stored[page]}} :
                /\ posts' = Instead(r, Later(r, a, v))
                /\ a = "failed" => Refused(r)
                /\ r.op = "read" => v = {stored[page]}
                /\ r.op # "read" => v = r.value
<1> DEFINE a == IF Refused(r) THEN "failed" ELSE "ok"
           v == IF r.op = "read" THEN {stored[page]} ELSE r.value
<1>1. ~r.left => posts' = Instead(r, Later(r, a, v))
  BY DEF requestTaken, Later
<1>2. a \in {"ok", "failed"} /\ v \in {r.value, {stored[page]}} /\ (a = "failed" => Refused(r))
      /\ (r.op = "read" => v = {stored[page]}) /\ (r.op # "read" => v = r.value)
  OBVIOUS
<1>3. r.at = "sent" /\ (r.left => posts' = Without(r))
  BY DEF requestTaken
<1> HIDE DEF a, v
<1> QED BY <1>1, <1>2, <1>3

(* What a lost connection does to them. *)
LEMMA LostPosts ==
    ASSUME NEW r, requestLost(r)
    PROVE  /\ r.left => posts' = Without(r)
           /\ ~r.left => \E v \in {r.value, {}} :
                posts' = Instead(r, Later(r, "failed", v)) /\ (r.op # "read" => v = r.value)
<1> DEFINE v == IF r.op = "read" THEN {} ELSE r.value
<1>1. ~r.left => posts' = Instead(r, Later(r, "failed", v))
  BY DEF requestLost, Later
<1>2. v \in {r.value, {}} /\ (r.op # "read" => v = r.value)
  OBVIOUS
<1>3. r.left => posts' = Without(r)
  BY DEF requestLost
<1> HIDE DEF v
<1> QED BY <1>1, <1>2, <1>3

(* The shape of the state is kept. *)
LEMMA EditsShapeStep == EditsShape /\ SoundPosts /\ EditsNext => EditsShape'
<1> SUFFICES ASSUME EditsShape, SoundPosts, EditsNext PROVE EditsShape'
  OBVIOUS
<1> USE DEF EditsShape
<1>1. ASSUME NEW c \in Configs, setConfig(c) PROVE EditsShape'
  BY <1>1 DEF setConfig
<1>2. CASE handleSave
  BY <1>2 DEF handleSave, SavesConfig
<1>3. CASE successTimeout
  BY <1>3 DEF successTimeout
<1>4. CASE typeAnnouncement
  BY <1>4 DEF typeAnnouncement
<1>5. CASE handleBroadcast
  BY <1>5 DEF handleBroadcast
<1>6. ASSUME NEW p \in Projects, handleToggle(p) PROVE EditsShape'
  BY <1>6 DEF handleToggle
<1>7. ASSUME NEW n, setShowCreateModal(n) PROVE EditsShape'
  BY <1>7 DEF setShowCreateModal
<1>8. CASE handleCreate
  BY <1>8 DEF handleCreate
<1>9. ASSUME NEW r \in BagToSet(posts), requestTaken(r) PROVE EditsShape'
  <2>1. UNCHANGED <<page, draft, createFor, sending, saveSuccess, calm>>
    BY <1>9 DEF requestTaken
  <2>2. stored' = stored \/ \E q, s : stored' = [stored EXCEPT ![q] = s]
    BY <1>9 DEF requestTaken
  <2>3. DOMAIN stored' = Tables /\ stored' = [p \in Tables |-> stored'[p]]
    BY <2>2
  <2> QED BY <2>1, <2>3
<1>10. ASSUME NEW r \in BagToSet(posts), requestLost(r) PROVE EditsShape'
  BY <1>10 DEF requestLost
<1>11. ASSUME NEW r \in BagToSet(posts), readAnswered(r) PROVE EditsShape'
  BY <1>11 DEF readAnswered
<1>12. ASSUME NEW r \in BagToSet(posts), writeSucceeded(r) PROVE EditsShape'
  <2>1. r.op = "save" => page = "app_versions"
    BY PageWrites DEF SoundPosts, SoundPost, EditPages
  <2> QED BY <1>12, <2>1 DEF writeSucceeded, ReadsAgain, ReadsNoMore
<1>13. ASSUME NEW r \in BagToSet(posts), writeFailed(r) PROVE EditsShape'
  BY <1>13 DEF writeFailed
<1>14. CASE reopen
  BY <1>14 DEF reopen
<1> QED BY <1>1, <1>2, <1>3, <1>4, <1>5, <1>6, <1>7, <1>8, <1>9, <1>10, <1>11, <1>12, <1>13, <1>14
        DEF EditsNext

(* What is under way keeps belonging to the page. *)
LEMMA SoundPostsStep == EditsShape /\ SoundPosts /\ EditsNext => SoundPosts'
<1> SUFFICES ASSUME EditsShape, SoundPosts, EditsNext PROVE SoundPosts'
  OBVIOUS
<1>0. FiniteBag(posts) /\ \A r \in BagToSet(posts) : SoundPost(page, r)
  BY DEF SoundPosts
<1>a. ASSUME UNCHANGED <<page, posts, calm>> PROVE SoundPosts'
  BY <1>a DEF SoundPosts
<1>1. ASSUME NEW c \in Configs, setConfig(c) PROVE SoundPosts'
  BY <1>1, <1>a DEF setConfig
<1>2. CASE handleSave
  <2>1. PICK c \in shown : posts' = posts (+) SetToBag({Post("save", c)})
    BY <1>2 DEF handleSave, SavesConfig
  <2> QED BY <1>2, <2>1, PageWrites, SoundSend DEF handleSave, SavesConfig
<1>3. CASE successTimeout
  BY <1>3, <1>a DEF successTimeout
<1>4. CASE typeAnnouncement
  BY <1>4, <1>a DEF typeAnnouncement
<1>5. CASE handleBroadcast
  BY <1>5, PageWrites, SoundSend DEF handleBroadcast, EditsShape
<1>6. ASSUME NEW p \in Projects, handleToggle(p) PROVE SoundPosts'
  <2>1. PICK list \in shown : posts' = posts (+) SetToBag({Post("patch", [id |-> p, to |-> ~list[p]])})
    BY <1>6 DEF handleToggle
  <2> QED BY <1>6, <2>1, PageWrites, SoundSend DEF handleToggle
<1>7. ASSUME NEW n, setShowCreateModal(n) PROVE SoundPosts'
  BY <1>7, <1>a DEF setShowCreateModal
<1>8. CASE handleCreate
  <2>1. PICK n \in createFor : posts' = posts (+) SetToBag({Post("create", n)})
    BY <1>8 DEF handleCreate
  <2> QED BY <1>8, <2>1, PageWrites, SoundSend DEF handleCreate, EditsShape
<1>9. ASSUME NEW r \in BagToSet(posts), requestTaken(r) PROVE SoundPosts'
  <2>1. page' = page /\ calm' = calm
    BY <1>9 DEF requestTaken
  <2>2. CASE r.left
    BY <1>9, <2>1, <2>2, TakenPosts, SoundRemove
  <2>3. CASE ~r.left
    <3>1. PICK a \in {"ok", "failed"}, v \in {r.value, {stored[page]}} : posts' = Instead(r, Later(r, a, v))
      BY <1>9, <2>3, TakenPosts
    <3>2. SoundPost(page, Later(r, a, v)) /\ ~Later(r, a, v).left
      BY <1>0, <2>3, LaterSound DEF Outcomes
    <3> QED BY <2>1, <3>1, <3>2, SoundInstead
  <2> QED BY <2>2, <2>3
<1>10. ASSUME NEW r \in BagToSet(posts), requestLost(r) PROVE SoundPosts'
  <2>1. page' = page /\ calm' = calm
    BY <1>10 DEF requestLost
  <2>2. CASE r.left
    BY <1>10, <2>1, <2>2, LostPosts, SoundRemove
  <2>3. CASE ~r.left
    <3>1. PICK v : posts' = Instead(r, Later(r, "failed", v))
      BY <1>10, <2>3, LostPosts
    <3>2. SoundPost(page, Later(r, "failed", v)) /\ ~Later(r, "failed", v).left
      BY <1>0, <2>3, LaterSound DEF Outcomes
    <3> QED BY <2>1, <3>1, <3>2, SoundInstead
  <2> QED BY <2>2, <2>3
<1>11. ASSUME NEW r \in BagToSet(posts), readAnswered(r) PROVE SoundPosts'
  <2>1. posts' = Without(r) /\ page' = page /\ (calm' => calm)
    BY <1>11 DEF readAnswered
  <2> QED BY <2>1, SoundRemove
<1>12. ASSUME NEW r \in BagToSet(posts), writeSucceeded(r) PROVE SoundPosts'
  <2>1. page' = page /\ (calm' => calm) /\ (posts' = Without(r) \/ posts' = Instead(r, ReadOf))
    BY <1>12 DEF writeSucceeded, ReadsAgain, ReadsNoMore
  <2>2. SoundPost(page, ReadOf) /\ ~ReadOf.left
    BY PostForms
  <2> QED BY <2>1, <2>2, SoundRemove, SoundInstead
<1>13. ASSUME NEW r \in BagToSet(posts), writeFailed(r) PROVE SoundPosts'
  <2>1. posts' = Without(r) /\ page' = page /\ (calm' => calm)
    BY <1>13 DEF writeFailed
  <2> QED BY <2>1, SoundRemove
<1>14. CASE reopen
  <2>1. page' = page /\ posts' = Plus(LeftBehind, ReadOf) /\ calm' = (LeftBehind = EmptyBag)
    BY <1>14 DEF reopen, Plus
  <2>2. FiniteBag(LeftBehind) /\ BagToSet(LeftBehind) = {AsLeft(r) : r \in SentWrites}
    BY <1>0, LeftBag
  <2>3. FiniteBag(posts') /\ BagToSet(posts') = BagToSet(LeftBehind) \cup {ReadOf}
    BY <2>1, <2>2, PlusBag
  <2>4. \A r \in SentWrites : SoundPost(page, AsLeft(r))
    BY <1>0, LeftSound DEF SentWrites
  <2>5. SoundPost(page, ReadOf) /\ ~ReadOf.left
    BY PostForms
  <2>6. calm' => BagToSet(LeftBehind) = {}
    BY <2>1, NoBag
  <2> QED BY <2>1, <2>2, <2>3, <2>4, <2>5, <2>6 DEF SoundPosts
<1> QED BY <1>1, <1>2, <1>3, <1>4, <1>5, <1>6, <1>7, <1>8, <1>9, <1>10, <1>11, <1>12, <1>13, <1>14
        DEF EditsNext

(* The page of a behaviour stays the same. *)
LEMMA PageStays == EditsNext => page' = page
BY DEF EditsNext, setConfig, handleSave, SavesConfig, successTimeout, typeAnnouncement, handleBroadcast,
       handleToggle, setShowCreateModal, handleCreate, requestTaken, requestLost, readAnswered,
       writeSucceeded, writeFailed, reopen

(* Replacing or removing a request of another kind leaves those of this kind. *)
LEMMA OthersStay ==
    ASSUME FiniteBag(posts), NEW r \in BagToSet(posts), NEW op, r.op # op,
           posts' = Without(r) \/ \E q : q.op # op /\ posts' = Instead(r, q)
    PROVE  \A s : s.op = op => /\ s \in BagToSet(posts') <=> s \in BagToSet(posts)
                               /\ s \in BagToSet(posts) => posts'[s] = posts[s]
<1>1. CASE posts' = Without(r)
  BY <1>1, WithoutBag
<1>2. ASSUME NEW q, q.op # op, posts' = Instead(r, q)
      PROVE  \A s : s.op = op => /\ s \in BagToSet(posts') <=> s \in BagToSet(posts)
                                 /\ s \in BagToSet(posts) => posts'[s] = posts[s]
  <2>1. /\ BagToSet(posts') \subseteq BagToSet(posts) \cup {q}
        /\ BagToSet(posts) \ {r} \subseteq BagToSet(posts')
        /\ \A y \in BagToSet(posts) : y # r /\ y # q => posts'[y] = posts[y]
    BY <1>2, InsteadBag
  <2> QED BY <1>2, <2>1
<1> QED BY <1>1, <1>2

(* A step that leaves the saves alone. *)
LEMMA SavesStay ==
    ASSUME SaveInv, page' = page, calm' => calm, sending' = sending, saveSuccess' => saveSuccess,
           UNCHANGED <<stored, lastSaved>>,
           \A s : s.op = "save" => /\ s \in BagToSet(posts') <=> s \in BagToSet(posts)
                                   /\ s \in BagToSet(posts) => posts'[s] = posts[s]
    PROVE  SaveInv'
<1> SUFFICES ASSUME page = "app_versions"
             PROVE  /\ \A r \in BagToSet(posts') : r.op = "save" => \E c \in r.value : r.value = {c}
                    /\ calm' /\ ~sending' => \A r \in BagToSet(posts') : r.op # "save"
                    /\ calm' /\ sending' => ~saveSuccess' /\ \E r \in BagToSet(posts') : SavingOne(r)'
                    /\ calm' /\ saveSuccess' => stored["audited"]' = lastSaved'
  BY DEF SaveInv
<1>1. \A r \in BagToSet(posts') : r.op = "save" => \E c \in r.value : r.value = {c}
  BY DEF SaveInv
<1>2. calm' /\ ~sending' => \A r \in BagToSet(posts') : r.op # "save"
  BY DEF SaveInv
<1>3. calm' /\ saveSuccess' => stored["audited"]' = lastSaved'
  BY DEF SaveInv
<1>4. ASSUME calm', sending' PROVE ~saveSuccess' /\ \E r \in BagToSet(posts') : SavingOne(r)'
  <2>1. PICK r \in BagToSet(posts) : SavingOne(r)
    BY <1>4 DEF SaveInv
  <2>2. SavingOne(r)' /\ r \in BagToSet(posts')
    BY <2>1 DEF SavingOne
  <2> QED BY <1>4, <2>2 DEF SaveInv
<1> QED BY <1>1, <1>2, <1>3, <1>4

(* Saves keep to their order. *)
LEMMA SaveStep == EditsShape /\ SoundPosts /\ SaveInv /\ EditsNext => SaveInv'
<1> SUFFICES ASSUME EditsShape, SoundPosts, SaveInv, EditsNext, page = "app_versions" PROVE SaveInv'
  BY PageStays DEF SaveInv
<1>0. /\ FiniteBag(posts) /\ draft = 0 /\ createFor = {} /\ page' = page
      /\ \A r \in BagToSet(posts) : SoundPost(page, r) /\ r.op \in {"read", "save"}
      /\ calm => \A r \in BagToSet(posts) : ~r.left
  BY PageWrites, PageStays DEF SoundPosts, SoundPost, EditsShape
<1>1. ASSUME NEW c \in Configs, setConfig(c) PROVE SaveInv'
  BY <1>1, SavesStay DEF setConfig
<1>2. CASE handleSave
  <2>1. PICK c \in shown : lastSaved' = c /\ posts' = posts (+) SetToBag({Post("save", c)})
    BY <1>2 DEF handleSave, SavesConfig
  <2> DEFINE q == Post("save", c)
  <2>2. q.op = "save" /\ q.value = {c} /\ q.at = "sent"
    BY DEF Post
  <2>3. posts' = Plus(posts, q)
    BY <2>1 DEF Plus
  <2> HIDE DEF q
  <2>4. /\ BagToSet(posts') = BagToSet(posts) \cup {q}
        /\ q \notin BagToSet(posts) => posts'[q] = 1
    BY <1>0, <2>3, PlusBag
  <2>5. sending' = TRUE /\ saveSuccess' = FALSE /\ calm' = calm /\ ~sending /\ stored' = stored
    BY <1>2 DEF handleSave, SavesConfig
  <2>6. calm => \A r \in BagToSet(posts) : r.op # "save"
    BY <2>5 DEF SaveInv
  <2>7. calm' => SavingOne(q)'
    BY <2>1, <2>2, <2>4, <2>5, <2>6 DEF SavingOne
  <2>8. \A r \in BagToSet(posts') : r.op = "save" => \E d \in r.value : r.value = {d}
    BY <2>2, <2>4 DEF SaveInv
  <2> QED BY <2>4, <2>5, <2>7, <2>8 DEF SaveInv
<1>3. CASE successTimeout
  BY <1>3, SavesStay DEF successTimeout
<1>4. ~typeAnnouncement /\ ~handleBroadcast /\ ~handleCreate /\ \A p : ~handleToggle(p)
  BY <1>0 DEF typeAnnouncement, handleBroadcast, handleCreate, handleToggle
<1>5. \A n : ~setShowCreateModal(n)
  BY DEF setShowCreateModal
<1>6. ASSUME NEW r \in BagToSet(posts), requestTaken(r) PROVE SaveInv'
  <2>1. UNCHANGED <<page, sending, saveSuccess, lastSaved, calm>> /\ r.op \in {"read", "save"}
    BY <1>0, <1>6 DEF requestTaken
  <2>2. CASE r.op = "read"
    <3>1. ~r.left /\ IsPost(r)
      BY <1>0, <2>2 DEF SoundPost
    <3>2. PICK a \in {"ok", "failed"}, v \in {r.value, {stored[page]}} : posts' = Instead(r, Later(r, a, v))
      BY <1>6, <3>1, TakenPosts
    <3>3. Later(r, a, v).op # "save"
      BY <2>2, <3>1, LaterFields
    <3>4. \A s : s.op = "save" => /\ s \in BagToSet(posts') <=> s \in BagToSet(posts)
                                  /\ s \in BagToSet(posts) => posts'[s] = posts[s]
      BY <1>0, <2>2, <3>2, <3>3, OthersStay
    <3>5. stored' = stored
      BY <1>6, <2>2 DEF requestTaken
    <3> QED BY <2>1, <3>4, <3>5, SavesStay
  <2>3. CASE r.op = "save"
    <3>1. PICK c \in r.value : r.value = {c}
      BY <2>3 DEF SaveInv
    <3>2. stored' = [stored EXCEPT !["audited"] = c]
      BY <1>6, <2>3, <3>1 DEF requestTaken, Refused, Written, Table
    <3>3. stored'["audited"] = c
      BY <3>2 DEF EditsShape, EditPages, Tables
    <3>4. CASE r.left
      <4>1. posts' = Without(r) /\ ~calm
        BY <1>0, <1>6, <3>4, TakenPosts
      <4>2. BagToSet(posts') \subseteq BagToSet(posts)
        BY <1>0, <4>1, WithoutBag
      <4> QED BY <2>1, <4>1, <4>2 DEF SaveInv
    <3>5. CASE ~r.left
      <4>1. PICK a \in {"ok", "failed"} : posts' = Instead(r, Later(r, a, r.value)) /\ r.at = "sent"
        BY <1>6, <2>3, <3>5, TakenPosts
      <4> DEFINE q == Later(r, a, r.value)
      <4>2. q.op = "save" /\ q.value = r.value /\ q.at = a
        BY <1>0, <2>3, LaterFields DEF SoundPost
      <4>3. q # r
        BY <4>1, <4>2
      <4> HIDE DEF q
      <4>4. /\ q \in BagToSet(posts')
            /\ BagToSet(posts') \subseteq BagToSet(posts) \cup {q}
            /\ posts[r] = 1 => BagToSet(posts') = (BagToSet(posts) \ {r}) \cup {q}
            /\ q \notin BagToSet(posts) => posts'[q] = 1
        BY <1>0, <4>1, InsteadBag DEF q
      <4>5. ASSUME calm PROVE sending /\ SavingOne(r)
        BY <2>3, <4>5 DEF SaveInv, EditsShape, SavingOne
      <4>6. ASSUME calm' PROVE SavingOne(q)'
        <5>1. SavingOne(r) /\ calm
          BY <2>1, <4>5, <4>6
        <5>2. q \notin BagToSet(posts) /\ c = lastSaved
          BY <3>1, <4>2, <4>3, <5>1 DEF SavingOne
        <5> QED BY <2>1, <3>1, <3>3, <4>2, <4>4, <5>1, <5>2 DEF SavingOne
      <4>7. \A s \in BagToSet(posts') : s.op = "save" => \E d \in s.value : s.value = {d}
        BY <3>1, <4>2, <4>4 DEF SaveInv
      <4>8. calm' => sending' /\ ~saveSuccess'
        BY <2>1, <4>5 DEF SaveInv
      <4> QED BY <4>4, <4>6, <4>7, <4>8 DEF SaveInv
    <3> QED BY <3>4, <3>5
  <2> QED BY <2>1, <2>2, <2>3
<1>7. ASSUME NEW r \in BagToSet(posts), requestLost(r) PROVE SaveInv'
  <2>1. UNCHANGED <<page, stored, sending, saveSuccess, lastSaved, calm>> /\ r.op \in {"read", "save"}
    BY <1>0, <1>7 DEF requestLost
  <2>2. CASE r.op = "read"
    <3>1. ~r.left /\ IsPost(r)
      BY <1>0, <2>2 DEF SoundPost
    <3>2. PICK v : posts' = Instead(r, Later(r, "failed", v))
      BY <1>7, <3>1, LostPosts
    <3>3. Later(r, "failed", v).op # "save"
      BY <2>2, <3>1, LaterFields
    <3>4. \A s : s.op = "save" => /\ s \in BagToSet(posts') <=> s \in BagToSet(posts)
                                  /\ s \in BagToSet(posts) => posts'[s] = posts[s]
      BY <1>0, <2>2, <3>2, <3>3, OthersStay
    <3> QED BY <2>1, <3>4, SavesStay
  <2>3. CASE r.op = "save" /\ r.left
    <3>1. posts' = Without(r) /\ ~calm
      BY <1>0, <1>7, <2>3, LostPosts
    <3>2. BagToSet(posts') \subseteq BagToSet(posts)
      BY <1>0, <3>1, WithoutBag
    <3> QED BY <2>1, <3>1, <3>2 DEF SaveInv
  <2>4. CASE r.op = "save" /\ ~r.left
    <3> DEFINE q == Later(r, "failed", r.value)
    <3>1. posts' = Instead(r, q) /\ r.at # "failed"
      BY <1>7, <2>4, LostPosts DEF requestLost
    <3>2. q.op = "save" /\ q.value = r.value /\ q.at = "failed"
      BY <1>0, <2>4, LaterFields DEF SoundPost
    <3>3. q # r
      BY <3>1, <3>2
    <3> HIDE DEF q
    <3>4. /\ q \in BagToSet(posts')
          /\ BagToSet(posts') \subseteq BagToSet(posts) \cup {q}
          /\ posts[r] = 1 => BagToSet(posts') = (BagToSet(posts) \ {r}) \cup {q}
          /\ q \notin BagToSet(posts) => posts'[q] = 1
      BY <1>0, <3>1, InsteadBag
    <3>5. ASSUME calm PROVE sending /\ SavingOne(r)
      BY <2>4, <3>5 DEF SaveInv, EditsShape, SavingOne
    <3>6. ASSUME calm' PROVE SavingOne(q)'
      <4>1. SavingOne(r) /\ calm
        BY <2>1, <3>5, <3>6
      <4>2. q \notin BagToSet(posts)
        BY <3>2, <3>3, <4>1 DEF SavingOne
      <4> QED BY <2>1, <3>2, <3>4, <4>1, <4>2 DEF SavingOne
    <3>7. \A s \in BagToSet(posts') : s.op = "save" => \E d \in s.value : s.value = {d}
      BY <2>4, <3>2, <3>4 DEF SaveInv
    <3>8. calm' => sending' /\ ~saveSuccess'
      BY <2>1, <3>5 DEF SaveInv
    <3> QED BY <3>4, <3>6, <3>7, <3>8 DEF SaveInv
  <2> QED BY <2>1, <2>2, <2>3, <2>4
<1>8. ASSUME NEW r \in BagToSet(posts), readAnswered(r) PROVE SaveInv'
  <2>1. /\ r.op = "read" /\ posts' = Without(r) /\ (calm' => calm)
        /\ UNCHANGED <<page, stored, sending, saveSuccess, lastSaved>>
    BY <1>8 DEF readAnswered
  <2>2. \A s : s.op = "save" => /\ s \in BagToSet(posts') <=> s \in BagToSet(posts)
                                /\ s \in BagToSet(posts) => posts'[s] = posts[s]
    BY <1>0, <2>1, OthersStay
  <2> QED BY <2>1, <2>2, SavesStay
<1>9. ASSUME NEW r \in BagToSet(posts), writeSucceeded(r) PROVE SaveInv'
  <2>1. r.op = "save" /\ r.at = "ok"
    BY <1>0, <1>9 DEF writeSucceeded
  <2>2. /\ posts' = Without(r) /\ calm' = calm /\ ~sending' /\ UNCHANGED <<stored, lastSaved>>
    BY <1>9, <2>1 DEF writeSucceeded, ReadsNoMore
  <2>3. /\ BagToSet(posts') \subseteq BagToSet(posts)
        /\ posts[r] = 1 => BagToSet(posts') = BagToSet(posts) \ {r}
    BY <1>0, <2>2, WithoutBag
  <2>4. ASSUME calm PROVE SavingOne(r)
    BY <2>1, <2>4 DEF SaveInv, EditsShape, SavingOne
  <2>5. calm' => \A s \in BagToSet(posts') : s.op # "save"
    BY <2>2, <2>3, <2>4 DEF SavingOne
  <2>6. calm' => stored'["audited"] = lastSaved'
    BY <2>1, <2>2, <2>4 DEF SavingOne
  <2> QED BY <2>2, <2>3, <2>5, <2>6 DEF SaveInv
<1>10. ASSUME NEW r \in BagToSet(posts), writeFailed(r) PROVE SaveInv'
  <2>1. posts' = Without(r) /\ ~calm'
    BY <1>10 DEF writeFailed
  <2>2. BagToSet(posts') \subseteq BagToSet(posts)
    BY <1>0, <2>1, WithoutBag
  <2> QED BY <2>1, <2>2 DEF SaveInv
<1>11. CASE reopen
  <2>1. /\ posts' = Plus(LeftBehind, ReadOf) /\ calm' = (LeftBehind = EmptyBag)
        /\ sending' = FALSE /\ saveSuccess' = FALSE
    BY <1>11 DEF reopen, Plus
  <2>2. FiniteBag(LeftBehind) /\ BagToSet(LeftBehind) = {AsLeft(r) : r \in SentWrites}
    BY <1>0, LeftBag
  <2>3. BagToSet(posts') = BagToSet(LeftBehind) \cup {ReadOf} /\ ReadOf.op = "read"
    BY <2>1, <2>2, PlusBag, PostForms
  <2>4. \A r \in SentWrites : /\ AsLeft(r).op = r.op /\ AsLeft(r).value = r.value
                              /\ r \in BagToSet(posts)
    BY <1>0, LeftFields DEF SentWrites, SoundPost
  <2>5. calm' => BagToSet(LeftBehind) = {}
    BY <2>1, NoBag
  <2>6. \A s \in BagToSet(posts') : s.op = "save" => \E d \in s.value : s.value = {d}
    BY <2>2, <2>3, <2>4 DEF SaveInv
  <2> QED BY <2>1, <2>3, <2>5, <2>6 DEF SaveInv
<1> QED BY <1>1, <1>2, <1>3, <1>4, <1>5, <1>6, <1>7, <1>8, <1>9, <1>10, <1>11 DEF EditsNext

(* A step that leaves the announcements alone. *)
LEMMA BroadcastsStay ==
    ASSUME BroadcastInv, sending' = sending, UNCHANGED <<draft, typed, told>>,
           stored'["notifications"] = stored["notifications"],
           \A s : s.op = "broadcast" => /\ s \in BagToSet(posts') <=> s \in BagToSet(posts)
                                        /\ s \in BagToSet(posts) => posts'[s] = posts[s]
    PROVE  BroadcastInv'
<1>1. Counts'
  BY DEF BroadcastInv, Counts
<1>2. Broadcasts'
  BY DEF BroadcastInv, Broadcasts
<1>3. \A d : (InFlight(d)' <=> InFlight(d)) /\ (Unsent(d)' <=> Unsent(d))
  BY DEF InFlight, Unsent, About
<1>4. Repeats'
  BY <1>3 DEF BroadcastInv, Repeats
<1> QED BY <1>1, <1>2, <1>4 DEF BroadcastInv

(* On the other pages nothing is announced. *)
LEMMA BroadcastElsewhere ==
    ASSUME EditsShape, SoundPosts, EditsShape', SoundPosts', BroadcastInv, EditsNext, page # "notifications"
    PROVE  BroadcastInv'
<1>1. page' = page /\ draft = 0 /\ draft' = 0
  BY PageStays DEF EditsShape
<1>2. \A s : s.op = "broadcast" => s \notin BagToSet(posts) /\ s \notin BagToSet(posts')
  BY <1>1, PageWrites DEF SoundPosts, SoundPost, EditsShape, EditPages, Tables
<1>3. typed' = typed /\ stored'["notifications"] = stored["notifications"]
  <2>1. ASSUME NEW r \in BagToSet(posts), requestTaken(r)
        PROVE  typed' = typed /\ stored'["notifications"] = stored["notifications"]
    <3>1. typed' = typed /\ (stored' = stored \/ \E s : stored' = [stored EXCEPT ![Table(r)] = s])
      BY <2>1 DEF requestTaken
    <3>2. Table(r) # "notifications"
      BY DEF Table
    <3> QED BY <3>1, <3>2 DEF EditsShape, EditPages, Tables
  <2> QED BY <2>1 DEF EditsNext, setConfig, handleSave, SavesConfig, successTimeout, typeAnnouncement,
              handleBroadcast, handleToggle, setShowCreateModal, handleCreate, requestLost,
              readAnswered, writeSucceeded, writeFailed, reopen
<1>4. told' = told
  <2>1. ASSUME NEW r \in BagToSet(posts), writeFailed(r) PROVE told' = told
    <3>1. r.op # "broadcast"
      BY <1>2
    <3>2. told' = [d \in Drafts |-> told[d]]
      BY <2>1, <3>1 DEF writeFailed
    <3> QED BY <3>2 DEF BroadcastInv, Counts
  <2> QED BY <2>1 DEF EditsNext, setConfig, handleSave, SavesConfig, successTimeout, typeAnnouncement,
              handleBroadcast, handleToggle, setShowCreateModal, handleCreate, requestTaken, requestLost,
              readAnswered, writeSucceeded, reopen
<1>5. Counts'
  BY <1>1, <1>3, <1>4 DEF BroadcastInv, Counts
<1>6. Broadcasts'
  BY <1>2 DEF Broadcasts
<1>7. \A d : ~InFlight(d)' /\ ~Unsent(d)'
  BY <1>2 DEF InFlight, Unsent, About
<1>8. Repeats'
  BY <1>1, <1>3, <1>4, <1>7 DEF BroadcastInv, Repeats, Drafts
<1> QED BY <1>5, <1>6, <1>8 DEF BroadcastInv

(* An announcement is sent. *)
LEMMA BroadcastSent ==
    ASSUME EditsShape, SoundPosts, BroadcastInv, handleBroadcast
    PROVE  BroadcastInv'
<1> DEFINE q == Post("broadcast", draft)
<1>1. /\ q.op = "broadcast" /\ q.value = {draft} /\ q.at = "sent" /\ ~q.left
  BY DEF Post
<1>2. /\ posts' = Plus(posts, q) /\ ~sending /\ sending' = TRUE /\ draft # 0
      /\ UNCHANGED <<stored, draft, typed, told>>
  BY DEF handleBroadcast, Plus
<1> HIDE DEF q
<1>3. /\ BagToSet(posts') = BagToSet(posts) \cup {q}
      /\ \A y \in BagToSet(posts) : y # q => posts'[y] = posts[y]
      /\ q \notin BagToSet(posts) => posts'[q] = 1
  BY <1>2, PlusBag DEF SoundPosts
<1>4. draft \in Drafts /\ draft \in 1..typed
  BY <1>2, EditsAssumption DEF BroadcastInv, Counts, Drafts
<1>5. \A r \in BagToSet(posts) : r.op = "broadcast" => r.left /\ r.value # {draft}
  BY <1>2 DEF BroadcastInv, Broadcasts, SoundPosts, SoundPost
<1>6. ~InFlight(draft) /\ q \notin BagToSet(posts)
  BY <1>1, <1>5 DEF InFlight, About
<1>7. Counts'
  BY <1>2 DEF BroadcastInv, Counts
<1>8. Broadcasts'
  BY <1>1, <1>2, <1>3, <1>4, <1>5, <1>6 DEF BroadcastInv, Broadcasts
<1>9. \A d \in Drafts : d # draft => (InFlight(d)' <=> InFlight(d)) /\ (Unsent(d)' <=> Unsent(d))
  BY <1>1, <1>3 DEF InFlight, Unsent, About
<1>10. Repeats'
  BY <1>2, <1>4, <1>6, <1>9 DEF BroadcastInv, Repeats
<1> QED BY <1>7, <1>8, <1>10 DEF BroadcastInv

(* The request of an announcement moves on or goes: the other requests are as     *)
(* before.                                                                   *)
LEMMA BroadcastMoved ==
    ASSUME SoundPosts, BroadcastInv, NEW r \in BagToSet(posts), r.op = "broadcast", NEW d \in Drafts, r.value = {d},
           posts' = Without(r) \/ \E q : /\ posts' = Instead(r, q) /\ q # r
                                         /\ q.op = "broadcast" => q.value = {d} /\ ~q.left /\ ~r.left
    PROVE  /\ \A s : s.op = "broadcast" /\ s.value # {d} =>
                /\ s \in BagToSet(posts') <=> s \in BagToSet(posts)
                /\ s \in BagToSet(posts) => posts'[s] = posts[s]
           /\ \A s \in BagToSet(posts') : s.op = "broadcast" /\ s.value = {d} =>
                /\ posts' = Instead(r, s) /\ posts'[s] = 1 /\ ~s.left /\ ~r.left
                /\ \A y \in BagToSet(posts') : y.op = "broadcast" /\ y.value = {d} => y = s
<1>1. FiniteBag(posts) /\ posts[r] = 1
  BY DEF SoundPosts, BroadcastInv, Broadcasts
<1>2. \A s \in BagToSet(posts) : s.op = "broadcast" /\ s.value = {d} => s = r
  BY DEF BroadcastInv, Broadcasts
<1>3. CASE posts' = Without(r)
  <2>1. /\ BagToSet(posts') = BagToSet(posts) \ {r}
        /\ \A y \in BagToSet(posts) : y # r => posts'[y] = posts[y]
    BY <1>1, <1>3, WithoutBag
  <2> QED BY <1>2, <2>1
<1>4. ASSUME NEW q, posts' = Instead(r, q), q # r,
             q.op = "broadcast" => q.value = {d} /\ ~q.left /\ ~r.left
      PROVE  /\ \A s : s.op = "broadcast" /\ s.value # {d} =>
                  /\ s \in BagToSet(posts') <=> s \in BagToSet(posts)
                  /\ s \in BagToSet(posts) => posts'[s] = posts[s]
             /\ \A s \in BagToSet(posts') : s.op = "broadcast" /\ s.value = {d} =>
                  /\ posts' = Instead(r, s) /\ posts'[s] = 1 /\ ~s.left /\ ~r.left
                  /\ \A y \in BagToSet(posts') : y.op = "broadcast" /\ y.value = {d} => y = s
  <2>1. /\ BagToSet(posts') = (BagToSet(posts) \ {r}) \cup {q}
        /\ \A y \in BagToSet(posts) : y # r /\ y # q => posts'[y] = posts[y]
        /\ q \notin BagToSet(posts) => posts'[q] = 1
    BY <1>1, <1>4, InsteadBag
  <2>2. \A s : s.op = "broadcast" /\ s.value # {d} => s # r /\ s # q
    BY <1>4
  <2>3. \A s : s.op = "broadcast" /\ s.value # {d} =>
                  /\ s \in BagToSet(posts') <=> s \in BagToSet(posts)
                  /\ s \in BagToSet(posts) => posts'[s] = posts[s]
    BY <2>1, <2>2
  <2>4. \A s \in BagToSet(posts') : s.op = "broadcast" /\ s.value = {d} => s = q
    BY <1>2, <2>1
  <2>5. q.op = "broadcast" => q \notin BagToSet(posts)
    BY <1>2, <1>4
  <2> QED BY <1>4, <2>1, <2>3, <2>4, <2>5
<1> QED BY <1>3, <1>4

(* What has to hold of the counts of its announcement then. *)
LEMMA BroadcastCounted ==
    ASSUME SoundPosts, BroadcastInv, NEW r \in BagToSet(posts), r.op = "broadcast", NEW d \in Drafts, r.value = {d},
           posts' = Without(r) \/ \E q : /\ posts' = Instead(r, q) /\ q # r
                                         /\ q.op = "broadcast" => q.value = {d} /\ ~q.left /\ ~r.left,
           draft' \in {draft, 0}, typed' = typed,
           sending' = sending \/ (~r.left /\ \A s \in BagToSet(posts') : s.op = "broadcast" => s.value # {d}),
           stored'["notifications"] \in [Drafts -> Nat], told' \in [Drafts -> Nat],
           \A e \in Drafts : e # d => /\ stored'["notifications"][e] = stored["notifications"][e]
                                      /\ told'[e] = told[e],
           stored'["notifications"][d] <= told'[d] + 1,
           \A s \in BagToSet(posts') : s.op = "broadcast" /\ s.value = {d} => s.at # "sent",
           draft' = d /\ (\A s \in BagToSet(posts') : s.op = "broadcast" => s.value # {d})
             => stored'["notifications"][d] <= told'[d]
    PROVE  BroadcastInv'
<1>1. \A s : s.op = "broadcast" /\ s.value # {d} =>
                /\ s \in BagToSet(posts') <=> s \in BagToSet(posts)
                /\ s \in BagToSet(posts) => posts'[s] = posts[s]
  BY BroadcastMoved
<1>2. \A s \in BagToSet(posts') : s.op = "broadcast" /\ s.value = {d} =>
                /\ posts'[s] = 1 /\ ~s.left /\ ~r.left
                /\ \A y \in BagToSet(posts') : y.op = "broadcast" /\ y.value = {d} => y = s
  BY BroadcastMoved
<1>3. d \in 1..typed
  <2>1. PICK e \in 1..typed : r.value = {e}
    BY DEF BroadcastInv, Broadcasts
  <2> QED BY <2>1
<1>4. Counts'
  BY DEF BroadcastInv, Counts
<1>5. ~r.left => \A s \in BagToSet(posts') : s.op = "broadcast" /\ s.value # {d} => s.left
  BY <1>1 DEF BroadcastInv, Broadcasts, SoundPosts, SoundPost
<1>6. ~r.left => sending
  BY DEF BroadcastInv, Broadcasts
<1>7. Broadcasts'
  <2>1. \A s \in BagToSet(posts') : s.op = "broadcast" => posts'[s] = 1 /\ \E e \in 1..typed' : s.value = {e}
    BY <1>1, <1>2, <1>3 DEF BroadcastInv, Broadcasts
  <2>2. \A s \in BagToSet(posts') : s.op = "broadcast" /\ ~s.left => sending'
    BY <1>1, <1>2, <1>5, <1>6 DEF BroadcastInv, Broadcasts
  <2>3. \A s, y \in BagToSet(posts') :
          s.op = "broadcast" /\ y.op = "broadcast" /\ (s.value = y.value \/ (~s.left /\ ~y.left)) => s = y
    BY <1>1, <1>2, <1>5 DEF BroadcastInv, Broadcasts
  <2>4. \A s \in BagToSet(posts') : s.op = "broadcast" /\ s.left => s.value # {draft'}
    <3>1. SUFFICES ASSUME NEW s \in BagToSet(posts'), s.op = "broadcast", s.left PROVE s.value # {draft'}
      OBVIOUS
    <3>2. s.value # {d}
      BY <1>2, <3>1
    <3>3. s \in BagToSet(posts) /\ s.value # {draft}
      BY <1>1, <3>1, <3>2 DEF BroadcastInv, Broadcasts
    <3>4. \E e \in 1..typed' : s.value = {e}
      BY <2>1, <3>1
    <3> QED BY <3>3, <3>4
  <2> QED BY <2>1, <2>2, <2>3, <2>4 DEF Broadcasts
<1>8. \A e \in Drafts : e # d => (InFlight(e)' <=> InFlight(e)) /\ (Unsent(e)' <=> Unsent(e))
  BY <1>1 DEF InFlight, Unsent, About
<1>9. ~Unsent(d)' /\ (~InFlight(d)' => \A s \in BagToSet(posts') : s.op = "broadcast" => s.value # {d})
  BY DEF Unsent, InFlight, About
<1>10. Repeats'
  <2>1. ASSUME NEW e \in Drafts, e # d
        PROVE  /\ e > typed' => stored'["notifications"][e] = 0
               /\ stored'["notifications"][e] <= told'[e] + 1
               /\ Unsent(e)' => stored'["notifications"][e] <= told'[e]
               /\ draft' = e /\ ~InFlight(e)' => stored'["notifications"][e] <= told'[e]
    BY <1>8, <2>1 DEF BroadcastInv, Repeats, Drafts
  <2>2. ~(d > typed')
    BY <1>3 DEF BroadcastInv, Counts
  <2> QED BY <1>9, <2>1, <2>2 DEF Repeats
<1> QED BY <1>4, <1>7, <1>10 DEF BroadcastInv

(* The page is left: what was sent is still to be taken, and is not sent again. *)
LEMMA BroadcastLeft ==
    ASSUME EditsShape, SoundPosts, BroadcastInv, reopen
    PROVE  BroadcastInv'
<1>0. FiniteBag(posts) /\ \A r \in BagToSet(posts) : SoundPost(page, r)
  BY DEF SoundPosts
<1>1. /\ posts' = Plus(LeftBehind, ReadOf) /\ draft' = 0 /\ UNCHANGED <<stored, typed, told>>
  BY DEF reopen, Plus
<1>2. FiniteBag(LeftBehind) /\ BagToSet(LeftBehind) = {AsLeft(r) : r \in SentWrites}
  BY <1>0, LeftBag
<1>3. /\ BagToSet(posts') = BagToSet(LeftBehind) \cup {ReadOf} /\ ReadOf.op = "read"
      /\ \A y \in BagToSet(LeftBehind) : y # ReadOf => posts'[y] = LeftBehind[y]
  BY <1>1, <1>2, PlusBag, PostForms
<1>4. \A r \in SentWrites : /\ AsLeft(r).op = r.op /\ AsLeft(r).value = r.value /\ AsLeft(r).left = TRUE
                            /\ r \in BagToSet(posts) /\ r.at = "sent" /\ AsLeft(r).at = r.at
  BY <1>0, LeftFields DEF SentWrites, SoundPost
<1>5. ASSUME NEW r \in SentWrites, r.op = "broadcast" PROVE LeftBehind[AsLeft(r)] = 1
  <2>1. \A q \in SentWrites : AsLeft(q) = AsLeft(r) => q.op = r.op /\ q.value = r.value
    BY <1>4
  <2>2. \A q \in SentWrites : AsLeft(q) = AsLeft(r) => q = r
    BY <1>4, <1>5, <2>1 DEF BroadcastInv, Broadcasts
  <2>3. LeftBehind[AsLeft(r)] = posts[r]
    BY <1>0, <2>2, LeftBag
  <2> QED BY <1>4, <1>5, <2>3 DEF BroadcastInv, Broadcasts
<1>6. ASSUME NEW s \in BagToSet(posts'), s.op = "broadcast"
      PROVE  /\ posts'[s] = 1 /\ s.left
             /\ \E r \in BagToSet(posts) : s = AsLeft(r) /\ r.op = "broadcast" /\ r.value = s.value /\ r.at = "sent"
  <2>1. PICK r \in SentWrites : s = AsLeft(r)
    BY <1>2, <1>3, <1>6
  <2>2. r.op = "broadcast" /\ r.value = s.value /\ r.at = "sent" /\ s.left /\ r \in BagToSet(posts)
    BY <1>4, <1>6, <2>1
  <2>3. posts'[s] = LeftBehind[s]
    BY <1>2, <1>3, <1>6, <2>1
  <2> QED BY <1>5, <2>1, <2>2, <2>3
<1>7. Counts'
  BY <1>1 DEF BroadcastInv, Counts
<1>8. Broadcasts'
  <2>1. \A s \in BagToSet(posts') : s.op = "broadcast" =>
          posts'[s] = 1 /\ s.left /\ \E e \in 1..typed' : s.value = {e}
    BY <1>1, <1>6 DEF BroadcastInv, Broadcasts
  <2>2. \A s, y \in BagToSet(posts') : s.op = "broadcast" /\ y.op = "broadcast" /\ s.value = y.value => s = y
    BY <1>6 DEF BroadcastInv, Broadcasts
  <2>3. \A s \in BagToSet(posts') : s.op = "broadcast" => s.value # {draft'}
    BY <1>1, <2>1
  <2> QED BY <2>1, <2>2, <2>3 DEF Broadcasts
<1>9. \A d : Unsent(d)' => Unsent(d)
  BY <1>6 DEF Unsent, About
<1>10. Repeats'
  BY <1>1, <1>9 DEF BroadcastInv, Repeats, Drafts
<1> QED BY <1>7, <1>8, <1>10 DEF BroadcastInv

(* Announcements keep to the failures told. *)
LEMMA BroadcastStep ==
    EditsShape /\ SoundPosts /\ EditsShape' /\ SoundPosts' /\ BroadcastInv /\ EditsNext => BroadcastInv'
<1> SUFFICES ASSUME EditsShape, SoundPosts, EditsShape', SoundPosts', BroadcastInv, EditsNext,
                    page = "notifications"
             PROVE  BroadcastInv'
  BY BroadcastElsewhere
<1>0. /\ FiniteBag(posts) /\ createFor = {}
      /\ \A r \in BagToSet(posts) : SoundPost(page, r) /\ r.op \in {"read", "broadcast"}
  BY PageWrites DEF SoundPosts, SoundPost, EditsShape
<1>a. /\ stored["notifications"] \in [Drafts -> Nat] /\ told \in [Drafts -> Nat]
      /\ typed \in Nat /\ Counts /\ Repeats
  BY EditsAssumption DEF BroadcastInv, Counts
<1>b. ASSUME NEW r \in BagToSet(posts), r.op = "broadcast"
      PROVE  /\ posts[r] = 1 /\ (~r.left => sending) /\ IsPost(r)
             /\ \E d \in Drafts : r.value = {d} /\ d \in 1..typed
  <2>1. PICK d \in 1..typed : r.value = {d}
    BY <1>b DEF BroadcastInv, Broadcasts
  <2>2. d \in Drafts
    BY EditsAssumption DEF BroadcastInv, Counts, Drafts
  <2> QED BY <1>0, <1>b, <2>1, <2>2 DEF BroadcastInv, Broadcasts, SoundPost
<1>1. (\A c : ~setConfig(c)) /\ ~handleSave /\ (\A p : ~handleToggle(p)) /\ ~handleCreate /\ (\A n : ~setShowCreateModal(n))
  BY <1>0 DEF setConfig, handleSave, SavesConfig, handleToggle, handleCreate, setShowCreateModal
<1>2. CASE successTimeout
  BY <1>2, BroadcastsStay DEF successTimeout
<1>3. CASE typeAnnouncement
  <2>1. /\ typed < MaxTyped /\ typed' = typed + 1 /\ draft' = typed + 1 /\ UNCHANGED <<stored, sending, posts, told>>
    BY <1>3 DEF typeAnnouncement
  <2>2. MaxTyped \in Nat
    BY EditsAssumption
  <2>3. Counts'
    BY <1>a, <2>1, <2>2 DEF Counts
  <2>4. \A r \in BagToSet(posts) : r.op = "broadcast" =>
           /\ \E d \in 1..(typed + 1) : r.value = {d}
           /\ r.value # {typed + 1}
    <3>1. ASSUME NEW r \in BagToSet(posts), r.op = "broadcast"
          PROVE  (\E d \in 1..(typed + 1) : r.value = {d}) /\ r.value # {typed + 1}
      <4>1. PICK d \in 1..typed : r.value = {d}
        BY <3>1 DEF BroadcastInv, Broadcasts
      <4>2. d \in 1..(typed + 1) /\ d # typed + 1
        BY <1>a
      <4> QED BY <4>1, <4>2
    <3> QED BY <3>1
  <2>5. Broadcasts'
    BY <2>1, <2>4 DEF BroadcastInv, Broadcasts
  <2>6. \A d : (InFlight(d)' <=> InFlight(d)) /\ (Unsent(d)' <=> Unsent(d))
    BY <2>1 DEF InFlight, Unsent, About
  <2>7. ASSUME NEW d \in Drafts
        PROVE  /\ d > typed' => stored'["notifications"][d] = 0
               /\ stored'["notifications"][d] <= told'[d] + 1
               /\ Unsent(d)' => stored'["notifications"][d] <= told'[d]
               /\ draft' = d /\ ~InFlight(d)' => stored'["notifications"][d] <= told'[d]
    BY <1>a, <2>1, <2>6 DEF Repeats, Drafts
  <2> QED BY <2>3, <2>5, <2>7 DEF BroadcastInv, Repeats
<1>4. CASE handleBroadcast
  BY <1>4, BroadcastSent
<1>5. ASSUME NEW r \in BagToSet(posts), requestTaken(r) PROVE BroadcastInv'
  <2>1. UNCHANGED <<draft, typed, sending, told>>
    BY <1>5 DEF requestTaken
  <2>2. CASE r.op = "read"
    <3>1. ~r.left /\ IsPost(r)
      BY <1>0, <2>2 DEF SoundPost
    <3>2. PICK a \in {"ok", "failed"}, v \in {r.value, {stored[page]}} : posts' = Instead(r, Later(r, a, v))
      BY <1>5, <3>1, TakenPosts
    <3>3. Later(r, a, v).op # "broadcast"
      BY <2>2, <3>1, LaterFields
    <3>4. stored' = stored
      BY <1>5, <2>2 DEF requestTaken
    <3>5. \A s : s.op = "broadcast" => /\ s \in BagToSet(posts') <=> s \in BagToSet(posts)
                                       /\ s \in BagToSet(posts) => posts'[s] = posts[s]
      BY <1>0, <2>2, <3>2, <3>3, OthersStay
    <3> QED BY <2>1, <3>4, <3>5, BroadcastsStay
  <2>3. CASE r.op = "broadcast"
    <3>1. PICK d \in Drafts : r.value = {d} /\ d \in 1..typed
      BY <1>b, <2>3
    <3>2. stored' = [stored EXCEPT ![page] = [stored[page] EXCEPT ![d] = stored[page][d] + 1]]
      BY <1>5, <2>3, <3>1 DEF requestTaken, Refused, Written, Table
    <3>3. stored'["notifications"] = [stored["notifications"] EXCEPT ![d] = stored["notifications"][d] + 1]
      BY <3>2 DEF EditsShape, EditPages, Tables
    <3>4. Unsent(d) /\ r.at = "sent"
      BY <1>5, <2>3, <3>1 DEF Unsent, About, requestTaken
    <3>5. stored["notifications"][d] <= told[d]
      BY <1>a, <3>4 DEF Repeats
    <3>6. /\ stored'["notifications"] \in [Drafts -> Nat]
          /\ stored'["notifications"][d] <= told'[d] + 1
          /\ \A e \in Drafts : e # d => stored'["notifications"][e] = stored["notifications"][e] /\ told'[e] = told[e]
      BY <1>a, <2>1, <3>3, <3>5
    <3>7. CASE r.left
      <4>1. posts' = Without(r) /\ draft # d
        BY <1>5, <2>3, <3>1, <3>7, TakenPosts DEF BroadcastInv, Broadcasts
      <4>2. BagToSet(posts') = BagToSet(posts) \ {r}
        BY <1>0, <1>b, <2>3, <4>1, WithoutBag
      <4>3. \A s \in BagToSet(posts') : s.op = "broadcast" => s.value # {d}
        BY <2>3, <3>1, <4>2 DEF BroadcastInv, Broadcasts
      <4> QED BY <1>a, <2>1, <2>3, <3>1, <3>6, <4>1, <4>3, BroadcastCounted
    <3>8. CASE ~r.left
      <4>1. PICK a \in {"ok", "failed"} : posts' = Instead(r, Later(r, a, r.value))
        BY <1>5, <2>3, <3>8, TakenPosts
      <4> DEFINE q == Later(r, a, r.value)
      <4>2. q.op = "broadcast" /\ q.value = {d} /\ q.at = a /\ q.left = r.left
        BY <1>b, <2>3, <3>1, LaterFields
      <4> HIDE DEF q
      <4>3. q # r /\ posts' = Instead(r, q) /\ ~q.left
        BY <3>4, <3>8, <4>1, <4>2 DEF q
      <4>4. q \in BagToSet(posts') /\ BagToSet(posts') \subseteq (BagToSet(posts) \ {r}) \cup {q}
        BY <1>0, <1>b, <2>3, <4>3, InsteadBag
      <4>5. \A s \in BagToSet(posts') : s.op = "broadcast" /\ s.value = {d} => s.at # "sent"
        BY <2>3, <3>1, <4>1, <4>2, <4>4 DEF BroadcastInv, Broadcasts
      <4>6. ~(\A s \in BagToSet(posts') : s.op = "broadcast" => s.value # {d})
        BY <4>2, <4>4
      <4> QED BY <1>a, <2>1, <2>3, <3>1, <3>6, <3>8, <4>2, <4>3, <4>5, <4>6, BroadcastCounted
    <3> QED BY <3>7, <3>8
  <2> QED BY <1>0, <2>2, <2>3
<1>6. ASSUME NEW r \in BagToSet(posts), requestLost(r) PROVE BroadcastInv'
  <2>1. UNCHANGED <<draft, typed, sending, told, stored>> /\ r.at # "failed"
    BY <1>6 DEF requestLost
  <2>2. CASE r.op = "read"
    <3>1. ~r.left /\ IsPost(r)
      BY <1>0, <2>2 DEF SoundPost
    <3>2. PICK v : posts' = Instead(r, Later(r, "failed", v))
      BY <1>6, <3>1, LostPosts
    <3>3. Later(r, "failed", v).op # "broadcast"
      BY <2>2, <3>1, LaterFields
    <3>4. \A s : s.op = "broadcast" => /\ s \in BagToSet(posts') <=> s \in BagToSet(posts)
                                       /\ s \in BagToSet(posts) => posts'[s] = posts[s]
      BY <1>0, <2>2, <3>2, <3>3, OthersStay
    <3> QED BY <2>1, <3>4, BroadcastsStay
  <2>3. CASE r.op = "broadcast"
    <3>1. PICK d \in Drafts : r.value = {d} /\ d \in 1..typed
      BY <1>b, <2>3
    <3>2. /\ stored'["notifications"] \in [Drafts -> Nat] /\ told' \in [Drafts -> Nat]
          /\ stored'["notifications"][d] <= told'[d] + 1
          /\ \A e \in Drafts : e # d => stored'["notifications"][e] = stored["notifications"][e] /\ told'[e] = told[e]
      BY <1>a, <2>1 DEF Repeats
    <3>3. CASE r.left
      <4>1. posts' = Without(r) /\ draft # d
        BY <1>6, <2>3, <3>1, <3>3, LostPosts DEF BroadcastInv, Broadcasts
      <4>2. BagToSet(posts') = BagToSet(posts) \ {r}
        BY <1>0, <1>b, <2>3, <4>1, WithoutBag
      <4>3. \A s \in BagToSet(posts') : s.op = "broadcast" => s.value # {d}
        BY <2>3, <3>1, <4>2 DEF BroadcastInv, Broadcasts
      <4> QED BY <2>1, <2>3, <3>1, <3>2, <4>1, <4>3, BroadcastCounted
    <3>4. CASE ~r.left
      <4> DEFINE q == Later(r, "failed", r.value)
      <4>1. posts' = Instead(r, q)
        BY <1>6, <2>3, <3>4, LostPosts
      <4>2. q.op = "broadcast" /\ q.value = {d} /\ q.at = "failed" /\ q.left = r.left
        BY <1>b, <2>3, <3>1, LaterFields
      <4> HIDE DEF q
      <4>3. q # r /\ ~q.left
        BY <2>1, <3>4, <4>2
      <4>4. q \in BagToSet(posts') /\ BagToSet(posts') \subseteq (BagToSet(posts) \ {r}) \cup {q}
        BY <1>0, <1>b, <2>3, <4>1, InsteadBag
      <4>5. \A s \in BagToSet(posts') : s.op = "broadcast" /\ s.value = {d} => s.at # "sent"
        BY <2>3, <3>1, <4>2, <4>4 DEF BroadcastInv, Broadcasts
      <4>6. ~(\A s \in BagToSet(posts') : s.op = "broadcast" => s.value # {d})
        BY <4>2, <4>4
      <4> QED BY <2>1, <2>3, <3>1, <3>2, <3>4, <4>1, <4>2, <4>3, <4>5, <4>6, BroadcastCounted
    <3> QED BY <3>3, <3>4
  <2> QED BY <1>0, <2>2, <2>3
<1>7. ASSUME NEW r \in BagToSet(posts), readAnswered(r) PROVE BroadcastInv'
  <2>1. r.op = "read" /\ posts' = Without(r) /\ UNCHANGED <<stored, draft, typed, sending, told>>
    BY <1>7 DEF readAnswered
  <2>2. \A s : s.op = "broadcast" => /\ s \in BagToSet(posts') <=> s \in BagToSet(posts)
                                     /\ s \in BagToSet(posts) => posts'[s] = posts[s]
    BY <1>0, <2>1, OthersStay
  <2> QED BY <2>1, <2>2, BroadcastsStay
<1>8. ASSUME NEW r \in BagToSet(posts), writeSucceeded(r) PROVE BroadcastInv'
  <2>1. r.op = "broadcast" /\ r.at = "ok"
    BY <1>0, <1>8 DEF writeSucceeded
  <2>2. posts' = Instead(r, ReadOf) /\ draft' = 0 /\ UNCHANGED <<stored, typed, told>>
    BY <1>8, <2>1 DEF writeSucceeded, ReadsAgain
  <2>3. PICK d \in Drafts : r.value = {d} /\ d \in 1..typed
    BY <1>b, <2>1
  <2>4. ReadOf.op = "read" /\ ReadOf # r /\ ~r.left
    BY <1>0, <2>1, PostForms DEF SoundPost
  <2>5. BagToSet(posts') = (BagToSet(posts) \ {r}) \cup {ReadOf}
    BY <1>0, <1>b, <2>1, <2>2, InsteadBag
  <2>6. \A s \in BagToSet(posts') : s.op = "broadcast" => s.value # {d}
    BY <2>1, <2>3, <2>4, <2>5 DEF BroadcastInv, Broadcasts
  <2>7. draft' # d
    BY <2>2, <2>3 DEF Drafts
  <2>8. /\ stored'["notifications"] \in [Drafts -> Nat] /\ told' \in [Drafts -> Nat]
        /\ stored'["notifications"][d] <= told'[d] + 1
        /\ \A e \in Drafts : e # d => stored'["notifications"][e] = stored["notifications"][e] /\ told'[e] = told[e]
    BY <1>a, <2>2 DEF Repeats
  <2> QED BY <2>1, <2>2, <2>3, <2>4, <2>6, <2>7, <2>8, BroadcastCounted
<1>9. ASSUME NEW r \in BagToSet(posts), writeFailed(r) PROVE BroadcastInv'
  <2>1. r.op = "broadcast" /\ r.at = "failed"
    BY <1>0, <1>9 DEF writeFailed
  <2>2. /\ posts' = Without(r) /\ UNCHANGED <<stored, draft, typed>>
        /\ told' = [d \in Drafts |-> IF d \in r.value THEN told[d] + 1 ELSE told[d]]
    BY <1>9, <2>1 DEF writeFailed
  <2>3. PICK d \in Drafts : r.value = {d} /\ d \in 1..typed
    BY <1>b, <2>1
  <2>4. ~r.left
    BY <1>0, <2>1 DEF SoundPost
  <2>5. BagToSet(posts') = BagToSet(posts) \ {r}
    BY <1>0, <1>b, <2>1, <2>2, WithoutBag
  <2>6. \A s \in BagToSet(posts') : s.op = "broadcast" => s.value # {d}
    BY <2>1, <2>3, <2>5 DEF BroadcastInv, Broadcasts
  <2>7. /\ stored'["notifications"] \in [Drafts -> Nat] /\ told' \in [Drafts -> Nat]
        /\ told'[d] = told[d] + 1
        /\ \A e \in Drafts : e # d => stored'["notifications"][e] = stored["notifications"][e] /\ told'[e] = told[e]
    BY <1>a, <2>2, <2>3
  <2>8. stored'["notifications"][d] <= told'[d] /\ stored'["notifications"][d] <= told'[d] + 1
    <3>1. stored["notifications"][d] <= told[d] + 1 /\ stored["notifications"][d] \in Nat /\ told[d] \in Nat
      BY <1>a DEF Repeats
    <3> QED BY <2>2, <2>7, <3>1
  <2> QED BY <2>2, <2>1, <2>3, <2>4, <2>6, <2>7, <2>8, BroadcastCounted
<1>10. CASE reopen
  BY <1>10, BroadcastLeft
<1> QED BY <1>1, <1>2, <1>3, <1>4, <1>5, <1>6, <1>7, <1>8, <1>9, <1>10 DEF EditsNext

(* A step that sends a write, or changes nothing the list depends on. *)
LEMMA ListWaits ==
    ASSUME ListInv, page' = page, calm' => calm, UNCHANGED <<stored, shown>>,
           \A s \in BagToSet(posts) : s \in BagToSet(posts'),
           \A s : s.op = "read" => /\ s \in BagToSet(posts') <=> s \in BagToSet(posts)
                                   /\ s \in BagToSet(posts) => posts'[s] = posts[s]
    PROVE  ListInv'
<1> SUFFICES ASSUME page # "app_versions", calm' PROVE OneRead' /\ ListComes'
  BY DEF ListInv
<1>1. OneRead /\ ListComes
  BY DEF ListInv
<1>2. OneRead'
  BY <1>1 DEF OneRead
<1>3. ListComes'
  BY <1>1 DEF ListComes, Reading
<1> QED BY <1>2, <1>3

(* The write of a page is sent. *)
LEMMA ListSend ==
    ASSUME SoundPosts, ListInv, NEW q, q.op # "read", posts' = posts (+) SetToBag({q}), page' = page,
           calm' => calm, UNCHANGED <<stored, shown>>
    PROVE  ListInv'
<1>1. posts' = Plus(posts, q)
  BY DEF Plus
<1>a. /\ BagToSet(Plus(posts, q)) = BagToSet(posts) \cup {q}
      /\ \A y \in BagToSet(posts) : y # q => Plus(posts, q)[y] = posts[y]
  BY PlusBag DEF SoundPosts
<1>2. /\ BagToSet(posts') = BagToSet(posts) \cup {q}
      /\ \A y \in BagToSet(posts) : y # q => posts'[y] = posts[y]
  BY <1>1, <1>a, Zenon
<1>3. \A s : s.op = "read" => /\ s \in BagToSet(posts') <=> s \in BagToSet(posts)
                              /\ s \in BagToSet(posts) => posts'[s] = posts[s]
  BY <1>2
<1> QED BY <1>2, <1>3, ListWaits

(* A request fails or a write is done: its answer will bring the list, or the    *)
(* end of the calm.                                                          *)
LEMMA ListMoved ==
    ASSUME SoundPosts, ListInv, NEW r \in BagToSet(posts), NEW q, q # r, posts' = Instead(r, q), q.op = r.op,
           q.at = "failed" \/ (r.op # "read" /\ q.at = "ok"), page' = page, calm' = calm
    PROVE  ListInv'
<1> SUFFICES ASSUME page # "app_versions", calm' PROVE OneRead' /\ ListComes'
  BY DEF ListInv
<1>1. /\ q \in BagToSet(posts') /\ BagToSet(posts') \subseteq BagToSet(posts) \cup {q}
      /\ \A y \in BagToSet(posts) : y # r /\ y # q => posts'[y] = posts[y]
      /\ posts[r] = 1 => BagToSet(posts') = (BagToSet(posts) \ {r}) \cup {q}
      /\ q \notin BagToSet(posts) => posts'[q] = 1
  BY InsteadBag DEF SoundPosts
<1>2. OneRead
  BY DEF ListInv
<1>3. CASE r.op = "read"
  <2>1. posts[r] = 1 /\ q \notin BagToSet(posts)
    BY <1>2, <1>3 DEF OneRead
  <2> QED BY <1>1, <1>2, <1>3, <2>1 DEF OneRead, ListComes
<1>4. CASE r.op # "read"
  BY <1>1, <1>2, <1>4 DEF OneRead, ListComes
<1> QED BY <1>3, <1>4

(* A list comes to rest on what the server holds. *)
LEMMA ListStep == EditsShape /\ SoundPosts /\ ListInv /\ EditsNext => ListInv'
<1> SUFFICES ASSUME EditsShape, SoundPosts, ListInv, EditsNext, page # "app_versions" PROVE ListInv'
  BY PageStays DEF ListInv
<1>0. /\ FiniteBag(posts) /\ page' = page /\ \A r \in BagToSet(posts) : SoundPost(page, r)
      /\ calm => \A r \in BagToSet(posts) : ~r.left
  BY PageStays DEF SoundPosts
<1>a. \A r \in BagToSet(posts) : IsPost(r) /\ r.op # "save" /\ r.at \in Outcomes
  BY <1>0, PageWrites DEF SoundPost, EditsShape, EditPages, Tables
<1>1. (\A c : ~setConfig(c)) /\ ~handleSave
  BY DEF setConfig, handleSave, SavesConfig
<1>2. CASE successTimeout
  BY <1>2, ListWaits DEF successTimeout
<1>3. CASE typeAnnouncement
  BY <1>3, ListWaits DEF typeAnnouncement
<1>4. CASE handleBroadcast
  <2>1. Post("broadcast", draft).op # "read"
    BY DEF Post
  <2> QED BY <1>4, <2>1, ListSend DEF handleBroadcast
<1>5. ASSUME NEW p \in Projects, handleToggle(p) PROVE ListInv'
  <2>1. PICK list \in shown : posts' = posts (+) SetToBag({Post("patch", [id |-> p, to |-> ~list[p]])})
    BY <1>5 DEF handleToggle
  <2>2. Post("patch", [id |-> p, to |-> ~list[p]]).op # "read"
    BY DEF Post
  <2> QED BY <1>5, <2>1, <2>2, ListSend DEF handleToggle
<1>6. ASSUME NEW n, setShowCreateModal(n) PROVE ListInv'
  BY <1>6, ListWaits DEF setShowCreateModal
<1>7. CASE handleCreate
  <2>1. PICK n \in createFor : posts' = posts (+) SetToBag({Post("create", n)})
    BY <1>7 DEF handleCreate
  <2>2. Post("create", n).op # "read"
    BY DEF Post
  <2> QED BY <1>7, <2>1, <2>2, ListSend DEF handleCreate
<1>8. ASSUME NEW r \in BagToSet(posts), requestTaken(r) PROVE ListInv'
  <2>1. UNCHANGED <<page, calm, shown>> /\ r.at = "sent"
    BY <1>8 DEF requestTaken
  <2> SUFFICES ASSUME calm' PROVE ListInv'
    BY DEF ListInv
  <2>2. calm /\ ~r.left /\ OneRead /\ ListComes
    BY <1>0, <2>1 DEF ListInv
  <2>3. PICK a \in {"ok", "failed"}, v \in {r.value, {stored[page]}} :
          /\ posts' = Instead(r, Later(r, a, v))
          /\ a = "failed" => Refused(r)
          /\ r.op = "read" => v = {stored[page]}
    BY <1>8, <2>2, TakenPosts
  <2> DEFINE q == Later(r, a, v)
  <2>4. q.op = r.op /\ q.at = a /\ q.value = v
    BY <1>a, LaterFields
  <2> HIDE DEF q
  <2>5. q # r /\ posts' = Instead(r, q)
    BY <2>1, <2>3, <2>4 DEF q
  <2>6. CASE r.op # "read"
    BY <2>1, <2>4, <2>5, <2>6, ListMoved
  <2>7. CASE r.op = "read"
    <3>1. posts[r] = 1 /\ q \notin BagToSet(posts) /\ a = "ok" /\ stored' = stored
      BY <1>8, <2>2, <2>3, <2>4, <2>5, <2>7 DEF OneRead, Refused, requestTaken
    <3>2. BagToSet(posts') = (BagToSet(posts) \ {r}) \cup {q} /\ posts'[q] = 1
      BY <1>0, <2>5, <3>1, InsteadBag
    <3>3. OneRead'
      BY <2>2, <2>4, <2>7, <3>2 DEF OneRead
    <3>4. ListComes'
      BY <2>1, <2>3, <2>4, <2>7, <3>1, <3>2 DEF ListComes
    <3> QED BY <3>3, <3>4 DEF ListInv
  <2> QED BY <2>6, <2>7
<1>9. ASSUME NEW r \in BagToSet(posts), requestLost(r) PROVE ListInv'
  <2>1. UNCHANGED <<page, calm, shown>> /\ r.at # "failed"
    BY <1>9 DEF requestLost
  <2> SUFFICES ASSUME calm' PROVE ListInv'
    BY DEF ListInv
  <2>2. ~r.left
    BY <1>0, <2>1
  <2>3. PICK v : posts' = Instead(r, Later(r, "failed", v))
    BY <1>9, <2>2, LostPosts
  <2> DEFINE q == Later(r, "failed", v)
  <2>4. q.op = r.op /\ q.at = "failed"
    BY <1>a, LaterFields
  <2> HIDE DEF q
  <2>5. q # r /\ posts' = Instead(r, q)
    BY <2>1, <2>3, <2>4 DEF q
  <2> QED BY <2>1, <2>4, <2>5, ListMoved
<1>10. ASSUME NEW r \in BagToSet(posts), readAnswered(r) PROVE ListInv'
  <2>1. /\ r.op = "read" /\ posts' = Without(r) /\ UNCHANGED <<page, stored>>
        /\ calm' => calm /\ r.at = "ok"
        /\ shown' = IF r.at = "ok" THEN r.value ELSE shown
    BY <1>10 DEF readAnswered
  <2> SUFFICES ASSUME calm' PROVE OneRead' /\ ListComes'
    BY DEF ListInv
  <2>2. r.at = "ok" /\ shown' = r.value /\ OneRead /\ ListComes /\ posts[r] = 1
    BY <2>1 DEF ListInv, OneRead
  <2>3. /\ BagToSet(posts') = BagToSet(posts) \ {r}
        /\ \A y \in BagToSet(posts) : y # r => posts'[y] = posts[y]
    BY <1>0, <2>1, <2>2, WithoutBag
  <2>4. OneRead' /\ ~Reading(posts')
    BY <2>1, <2>2, <2>3 DEF OneRead, Reading
  <2>5. ListComes'
    BY <2>1, <2>2, <2>3, <2>4 DEF ListComes, OneRead, Reading
  <2> QED BY <2>4, <2>5
<1>11. ASSUME NEW r \in BagToSet(posts), writeSucceeded(r) PROVE ListInv'
  <2>1. r.op # "read" /\ posts' = Instead(r, ReadOf) /\ calm' = (calm /\ ~Reading(posts))
    BY <1>11, <1>a DEF writeSucceeded, ReadsAgain
  <2>2. ReadOf.op = "read" /\ ReadOf.at = "sent"
    BY PostForms
  <2> SUFFICES ASSUME calm' PROVE OneRead' /\ ListComes'
    BY DEF ListInv
  <2>3. \A s \in BagToSet(posts) : s.op # "read"
    BY <2>1 DEF Reading
  <2>4. /\ BagToSet(posts') \subseteq BagToSet(posts) \cup {ReadOf} /\ ReadOf \in BagToSet(posts')
        /\ posts'[ReadOf] = 1
    BY <1>0, <2>1, <2>2, <2>3, InsteadBag
  <2> QED BY <2>2, <2>3, <2>4 DEF OneRead, ListComes
<1>12. ASSUME NEW r \in BagToSet(posts), writeFailed(r) PROVE ListInv'
  BY <1>12 DEF writeFailed, ListInv
<1>13. CASE reopen
  <2>1. posts' = Plus(LeftBehind, ReadOf)
    BY <1>13 DEF reopen, Plus
  <2>2. FiniteBag(LeftBehind) /\ BagToSet(LeftBehind) = {AsLeft(r) : r \in SentWrites}
    BY <1>0, LeftBag
  <2>3. \A r \in SentWrites : AsLeft(r).op # "read"
    BY <1>a, LeftFields DEF SentWrites
  <2>4. ReadOf.op = "read" /\ ReadOf.at = "sent"
    BY PostForms
  <2>5. ReadOf \notin BagToSet(LeftBehind)
    BY <2>2, <2>3, <2>4
  <2>6. BagToSet(posts') = BagToSet(LeftBehind) \cup {ReadOf} /\ posts'[ReadOf] = 1
    BY <2>1, <2>2, <2>5, PlusBag
  <2> QED BY <2>2, <2>3, <2>4, <2>6 DEF ListInv, OneRead, ListComes
<1> QED BY <1>1, <1>2, <1>3, <1>4, <1>5, <1>6, <1>7, <1>8, <1>9, <1>10, <1>11, <1>12, <1>13 DEF EditsNext

(* Every step of the pages keeps the invariant. *)
LEMMA EditsStep == EditsInv /\ EditsNext => EditsInv'
BY EditsShapeStep, SoundPostsStep, SaveStep, BroadcastStep, ListStep DEF EditsInv

(* What the pages tell their user follows. *)
LEMMA EditsInvImplies == EditsInv => EditsLand
<1> SUFFICES ASSUME EditsInv PROVE EditsLand
  OBVIOUS
<1>1. SavedIsAudited
  BY DEF EditsInv, EditsShape, SaveInv, SavedIsAudited
<1>2. RepeatsWereTold
  BY DEF EditsInv, BroadcastInv, Repeats, RepeatsWereTold
<1>3. ListAtRest
  <2>1. SUFFICES ASSUME page # "app_versions", calm, posts = EmptyBag PROVE shown = {stored[page]}
    BY DEF ListAtRest
  <2>2. BagToSet(posts) = {}
    BY <2>1, NoBag
  <2> QED BY <2>1, <2>2 DEF EditsInv, ListInv, ListComes
<1> QED BY <1>1, <1>2, <1>3 DEF EditsLand

-----------------------------------------------------------------------------
(***************************************************************************)
(* The panel: each part has its steps, and the others stand still.          *)
(***************************************************************************)
AdminInv == SessionInv /\ FlagsInv /\ EditsInv

(* The panel as it is opened. *)
LEMMA AdminInitial == Init => AdminInv
BY SessionInitial, FlagsInitial, EditsInitial DEF Init, AdminInv

(* A session that stands still keeps its invariant. *)
LEMMA SessionStill == SessionInv /\ UNCHANGED svars => SessionInv'
BY DEF svars, SessionInv, SessionShape, Issued, Waits

(* So does the feature flag page. *)
LEMMA FlagsStill == FlagsInv /\ UNCHANGED fvars => FlagsInv'
BY DEF fvars, FlagsInv, FlagsShape

(* So do the pages that write. *)
LEMMA EditsStill == EditsInv /\ UNCHANGED evars => EditsInv'
<1> SUFFICES ASSUME EditsInv, UNCHANGED evars PROVE EditsInv'
  OBVIOUS
<1> USE DEF evars
<1>1. EditsShape' /\ SoundPosts'
  BY DEF EditsInv, EditsShape, SoundPosts
<1>2. SaveInv'
  BY DEF EditsInv, SaveInv, SavingOne
<1>3. BroadcastInv'
  BY DEF EditsInv, BroadcastInv, Counts, Broadcasts, Repeats, InFlight, Unsent, About
<1>4. ListInv'
  BY DEF EditsInv, ListInv, OneRead, ListComes, Reading
<1> QED BY <1>1, <1>2, <1>3, <1>4 DEF EditsInv

(* A step of the panel is a step of one part; the others stand still. *)
LEMMA StepOfParts ==
    Next => /\ SessionNext \/ UNCHANGED svars
            /\ FlagsNext \/ UNCHANGED fvars
            /\ EditsNext \/ UNCHANGED evars
<1> SUFFICES ASSUME Next
             PROVE  /\ SessionNext \/ UNCHANGED svars
                    /\ FlagsNext \/ UNCHANGED fvars
                    /\ EditsNext \/ UNCHANGED evars
  OBVIOUS
<1>1. CASE part[1] = "session" /\ SessionNext /\ UNCHANGED <<fvars, evars, part>>
  <2>1. SessionNext /\ UNCHANGED fvars /\ UNCHANGED evars
    BY <1>1, Zenon
  <2> QED BY <2>1
<1>2. CASE /\ part[1] = "flags" /\ FlagsNext /\ UNCHANGED <<svars, evars, part>>
           /\ \A p \in pendingFlag' : p.name \in part[2]
  <2>1. FlagsNext /\ UNCHANGED svars /\ UNCHANGED evars
    BY <1>2, Zenon
  <2> QED BY <2>1
<1>3. CASE part[1] = "edits" /\ EditsNext /\ UNCHANGED <<svars, fvars, part>>
  <2>1. EditsNext /\ UNCHANGED svars /\ UNCHANGED fvars
    BY <1>3, Zenon
  <2> QED BY <2>1
<1> QED BY <1>1, <1>2, <1>3, Zenon DEF Next

(* Every step of the panel keeps the invariant. *)
LEMMA AdminStep == AdminInv /\ [Next]_vars => AdminInv'
<1> SUFFICES ASSUME AdminInv, [Next]_vars PROVE AdminInv'
  OBVIOUS
<1>1. CASE Next
  <2>1. (SessionNext \/ UNCHANGED svars) /\ (FlagsNext \/ UNCHANGED fvars) /\ (EditsNext \/ UNCHANGED evars)
    BY <1>1, StepOfParts
  <2> QED BY <2>1, SessionStep, SessionStill, FlagsStep, FlagsStill, EditsStep, EditsStill
          DEF AdminInv
<1>2. CASE UNCHANGED vars
  <2>1. UNCHANGED svars /\ UNCHANGED fvars /\ UNCHANGED evars
    BY <1>2 DEF vars
  <2> QED BY <2>1, SessionStill, FlagsStill, EditsStill DEF AdminInv
<1> QED BY <1>1, <1>2

(* The invariant of the panel. *)
THEOREM AdminInvariant == Spec => []AdminInv
BY AdminInitial, AdminStep, PTL DEF Spec

(* What the invariant says of the session. *)
LEMMA AdminSessionType == AdminInv => SessionTypeOK
BY SessionInvImplies DEF AdminInv

(* What it says of its screens. *)
LEMMA AdminScreens == AdminInv => WaitsForSomething
BY SessionInvImplies DEF AdminInv

(* What it says of the pages that write. *)
LEMMA AdminPages == AdminInv => EditsLand
BY EditsInvImplies DEF AdminInv

(* What it says of a change of a flag. *)
LEMMA AdminFlags == AdminInv /\ [Next]_vars => [OnlyConfirmedChange]_fvars
<1> SUFFICES ASSUME AdminInv, [Next]_vars PROVE [OnlyConfirmedChange]_fvars
  OBVIOUS
<1>1. FlagsNext \/ UNCHANGED fvars
  <2>1. CASE Next
    BY <2>1, StepOfParts
  <2>2. CASE UNCHANGED vars
    BY <2>2 DEF vars
  <2> QED BY <2>1, <2>2
<1> QED BY <1>1, FlagsOnlyConfirmed DEF AdminInv

(* For every number of logins, windows' events and requests under way, the        *)
(* session's variables hold what the code can put in them; in particular a profile *)
(* is only ever that of an admin (AuthContext.tsx:23-40, api.ts:31-60).           *)
THEOREM SessionTypeCorrect == Spec => []SessionTypeOK
BY AdminInvariant, AdminSessionType, PTL

(* No screen waits for an answer that nobody is going to send, whatever the       *)
(* number of tokens, tabs and calls (AuthContext.tsx:32-34, LoginPage.tsx:20-22). *)
THEOREM ScreensWaitForSomething == Spec => []WaitsForSomething
BY AdminInvariant, AdminScreens, PTL

(* What the pages that write tell their user is so, for every number of configs,   *)
(* announcements, projects and accounts (AppVersionsPage.tsx:34-44,              *)
(* NotificationsPage.tsx:33-50, DiscoverPage.tsx:28-35).                        *)
THEOREM EditsTellTheTruth == Spec => []EditsLand
BY AdminInvariant, AdminPages, PTL

(* A flag changes only to a value confirmed for it in a dialog, a critical one     *)
(* only after its own phrase, for every set of flags (FeatureFlagsPage.tsx:28-38,  *)
(* ConfirmModal.tsx:29).                                                      *)
THEOREM FlagsOnlyAsConfirmed == Spec => OnlyConfirmed
BY AdminInvariant, AdminFlags, PTL DEF Spec, OnlyConfirmed
=============================================================================
