----------------------------- MODULE AdminEdits -----------------------------
(***************************************************************************)
(* The pages of the admin panel that write without a dialog of confirmation:  *)
(* the app version form, the announcement form, the Discover list and the     *)
(* list of admin accounts.  A behaviour is of one of them, left and opened     *)
(* again at will.  Each reads when it is opened; the lists read again after     *)
(* every write that succeeded.  Requests are taken by the server, and heard of   *)
(* by the page, in any order.                                               *)
(*                                                                         *)
(* A config is a number, 0 being the one built into the page and the one built   *)
(* into the server; an announcement is numbered when it is typed.               *)
(***************************************************************************)
EXTENDS Naturals, FiniteSets, BagImages

CONSTANTS
    MaxTyped,       \* bound: configs, and announcements typed
    Projects,       \* rows of the Discover list
    Names,          \* admin accounts that may be created
    MaxRetries,     \* bound: failures after which an announcement is sent again
    MaxPosts        \* bound: requests under way at once

ASSUME EditsAssumption ==
    {MaxTyped, MaxRetries, MaxPosts} \subseteq Nat /\ IsFiniteSet(Projects) /\ IsFiniteSet(Names)

EditPages == {"app_versions", "notifications", "discover", "security_admins"}

VARIABLES
    page,           \* the page of this behaviour
    stored,         \* what the server holds, by page; the config last audited
    shown,          \* the form or list of the page: {} or the singleton of a value
    draft,          \* notifications: what is typed, 0 for nothing; the others: 0
    typed,          \* announcements typed so far
    createFor,      \* newUsername of the open dialog: {} or a singleton
    sending,           \* isSaving, isSending
    saveSuccess,
    posts,          \* the bag of requests under way: [op, value, at, left]
    lastSaved,      \* history: the config last saved
    told,           \* history: failures reported, by announcement
    calm            \* history: since the page was opened no request has failed, no
                    \* write of an earlier visit was under way, no two reads were

evars == <<page, stored, shown, draft, typed, createFor, sending, saveSuccess, posts,
           lastSaved, told, calm>>

Configs == 0..MaxTyped
Drafts == 1..MaxTyped

Post(op, value) == [op |-> op, value |-> {value}, at |-> "sent", left |-> FALSE]
ReadOf == [op |-> "read", value |-> {}, at |-> "sent", left |-> FALSE]
Room4Post == BagCardinality(posts) < MaxPosts
Reading(ps) == \E r \in BagToSet(ps) : r.op = "read"
Without(r) == posts (-) SetToBag({r})
Instead(r, q) == Without(r) (+) SetToBag({q})

EditsInit ==
    /\ page \in EditPages
    /\ stored = [app_versions |-> 0, audited |-> 0,
                 notifications |-> [d \in Drafts |-> 0],
                 discover |-> [p \in Projects |-> FALSE], security_admins |-> {}]
    /\ shown = IF page = "app_versions" THEN {0} ELSE {}
    /\ draft = 0 /\ typed = 0 /\ createFor = {}
    /\ sending = FALSE /\ saveSuccess = FALSE
    /\ posts = SetToBag({ReadOf})
    /\ lastSaved = 0 /\ told = [d \in Drafts |-> 0] /\ calm = TRUE

(***************************************************************************)
(* AppVersionsPage.                                                         *)
(***************************************************************************)
setConfig(c) ==
    /\ page = "app_versions"
    /\ shown' = {c}
    /\ UNCHANGED <<page, stored, draft, typed, createFor, sending, saveSuccess, posts,
                   lastSaved, told, calm>>

SavesConfig ==
    /\ page = "app_versions" /\ Room4Post
    /\ sending' = TRUE /\ saveSuccess' = FALSE
    /\ \E c \in shown : lastSaved' = c /\ posts' = posts (+) SetToBag({Post("save", c)})
    /\ UNCHANGED <<page, stored, shown, draft, typed, createFor, told, calm>>

(* The button is not disabled. *)
handleSaveAgain == SavesConfig

handleSave == ~sending /\ SavesConfig

successTimeout ==
    /\ saveSuccess
    /\ saveSuccess' = FALSE
    /\ UNCHANGED <<page, stored, shown, draft, typed, createFor, sending, posts,
                   lastSaved, told, calm>>

(***************************************************************************)
(* NotificationsPage.                                                       *)
(***************************************************************************)
(* The fields stay enabled while an announcement is being sent. *)
typeAnnouncement ==
    /\ page = "notifications" /\ typed < MaxTyped
    /\ typed' = typed + 1 /\ draft' = typed + 1
    /\ UNCHANGED <<page, stored, shown, createFor, sending, saveSuccess, posts,
                   lastSaved, told, calm>>

handleBroadcast ==
    /\ draft # 0 /\ ~sending /\ Room4Post
    /\ told[draft] <= MaxRetries
    /\ sending' = TRUE
    /\ posts' = posts (+) SetToBag({Post("broadcast", draft)})
    /\ UNCHANGED <<page, stored, shown, draft, typed, createFor, saveSuccess, lastSaved,
                   told, calm>>

(***************************************************************************)
(* DiscoverPage and SecurityAdminsPage: no button is disabled.                *)
(***************************************************************************)
(* The value sent is the opposite of the one listed. *)
handleToggle(p) ==
    /\ page = "discover" /\ Room4Post
    /\ \E list \in shown : posts' = posts (+) SetToBag({Post("patch", [id |-> p, to |-> ~list[p]])})
    /\ UNCHANGED <<page, stored, shown, draft, typed, createFor, sending, saveSuccess,
                   lastSaved, told, calm>>

setShowCreateModal(n) ==
    /\ page = "security_admins"
    /\ createFor' = n
    /\ UNCHANGED <<page, stored, shown, draft, typed, sending, saveSuccess, posts,
                   lastSaved, told, calm>>

handleCreate ==
    /\ Room4Post
    /\ \E n \in createFor : posts' = posts (+) SetToBag({Post("create", n)})
    /\ UNCHANGED <<page, stored, shown, draft, typed, createFor, sending, saveSuccess,
                   lastSaved, told, calm>>

(***************************************************************************)
(* The server.                                                              *)
(***************************************************************************)
(* update_app_versions changes nothing but the audit log. *)
Table(r) == IF r.op = "save" THEN "audited" ELSE page

(* What a write makes of its table; an account that exists is refused. *)
Written(r) ==
    LET s == stored[page] IN
    CASE r.op = "save" -> r.value
      [] r.op = "broadcast" -> {[s EXCEPT ![d] = @ + 1] : d \in r.value}
      [] r.op = "patch" -> {[s EXCEPT ![c.id] = c.to] : c \in r.value}
      [] r.op = "create" -> {s \cup r.value}

Refused(r) == r.op = "create" /\ r.value \subseteq stored[page]

requestTaken(r) ==
    /\ r.at = "sent"
    /\ IF r.op = "read" \/ Refused(r) THEN UNCHANGED stored
       ELSE \E s \in Written(r) : stored' = [stored EXCEPT ![Table(r)] = s]
    /\ posts' = IF r.left THEN Without(r)
                ELSE Instead(r, [r EXCEPT !.at = IF Refused(r) THEN "failed" ELSE "ok",
                                          !.value = IF r.op = "read" THEN {stored[page]} ELSE @])
    /\ UNCHANGED <<page, shown, draft, typed, createFor, sending, saveSuccess, lastSaved,
                   told, calm>>

(* Before the server takes the request, or after it did. *)
requestLost(r) ==
    /\ r.at # "failed"
    /\ posts' = IF r.left THEN Without(r)
                ELSE Instead(r, [r EXCEPT !.at = "failed",
                                          !.value = IF r.op = "read" THEN {} ELSE @])
    /\ UNCHANGED <<page, stored, shown, draft, typed, createFor, sending, saveSuccess,
                   lastSaved, told, calm>>

(***************************************************************************)
(* The answers.                                                             *)
(***************************************************************************)
readAnswered(r) ==
    /\ r.op = "read" /\ r.at # "sent"
    /\ posts' = Without(r)
    /\ shown' = IF r.at = "ok" THEN r.value ELSE shown
    /\ calm' = (calm /\ r.at = "ok")
    /\ UNCHANGED <<page, stored, draft, typed, createFor, sending, saveSuccess, lastSaved, told>>

(* A list, after a write, is read again. *)
ReadsAgain(r) == posts' = Instead(r, ReadOf) /\ calm' = (calm /\ ~Reading(posts))

(* The list is left as it is. *)
ReadsNoMore(r) == posts' = Without(r) /\ UNCHANGED calm

(* Each handler after its await: the saved mark, or the fields cleared and the    *)
(* dialog closed, whatever has been typed or opened since.                     *)
writeSucceeded(r) ==
    /\ r.op # "read" /\ r.at = "ok"
    /\ sending' = (sending /\ r.op \notin {"save", "broadcast"})
    /\ saveSuccess' = (saveSuccess \/ r.op = "save")
    /\ draft' = IF r.op = "broadcast" THEN 0 ELSE draft
    /\ createFor' = IF r.op = "create" THEN {} ELSE createFor
    /\ IF r.op = "save" THEN ReadsNoMore(r) ELSE ReadsAgain(r)
    /\ UNCHANGED <<page, stored, shown, typed, lastSaved, told>>

writeFailed(r) ==
    /\ r.op # "read" /\ r.at = "failed"
    /\ posts' = Without(r)
    /\ sending' = (sending /\ r.op \notin {"save", "broadcast"})
    /\ told' = [d \in Drafts |-> IF r.op = "broadcast" /\ d \in r.value THEN told[d] + 1 ELSE told[d]]
    /\ calm' = FALSE
    /\ UNCHANGED <<page, stored, shown, draft, typed, createFor, saveSuccess, lastSaved>>

(* The page is left and opened again: writes on their way are still taken, and   *)
(* no answer reaches the page that asked.                                     *)
LeftBehind ==
    LET underWay == {r \in BagToSet(posts) : r.op # "read" /\ r.at = "sent"}
    IN  Renamed([r \in underWay |-> posts[r]], [r \in underWay |-> [r EXCEPT !.left = TRUE]])

reopen ==
    /\ Room4Post
    /\ shown' = IF page = "app_versions" THEN {0} ELSE {}
    /\ draft' = 0 /\ createFor' = {}
    /\ sending' = FALSE /\ saveSuccess' = FALSE
    /\ posts' = LeftBehind (+) SetToBag({ReadOf})
    /\ calm' = (LeftBehind = EmptyBag)
    /\ UNCHANGED <<page, stored, typed, lastSaved, told>>

EditsNext ==
    \/ \E c \in Configs : setConfig(c)
    \/ handleSave \/ successTimeout
    \/ typeAnnouncement \/ handleBroadcast
    \/ \E p \in Projects : handleToggle(p)
    \/ \E n \in {{}} \cup {{m} : m \in Names} : setShowCreateModal(n)
    \/ handleCreate
    \/ \E r \in BagToSet(posts) :
         \/ requestTaken(r) \/ requestLost(r) \/ readAnswered(r)
         \/ writeSucceeded(r) \/ writeFailed(r)
    \/ reopen

(***************************************************************************)
(* Properties.                                                              *)
(***************************************************************************)
(* "Settings updated and audited successfully!": the config saved last is the     *)
(* last one in the audit log while that shows; the disabled button keeps two       *)
(* saves from overtaking each other (AppVersionsPage.tsx:34-44).                *)
SavedIsAudited == saveSuccess /\ calm => stored["audited"] = lastSaved

(* The other half of that message: the config that the server hands out is the     *)
(* one saved last.                                                           *)
SavedIsStored == saveSuccess /\ calm => stored["app_versions"] = lastSaved

(* An announcement goes out once, and once more only for every failure that was   *)
(* reported to its author (NotificationsPage.tsx:33-50).                       *)
RepeatsWereTold == \A d \in Drafts : stored["notifications"][d] <= told[d] + 1

(* A list at rest is the list of the server, however its writes and reads         *)
(* interleaved, unless a read overtook another or one failed                    *)
(* (DiscoverPage.tsx:28-35, SecurityAdminsPage.tsx:34-45).                    *)
ListAtRest ==
    page # "app_versions" /\ calm /\ posts = EmptyBag => shown = {stored[page]}

(* What the pages without a confirmation tell their user is so: SavedIsAudited and  *)
(* the two above.                                                            *)
EditsLand == SavedIsAudited /\ RepeatsWereTold /\ ListAtRest

=============================================================================
