---------------------------- MODULE FeatureFlags ----------------------------
(***************************************************************************)
(* The feature flag page of the admin panel with its ConfirmModal: the list   *)
(* as last fetched, the dialog for one flag, the text typed into it - which   *)
(* outlives the dialog - and the PATCH and GET requests under way, which the    *)
(* server takes and the page hears of in any order.                          *)
(***************************************************************************)
EXTENDS Naturals, FiniteSets, BagImages

CONSTANTS
    Flags,          \* names of the flags
    Critical,       \* perps_enabled and mainnet_enabled, to the page and to the server
    MaxRequests     \* bound: requests under way at once

ASSUME FlagsAssumption == Critical \subseteq Flags /\ MaxRequests \in Nat

(* typedValue is "" at first; "other" is the phrase of no flag of the list. *)
VARIABLES
    server,         \* the flags as stored
    listed,         \* FeatureFlagsPage.flags; a function on Flags once loaded
    pendingFlag,    \* the flag and target of the open dialog; {} or a singleton
    typedValue,     \* ConfirmModal.typedValue: the flag whose phrase it is
    requests        \* bag of requests under way: [op, at, ...]

fvars == <<server, listed, pendingFlag, typedValue, requests>>

Snapshot == [Flags -> BOOLEAN]

(* A PATCH, with our mark of the phrase in the dialog when its button was pressed. *)
Patch(p, phrase) == [op |-> "patch", change |-> p, phrase |-> phrase, at |-> "sent"]
Get(snap, at) == [op |-> "get", flags |-> snap, at |-> at]
Nothing == [f \in {} |-> FALSE]

Room4Request == BagCardinality(requests) < MaxRequests
Begin(r) == requests (+) SetToBag({r})
Replace(r, q) == (requests (-) SetToBag({r})) (+) SetToBag({q})

FlagsInit ==
    /\ server \in Snapshot
    /\ listed = Nothing
    /\ pendingFlag = {}
    /\ typedValue = ""
    /\ requests = SetToBag({Get(Nothing, "sent")})

(* The switch of a row: the target is the opposite of what the list says. *)
handleToggleAttempt(f) ==
    /\ f \in DOMAIN listed /\ pendingFlag = {}
    /\ pendingFlag' = {[name |-> f, targetState |-> ~listed[f]]}
    /\ UNCHANGED <<server, listed, typedValue, requests>>

(* The phrase field is there for critical flags only. *)
typePhrase(v) ==
    /\ \E p \in pendingFlag : p.name \in Critical
    /\ typedValue' = v
    /\ UNCHANGED <<server, listed, pendingFlag, requests>>

onCancel ==
    /\ pendingFlag # {}
    /\ pendingFlag' = {}
    /\ UNCHANGED <<server, listed, typedValue, requests>>

(* As if any phrase would do. *)
isConfirmedByAnyText(p) == p.name \in Critical => typedValue # ""

isConfirmed(p) == p.name \in Critical => typedValue = p.name

(* The button; the dialog stays, and may be pressed again, until the answer. *)
handleConfirmToggle ==
    /\ Room4Request
    /\ \E p \in pendingFlag :
         /\ isConfirmed(p)
         /\ requests' = Begin(Patch(p, typedValue))
    /\ typedValue' = ""
    /\ UNCHANGED <<server, listed, pendingFlag>>

(* The server answers 403 to every attempt to enable a critical flag. *)
Blocked(c) == c.name \in Critical /\ c.targetState

update_feature_flag(c) ==
    server' = IF Blocked(c) THEN server ELSE [server EXCEPT ![c.name] = c.targetState]

(* The server takes a request; the connection fails before or after that. *)
serverTakes(r) ==
    /\ r.at = "sent"
    /\ \/ /\ r.op = "patch"
          /\ update_feature_flag(r.change)
          /\ requests' = Replace(r, [r EXCEPT !.at = IF Blocked(r.change) THEN "failed"
                                                     ELSE "ok"])
       \/ /\ r.op = "get"
          /\ requests' = Replace(r, Get(server, "ok"))
          /\ UNCHANGED server
    /\ UNCHANGED <<listed, pendingFlag, typedValue>>

connectionFails(r) ==
    /\ r.at # "failed" /\ r.op # "orphan"
    /\ requests' = Replace(r, IF r.op = "get" THEN Get(Nothing, "failed")
                              ELSE [r EXCEPT !.at = "failed"])
    /\ UNCHANGED <<server, listed, pendingFlag, typedValue>>

(* Whatever dialog is open is closed; after a success the list is fetched. *)
patchAnswered(r) ==
    /\ r.op = "patch" /\ r.at # "sent"
    /\ pendingFlag' = {}
    /\ requests' = IF r.at = "ok" THEN Replace(r, Get(Nothing, "sent"))
                   ELSE requests (-) SetToBag({r})
    /\ UNCHANGED <<server, listed, typedValue>>

(* fetchFlags; a failure is logged.  Answers may overtake each other. *)
fetchFlagsAnswered(r) ==
    /\ r.op = "get" /\ r.at # "sent"
    /\ listed' = IF r.at = "ok" THEN r.flags ELSE listed
    /\ requests' = requests (-) SetToBag({r})
    /\ UNCHANGED <<server, pendingFlag, typedValue>>

(* The page is left and opened again: a PATCH on its way is still taken, and     *)
(* no answer reaches the page that asked.                                     *)
Orphans ==
    LET underWay == {r \in BagToSet(requests) : r.op # "get" /\ r.at = "sent"}
    IN  Renamed([r \in underWay |-> requests[r]], [r \in underWay |-> [r EXCEPT !.op = "orphan"]])

remount ==
    /\ Room4Request
    /\ listed' = Nothing
    /\ pendingFlag' = {}
    /\ typedValue' = ""
    /\ requests' = Orphans (+) SetToBag({Get(Nothing, "sent")})
    /\ UNCHANGED server

orphanTaken(r) ==
    /\ r.op = "orphan"
    /\ update_feature_flag(r.change)
    /\ requests' = requests (-) SetToBag({r})
    /\ UNCHANGED <<listed, pendingFlag, typedValue>>

FlagsNext ==
    \/ \E f \in Flags : handleToggleAttempt(f)
    \/ \E v \in Critical \cup {"", "other"} : typePhrase(v)
    \/ onCancel
    \/ handleConfirmToggle
    \/ \E r \in BagToSet(requests) :
         \/ serverTakes(r) \/ orphanTaken(r) \/ connectionFails(r)
         \/ patchAnswered(r) \/ fetchFlagsAnswered(r)
    \/ remount

(* A flag changes only to a value that was confirmed for it in a dialog, and a   *)
(* critical one only after its own phrase was typed: with stale lists, text left  *)
(* over from a cancelled dialog, double presses and late answers, no flag is      *)
(* switched that its dialog did not name (FeatureFlagsPage.tsx:28-38,            *)
(* ConfirmModal.tsx:29, :78-82).                                            *)
OnlyConfirmedChange ==
    \A f \in Flags : server'[f] # server[f] =>
        \E r \in BagToSet(requests) :
            /\ r.op # "get"
            /\ r.change = [name |-> f, targetState |-> server'[f]]
            /\ f \in Critical => r.phrase = f

OnlyConfirmed == [][OnlyConfirmedChange]_fvars

=============================================================================
