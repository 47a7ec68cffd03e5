------------------------------ MODULE MCAdmin -------------------------------
(***************************************************************************)
(* The admin panel for TLC.  The session, the feature flag page and the other   *)
(* pages that write share no variable here, so a behaviour is of one of them:    *)
(* `part' is chosen at the start and the states explored are the sum and not    *)
(* the product.  A behaviour of the feature flag page opens the dialog for the   *)
(* flags of one set of Switches.                                              *)
(***************************************************************************)
EXTENDS AdminSession, FeatureFlags, AdminEdits

CONSTANT Switches   \* bound: sets of flags switched in one behaviour

VARIABLE part

vars == <<svars, fvars, evars, part>>

(* A super_admin, and one of the role operations. *)
MCGrants == [root |-> {<<"*", "*">>},
             clerk |-> {<<"blockchain", "read">>, <<"explorer", "*">>, <<"operations", "*">>}]

(* The flags switched by the page, for TLC: the two that need a phrase, and one    *)
(* that needs none.                                                          *)
MCSwitches == {Critical, Flags \ Critical}

Parts == {<<"session", {}>>, <<"edits", {}>>} \cup ({"flags"} \X Switches)

(* The parts that do not run stay in one state. *)
Init ==
    /\ SessionInit /\ FlagsInit /\ EditsInit
    /\ part \in Parts
    /\ part[1] = "session" \/ token = 0
    /\ part[1] = "flags" \/ server = [f \in Flags |-> FALSE]
    /\ part[1] = "edits" \/ page = "app_versions"

Next ==
    \/ part[1] = "session" /\ SessionNext /\ UNCHANGED <<fvars, evars, part>>
    \/ /\ part[1] = "flags" /\ FlagsNext /\ UNCHANGED <<svars, evars, part>>
       /\ \A p \in pendingFlag' : p.name \in part[2]
    \/ part[1] = "edits" /\ EditsNext /\ UNCHANGED <<svars, fvars, part>>

Spec == Init /\ [][Next]_vars /\ (part[1] = "session" => SessionFairness)

=============================================================================
