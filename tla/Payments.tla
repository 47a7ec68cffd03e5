------------------------------ MODULE Payments ------------------------------
(***************************************************************************)
(* What a wallet promises its user about payments, with no dialogs, nonces,  *)
(* signatures or messages: a payment is asked for at most once under one     *)
(* number, and what is paid is what was asked for - on the network, from the *)
(* account, to the recipient and in the amount of the request - and is paid  *)
(* at most once.  A request may remain unpaid for ever.                      *)
(***************************************************************************)
EXTENDS FiniteSets

CONSTANTS
    Number,     \* the numbers of the requests
    Payment     \* what may be asked for

VARIABLES
    asked,      \* asked[i]: the payment asked for under i, once there is one
    paid        \* paid[i]: what has been paid for i, once it has been

pvars == <<asked, paid>>

Init == DOMAIN asked = {} /\ DOMAIN paid = {}

(* f with the pairs of g added; the two have disjoint domains. *)
With(f, g) ==
    [i \in DOMAIN f \cup DOMAIN g |-> IF i \in DOMAIN f THEN f[i] ELSE g[i]]

Ask(i, p) ==
    /\ i \notin DOMAIN asked
    /\ asked' = With(asked, [j \in {i} |-> p])
    /\ UNCHANGED paid

(* A block pays several requests at once. *)
Pay(S) ==
    /\ S \subseteq (DOMAIN asked) \ (DOMAIN paid)
    /\ paid' = With(paid, [i \in S |-> asked[i]])
    /\ UNCHANGED asked

Next ==
    \/ \E i \in Number, p \in Payment : Ask(i, p)
    \/ \E S \in SUBSET DOMAIN asked : Pay(S)

Spec == Init /\ [][Next]_pvars

=============================================================================
