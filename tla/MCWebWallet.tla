---------------------------- MODULE MCWebWallet -----------------------------
(***************************************************************************)
(* WebWallet for TLC: two networks, two decimal places, funds for two small   *)
(* payments.  Payments and balances do not touch each other, so a behaviour   *)
(* is about one of them, chosen at the start among Matters: the states        *)
(* explored are the sum and not the product.                                *)
(***************************************************************************)
EXTENDS WebWallet

CONSTANT Matters    \* bound: a subset of {"payments", "balances"}

VARIABLE matter

mcvars == <<vars, matter>>

MCRecipients == {[form |-> "hex", bytes |-> "r"], [form |-> "other", bytes |-> "x"]}

(* 0.5; 0.001, positive and below one atto; and 0.50e1, whose exponent is cut   *)
(* off.                                                                    *)
MCTyped == {[exp |-> 0, whole |-> 0, frac |-> <<5>>],
            [exp |-> 0, whole |-> 0, frac |-> <<0, 0, 1>>],
            [exp |-> 1, whole |-> 0, frac |-> <<5, 0>>]}

(* Of payments: one phrase, one encryption and one balance request at a time,      *)
(* and no balance is shown.  Of balances: no payment.                          *)
Within(m) ==
    /\ m = "payments" => /\ {onboarding.generated, onboarding.imported} \subseteq {None, "p"}
                         /\ Total(encrypting) <= 1
                         /\ Total(fetching) <= 1 /\ shown = Zero
    /\ m = "balances" => sends = << >> /\ ~sendOpen

MCInit == Init /\ matter \in Matters

MCNext == Next /\ UNCHANGED matter /\ Within(matter)'

MCSpec == MCInit /\ [][MCNext]_mcvars /\ Fairness

=============================================================================
