----------------------------- MODULE BagImages ------------------------------
(***************************************************************************)
(* The image of a bag under a function: what becomes of the requests under  *)
(* way when the component that waits for them is removed.                  *)
(***************************************************************************)
EXTENDS Bags, Sums

(* A copy of f[x] for every copy of x. *)
Renamed(B, f) ==
    [y \in {f[x] : x \in BagToSet(B)} |-> Sum(B, {x \in BagToSet(B) : f[x] = y})]

=============================================================================
