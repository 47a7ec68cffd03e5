-------------------------------- MODULE Sums --------------------------------
(***************************************************************************)
(* The sum of a function over a finite set: what the ledger and the staking *)
(* keeper compute with iter().fold(checked_add) and what the supply of the   *)
(* chain is measured by.                                                    *)
(***************************************************************************)
EXTENDS Naturals, FiniteSets, FiniteSetsExt

Sum(f, S) == FoldSet(LAMBDA x, s : f[x] + s, 0, S)

=============================================================================
