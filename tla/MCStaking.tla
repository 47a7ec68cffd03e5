------------------------------ MODULE MCStaking -----------------------------
(***************************************************************************)
(* Staking for TLC: two accounts, one of them a genesis validator.            *)
(***************************************************************************)
EXTENDS Staking

MCAddr == {"a", "b"}
MCGenesisStake == [v \in {"a"} |-> 4]

=============================================================================
