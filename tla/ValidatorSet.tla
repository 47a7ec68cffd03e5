---------------------------- MODULE ValidatorSet ----------------------------
(***************************************************************************)
(* The validator set of crates/sprax-consensus/src/validator.rs as          *)
(* operators: voting power, the quorum threshold, and deterministic         *)
(* weighted round-robin (DWRR) proposer selection.  A validator set is a    *)
(* set of addresses, a power function and a priority function.              *)
(***************************************************************************)
EXTENDS Integers, FiniteSets, Sums

(* total_voting_power of the members S.                                    *)
TotalPower(power, S) == Sum(power, S)

quorum_threshold(power, S) == ((TotalPower(power, S) * 2) \div 3) + 1

(* Do the members Q of validator set S carry a quorum?                     *)
has_quorum(power, S, Q) == TotalPower(power, Q) >= quorum_threshold(power, S)

(* One DWRR turn over the set S: every member gains its power, the largest   *)
(* priority proposes and pays the total.  Iterator::max_by_key returns the   *)
(* last of equal maxima in address order, here the largest by rank.  i64     *)
(* saturation is out of reach (Rotation, PriorityBounded).                  *)
Accrued(power, prio, S) == [v \in S |-> prio[v] + power[v]]

ProposerOf(power, prio, S, rank) ==
    LET p == Accrued(power, prio, S) IN
      CHOOSE v \in S : \A u \in S : \/ p[u] < p[v]
                                    \/ p[u] = p[v] /\ rank[u] <= rank[v]

(* Mutants: the proposer pays its own power only, or the total twice.        *)
select_proposer_own_power(power, prio, S, rank) ==
    LET w == ProposerOf(power, prio, S, rank) IN
      [v \in S |-> Accrued(power, prio, S)[v] - (IF v = w THEN power[v] ELSE 0)]

select_proposer_twice(power, prio, S, rank) ==
    LET w == ProposerOf(power, prio, S, rank) IN
      [v \in S |-> Accrued(power, prio, S)[v]
                     - (IF v = w THEN 2 * TotalPower(power, S) ELSE 0)]

select_proposer(power, prio, S, rank) ==
    LET w == ProposerOf(power, prio, S, rank) IN
      [v \in S |-> Accrued(power, prio, S)[v]
                     - (IF v = w THEN TotalPower(power, S) ELSE 0)]

(* Mutant: a refreshed set starts from priority 0.                          *)
reset_priorities(prio, S) == [v \in S |-> 0]

(* BftConsensusEngine::set_validator_set: members of both sets keep their    *)
(* priority, new members start at 0.                                        *)
carry_priorities(prio, S) ==
    [v \in S |-> IF v \in DOMAIN prio THEN prio[v] ELSE 0]

=============================================================================
