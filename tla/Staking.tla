------------------------------ MODULE Staking -------------------------------
(***************************************************************************)
(* StakingKeeper (crates/sprax-consensus/src/staking.rs): validators,       *)
(* delegations, the unbonding queue, slashing and jailing, and the staking   *)
(* file that NodeService::new_or_load writes once and reads at every start. *)
(*                                                                         *)
(* Every method holds the keeper's write lock and is one action.  A method   *)
(* that fails after its first assignment keeps what it assigned: the        *)
(* checked_add and checked_sub in the middle of delegate and undelegate are  *)
(* modelled where they stand.  A method that fails before any assignment     *)
(* changes nothing and is no step.                                          *)
(*                                                                         *)
(* shares and balance of a Delegation always move together and are one       *)
(* number; tokens and delegator_shares of a validator do not.  A slash        *)
(* fraction is one over a denominator, rounded down: f64 rounding of amounts  *)
(* above 2^53 is left out.                                                  *)
(***************************************************************************)
EXTENDS Naturals, Sequences, FiniteSets, SequencesExt, Sums

CONSTANTS
    Addr,            \* accounts; each may be a validator and a delegator
    GenesisStake,    \* genesis validators and their self-stake
    Amounts,         \* the amounts callers pass
    AmountMax,       \* largest Amount
    MinSelfStake,    \* StakingParams.min_self_stake
    UnbondingPeriod, \* StakingParams.unbonding_period_blocks
    MaxValidators,   \* StakingParams.max_validators
    DoubleSignDen,   \* 1 / double_sign_slash_fraction
    DowntimeDen,     \* 1 / downtime_slash_fraction
    JailBlocks,      \* StakingParams.downtime_jail_blocks
    MissedThreshold, \* StakingParams.missed_blocks_threshold
    MaxHeight,       \* bound: block heights
    MaxQueue,        \* bound: unbonding entries
    MaxRestarts      \* bound: process restarts

ASSUME StakingAssumption ==
    /\ IsFiniteSet(Addr)
    /\ DOMAIN GenesisStake \subseteq Addr
    /\ \A v \in DOMAIN GenesisStake :
         GenesisStake[v] \in Nat /\ MinSelfStake <= GenesisStake[v]
                                 /\ GenesisStake[v] <= AmountMax
    /\ Amounts \subseteq 0..AmountMax
    /\ AmountMax \in Nat
    /\ MinSelfStake \in Nat
    /\ UnbondingPeriod \in Nat
    /\ MaxValidators \in Nat
    /\ DoubleSignDen \in Nat \ {0}
    /\ DowntimeDen \in Nat \ {0}
    /\ JailBlocks \in Nat
    /\ MissedThreshold \in Nat \ {0}
    /\ MaxHeight \in Nat
    /\ MaxQueue \in Nat
    /\ MaxRestarts \in Nat

VARIABLES
    now,         \* the height callers pass as current_height
    validators,  \* HashMap<Address, StakingValidator>
    delegations, \* HashMap<(delegator, validator), Delegation>
    queue,       \* Vec<UnbondingEntry>
    file,        \* staking.json
    equivocated, \* history: validators ever slashed for equivocation
    downAt,      \* history: height of the last downtime slash of this process
    restarts     \* restarts so far (only to bound the exploration)

keeper  == <<validators, delegations, queue>>
history == <<equivocated, downAt>>
vars    == <<now, keeper, file, history, restarts>>

NoHeight == MaxHeight + JailBlocks + 1   \* None

Registered == DOMAIN validators

(* A function with one more, or one other, value.                          *)
With(f, k, x) == [j \in DOMAIN f \cup {k} |-> IF j = k THEN x ELSE f[j]]

(* The record register_validator inserts; identity, commission and            *)
(* unbonding_height are read by no other method.                            *)
NewValidator(stake) ==
    [status |-> "Active", tokens |-> stake, shares |-> stake,
     jailedUntil |-> NoHeight, missed |-> 0, tombstoned |-> FALSE]

GenesisValidators == [v \in DOMAIN GenesisStake |-> NewValidator(GenesisStake[v])]

SelfDelegations ==
    [p \in {<<v, v>> : v \in DOMAIN GenesisStake} |-> GenesisStake[p[1]]]

(* save_to_file.                                                           *)
StakingKeeperRecord ==
    [validators |-> validators, delegations |-> delegations, queue |-> queue]

(* new_or_load without a staking file: genesis validators are registered     *)
(* and the keeper is saved, for the only time.                              *)
Init ==
    /\ now = 0
    /\ validators = GenesisValidators
    /\ delegations = SelfDelegations
    /\ queue = << >>
    /\ file = StakingKeeperRecord
    /\ equivocated = {}
    /\ downAt = [v \in Addr |-> NoHeight]
    /\ restarts = 0

-----------------------------------------------------------------------------
register_validator(v, stake) ==
    /\ v \notin Registered
    /\ stake >= MinSelfStake
    /\ validators' = With(validators, v, NewValidator(stake))
    /\ delegations' = With(delegations, <<v, v>>, stake)
    /\ UNCHANGED <<now, queue, file, history, restarts>>

CanDelegate(v) == ~ validators[v].tombstoned /\ validators[v].status # "Unbonded"

Delegated(d, v) == IF <<d, v>> \in DOMAIN delegations THEN delegations[<<d, v>>] ELSE 0

(* Mutant: the shares of the validator are not raised.                      *)
delegate_no_shares(d, v, amount) ==
    /\ v \in Registered
    /\ CanDelegate(v)
    /\ validators[v].tokens + amount <= AmountMax
    /\ validators' = [validators EXCEPT ![v].tokens = @ + amount]
    /\ delegations' = With(delegations, <<d, v>>, Delegated(d, v) + amount)
    /\ UNCHANGED <<now, queue, file, history, restarts>>

(* Mutant: plain additions.                                                 *)
delegate_unchecked(d, v, amount) ==
    /\ v \in Registered
    /\ CanDelegate(v)
    /\ validators' = [validators EXCEPT ![v].tokens = @ + amount,
                                        ![v].shares = @ + amount]
    /\ delegations' = With(delegations, <<d, v>>, Delegated(d, v) + amount)
    /\ UNCHANGED <<now, queue, file, history, restarts>>

(* tokens, then delegator_shares, then the delegator's entry: each sum that   *)
(* overflows ends the call there.  (The entry cannot overflow: it is part of *)
(* the shares.)                                                             *)
delegate(d, v, amount) ==
    /\ v \in Registered
    /\ CanDelegate(v)
    /\ validators[v].tokens + amount <= AmountMax
    /\ IF validators[v].shares + amount > AmountMax
         THEN /\ validators' = [validators EXCEPT ![v].tokens = @ + amount]
              /\ UNCHANGED delegations
         ELSE /\ validators' = [validators EXCEPT ![v].tokens = @ + amount,
                                                  ![v].shares = @ + amount]
              /\ delegations' = With(delegations, <<d, v>>, Delegated(d, v) + amount)
    /\ UNCHANGED <<now, queue, file, history, restarts>>

UnbondingEntry(d, v, amount) ==
    [delegator |-> d, validator |-> v, amount |-> amount,
     created |-> now, completion |-> now + UnbondingPeriod]

(* Mutant: the validator keeps the shares.                                  *)
undelegate_keep_shares(d, v, amount) ==
    /\ <<d, v>> \in DOMAIN delegations
    /\ delegations[<<d, v>>] >= amount
    /\ Len(queue) < MaxQueue
    /\ delegations' = [delegations EXCEPT ![<<d, v>>] = @ - amount]
    /\ validators[v].tokens >= amount
    /\ validators' = [validators EXCEPT ![v].tokens = @ - amount]
    /\ queue' = Append(queue, UnbondingEntry(d, v, amount))
    /\ UNCHANGED <<now, file, history, restarts>>

(* The delegator's entry is lowered first; when the validator's tokens,       *)
(* which slashes lower too, no longer cover the amount, the call ends there  *)
(* and no unbonding entry is made.  A delegation always names a registered   *)
(* validator, whose shares cover it.                                        *)
undelegate(d, v, amount) ==
    /\ <<d, v>> \in DOMAIN delegations
    /\ delegations[<<d, v>>] >= amount
    /\ Len(queue) < MaxQueue
    /\ delegations' = [delegations EXCEPT ![<<d, v>>] = @ - amount]
    /\ IF validators[v].tokens < amount
         THEN UNCHANGED <<validators, queue>>
         ELSE /\ validators' = [validators EXCEPT ![v].tokens = @ - amount,
                                                  ![v].shares = @ - amount]
              /\ queue' = Append(queue, UnbondingEntry(d, v, amount))
    /\ UNCHANGED <<now, file, history, restarts>>

(* Mutant: evidence about a tombstoned validator is punished again.          *)
slash_equivocation_again(v) ==
    /\ v \in Registered
    /\ validators' = [validators EXCEPT ![v].tokens = @ - @ \div DoubleSignDen,
                                        ![v].status = "Jailed",
                                        ![v].tombstoned = TRUE]
    /\ equivocated' = equivocated \cup {v}
    /\ UNCHANGED <<now, delegations, queue, file, downAt, restarts>>

(* Valid evidence against v arrives, perhaps not for the first time.         *)
slash_equivocation(v) ==
    /\ v \in Registered
    /\ ~ validators[v].tombstoned
    /\ validators' = [validators EXCEPT ![v].tokens = @ - @ \div DoubleSignDen,
                                        ![v].status = "Jailed",
                                        ![v].tombstoned = TRUE]
    /\ equivocated' = equivocated \cup {v}
    /\ UNCHANGED <<now, delegations, queue, file, downAt, restarts>>

(* Mutant: the jail term is not written.                                    *)
JailedWithoutTerm(val) ==
    [val EXCEPT !.tokens = @ - @ \div DowntimeDen, !.status = "Jailed", !.missed = 0]

(* The downtime slash: 0.01% of the tokens and a jail term.                 *)
JailedForDowntime(val) ==
    [val EXCEPT !.tokens = @ - @ \div DowntimeDen, !.status = "Jailed", !.missed = 0,
                !.jailedUntil = now + JailBlocks]

(* A missed block: the MissedThreshold-th one in a row of calls slashes.     *)
slash_downtime(v) ==
    /\ v \in Registered
    /\ validators[v].status # "Jailed" /\ ~ validators[v].tombstoned
    /\ IF validators[v].missed + 1 < MissedThreshold
         THEN /\ validators' = [validators EXCEPT ![v].missed = @ + 1]
              /\ UNCHANGED downAt
         ELSE /\ validators' = [validators EXCEPT ![v] = JailedForDowntime(@)]
              /\ downAt' = [downAt EXCEPT ![v] = now]
    /\ UNCHANGED <<now, delegations, queue, file, equivocated, restarts>>

(* Mutant: a tombstoned validator may leave jail.                           *)
CanUnjailTombstoned(v) ==
    validators[v].jailedUntil = NoHeight \/ now >= validators[v].jailedUntil

CanUnjail(v) ==
    /\ ~ validators[v].tombstoned
    /\ validators[v].jailedUntil = NoHeight \/ now >= validators[v].jailedUntil

(* The status is not consulted: a validator in no jail clears its count of   *)
(* missed blocks.                                                           *)
unjail(v) ==
    /\ v \in Registered
    /\ CanUnjail(v)
    /\ validators' = [validators EXCEPT ![v].status = "Active",
                                        ![v].jailedUntil = NoHeight,
                                        ![v].missed = 0]
    /\ UNCHANGED <<now, delegations, queue, file, history, restarts>>

(* The chain grows; nothing matures the unbonding queue.                     *)
Tick ==
    /\ now < MaxHeight
    /\ now' = now + 1
    /\ UNCHANGED <<keeper, file, history, restarts>>

(* load_from_file at the next start of the process.                         *)
Restart ==
    /\ restarts < MaxRestarts
    /\ restarts' = restarts + 1
    /\ validators' = file.validators
    /\ delegations' = file.delegations
    /\ queue' = file.queue
    /\ downAt' = [v \in Addr |-> NoHeight]
    /\ UNCHANGED <<now, file, equivocated>>

Next ==
    \/ \E v \in Addr, a \in Amounts : register_validator(v, a)
    \/ \E d, v \in Addr, a \in Amounts : delegate(d, v, a)
    \/ \E d, v \in Addr, a \in Amounts : undelegate(d, v, a)
    \/ \E v \in Addr : slash_equivocation(v)
    \/ \E v \in Addr : slash_downtime(v)
    \/ \E v \in Addr : unjail(v)
    \/ Tick
    \/ Restart

Spec == Init /\ [][Next]_vars

-----------------------------------------------------------------------------
(* get_active_validator_set: the largest MaxValidators of the Active ones.     *)
(* The sort is by tokens over a HashMap's values: equal stakes at the cut     *)
(* come in an order that differs from process to process.                    *)
Eligible == {v \in Registered : validators[v].status = "Active" /\ validators[v].tokens # 0}

get_active_validator_set ==
    {S \in SUBSET Eligible :
        /\ \/ Cardinality(S) = MaxValidators
           \/ Cardinality(S) < MaxValidators /\ S = Eligible
        /\ \A v \in S, u \in Eligible \ S : validators[v].tokens >= validators[u].tokens}

-----------------------------------------------------------------------------
(* Properties                                                              *)

Validator == [status : {"Active", "Jailed"}, tokens : 0..AmountMax, shares : 0..AmountMax,
              jailedUntil : 0..NoHeight, missed : 0..MissedThreshold - 1,
              tombstoned : BOOLEAN]

(* Shape of the keeper's state.  No method ever sets Unbonding or Unbonded.  *)
TypeOK ==
    /\ now \in 0..MaxHeight
    /\ Registered \subseteq Addr
    /\ \A v \in Registered : validators[v] \in Validator
    /\ DOMAIN delegations \subseteq Addr \X Registered
    /\ \A p \in DOMAIN delegations : delegations[p] \in 0..AmountMax
    /\ Len(queue) <= MaxQueue
    /\ equivocated \subseteq Addr
    /\ downAt \in [Addr -> 0..NoHeight]
    /\ restarts \in 0..MaxRestarts

DelegatedTo(v) == Sum([d \in Addr |-> Delegated(d, v)], Addr)

Unslashed(v) == v \notin equivocated /\ downAt[v] = NoHeight

(* No call creates or loses stake at a validator that was never slashed:      *)
(* tokens, delegator_shares and the sum of the delegations agree, through    *)
(* every failing call in between.                                           *)
UnslashedBacked ==
    \A v \in Registered :
        Unslashed(v) => /\ validators[v].tokens = validators[v].shares
                        /\ validators[v].shares = DelegatedTo(v)

(* Whatever was slashed and whichever undelegation failed half way, the       *)
(* recorded delegations never exceed the validator's shares: the subtraction *)
(* from the shares in undelegate cannot fail.                               *)
SharesCoverDelegations ==
    \A v \in Registered : DelegatedTo(v) <= validators[v].shares

(* A tombstoned validator is in no active set the consensus driver can read, *)
(* whatever downtime, unjail and delegate calls follow.                      *)
TombstonedOut ==
    \A v \in Registered : validators[v].tombstoned =>
        \A S \in get_active_validator_set : v \notin S

(* While the process runs, a validator slashed for downtime is back in the     *)
(* active set only when its jail term is over.                              *)
JailServed ==
    \A v \in Registered :
        downAt[v] # NoHeight /\ v \in Eligible => now >= downAt[v] + JailBlocks

(* undelegate "places tokens in the unbonding queue": what leaves a            *)
(* delegation enters the queue in the same call.                            *)
UndelegatedIsQueued ==
    [][\A p \in DOMAIN delegations :
          p \in DOMAIN delegations' /\ delegations'[p] < delegations[p]
          => Len(queue') = Len(queue) + 1]_vars

(* Until the next restart, an equivocation costs a validator one slash: once   *)
(* tombstoned, its tokens fall only as much as the unbonding queue grows.    *)
SlashedOnce ==
    [][\A v \in Registered :
          validators[v].tombstoned /\ restarts' = restarts
          => validators[v].tokens <= validators'[v].tokens
                 + (IF Len(queue') > Len(queue) THEN Last(queue').amount ELSE 0)]_vars

=============================================================================
