------------------------------ MODULE Rotation ------------------------------
(***************************************************************************)
(* Proposer rotation of one engine over many attempts: each attempt of       *)
(* ConsensusDriver::run_one_height refreshes the validator set from the      *)
(* StakingKeeper (set_validator_set) and lets DWRR choose (propose_block,    *)
(* select_proposer).                                                        *)
(***************************************************************************)
EXTENDS ValidatorSet

CONSTANTS
    Val,        \* validator addresses
    Power,      \* [Val -> Nat]: voting power
    Rank,       \* [Val -> Nat]: address order
    MaxChanges  \* bound: changes of the validator set

ASSUME RotationAssumption ==
    /\ Val # {} /\ IsFiniteSet(Val)
    /\ Power \in [Val -> Nat \ {0}]
    /\ Rank \in [Val -> Nat]
    /\ MaxChanges \in Nat

VARIABLES
    members,   \* the engine's validator set
    prio,      \* proposer_priority of each member
    proposer,  \* the proposer of the last attempt
    turn,      \* turns of the current window of W turns, W the total power
    turns,     \* history: how often each validator proposed in the window
    changes    \* changes of the set so far (only to bound the exploration)

vars == <<members, prio, proposer, turn, turns, changes>>

W(S) == TotalPower(Power, S)

Init ==
    /\ members = Val
    /\ prio = [v \in Val |-> 0]
    /\ proposer = CHOOSE v \in Val : TRUE
    /\ turn = 0
    /\ turns = [v \in Val |-> 0]
    /\ changes = 0

(* One attempt with the active validators S.                                *)
Turn(S) ==
    LET p == carry_priorities(prio, S)
        w == ProposerOf(Power, p, S, Rank)
        fresh == S # members \/ turn = W(members)
        counted == IF fresh THEN [v \in Val |-> 0] ELSE turns
    IN  /\ members' = S
        /\ prio' = select_proposer(Power, p, S, Rank)
        /\ proposer' = w
        /\ turn' = IF fresh THEN 1 ELSE turn + 1
        /\ turns' = [counted EXCEPT ![w] = @ + 1]

SameSet == Turn(members) /\ UNCHANGED changes

(* Slashing, jailing and unjailing change the active set.                   *)
ChangeSet(S) ==
    /\ S # members
    /\ changes < MaxChanges
    /\ changes' = changes + 1
    /\ Turn(S)

Next == SameSet \/ \E S \in (SUBSET Val) \ {{}} : ChangeSet(S)

(* The driver's loop never stops making attempts.                           *)
Spec == Init /\ [][Next]_vars /\ WF_vars(Next)

-----------------------------------------------------------------------------
(* Properties                                                              *)

(* Shape of the state.                                                     *)
TypeOK ==
    /\ members \in (SUBSET Val) \ {{}}
    /\ prio \in [members -> Int]
    /\ proposer \in Val
    /\ turn \in 0..W(Val)
    /\ turns \in [Val -> 0..W(Val)]
    /\ changes \in 0..MaxChanges

(* While the set does not change, every window of W turns gives each          *)
(* validator exactly as many turns as it has power.                         *)
ProportionalShare ==
    changes = 0 /\ turn = W(Val) => turns = Power

(* Priorities stay within a multiple of the total power, however often        *)
(* validators leave with a debt or a claim and come back at 0, so the i64      *)
(* saturation in select_proposer is never reached.                          *)
PriorityBounded ==
    LET bound == (Cardinality(Val) - 1) * W(Val)
    IN  \A v \in members : -bound <= prio[v] /\ prio[v] <= bound

(* Every validator that stays in the set proposes again and again, however     *)
(* the set changed before.                                                  *)
EveryoneProposes == \A v \in Val : []<>(proposer = v \/ v \notin members)

=============================================================================
