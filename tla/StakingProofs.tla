--------------------------- MODULE StakingProofs ----------------------------
(***************************************************************************)
(* Proofs about the staking keeper (Staking): its type invariant, that     *)
(* shares cover delegations, that stake backs what was not slashed, that a *)
(* tombstoned validator stays out, that a jail term is served, and that    *)
(* equivocation is punished once. The inductive invariant Inv adds to the  *)
(* checked properties the shape of the unbonding queue, that the staking   *)
(* file still holds genesis, that tombstoned implies Jailed, and what the  *)
(* recorded jail term is.                                                  *)
(***************************************************************************)
EXTENDS Staking, FoldProofs

(* An entry of the unbonding queue.                                        *)
Entry == [delegator : Addr, validator : Addr, amount : Nat, created : Nat,
          completion : Nat]

(* Types, and the entries of the queue.                                    *)
Shape ==
    /\ TypeOK
    /\ queue \in Seq(Entry)

(* The staking file is written once, at genesis. *)
FileIsGenesis ==
    file = [validators |-> GenesisValidators, delegations |-> SelfDelegations,
            queue |-> << >>]

(* tombstoned is set together with Jailed, and only unjail clears Jailed. *)
TombstonedJailed ==
    \A v \in Registered : validators[v].tombstoned => validators[v].status = "Jailed"

(* The jail term on record is the one of the last downtime slash. *)
TermKept ==
  /\ \A v \in Addr \ Registered : downAt[v] = NoHeight
  /\ \A v \in Registered : downAt[v] # NoHeight =>
        /\ downAt[v] <= now
        /\ validators[v].status = "Jailed" /\ ~ validators[v].tombstoned =>
              validators[v].jailedUntil = downAt[v] + JailBlocks
        /\ validators[v].status = "Active" => now >= downAt[v] + JailBlocks

(* The inductive invariant.                                                *)
Inv ==
    /\ Shape
    /\ FileIsGenesis
    /\ SharesCoverDelegations
    /\ UnslashedBacked
    /\ TombstonedJailed
    /\ TermKept

-----------------------------------------------------------------------------
(* A slash takes at most everything.                                       *)
LEMMA SlashBound ==
    ASSUME NEW t \in Nat, NEW d \in Nat \ {0}
    PROVE  t \div d \in 0..t
OBVIOUS

(* What a slash leaves is within the old bound.                            *)
LEMMA SlashedTokens ==
    ASSUME NEW m \in Nat, NEW t \in 0..m, NEW d \in Nat \ {0}
    PROVE  t - t \div d \in 0..m
BY SlashBound

(* A delegation, absent ones included, is a natural.                       *)
LEMMA DelegatedNat ==
    ASSUME TypeOK, NEW d, NEW v
    PROVE  Delegated(d, v) \in Nat
BY StakingAssumption DEF TypeOK, Delegated

(* So is the total delegated to a validator.                               *)
LEMMA DelegatedToNat ==
    ASSUME TypeOK, NEW v
    PROVE  DelegatedTo(v) \in Nat
BY StakingAssumption, DelegatedNat, SumNat DEF DelegatedTo

(* The same in the next state.                                             *)
LEMMA DelegatedToNatNext ==
    ASSUME TypeOK', NEW v
    PROVE  DelegatedTo(v)' \in Nat
<1>1. \A d \in Addr : Delegated(d, v)' \in Nat
  BY StakingAssumption DEF TypeOK, Delegated
<1> QED BY <1>1, StakingAssumption, SumNat DEF DelegatedTo

(* One delegation is at most the total.                                    *)
LEMMA DelegatedAtMost ==
    ASSUME TypeOK, NEW d \in Addr, NEW v
    PROVE  Delegated(d, v) <= DelegatedTo(v)
<1> DEFINE f == [x \in Addr |-> Delegated(x, v)]
<1>1. IsFiniteSet(Addr) /\ \A x \in Addr : f[x] \in Nat
  BY StakingAssumption, DelegatedNat
<1>2. f[d] <= Sum(f, Addr)
  <2> HIDE DEF f
  <2> QED BY <1>1, SumAtLeast
<1> QED BY <1>2 DEF DelegatedTo

(* Unchanged delegations leave the total unchanged.                        *)
LEMMA DelegatedToSame ==
    ASSUME NEW v, \A d \in Addr : Delegated(d, v)' = Delegated(d, v)
    PROVE  DelegatedTo(v)' = DelegatedTo(v)
<1> DEFINE f == [x \in Addr |-> Delegated(x, v)]
           g == [x \in Addr |-> Delegated(x, v)']
<1>1. IsFiniteSet(Addr) /\ \A x \in Addr : f[x] = g[x]
  BY StakingAssumption
<1>2. Sum(f, Addr) = Sum(g, Addr)
  <2> HIDE DEF f, g
  <2> QED BY <1>1, SumSame
<1> QED BY <1>2 DEF DelegatedTo

(* When one delegation changes, the total changes by as much.              *)
LEMMA DelegatedToChange ==
    ASSUME NEW v, NEW e \in Addr, TypeOK,
           \A d \in Addr : Delegated(d, v)' \in Nat,
           \A d \in Addr \ {e} : Delegated(d, v)' = Delegated(d, v)
    PROVE  DelegatedTo(v) + Delegated(e, v)' = DelegatedTo(v)' + Delegated(e, v)
<1> DEFINE f == [x \in Addr |-> Delegated(x, v)]
           g == [x \in Addr |-> Delegated(x, v)']
<1>1. /\ IsFiniteSet(Addr)
      /\ \A x \in Addr : f[x] \in Nat /\ g[x] \in Nat
      /\ \A x \in Addr \ {e} : f[x] = g[x]
  BY StakingAssumption, DelegatedNat
<1>2. Sum(f, Addr) + g[e] = Sum(g, Addr) + f[e]
  <2> HIDE DEF f, g
  <2> QED BY <1>1, SumChange
<1> QED BY <1>2 DEF DelegatedTo

-----------------------------------------------------------------------------
(* The genesis validators are well formed, active and unslashed.           *)
LEMMA GenesisTyped ==
    /\ DOMAIN GenesisValidators \subseteq Addr
    /\ \A v \in DOMAIN GenesisValidators :
         /\ GenesisValidators[v] \in Validator
         /\ GenesisValidators[v].status = "Active"
         /\ ~ GenesisValidators[v].tombstoned
         /\ GenesisValidators[v].tokens = GenesisStake[v]
         /\ GenesisValidators[v].shares = GenesisStake[v]
    /\ DOMAIN SelfDelegations = {<<v, v>> : v \in DOMAIN GenesisStake}
    /\ \A v \in DOMAIN GenesisStake :
         SelfDelegations[<<v, v>>] = GenesisStake[v]
BY StakingAssumption
   DEF GenesisValidators, SelfDelegations, NewValidator, Validator, NoHeight

(* At genesis a validator has its own stake delegated and nothing else.    *)
LEMMA GenesisDelegated ==
    ASSUME delegations = SelfDelegations, NEW v \in DOMAIN GenesisStake
    PROVE  DelegatedTo(v) = GenesisStake[v]
<1> DEFINE f == [d \in Addr |-> Delegated(d, v)]
           g == [d \in Addr |-> 0]
<1>1. \A d \in Addr : f[d] = IF d = v THEN GenesisStake[v] ELSE 0
  BY GenesisTyped DEF Delegated
<1>2. v \in Addr /\ IsFiniteSet(Addr) /\ GenesisStake[v] \in Nat
  BY StakingAssumption
<1>3. Sum(f, Addr) = f[v] + Sum(f, Addr \ {v})
  <2>1. \A d \in Addr : f[d] \in Nat
    BY <1>1, <1>2
  <2> HIDE DEF f
  <2> QED BY <2>1, <1>2, SumRemove
<1>4. Sum(f, Addr \ {v}) = 0
  <2>1. \A d \in Addr \ {v} : f[d] = 0
    BY <1>1
  <2>2. IsFiniteSet(Addr \ {v})
    BY <1>2, FS_Subset
  <2> HIDE DEF f
  <2> QED BY <2>1, <2>2, SumZero
<1> QED BY <1>1, <1>2, <1>3, <1>4 DEF DelegatedTo

(* The same for the state a restart leads to.                              *)
LEMMA GenesisDelegatedNext ==
    ASSUME delegations' = SelfDelegations, NEW v \in DOMAIN GenesisStake
    PROVE  DelegatedTo(v)' = GenesisStake[v]
<1> DEFINE f == [d \in Addr |-> Delegated(d, v)']
           g == [d \in Addr |-> 0]
<1>1. \A d \in Addr : f[d] = IF d = v THEN GenesisStake[v] ELSE 0
  BY GenesisTyped DEF Delegated
<1>2. v \in Addr /\ IsFiniteSet(Addr) /\ GenesisStake[v] \in Nat
  BY StakingAssumption
<1>3. Sum(f, Addr) = f[v] + Sum(f, Addr \ {v})
  <2>1. \A d \in Addr : f[d] \in Nat
    BY <1>1, <1>2
  <2> HIDE DEF f
  <2> QED BY <2>1, <1>2, SumRemove
<1>4. Sum(f, Addr \ {v}) = 0
  <2>1. \A d \in Addr \ {v} : f[d] = 0
    BY <1>1
  <2>2. IsFiniteSet(Addr \ {v})
    BY <1>2, FS_Subset
  <2> HIDE DEF f
  <2> QED BY <2>1, <2>2, SumZero
<1> QED BY <1>1, <1>2, <1>3, <1>4 DEF DelegatedTo

(* The keeper starts in the invariant.                                     *)
LEMMA InitInv == Init => Inv
<1> SUFFICES ASSUME Init PROVE Inv
  OBVIOUS
<1> USE StakingAssumption DEF Init
<1>1. TypeOK
  BY GenesisTyped DEF TypeOK, Registered, NoHeight, GenesisValidators
<1>2. Shape
  BY <1>1 DEF Shape
<1>3. FileIsGenesis
  BY DEF FileIsGenesis, StakingKeeperRecord
<1>4. \A v \in Registered :
         /\ validators[v].shares = DelegatedTo(v)
         /\ validators[v].tokens = validators[v].shares
         /\ validators[v].shares \in Nat
  BY GenesisTyped, GenesisDelegated DEF Registered, GenesisValidators
<1>5. SharesCoverDelegations /\ UnslashedBacked
  BY <1>4 DEF SharesCoverDelegations, UnslashedBacked
<1>6. TombstonedJailed
  BY GenesisTyped DEF TombstonedJailed, Registered
<1>7. TermKept
  BY GenesisTyped DEF TermKept, Registered
<1> QED BY <1>2, <1>3, <1>5, <1>6, <1>7 DEF Inv

-----------------------------------------------------------------------------
(* Steps *)

(* register_validator: shares, tokens and the self-delegation agree.       *)
LEMMA RegisterKeeps ==
    ASSUME Inv, NEW v \in Addr, NEW a \in Amounts, register_validator(v, a)
    PROVE  Inv'
<1> USE StakingAssumption
<1>0. a \in 0..AmountMax /\ v \notin Registered
  BY DEF register_validator
<1>1. /\ Registered' = Registered \cup {v}
      /\ validators'[v] = NewValidator(a)
      /\ \A u \in Registered : u # v /\ validators'[u] = validators[u]
  BY DEF register_validator, With, Registered
<1>2. /\ DOMAIN delegations' = DOMAIN delegations \cup {<<v, v>>}
      /\ delegations'[<<v, v>>] = a
      /\ \A p \in DOMAIN delegations : p # <<v, v>> => delegations'[p] = delegations[p]
  BY DEF register_validator, With
<1>3. UNCHANGED <<now, queue, file, equivocated, downAt, restarts>>
  BY DEF register_validator, history
<1>4. TypeOK
  BY DEF Inv, Shape
<1>5. NewValidator(a) \in Validator
  BY <1>0 DEF NewValidator, Validator, NoHeight
<1>6. TypeOK'
  <2>1. \A u \in Registered' : validators'[u] \in Validator
    BY <1>1, <1>4, <1>5 DEF TypeOK
  <2>2. \A p \in DOMAIN delegations' : p \in Addr \X Registered'
    <3>1. <<v, v>> \in Addr \X Registered'
      BY <1>1
    <3>2. \A p \in DOMAIN delegations : p \in Addr \X Registered'
      BY <1>1, <1>4 DEF TypeOK
    <3> QED BY <1>2, <3>1, <3>2
  <2>4. \A p \in DOMAIN delegations' : delegations'[p] \in 0..AmountMax
    BY <1>0, <1>2, <1>4 DEF TypeOK
  <2>3. Registered' \subseteq Addr
    BY <1>1, <1>4 DEF TypeOK
  <2> QED BY <1>3, <1>4, <2>1, <2>2, <2>3, <2>4 DEF TypeOK
<1>7. Shape' /\ FileIsGenesis'
  BY <1>3, <1>6 DEF Inv, Shape, FileIsGenesis
<1>8. ASSUME NEW u \in Registered
      PROVE  DelegatedTo(u)' = DelegatedTo(u)
  <2>1. \A d \in Addr : Delegated(d, u)' = Delegated(d, u)
    BY <1>1, <1>2 DEF Delegated
  <2> QED BY <2>1, DelegatedToSame
<1>9. DelegatedTo(v)' = a
  <2>1. \A d \in Addr : Delegated(d, v) = 0
    BY <1>0, <1>4 DEF Delegated, TypeOK
  <2>2. DelegatedTo(v) = 0
    <3> DEFINE f == [d \in Addr |-> Delegated(d, v)]
    <3>1. \A d \in Addr : f[d] = 0
      BY <2>1
    <3>2. Sum(f, Addr) = 0
      <4> HIDE DEF f
      <4> QED BY <3>1, SumZero
    <3> QED BY <3>2 DEF DelegatedTo
  <2>3. /\ \A d \in Addr : Delegated(d, v)' \in Nat
        /\ \A d \in Addr \ {v} : Delegated(d, v)' = Delegated(d, v)
        /\ Delegated(v, v)' = a
    BY <1>0, <1>2, <2>1 DEF Delegated
  <2>4. DelegatedTo(v) + Delegated(v, v)' = DelegatedTo(v)' + Delegated(v, v)
    BY <1>4, <2>3, DelegatedToChange
  <2>5. DelegatedTo(v)' \in Nat
    BY <1>6, DelegatedToNatNext
  <2> QED BY <1>0, <2>1, <2>2, <2>3, <2>4, <2>5
<1>10. SharesCoverDelegations'
  BY <1>0, <1>1, <1>8, <1>9 DEF Inv, SharesCoverDelegations, NewValidator
<1>11. UnslashedBacked'
  BY <1>0, <1>1, <1>3, <1>8, <1>9 DEF Inv, UnslashedBacked, Unslashed, NewValidator
<1>12. TombstonedJailed'
  BY <1>1 DEF Inv, TombstonedJailed, NewValidator
<1>13. TermKept'
  BY <1>0, <1>1, <1>3 DEF Inv, TermKept, NewValidator
<1> QED BY <1>7, <1>10, <1>11, <1>12, <1>13 DEF Inv

(* delegate, and the part of it that runs before a sum overflows. *)
LEMMA DelegateKeeps ==
    ASSUME Inv, NEW d \in Addr, NEW v \in Addr, NEW a \in Amounts, delegate(d, v, a)
    PROVE  Inv'
<1> USE StakingAssumption
<1> DEFINE val == validators[v]
<1>0. a \in 0..AmountMax /\ v \in Registered /\ val.tokens + a <= AmountMax
  BY DEF delegate
<1>1. UNCHANGED <<now, queue, file, equivocated, downAt, restarts>>
  BY DEF delegate, history
<1>2. TypeOK /\ val \in Validator
  BY <1>0 DEF Inv, Shape, TypeOK
<1>3. CASE val.shares + a > AmountMax
  <2>1. /\ validators' = [validators EXCEPT ![v].tokens = @ + a]
        /\ delegations' = delegations
    BY <1>3 DEF delegate
  <2>2. /\ Registered' = Registered
        /\ validators'[v] = [val EXCEPT !.tokens = @ + a]
        /\ \A u \in Registered : u # v => validators'[u] = validators[u]
    BY <1>0, <2>1 DEF Registered
  <2>3. [val EXCEPT !.tokens = @ + a] \in Validator
    BY <1>0, <1>2 DEF Validator
  <2>4. TypeOK'
    BY <1>1, <1>2, <2>1, <2>2, <2>3 DEF TypeOK
  <2>5. Shape' /\ FileIsGenesis'
    BY <1>1, <2>4 DEF Inv, Shape, FileIsGenesis
  <2>6. \A u : DelegatedTo(u)' = DelegatedTo(u)
    BY <2>1 DEF DelegatedTo, Delegated
  <2>7. /\ validators'[v].shares = val.shares /\ validators'[v].status = val.status
        /\ validators'[v].tombstoned = val.tombstoned
        /\ validators'[v].jailedUntil = val.jailedUntil
    BY <1>2, <2>2 DEF Validator
  <2>8. SharesCoverDelegations'
    BY <2>2, <2>6, <2>7 DEF Inv, SharesCoverDelegations
  <2>9. ~ Unslashed(v)
    <3>1. val.tokens # val.shares
      BY <1>0, <1>2, <1>3 DEF Validator
    <3> QED BY <1>0, <3>1 DEF Inv, UnslashedBacked
  <2>10. UnslashedBacked'
    BY <1>1, <2>2, <2>6, <2>9 DEF Inv, UnslashedBacked, Unslashed
  <2>11. TombstonedJailed'
    BY <2>2, <2>7 DEF Inv, TombstonedJailed
  <2>12. TermKept'
    <3>1. /\ \A u \in Registered : /\ validators'[u].status = validators[u].status
                                   /\ validators'[u].tombstoned = validators[u].tombstoned
                                   /\ validators'[u].jailedUntil = validators[u].jailedUntil
      BY <2>2, <2>7
    <3> QED BY <1>1, <2>2, <3>1 DEF Inv, TermKept
  <2> QED BY <2>5, <2>8, <2>10, <2>11, <2>12 DEF Inv
<1>4. CASE ~ (val.shares + a > AmountMax)
  <2>1. /\ validators' = [validators EXCEPT ![v].tokens = @ + a, ![v].shares = @ + a]
        /\ delegations' = With(delegations, <<d, v>>, Delegated(d, v) + a)
    BY <1>4 DEF delegate
  <2>2. /\ Registered' = Registered
        /\ validators'[v] = [val EXCEPT !.tokens = @ + a, !.shares = @ + a]
        /\ \A u \in Registered : u # v => validators'[u] = validators[u]
    BY <1>0, <2>1 DEF Registered
  <2>3. [val EXCEPT !.tokens = @ + a, !.shares = @ + a] \in Validator
    <3>1. val.tokens + a \in 0..AmountMax /\ val.shares + a \in 0..AmountMax
      BY <1>0, <1>2, <1>4 DEF Validator
    <3> QED BY <1>2, <3>1 DEF Validator
  <2>4. /\ DOMAIN delegations' = DOMAIN delegations \cup {<<d, v>>}
        /\ delegations'[<<d, v>>] = Delegated(d, v) + a
        /\ \A p \in DOMAIN delegations : p # <<d, v>> => delegations'[p] = delegations[p]
    BY <2>1 DEF With
  <2>5. Delegated(d, v) \in Nat /\ Delegated(d, v) + a \in 0..AmountMax
    <3>1. Delegated(d, v) <= DelegatedTo(v) /\ DelegatedTo(v) <= val.shares
      BY <1>0, <1>2, DelegatedAtMost DEF Inv, SharesCoverDelegations
    <3>2. Delegated(d, v) \in Nat /\ DelegatedTo(v) \in Nat /\ val.shares \in Nat
      BY <1>2, DelegatedNat, DelegatedToNat DEF Validator
    <3> QED BY <1>0, <1>4, <3>1, <3>2
  <2>6. TypeOK'
    <3>1. \A u \in Registered' : validators'[u] \in Validator
      BY <1>2, <2>2, <2>3 DEF TypeOK
    <3>2. \A p \in DOMAIN delegations' : p \in Addr \X Registered'
      <4>1. <<d, v>> \in Addr \X Registered'
        BY <1>0, <2>2
      <4>2. \A p \in DOMAIN delegations : p \in Addr \X Registered'
        BY <1>2, <2>2 DEF TypeOK
      <4> QED BY <2>4, <4>1, <4>2
    <3>3. \A p \in DOMAIN delegations' : delegations'[p] \in 0..AmountMax
      BY <1>2, <2>4, <2>5 DEF TypeOK
    <3> QED BY <1>1, <1>2, <2>2, <3>1, <3>2, <3>3 DEF TypeOK
  <2>7. Shape' /\ FileIsGenesis'
    BY <1>1, <2>6 DEF Inv, Shape, FileIsGenesis
  <2>8. ASSUME NEW u, u # v
        PROVE  DelegatedTo(u)' = DelegatedTo(u)
    <3>1. \A e \in Addr : Delegated(e, u)' = Delegated(e, u)
      BY <2>4, <2>8 DEF Delegated
    <3> QED BY <3>1, DelegatedToSame
  <2>9. DelegatedTo(v)' = DelegatedTo(v) + a /\ DelegatedTo(v) \in Nat
    <3>1. /\ \A e \in Addr \ {d} : Delegated(e, v)' = Delegated(e, v)
          /\ Delegated(d, v)' = Delegated(d, v) + a
      BY <2>4 DEF Delegated
    <3>2. \A e \in Addr : Delegated(e, v)' \in Nat
      BY <1>0, <1>2, <2>5, <3>1, DelegatedNat
    <3>3. DelegatedTo(v) + Delegated(d, v)' = DelegatedTo(v)' + Delegated(d, v)
      BY <1>2, <3>1, <3>2, DelegatedToChange
    <3>4. DelegatedTo(v) \in Nat /\ DelegatedTo(v)' \in Nat
      BY <1>2, <2>6, DelegatedToNat, DelegatedToNatNext
    <3> QED BY <1>0, <2>5, <3>1, <3>3, <3>4
  <2>10. /\ validators'[v].shares = val.shares + a
         /\ validators'[v].tokens = val.tokens + a
         /\ validators'[v].status = val.status
         /\ validators'[v].tombstoned = val.tombstoned
         /\ validators'[v].jailedUntil = val.jailedUntil
         /\ val.shares \in Nat /\ val.tokens \in Nat
    BY <1>2, <2>2 DEF Validator
  <2>11. SharesCoverDelegations'
    <3>1. DelegatedTo(v)' <= validators'[v].shares
      BY <1>0, <2>9, <2>10 DEF Inv, SharesCoverDelegations
    <3> QED BY <2>2, <2>8, <3>1 DEF Inv, SharesCoverDelegations
  <2>12. UnslashedBacked'
    <3>1. UnslashedBacked
      BY <1>0 DEF Inv
    <3>2. \A u : Unslashed(u)' = Unslashed(u)
      BY <1>1 DEF Unslashed
    <3>3. Unslashed(v) => /\ validators'[v].tokens = validators'[v].shares
                          /\ validators'[v].shares = DelegatedTo(v)'
      <4>1. Unslashed(v) => val.tokens = val.shares /\ val.shares = DelegatedTo(v)
        BY <1>0, <3>1 DEF UnslashedBacked
      <4> QED BY <2>9, <2>10, <4>1
    <3>4. ASSUME NEW u \in Registered, u # v, Unslashed(u)
          PROVE  /\ validators'[u].tokens = validators'[u].shares
                 /\ validators'[u].shares = DelegatedTo(u)'
      BY <2>2, <2>8, <3>1, <3>4 DEF UnslashedBacked
    <3> QED BY <2>2, <3>2, <3>3, <3>4 DEF UnslashedBacked
  <2>13. TombstonedJailed'
    BY <2>2, <2>10 DEF Inv, TombstonedJailed
  <2>14. TermKept'
    <3>1. /\ \A u \in Registered : /\ validators'[u].status = validators[u].status
                                   /\ validators'[u].tombstoned = validators[u].tombstoned
                                   /\ validators'[u].jailedUntil = validators[u].jailedUntil
      BY <2>2, <2>10
    <3> QED BY <1>1, <2>2, <3>1 DEF Inv, TermKept
  <2> QED BY <2>7, <2>11, <2>12, <2>13, <2>14 DEF Inv
<1> QED BY <1>3, <1>4

(* undelegate: the shares cover the delegation that is lowered, so neither  *)
(* subtraction can go below zero.                                          *)
LEMMA UndelegateKeeps ==
    ASSUME Inv, NEW d \in Addr, NEW v \in Addr, NEW a \in Amounts, undelegate(d, v, a)
    PROVE  Inv'
<1> USE StakingAssumption
<1> DEFINE val == validators[v]
<1>1. /\ a \in 0..AmountMax /\ <<d, v>> \in DOMAIN delegations
      /\ delegations[<<d, v>>] >= a /\ Len(queue) < MaxQueue
      /\ delegations' = [delegations EXCEPT ![<<d, v>>] = @ - a]
      /\ UNCHANGED <<now, file, equivocated, downAt, restarts>>
  BY DEF undelegate, history
<1>2. /\ TypeOK /\ v \in Registered /\ val \in Validator
      /\ delegations[<<d, v>>] \in 0..AmountMax
  <2>1. TypeOK
    BY DEF Inv, Shape
  <2>2. <<d, v>> \in Addr \X Registered
    BY <2>1, <1>1 DEF TypeOK
  <2> QED BY <1>1, <2>1, <2>2 DEF TypeOK
<1>3. /\ DOMAIN delegations' = DOMAIN delegations
      /\ delegations'[<<d, v>>] = delegations[<<d, v>>] - a
      /\ \A p \in DOMAIN delegations : p # <<d, v>> => delegations'[p] = delegations[p]
  BY <1>1
<1>4. delegations[<<d, v>>] - a \in 0..AmountMax
  BY <1>1, <1>2
<1>5. \A p \in DOMAIN delegations' : delegations'[p] \in 0..AmountMax
  BY <1>2, <1>3, <1>4 DEF TypeOK
<1>6. ASSUME NEW u, u # v
      PROVE  DelegatedTo(u)' = DelegatedTo(u)
  <2>1. \A e \in Addr : Delegated(e, u)' = Delegated(e, u)
    BY <1>3, <1>6 DEF Delegated
  <2> QED BY <2>1, DelegatedToSame
<1>7. /\ DelegatedTo(v) = DelegatedTo(v)' + a
      /\ DelegatedTo(v) \in Nat /\ DelegatedTo(v)' \in Nat
  <2>1. /\ \A e \in Addr \ {d} : Delegated(e, v)' = Delegated(e, v)
        /\ Delegated(d, v)' = delegations[<<d, v>>] - a
        /\ Delegated(d, v) = delegations[<<d, v>>]
    BY <1>1, <1>3 DEF Delegated
  <2>2. \A e \in Addr : Delegated(e, v)' \in Nat
    BY <1>2, <1>4, <2>1, DelegatedNat
  <2>3. DelegatedTo(v) + Delegated(d, v)' = DelegatedTo(v)' + Delegated(d, v)
    BY <1>2, <2>1, <2>2, DelegatedToChange
  <2>4. DelegatedTo(v) \in Nat
    BY <1>2, DelegatedToNat
  <2>5. DelegatedTo(v)' \in Nat
    <3> DEFINE f == [e \in Addr |-> Delegated(e, v)']
    <3>1. Sum(f, Addr) \in Nat
      <4>1. \A e \in Addr : f[e] \in Nat
        BY <2>2
      <4> HIDE DEF f
      <4> QED BY <4>1, SumNat
    <3> QED BY <3>1 DEF DelegatedTo
  <2> QED BY <1>1, <1>2, <2>1, <2>3, <2>4, <2>5
<1>8. /\ a <= val.shares /\ val.shares \in Nat /\ val.tokens \in Nat
      /\ DelegatedTo(v) <= val.shares
  <2>1. DelegatedTo(v) <= val.shares
    BY <1>2 DEF Inv, SharesCoverDelegations
  <2>2. val.shares \in Nat /\ val.tokens \in Nat
    BY <1>2 DEF Validator
  <2> QED BY <1>1, <1>7, <2>1, <2>2
<1>9. CASE val.tokens < a
  <2>1. validators' = validators /\ queue' = queue
    BY <1>9 DEF undelegate
  <2>2. TypeOK'
    BY <1>1, <1>2, <1>3, <1>5, <2>1 DEF TypeOK, Registered
  <2>3. Shape' /\ FileIsGenesis'
    BY <1>1, <2>1, <2>2 DEF Inv, Shape, FileIsGenesis
  <2>4. SharesCoverDelegations'
    <3>1. DelegatedTo(v)' <= val.shares
      BY <1>1, <1>7, <1>8
    <3> QED BY <1>6, <2>1, <3>1 DEF Inv, SharesCoverDelegations, Registered
  <2>5. ~ Unslashed(v)
    <3>1. val.tokens # val.shares
      BY <1>8, <1>9, <1>1
    <3> QED BY <1>2, <3>1 DEF Inv, UnslashedBacked
  <2>6. UnslashedBacked'
    BY <1>1, <1>6, <2>1, <2>5 DEF Inv, UnslashedBacked, Unslashed, Registered
  <2>7. TombstonedJailed' /\ TermKept'
    BY <1>1, <2>1 DEF Inv, TombstonedJailed, TermKept, Registered
  <2> QED BY <2>3, <2>4, <2>6, <2>7 DEF Inv
<1>10. CASE ~ (val.tokens < a)
  <2>1. /\ validators' = [validators EXCEPT ![v].tokens = @ - a, ![v].shares = @ - a]
        /\ queue' = Append(queue, UnbondingEntry(d, v, a))
    BY <1>10 DEF undelegate
  <2>2. /\ Registered' = Registered
        /\ validators'[v] = [val EXCEPT !.tokens = @ - a, !.shares = @ - a]
        /\ \A u \in Registered : u # v => validators'[u] = validators[u]
    BY <1>2, <2>1 DEF Registered
  <2>3. [val EXCEPT !.tokens = @ - a, !.shares = @ - a] \in Validator
    <3>1. val.tokens - a \in 0..AmountMax /\ val.shares - a \in 0..AmountMax
      <4>1. val.tokens \in 0..AmountMax /\ val.shares \in 0..AmountMax
        BY <1>2 DEF Validator
      <4>2. a \in Nat /\ a <= val.tokens /\ a <= val.shares
        BY <1>1, <1>8, <1>10
      <4> HIDE DEF val
      <4> QED BY <4>1, <4>2
    <3> QED BY <1>2, <3>1 DEF Validator
  <2>4. queue' \in Seq(Entry) /\ Len(queue') <= MaxQueue
    <3>1. UnbondingEntry(d, v, a) \in Entry
      BY <1>1, <1>2 DEF UnbondingEntry, Entry, TypeOK
    <3>2. queue \in Seq(Entry)
      BY DEF Inv, Shape
    <3>3. /\ Append(queue, UnbondingEntry(d, v, a)) \in Seq(Entry)
          /\ Len(Append(queue, UnbondingEntry(d, v, a))) = Len(queue) + 1
      BY <3>1, <3>2, AppendProperties
    <3>4. Len(queue) + 1 <= MaxQueue
      BY <1>1, <3>2, LenProperties, StakingAssumption
    <3> QED BY <2>1, <3>3, <3>4
  <2>5. TypeOK'
    <3>1. \A u \in Registered' : validators'[u] \in Validator
      BY <1>2, <2>2, <2>3 DEF TypeOK
    <3>2. DOMAIN delegations' \subseteq Addr \X Registered'
      BY <1>2, <1>3, <2>2 DEF TypeOK
    <3> QED BY <1>1, <1>2, <1>5, <2>2, <2>4, <3>1, <3>2 DEF TypeOK
  <2>6. Shape' /\ FileIsGenesis'
    BY <1>1, <2>4, <2>5 DEF Inv, Shape, FileIsGenesis
  <2>7. /\ validators'[v].shares = val.shares - a
        /\ validators'[v].tokens = val.tokens - a
        /\ \A u \in Registered : /\ validators'[u].status = validators[u].status
                                 /\ validators'[u].tombstoned = validators[u].tombstoned
                                 /\ validators'[u].jailedUntil = validators[u].jailedUntil
    BY <1>2, <2>2 DEF Validator
  <2>8. SharesCoverDelegations'
    <3>1. DelegatedTo(v)' <= validators'[v].shares
      BY <1>1, <1>7, <1>8, <2>7
    <3> QED BY <1>6, <2>2, <3>1 DEF Inv, SharesCoverDelegations
  <2>9. UnslashedBacked'
    <3>1. Unslashed(v) => /\ validators'[v].tokens = validators'[v].shares
                          /\ validators'[v].shares = DelegatedTo(v)'
      <4>1. Unslashed(v) => val.tokens = val.shares /\ val.shares = DelegatedTo(v)
        BY <1>2 DEF Inv, UnslashedBacked
      <4> QED BY <1>1, <1>7, <1>8, <2>7, <4>1
    <3> QED BY <1>1, <1>6, <2>2, <3>1 DEF Inv, UnslashedBacked, Unslashed
  <2>10. TombstonedJailed'
    BY <2>2, <2>7 DEF Inv, TombstonedJailed
  <2>11. TermKept'
    <3>1. TermKept /\ downAt' = downAt /\ now' = now
      BY <1>1 DEF Inv
    <3>2. Registered' = Registered
      BY <2>2
    <3> QED BY <2>7, <3>1, <3>2, Zenon DEF TermKept
  <2> QED BY <2>6, <2>8, <2>9, <2>10, <2>11 DEF Inv
<1> QED BY <1>9, <1>10

(* A step that replaces one validator's record and touches no delegation.   *)
LEMMA RecordReplaced ==
    ASSUME Inv, NEW v \in Registered, NEW val \in Validator,
           Registered' = Registered, validators'[v] = val,
           \A u \in Registered : u # v => validators'[u] = validators[u],
           val.shares = validators[v].shares,
           UNCHANGED <<now, delegations, queue, file, restarts>>,
           equivocated' \subseteq Addr, downAt' \in [Addr -> 0..NoHeight]
    PROVE  Shape' /\ FileIsGenesis' /\ SharesCoverDelegations'
           /\ \A u : DelegatedTo(u)' = DelegatedTo(u)
<1>1. TypeOK
  BY DEF Inv, Shape
<1>2. TypeOK'
  <2>1. \A u \in Registered' : validators'[u] \in Validator
    BY <1>1 DEF TypeOK
  <2> QED BY <1>1, <2>1 DEF TypeOK
<1>3. Shape' /\ FileIsGenesis'
  BY <1>2 DEF Inv, Shape, FileIsGenesis
<1>4. \A u : DelegatedTo(u)' = DelegatedTo(u)
  BY DEF DelegatedTo, Delegated
<1>5. SharesCoverDelegations'
  BY <1>4 DEF Inv, SharesCoverDelegations
<1> QED BY <1>3, <1>4, <1>5

(* slash_equivocation lowers tokens, never shares, and jails as it         *)
(* tombstones.                                                             *)
LEMMA EquivocationKeeps ==
    ASSUME Inv, NEW v \in Addr, slash_equivocation(v)
    PROVE  Inv'
<1> USE StakingAssumption
<1> DEFINE old == validators[v]
           val == [old EXCEPT !.tokens = @ - @ \div DoubleSignDen,
                              !.status = "Jailed", !.tombstoned = TRUE]
<1>1. /\ v \in Registered /\ Registered' = Registered
      /\ validators'[v] = val
      /\ \A u \in Registered : u # v => validators'[u] = validators[u]
      /\ equivocated' = equivocated \cup {v}
      /\ UNCHANGED <<now, delegations, queue, file, downAt, restarts>>
  BY DEF slash_equivocation, Registered
<1>2. TypeOK /\ old \in Validator
  BY <1>1 DEF Inv, Shape, TypeOK
<1>3. val \in Validator /\ val.shares = old.shares /\ val.status = "Jailed"
      /\ val.tombstoned
  <2>1. old.tokens - old.tokens \div DoubleSignDen \in 0..AmountMax
    BY <1>2, SlashedTokens DEF Validator
  <2> QED BY <1>2, <2>1 DEF Validator
<1>4. equivocated' \subseteq Addr /\ downAt' \in [Addr -> 0..NoHeight]
  BY <1>1, <1>2 DEF TypeOK
<1> HIDE DEF val
<1>5. Shape' /\ FileIsGenesis' /\ SharesCoverDelegations'
      /\ \A u : DelegatedTo(u)' = DelegatedTo(u)
  BY <1>1, <1>3, <1>4, RecordReplaced
<1>6. UnslashedBacked'
  BY <1>1, <1>5 DEF Inv, UnslashedBacked, Unslashed
<1>7. TombstonedJailed'
  BY <1>1, <1>3 DEF Inv, TombstonedJailed
<1>8. TermKept'
  BY <1>1, <1>3 DEF Inv, TermKept
<1> QED BY <1>5, <1>6, <1>7, <1>8 DEF Inv

(* slash_downtime lowers tokens, jails and records the end of the term.    *)
LEMMA DowntimeKeeps ==
    ASSUME Inv, NEW v \in Addr, slash_downtime(v)
    PROVE  Inv'
<1> USE StakingAssumption
<1> DEFINE old == validators[v]
<1>1. /\ v \in Registered /\ Registered' = Registered
      /\ old.status # "Jailed" /\ ~ old.tombstoned
      /\ \A u \in Registered : u # v => validators'[u] = validators[u]
      /\ UNCHANGED <<now, delegations, queue, file, equivocated, restarts>>
  BY DEF slash_downtime, Registered
<1>2. TypeOK /\ old \in Validator /\ now \in 0..MaxHeight
  BY <1>1 DEF Inv, Shape, TypeOK
<1>3. CASE old.missed + 1 < MissedThreshold
  <2> DEFINE val == [old EXCEPT !.missed = @ + 1]
  <2>1. validators'[v] = val /\ downAt' = downAt
    BY <1>1, <1>3 DEF slash_downtime, Registered
  <2>2. /\ val \in Validator /\ val.shares = old.shares /\ val.tokens = old.tokens
        /\ val.status = old.status /\ val.tombstoned = old.tombstoned
        /\ val.jailedUntil = old.jailedUntil
    BY <1>2, <1>3 DEF Validator
  <2> HIDE DEF val
  <2>3. Shape' /\ FileIsGenesis' /\ SharesCoverDelegations'
        /\ \A u : DelegatedTo(u)' = DelegatedTo(u)
    <3>1. equivocated' \subseteq Addr /\ downAt' \in [Addr -> 0..NoHeight]
      BY <1>1, <1>2, <2>1 DEF TypeOK
    <3> QED BY <1>1, <2>1, <2>2, <3>1, RecordReplaced
  <2>4. UnslashedBacked'
    BY <1>1, <2>1, <2>2, <2>3 DEF Inv, UnslashedBacked, Unslashed
  <2>5. TombstonedJailed'
    BY <1>1, <2>1, <2>2 DEF Inv, TombstonedJailed
  <2>6. TermKept'
    BY <1>1, <2>1, <2>2 DEF Inv, TermKept
  <2> QED BY <2>3, <2>4, <2>5, <2>6 DEF Inv
<1>4. CASE ~ (old.missed + 1 < MissedThreshold)
  <2> DEFINE val == JailedForDowntime(old)
  <2>1. validators'[v] = val /\ downAt' = [downAt EXCEPT ![v] = now]
    BY <1>1, <1>4 DEF slash_downtime, Registered
  <2>2. /\ val \in Validator /\ val.shares = old.shares
        /\ val.status = "Jailed" /\ val.tombstoned = old.tombstoned
        /\ val.jailedUntil = now + JailBlocks
    <3>1. old.tokens - old.tokens \div DowntimeDen \in 0..AmountMax
      BY <1>2, SlashedTokens DEF Validator
    <3>2. now + JailBlocks \in 0..NoHeight /\ 0 \in 0..MissedThreshold - 1
      BY <1>2 DEF NoHeight
    <3> QED BY <1>2, <3>1, <3>2 DEF Validator, JailedForDowntime
  <2> HIDE DEF val
  <2>3. now # NoHeight /\ now \in 0..NoHeight
    BY <1>2 DEF NoHeight
  <2>4. /\ downAt' \in [Addr -> 0..NoHeight] /\ downAt'[v] = now
        /\ \A u \in Addr : u # v => downAt'[u] = downAt[u]
    BY <1>1, <1>2, <2>1, <2>3 DEF TypeOK
  <2>5. Shape' /\ FileIsGenesis' /\ SharesCoverDelegations'
        /\ \A u : DelegatedTo(u)' = DelegatedTo(u)
    <3>1. equivocated' \subseteq Addr
      BY <1>1, <1>2 DEF TypeOK
    <3> QED BY <1>1, <2>1, <2>2, <2>4, <3>1, RecordReplaced
  <2>6. Registered \subseteq Addr
    BY <1>2 DEF TypeOK
  <2>7. UnslashedBacked'
    BY <1>1, <2>3, <2>4, <2>5, <2>6 DEF Inv, UnslashedBacked, Unslashed
  <2>8. TombstonedJailed'
    BY <1>1, <2>1, <2>2 DEF Inv, TombstonedJailed
  <2>9. TermKept'
    <3>1. \A u \in Addr \ Registered' : downAt'[u] = NoHeight
      BY <1>1, <2>4 DEF Inv, TermKept
    <3>2. \A u \in Registered : u # v => downAt'[u] = downAt[u]
      BY <2>4, <2>6
    <3>3. now <= now
      BY <1>2
    <3> QED BY <1>1, <2>1, <2>2, <2>4, <3>1, <3>2, <3>3 DEF Inv, TermKept
  <2> QED BY <2>5, <2>7, <2>8, <2>9 DEF Inv
<1> QED BY <1>3, <1>4

(* unjail: what it may set Active has served its term. *)
LEMMA UnjailKeeps ==
    ASSUME Inv, NEW v \in Addr, unjail(v)
    PROVE  Inv'
<1> USE StakingAssumption
<1> DEFINE old == validators[v]
           val == [old EXCEPT !.status = "Active", !.jailedUntil = NoHeight, !.missed = 0]
<1>1. /\ v \in Registered /\ Registered' = Registered /\ CanUnjail(v)
      /\ validators'[v] = val
      /\ \A u \in Registered : u # v => validators'[u] = validators[u]
      /\ UNCHANGED <<now, delegations, queue, file, equivocated, downAt, restarts>>
  BY DEF unjail, Registered, history
<1>2. TypeOK /\ old \in Validator /\ now \in 0..MaxHeight /\ downAt[v] \in 0..NoHeight
  BY <1>1 DEF Inv, Shape, TypeOK
<1>3. /\ val \in Validator /\ val.shares = old.shares /\ val.tokens = old.tokens
      /\ val.status = "Active" /\ val.tombstoned = old.tombstoned /\ ~ old.tombstoned
  <2>1. NoHeight \in 0..NoHeight /\ 0 \in 0..MissedThreshold - 1
    BY DEF NoHeight
  <2> QED BY <1>1, <1>2, <2>1 DEF Validator, CanUnjail
<1> HIDE DEF val
<1>4. equivocated' \subseteq Addr /\ downAt' \in [Addr -> 0..NoHeight]
  BY <1>1, <1>2 DEF TypeOK
<1>5. Shape' /\ FileIsGenesis' /\ SharesCoverDelegations'
      /\ \A u : DelegatedTo(u)' = DelegatedTo(u)
  BY <1>1, <1>3, <1>4, RecordReplaced
<1>6. UnslashedBacked'
  BY <1>1, <1>3, <1>5 DEF Inv, UnslashedBacked, Unslashed
<1>7. TombstonedJailed'
  BY <1>1, <1>3 DEF Inv, TombstonedJailed
<1>8. downAt[v] # NoHeight => downAt[v] <= now /\ now >= downAt[v] + JailBlocks
  <2>1. SUFFICES ASSUME downAt[v] # NoHeight
                 PROVE  downAt[v] <= now /\ now >= downAt[v] + JailBlocks
    OBVIOUS
  <2>2. /\ downAt[v] <= now
        /\ old.status = "Jailed" => old.jailedUntil = downAt[v] + JailBlocks
        /\ old.status = "Active" => now >= downAt[v] + JailBlocks
    BY <1>1, <1>3, <2>1 DEF Inv, TermKept
  <2>3. old.status \in {"Active", "Jailed"}
    BY <1>2 DEF Validator
  <2>4. old.jailedUntil = NoHeight \/ now >= old.jailedUntil
    BY <1>1 DEF CanUnjail
  <2> QED BY <1>2, <2>2, <2>3, <2>4 DEF NoHeight
<1>9. TermKept'
  BY <1>1, <1>3, <1>8 DEF Inv, TermKept
<1> QED BY <1>5, <1>6, <1>7, <1>9 DEF Inv

(* The block height advances.                                              *)
LEMMA TickKeeps ==
    ASSUME Inv, Tick
    PROVE  Inv'
<1> USE StakingAssumption
<1>1. /\ now < MaxHeight /\ now' = now + 1
      /\ UNCHANGED <<validators, delegations, queue, file, equivocated, downAt, restarts>>
  BY DEF Tick, keeper, history
<1>2. TypeOK /\ now \in 0..MaxHeight
  BY DEF Inv, Shape, TypeOK
<1>3. TypeOK'
  BY <1>1, <1>2 DEF TypeOK, Registered
<1>4. Shape' /\ FileIsGenesis'
  BY <1>1, <1>3 DEF Inv, Shape, FileIsGenesis
<1>5. SharesCoverDelegations' /\ UnslashedBacked' /\ TombstonedJailed'
  BY <1>1 DEF Inv, SharesCoverDelegations, UnslashedBacked, Unslashed, TombstonedJailed,
              Registered, DelegatedTo, Delegated
<1>6. TermKept'
  <2>1. \A v \in Registered : downAt[v] \in Nat
    BY <1>2 DEF TypeOK, NoHeight
  <2> QED BY <1>1, <1>2, <2>1 DEF Inv, TermKept, Registered
<1> QED BY <1>4, <1>5, <1>6 DEF Inv

(* A restart reads the genesis keeper back; equivocated survives it, the     *)
(* record of the downtime slashes does not.                                 *)
LEMMA RestartKeeps ==
    ASSUME Inv, Restart
    PROVE  Inv'
<1> USE StakingAssumption
<1>1. /\ restarts < MaxRestarts /\ restarts' = restarts + 1
      /\ validators' = GenesisValidators /\ delegations' = SelfDelegations
      /\ queue' = << >> /\ downAt' = [v \in Addr |-> NoHeight]
      /\ UNCHANGED <<now, file, equivocated>>
  BY DEF Inv, FileIsGenesis, Restart
<1>2. TypeOK
  BY DEF Inv, Shape
<1>3. TypeOK'
  BY <1>1, <1>2, GenesisTyped DEF TypeOK, Registered, NoHeight, GenesisValidators
<1>4. Shape' /\ FileIsGenesis'
  BY <1>1, <1>3 DEF Inv, Shape, FileIsGenesis
<1>5. \A v \in Registered' :
         /\ validators'[v].shares = DelegatedTo(v)'
         /\ validators'[v].tokens = validators'[v].shares
         /\ validators'[v].shares \in Nat
  <2>1. \A v \in DOMAIN GenesisStake : DelegatedTo(v)' = GenesisStake[v]
    BY <1>1, GenesisDelegatedNext
  <2> QED BY <1>1, <2>1, GenesisTyped DEF Registered, GenesisValidators
<1>6. SharesCoverDelegations' /\ UnslashedBacked'
  BY <1>5 DEF SharesCoverDelegations, UnslashedBacked
<1>7. TombstonedJailed'
  BY <1>1, GenesisTyped DEF TombstonedJailed, Registered
<1>8. TermKept'
  BY <1>1, <1>3 DEF TermKept, TypeOK
<1> QED BY <1>4, <1>6, <1>7, <1>8 DEF Inv

(* Every step of the keeper preserves the invariant.                       *)
LEMMA StepKeeps == Inv /\ [Next]_vars => Inv'
<1> SUFFICES ASSUME Inv, [Next]_vars PROVE Inv'
  OBVIOUS
<1>1. CASE UNCHANGED vars
  BY <1>1 DEF vars, keeper, history, Inv, Shape, FileIsGenesis, TypeOK, Registered,
     SharesCoverDelegations, UnslashedBacked, Unslashed, TombstonedJailed, TermKept,
     DelegatedTo, Delegated
<1>2. CASE Next
  BY <1>2, RegisterKeeps, DelegateKeeps, UndelegateKeeps, EquivocationKeeps,
     DowntimeKeeps, UnjailKeeps, TickKeeps, RestartKeeps DEF Next
<1> QED BY <1>1, <1>2

(* The invariant holds in every reachable state of the keeper.             *)
THEOREM Invariance == Spec => []Inv
BY InitInv, StepKeeps, PTL DEF Spec

(* Keeper state is always well typed: validators, delegations, the queue   *)
(* and the file hold what the Rust types say.                              *)
THEOREM TypeCorrect == Spec => []TypeOK
<1>1. Inv => TypeOK
  BY DEF Inv, Shape
<1> QED BY <1>1, Invariance, PTL

(* A validator always holds at least as many shares as are delegated to    *)
(* it: undelegate never subtracts below zero, in any interleaving of       *)
(* slashes, undelegations and restarts.                                    *)
THEOREM Covered == Spec => []SharesCoverDelegations
<1>1. Inv => SharesCoverDelegations
  BY DEF Inv
<1> QED BY <1>1, Invariance, PTL

(* A validator that was never slashed has a token for every share: its     *)
(* stake in the validator set is what was delegated.                       *)
THEOREM Backed == Spec => []UnslashedBacked
<1>1. Inv => UnslashedBacked
  BY DEF Inv
<1> QED BY <1>1, Invariance, PTL

(* A tombstoned validator is never in get_active_validator_set, whatever   *)
(* is delegated to it or unjailed later.                                   *)
THEOREM StaysOut == Spec => []TombstonedOut
<1>1. Inv => TombstonedOut
  BY DEF Inv, TombstonedJailed, TombstonedOut, get_active_validator_set, Eligible
<1> QED BY <1>1, Invariance, PTL

(* No validator is active before the jail term of its last downtime slash  *)
(* is over.                                                                *)
THEOREM TermServed == Spec => []JailServed
<1>1. Inv => JailServed
  BY DEF Inv, TermKept, JailServed, Eligible
<1> QED BY <1>1, Invariance, PTL

(* What a step may take from a tombstoned validator's tokens. *)
TokensKept(v) ==
    validators[v].tokens <= validators'[v].tokens
        + (IF Len(queue') > Len(queue) THEN Last(queue').amount ELSE 0)

(* A validator whose tokens do not change loses none.                      *)
LEMMA RecordKept ==
    ASSUME Inv, NEW v \in Registered, validators'[v].tokens = validators[v].tokens,
           queue' = queue
    PROVE  TokensKept(v)
<1>1. validators[v].tokens \in Nat /\ Len(queue) \in Nat
  BY StakingAssumption DEF Inv, Shape, TypeOK, Validator
<1> QED BY <1>1 DEF TokensKept

(* undelegate takes exactly what it queues, from one validator.            *)
LEMMA UndelegateTakes ==
    ASSUME Inv, NEW v \in Registered,
           NEW d \in Addr, NEW u \in Addr, NEW a \in Amounts, undelegate(d, u, a)
    PROVE  TokensKept(v)
<1> USE StakingAssumption
<1>1. TypeOK /\ queue \in Seq(Entry) /\ a \in Nat
  BY DEF Inv, Shape
<1>2. validators[v].tokens \in Nat
  BY <1>1 DEF TypeOK, Validator
<1>3. u \in Registered
  <2>1. <<d, u>> \in Addr \X Registered
    BY <1>1 DEF undelegate, TypeOK
  <2> QED BY <2>1
<1>4. CASE validators[u].tokens < a
  BY <1>4, RecordKept DEF undelegate
<1>5. CASE ~ (validators[u].tokens < a)
  <2>1. /\ validators' = [validators EXCEPT ![u].tokens = @ - a, ![u].shares = @ - a]
        /\ queue' = Append(queue, UnbondingEntry(d, u, a))
    BY <1>5 DEF undelegate
  <2>2. Len(queue') = Len(queue) + 1 /\ Len(queue) \in Nat
    BY <1>1, <2>1
  <2>3. Last(queue').amount = a
    <3>1. queue'[Len(queue')] = UnbondingEntry(d, u, a)
      BY <1>1, <2>1, <2>2
    <3> QED BY <3>1 DEF Last, UnbondingEntry
  <2>4. CASE u = v
    <3>1. validators'[v].tokens = validators[v].tokens - a
      <4>1. validators[v] \in Validator
        BY <1>1 DEF TypeOK
      <4>2. validators'[v] = [validators[v] EXCEPT !.tokens = @ - a, !.shares = @ - a]
        BY <2>1, <2>4 DEF Registered
      <4> QED BY <4>1, <4>2 DEF Validator
    <3> QED BY <1>1, <1>2, <2>2, <2>3, <3>1 DEF TokensKept
  <2>5. CASE u # v
    <3>1. validators'[v] = validators[v]
      BY <2>1, <2>5 DEF Registered
    <3> QED BY <1>1, <1>2, <2>2, <2>3, <3>1 DEF TokensKept
  <2> QED BY <2>4, <2>5
<1> QED BY <1>4, <1>5

(* No step of the keeper lowers the tokens of a tombstoned validator but   *)
(* an undelegation.                                                        *)
LEMMA SlashedOnceStep ==
    ASSUME Inv, [Next]_vars, NEW v \in Registered, validators[v].tombstoned,
           restarts' = restarts
    PROVE  TokensKept(v)
<1> USE StakingAssumption
<1>1. ASSUME UNCHANGED vars PROVE TokensKept(v)
  BY <1>1, RecordKept DEF vars, keeper
<1>2. ASSUME NEW u \in Addr, NEW a \in Amounts, register_validator(u, a)
      PROVE  TokensKept(v)
  <2>1. validators'[v] = validators[v] /\ queue' = queue
    BY <1>2 DEF register_validator, With, Registered
  <2> QED BY <2>1, RecordKept
<1>3. ASSUME NEW d \in Addr, NEW u \in Addr, NEW a \in Amounts, delegate(d, u, a)
      PROVE  TokensKept(v)
  <2>1. u # v /\ queue' = queue
    BY <1>3 DEF delegate, CanDelegate
  <2>2. validators'[v] = validators[v]
    BY <1>3, <2>1 DEF delegate, Registered
  <2> QED BY <2>1, <2>2, RecordKept
<1>4. ASSUME NEW d \in Addr, NEW u \in Addr, NEW a \in Amounts, undelegate(d, u, a)
      PROVE  TokensKept(v)
  BY <1>4, UndelegateTakes
<1>5. ASSUME NEW u \in Addr, slash_equivocation(u) \/ slash_downtime(u) \/ unjail(u)
      PROVE  TokensKept(v)
  <2>1. u # v /\ queue' = queue
    BY <1>5 DEF slash_equivocation, slash_downtime, unjail, CanUnjail
  <2>2. validators'[v] = validators[v]
    BY <1>5, <2>1 DEF slash_equivocation, slash_downtime, unjail, Registered
  <2> QED BY <2>1, <2>2, RecordKept
<1>6. ASSUME Tick PROVE TokensKept(v)
  BY <1>6, RecordKept DEF Tick, keeper
<1>7. ASSUME Restart PROVE TokensKept(v)
  BY <1>7 DEF Restart, Inv, Shape, TypeOK
<1> QED BY <1>1, <1>2, <1>3, <1>4, <1>5, <1>6, <1>7 DEF Next

(* Equivocation is punished once: after the tombstone, evidence delivered  *)
(* again and downtime take no more tokens.                                 *)
THEOREM PunishedOnce == Spec => SlashedOnce
<1>1. Inv /\ [Next]_vars =>
        [\A v \in Registered :
            validators[v].tombstoned /\ restarts' = restarts
            => validators[v].tokens <= validators'[v].tokens
                 + (IF Len(queue') > Len(queue) THEN Last(queue').amount ELSE 0)]_vars
  BY SlashedOnceStep DEF TokensKept
<1> QED BY <1>1, Invariance, PTL DEF Spec, SlashedOnce

=============================================================================
