----------------------------- MODULE FoldProofs -----------------------------
(***************************************************************************)
(* Facts about the folds the models compute with. Part one: sums over      *)
(* finite sets, which Sums takes from the community modules' FoldSet. The   *)
(* definition is a recursive function over all subsets: that the recursion  *)
(* has a solution, and only one, is proved here by induction on subsets (a  *)
(* set of naturals without its least element is empty), and everything     *)
(* else from the resulting equation. Part two: FoldLeft, for any operator   *)
(* combine: a module that instantiates this one with its own operator may   *)
(* cite them. Part one does not mention combine, and the modules that need  *)
(* only sums extend this one and leave it open.                            *)
(***************************************************************************)
EXTENDS SequencesExt, Sums, FiniteSetTheorems, SequenceTheorems, WellFoundedInduction, TLAPS

CONSTANT combine(_, _)

(***************************************************************************)
(* Part one: induction, and sums.                                          *)
(***************************************************************************)
(* Every nonempty set of naturals has a least element.                     *)
LEMMA LeastNatural ==
    ASSUME NEW T \in SUBSET Nat, T # {}
    PROVE  \E n \in T : \A m \in T : n <= m
<1>1. \E n \in T : \A m \in T : <<m, n>> \notin OpToRel(<, Nat)
  BY NatLessThanWellFounded, WFMin
<1>2. PICK n \in T : \A m \in T : <<m, n>> \notin OpToRel(<, Nat)
  BY <1>1
<1>3. \A m \in T : ~ (m < n)
  BY <1>2 DEF OpToRel
<1>4. QED
  BY <1>3

(* Induction on the naturals, over a set instead of a predicate.           *)
LEMMA NaturalInduction ==
    ASSUME NEW Q, 0 \in Q, \A n \in Nat : n \in Q => n + 1 \in Q
    PROVE  Nat \subseteq Q
<1> DEFINE Bad == Nat \ Q
<1>1. SUFFICES ASSUME Bad # {} PROVE FALSE
  OBVIOUS
<1>2. PICK n \in Bad : \A m \in Bad : n <= m
  <2>1. Bad \in SUBSET Nat
    OBVIOUS
  <2> HIDE DEF Bad
  <2> QED BY <1>1, <2>1, LeastNatural
<1>3. n # 0 /\ n \in Nat /\ n - 1 \in Nat
  BY <1>2
<1>4. n - 1 \in Q
  BY <1>2, <1>3
<1>5. (n - 1) + 1 \in Q
  BY <1>3, <1>4
<1> QED BY <1>3, <1>5

(* Induction on the subsets of a finite set: a property that a subset has  *)
(* whenever all its subsets with one element less have it.                 *)
LEMMA SubsetInduction ==
    ASSUME NEW S, IsFiniteSet(S), NEW Q,
           ASSUME NEW T \in SUBSET S, \A x \in T : T \ {x} \in Q
           PROVE  T \in Q
    PROVE  SUBSET S \subseteq Q
<1> DEFINE Bad   == (SUBSET S) \ Q
           Sizes == {Cardinality(T) : T \in Bad}
<1>1. SUFFICES ASSUME Bad # {} PROVE FALSE
  OBVIOUS
<1>2. \A T \in SUBSET S : IsFiniteSet(T) /\ Cardinality(T) \in Nat
  BY FS_Subset, FS_CardinalityType
<1>3. Sizes \in SUBSET Nat /\ Sizes # {}
  BY <1>1, <1>2
<1>4. PICK n \in Sizes : \A m \in Sizes : n <= m
  <2> HIDE DEF Sizes
  <2> QED BY <1>3, LeastNatural
<1>5. PICK T \in Bad : n = Cardinality(T)
  BY <1>4
<1>6. ASSUME NEW x \in T PROVE T \ {x} \in Q
  <2>1. Cardinality(T \ {x}) = n - 1 /\ n \in Nat
    BY <1>2, <1>5, FS_RemoveElement
  <2>2. CASE T \ {x} \in Bad
    <3>1. Cardinality(T \ {x}) \in Sizes
      BY <2>2
    <3> HIDE DEF Sizes
    <3> QED BY <3>1, <2>1, <1>4
  <2> QED BY <2>2
<1>7. T \in Q
  BY <1>6
<1> QED BY <1>7

(* iter solves the recursion of FoldSet over the subsets of S *)
Iterates(g, f, S) ==
    g = [s \in SUBSET S |->
           IF s = {} THEN 0
           ELSE f[CHOOSE x \in s : TRUE] + g[s \ {CHOOSE x \in s : TRUE}]]

(* A sum is the value at S of some solution of the recursion.              *)
LEMMA SumIsIterate ==
    ASSUME NEW f, NEW S
    PROVE  Sum(f, S) = (CHOOSE g : Iterates(g, f, S))[S]
BY DEF Sum, FoldSet, MapThenFoldSet, Iterates

(* Two solutions agree wherever both are defined. *)
LEMMA IteratesAgree ==
    ASSUME NEW f, NEW S, IsFiniteSet(S), NEW T, NEW g, NEW h,
           Iterates(g, f, S), Iterates(h, f, T)
    PROVE  \A s \in SUBSET S : s \subseteq T => g[s] = h[s]
<1> DEFINE Q == {s \in SUBSET S : s \subseteq T => g[s] = h[s]}
<1>1. ASSUME NEW s \in SUBSET S, \A x \in s : s \ {x} \in Q
      PROVE  s \in Q
  <2>1. SUFFICES ASSUME s \subseteq T PROVE g[s] = h[s]
    OBVIOUS
  <2>2. CASE s = {}
    BY <2>1, <2>2 DEF Iterates
  <2>3. CASE s # {}
    <3> DEFINE c == CHOOSE x \in s : TRUE
    <3>1. c \in s
      BY <2>3
    <3>2. g[s \ {c}] = h[s \ {c}]
      BY <1>1, <2>1, <3>1
    <3>3. g[s] = f[c] + g[s \ {c}] /\ h[s] = f[c] + h[s \ {c}]
      BY <2>1, <2>3 DEF Iterates
    <3> QED BY <3>2, <3>3
  <2> QED BY <2>2, <2>3
<1>2. SUBSET S \subseteq Q
  <2> HIDE DEF Q
  <2> QED BY <1>1, SubsetInduction
<1> QED BY <1>2

(* Every finite set has one. *)
LEMMA IterateExists ==
    ASSUME NEW f, NEW S, IsFiniteSet(S)
    PROVE  \E g : Iterates(g, f, S)
<1> DEFINE Q == {T \in SUBSET S : \E g : Iterates(g, f, T)}
           G(T) == CHOOSE g : Iterates(g, f, T)
<1>1. ASSUME NEW T \in SUBSET S, \A x \in T : T \ {x} \in Q
      PROVE  T \in Q
  <2>1. \A x \in T : Iterates(G(T \ {x}), f, T \ {x})
    BY <1>1
  <2>f. \A x \in T : IsFiniteSet(T \ {x})
    BY FS_Subset
  <2> DEFINE c(s) == CHOOSE x \in s : TRUE
             out(s) == CHOOSE x \in T : x \notin s
             below(s) == G(T \ {out(s)})[s]
             g == [s \in SUBSET T |->
                     IF s # T THEN below(s)
                     ELSE IF s = {} THEN 0
                     ELSE f[c(s)] + below(s \ {c(s)})]
  <2>2. ASSUME NEW s \in SUBSET T, s # T
        PROVE  /\ out(s) \in T /\ out(s) \notin s
               /\ g[s] = below(s)
    BY <2>2
  <2>3. ASSUME NEW s \in SUBSET T, s # T, s # {}
        PROVE  g[s] = f[c(s)] + g[s \ {c(s)}]
    <3> DEFINE r == s \ {c(s)}
    <3>1. c(s) \in s
      BY <2>3
    <3>2. r \in SUBSET T /\ r # T /\ r \in SUBSET s
      BY <3>1, <2>3
    <3> HIDE DEF c, r, g, out, G
    <3>3. out(s) \in T /\ out(s) \notin s /\ g[s] = G(T \ {out(s)})[s]
      BY <2>2, <2>3
    <3>4. out(r) \in T /\ out(r) \notin r /\ g[r] = G(T \ {out(r)})[r]
      BY <2>2, <3>2
    <3>5. s \in SUBSET (T \ {out(s)}) /\ r \in SUBSET (T \ {out(s)})
          /\ r \subseteq T \ {out(r)}
      BY <3>2, <3>3, <3>4
    <3>6. Iterates(G(T \ {out(s)}), f, T \ {out(s)})
          /\ Iterates(G(T \ {out(r)}), f, T \ {out(r)})
          /\ IsFiniteSet(T \ {out(s)})
      BY <2>1, <2>f, <3>3, <3>4
    <3>7. G(T \ {out(s)})[r] = G(T \ {out(r)})[r]
      BY <3>5, <3>6, IteratesAgree
    <3>8. G(T \ {out(s)})[s] = f[c(s)] + G(T \ {out(s)})[r]
      BY <2>3, <3>5, <3>6 DEF Iterates, c, r
    <3> QED BY <3>3, <3>4, <3>7, <3>8 DEF r
  <2>4. Iterates(g, f, T)
    <3>1. ASSUME NEW s \in SUBSET T
          PROVE  g[s] = IF s = {} THEN 0 ELSE f[c(s)] + g[s \ {c(s)}]
      <4>1. CASE s # T /\ s # {}
        <5> HIDE DEF g
        <5> QED BY <2>3, <4>1
      <4>2. CASE s # T /\ s = {}
        <5>1. g[s] = below(s)
          BY <2>2, <4>2
        <5>2. below(s) = 0
          <6> HIDE DEF G, out, g
          <6>1. out(s) \in T
            BY <2>2, <4>2
          <6>2. Iterates(G(T \ {out(s)}), f, T \ {out(s)})
            BY <6>1, <2>1
          <6> QED BY <6>2, <4>2 DEF Iterates
        <5> HIDE DEF g, G, out
        <5> QED BY <5>1, <5>2, <4>2
      <4>3. CASE s = T /\ s = {}
        BY <4>3
      <4>4. CASE s = T /\ s # {}
        <5>1. g[s] = f[c(s)] + below(s \ {c(s)})
          BY <4>4
        <5>2. s \ {c(s)} # T
          BY <4>4
        <5> HIDE DEF g, G, out, c
        <5> QED BY <4>4, <5>1, <5>2, <2>2
      <4> QED BY <4>1, <4>2, <4>3, <4>4
    <3>2. g = [s \in SUBSET T |-> g[s]]
      OBVIOUS
    <3> HIDE DEF g
    <3> QED BY <3>1, <3>2 DEF Iterates
  <2> HIDE DEF g
  <2> QED BY <2>4
<1>2. S \in Q
  <2> HIDE DEF Q
  <2> QED BY <1>1, SubsetInduction
<1> QED BY <1>2

(* The recursion equation of a sum.                                        *)
LEMMA SumEquation ==
    ASSUME NEW f, NEW S, IsFiniteSet(S)
    PROVE  Sum(f, S) = IF S = {} THEN 0
                       ELSE f[CHOOSE x \in S : TRUE] + Sum(f, S \ {CHOOSE x \in S : TRUE})
<1> DEFINE G(T) == CHOOSE g : Iterates(g, f, T)
           c == CHOOSE x \in S : TRUE
<1>1. \A T \in SUBSET S : Iterates(G(T), f, T) /\ Sum(f, T) = G(T)[T]
  <2>1. TAKE T \in SUBSET S
  <2>2. IsFiniteSet(T)
    BY FS_Subset
  <2> QED BY <2>2, IterateExists, SumIsIterate
<1> HIDE DEF G
<1>2. CASE S = {}
  BY <1>1, <1>2 DEF Iterates
<1>3. CASE S # {}
  <2>1. c \in S
    BY <1>3
  <2>2. G(S)[S] = f[c] + G(S)[S \ {c}]
    BY <1>1, <1>3 DEF Iterates
  <2>3. G(S)[S \ {c}] = G(S \ {c})[S \ {c}]
    <3> HIDE DEF c
    <3>1. Iterates(G(S), f, S) /\ Iterates(G(S \ {c}), f, S \ {c})
      BY <1>1
    <3> QED BY <3>1, IteratesAgree
  <2> HIDE DEF c
  <2> QED BY <1>1, <1>3, <2>2, <2>3 DEF c
<1> QED BY <1>2, <1>3

(* Nothing adds up to zero.                                                *)
LEMMA SumEmpty == ASSUME NEW f PROVE Sum(f, {}) = 0
BY SumEquation, FS_EmptySet

(* A sum of naturals is a natural.                                         *)
LEMMA SumNat ==
    ASSUME NEW f, NEW S, IsFiniteSet(S), \A x \in S : f[x] \in Nat
    PROVE  Sum(f, S) \in Nat
<1> DEFINE Q == {T \in SUBSET S : Sum(f, T) \in Nat}
<1>1. ASSUME NEW T \in SUBSET S, \A x \in T : T \ {x} \in Q
      PROVE  T \in Q
  <2> DEFINE c == CHOOSE x \in T : TRUE
  <2>1. IsFiniteSet(T)
    BY FS_Subset
  <2>2. Sum(f, T) = IF T = {} THEN 0 ELSE f[c] + Sum(f, T \ {c})
    BY <2>1, SumEquation
  <2>3. T # {} => c \in T
    OBVIOUS
  <2> HIDE DEF c
  <2> QED BY <1>1, <2>2, <2>3
<1>2. S \in Q
  <2> HIDE DEF Q
  <2> QED BY <1>1, SubsetInduction
<1> QED BY <1>2

(* The order in which FoldSet picks the elements does not matter. *)
LEMMA SumRemove ==
    ASSUME NEW f, NEW S, IsFiniteSet(S), \A x \in S : f[x] \in Nat, NEW y \in S
    PROVE  Sum(f, S) = f[y] + Sum(f, S \ {y})
<1> DEFINE Q == {T \in SUBSET S : \A x \in T : Sum(f, T) = f[x] + Sum(f, T \ {x})}
<1>1. ASSUME NEW T \in SUBSET S, \A x \in T : T \ {x} \in Q
      PROVE  T \in Q
  <2>1. SUFFICES ASSUME NEW x \in T
                 PROVE  Sum(f, T) = f[x] + Sum(f, T \ {x})
    OBVIOUS
  <2> DEFINE c == CHOOSE z \in T : TRUE
  <2>2. IsFiniteSet(T) /\ IsFiniteSet(T \ {x})
    BY FS_Subset
  <2>3. c \in T /\ Sum(f, T) = f[c] + Sum(f, T \ {c})
    BY <2>2, SumEquation
  <2> HIDE DEF c
  <2>4. CASE x # c
    <3> DEFINE R == (T \ {c}) \ {x}
    <3>1. Sum(f, T \ {c}) = f[x] + Sum(f, R)
      BY <1>1, <2>3, <2>4
    <3>2. (T \ {x}) \ {c} = R
      OBVIOUS
    <3>3. Sum(f, T \ {x}) = f[c] + Sum(f, (T \ {x}) \ {c})
      BY <1>1, <2>3, <2>4
    <3>4. Sum(f, R) \in Nat /\ f[c] \in Nat /\ f[x] \in Nat
      <4>1. IsFiniteSet(R) /\ \A z \in R : f[z] \in Nat
        BY FS_Subset
      <4> HIDE DEF R
      <4> QED BY <4>1, SumNat, <2>3
    <3> HIDE DEF R
    <3> QED BY <2>3, <3>1, <3>2, <3>3, <3>4
  <2> QED BY <2>3, <2>4
<1>2. S \in Q
  <2> HIDE DEF Q
  <2> QED BY <1>1, SubsetInduction
<1> QED BY <1>2

(* Functions that agree on S have the same sum over S.                     *)
LEMMA SumSame ==
    ASSUME NEW f, NEW g, NEW S, IsFiniteSet(S), \A x \in S : f[x] = g[x]
    PROVE  Sum(f, S) = Sum(g, S)
<1> DEFINE Q == {T \in SUBSET S : Sum(f, T) = Sum(g, T)}
<1>1. ASSUME NEW T \in SUBSET S, \A x \in T : T \ {x} \in Q
      PROVE  T \in Q
  <2> DEFINE c == CHOOSE x \in T : TRUE
  <2>1. IsFiniteSet(T)
    BY FS_Subset
  <2>2. Sum(f, T) = IF T = {} THEN 0 ELSE f[c] + Sum(f, T \ {c})
    BY <2>1, SumEquation
  <2>3. Sum(g, T) = IF T = {} THEN 0 ELSE g[c] + Sum(g, T \ {c})
    BY <2>1, SumEquation
  <2>4. T # {} => c \in T
    OBVIOUS
  <2> HIDE DEF c
  <2> QED BY <1>1, <2>2, <2>3, <2>4
<1>2. S \in Q
  <2> HIDE DEF Q
  <2> QED BY <1>1, SubsetInduction
<1> QED BY <1>2

(* Functions that differ in one place have sums that differ by that much.  *)
LEMMA SumChange ==
    ASSUME NEW f, NEW g, NEW S, IsFiniteSet(S), NEW y \in S,
           \A x \in S : f[x] \in Nat /\ g[x] \in Nat,
           \A x \in S \ {y} : f[x] = g[x]
    PROVE  Sum(f, S) + g[y] = Sum(g, S) + f[y]
<1>1. IsFiniteSet(S \ {y})
  BY FS_Subset
<1>2. Sum(f, S \ {y}) = Sum(g, S \ {y})
  BY <1>1, SumSame
<1>3. Sum(f, S \ {y}) \in Nat
  BY <1>1, SumNat
<1>4. Sum(f, S) = f[y] + Sum(f, S \ {y})
  BY SumRemove
<1>5. Sum(g, S) = g[y] + Sum(g, S \ {y})
  BY SumRemove
<1>6. f[y] \in Nat /\ g[y] \in Nat
  OBVIOUS
<1> QED BY <1>2, <1>3, <1>4, <1>5, <1>6

(* No summand exceeds the sum.                                             *)
LEMMA SumAtLeast ==
    ASSUME NEW f, NEW S, IsFiniteSet(S), \A x \in S : f[x] \in Nat, NEW y \in S
    PROVE  f[y] <= Sum(f, S)
<1>1. IsFiniteSet(S \ {y})
  BY FS_Subset
<1>2. Sum(f, S \ {y}) \in Nat
  BY <1>1, SumNat
<1>3. Sum(f, S) = f[y] + Sum(f, S \ {y})
  BY SumRemove
<1>4. f[y] \in Nat
  OBVIOUS
<1> QED BY <1>2, <1>3, <1>4

(* Zeros add up to zero.                                                   *)
LEMMA SumZero ==
    ASSUME NEW f, NEW S, IsFiniteSet(S), \A x \in S : f[x] = 0
    PROVE  Sum(f, S) = 0
<1> DEFINE Q == {T \in SUBSET S : Sum(f, T) = 0}
<1>1. ASSUME NEW T \in SUBSET S, \A x \in T : T \ {x} \in Q
      PROVE  T \in Q
  <2> DEFINE c == CHOOSE x \in T : TRUE
  <2>1. IsFiniteSet(T)
    BY FS_Subset
  <2>2. Sum(f, T) = IF T = {} THEN 0 ELSE f[c] + Sum(f, T \ {c})
    BY <2>1, SumEquation
  <2>3. T # {} => c \in T
    OBVIOUS
  <2> HIDE DEF c
  <2> QED BY <1>1, <2>2, <2>3
<1>2. S \in Q
  <2> HIDE DEF Q
  <2> QED BY <1>1, SubsetInduction
<1> QED BY <1>2

(* The sum over two disjoint sets is the sum of the two sums.              *)
LEMMA SumDisjoint ==
    ASSUME NEW f, NEW A, NEW B, IsFiniteSet(A), IsFiniteSet(B), A \cap B = {},
           \A x \in A \cup B : f[x] \in Nat
    PROVE  Sum(f, A \cup B) = Sum(f, A) + Sum(f, B)
<1> DEFINE Q == {T \in SUBSET A : Sum(f, T \cup B) = Sum(f, T) + Sum(f, B)}
<1>1. ASSUME NEW T \in SUBSET A, \A x \in T : T \ {x} \in Q
      PROVE  T \in Q
  <2>1. IsFiniteSet(T) /\ IsFiniteSet(T \cup B)
    BY FS_Subset, FS_Union
  <2>2. Sum(f, B) \in Nat
    BY SumNat
  <2>3. CASE T = {}
    <3>1. T \cup B = B
      BY <2>3
    <3> QED BY <2>2, <2>3, <3>1, SumEmpty
  <2>4. CASE T # {}
    <3>1. PICK c \in T : TRUE
      BY <2>4
    <3>2. Sum(f, (T \ {c}) \cup B) = Sum(f, T \ {c}) + Sum(f, B)
      BY <1>1, <3>1
    <3>3. (T \cup B) \ {c} = (T \ {c}) \cup B
      BY <3>1
    <3>4. Sum(f, T) = f[c] + Sum(f, T \ {c})
      BY <2>1, <3>1, SumRemove
    <3>5. Sum(f, T \cup B) = f[c] + Sum(f, (T \ {c}) \cup B)
      BY <2>1, <3>1, <3>3, SumRemove
    <3>6. Sum(f, T \ {c}) \in Nat /\ f[c] \in Nat
      <4>1. IsFiniteSet(T \ {c})
        BY <2>1, FS_Subset
      <4> QED BY <3>1, <4>1, SumNat
    <3>7. Sum(f, T \cup B) = Sum(f, T) + Sum(f, B)
      BY <2>2, <3>2, <3>4, <3>5, <3>6
    <3> QED BY <3>7
  <2> QED BY <2>3, <2>4
<1>2. A \in Q
  <2> HIDE DEF Q
  <2> QED BY <1>1, SubsetInduction
<1> QED BY <1>2

(* A part of a set sums to no more than the whole.                         *)
LEMMA SumMonotone ==
    ASSUME NEW f, NEW S, IsFiniteSet(S), \A x \in S : f[x] \in Nat, NEW T \in SUBSET S
    PROVE  Sum(f, T) <= Sum(f, S)
<1>1. IsFiniteSet(T) /\ IsFiniteSet(S \ T)
  BY FS_Subset
<1>2. T \cup (S \ T) = S /\ T \cap (S \ T) = {}
  OBVIOUS
<1>3. Sum(f, S) = Sum(f, T) + Sum(f, S \ T)
  BY <1>1, <1>2, SumDisjoint
<1>4. Sum(f, T) \in Nat /\ Sum(f, S \ T) \in Nat
  BY <1>1, SumNat
<1> QED BY <1>3, <1>4

(* A factor common to all terms is a factor of the sum.                    *)
LEMMA SumScale ==
    ASSUME NEW c \in Nat, NEW f, NEW g, NEW S, IsFiniteSet(S),
           \A x \in S : f[x] \in Nat /\ g[x] = c * f[x]
    PROVE  Sum(g, S) = c * Sum(f, S)
<1> DEFINE Q == {T \in SUBSET S : Sum(g, T) = c * Sum(f, T)}
<1>1. ASSUME NEW T \in SUBSET S, \A x \in T : T \ {x} \in Q
      PROVE  T \in Q
  <2>1. IsFiniteSet(T)
    BY FS_Subset
  <2>2. CASE T = {}
    BY <2>2, SumEmpty
  <2>3. CASE T # {}
    <3>1. PICK y \in T : TRUE
      BY <2>3
    <3>2. \A x \in T : f[x] \in Nat /\ g[x] \in Nat
      OBVIOUS
    <3>3. Sum(f, T) = f[y] + Sum(f, T \ {y}) /\ Sum(g, T) = g[y] + Sum(g, T \ {y})
      BY <2>1, <3>1, <3>2, SumRemove
    <3>4. Sum(g, T \ {y}) = c * Sum(f, T \ {y})
      BY <1>1, <3>1
    <3>5. Sum(f, T \ {y}) \in Nat
      <4>1. IsFiniteSet(T \ {y})
        BY <2>1, FS_Subset
      <4> QED BY <3>2, <4>1, SumNat
    <3>6. ASSUME NEW a \in Nat, NEW b \in Nat PROVE c * a + c * b = c * (a + b)
      OBVIOUS
    <3>7. c * f[y] + c * Sum(f, T \ {y}) = c * (f[y] + Sum(f, T \ {y}))
      BY <3>1, <3>2, <3>5, <3>6
    <3>8. Sum(g, T) = c * Sum(f, T)
      BY <3>1, <3>3, <3>4, <3>7
    <3> QED BY <3>8
  <2> QED BY <2>2, <2>3
<1>2. S \in Q
  <2> HIDE DEF Q
  <2> QED BY <1>1, SubsetInduction
<1> QED BY <1>2

(* Summing a sequence from its second element on. *)
LEMMA SumShift ==
    ASSUME NEW n \in Nat, NEW f, NEW g,
           \A i \in 1..n + 1 : f[i] \in Nat,
           \A i \in 1..n : g[i] = f[i + 1]
    PROVE  Sum(f, 1..n + 1) = f[1] + Sum(g, 1..n)
<1> DEFINE Q == {k \in Nat : k <= n => Sum(f, 1..k + 1) = f[1] + Sum(g, 1..k)}
<1>1. 0 \in Q
  <2>1. 1..0 + 1 = {1} /\ 1..0 = {} /\ {1} \ {1} = {}
    OBVIOUS
  <2>2. Sum(f, {1}) = f[1] + Sum(f, {})
    <3>1. IsFiniteSet({1}) /\ f[1] \in Nat
      BY FS_Singleton
    <3>2. Sum(f, {1}) = f[1] + Sum(f, {1} \ {1})
      BY <3>1, SumRemove
    <3> QED BY <2>1, <3>2
  <2>3. Sum(f, {}) = 0 /\ Sum(g, {}) = 0
    BY SumEmpty
  <2> QED BY <2>1, <2>2, <2>3
<1>2. ASSUME NEW k \in Nat, k \in Q
      PROVE  k + 1 \in Q
  <2>1. SUFFICES ASSUME k + 1 <= n
                 PROVE  Sum(f, 1..(k + 1) + 1) = f[1] + Sum(g, 1..k + 1)
    OBVIOUS
  <2>2. Sum(f, 1..k + 1) = f[1] + Sum(g, 1..k)
    BY <1>2, <2>1
  <2>3. /\ IsFiniteSet(1..(k + 1) + 1) /\ IsFiniteSet(1..k + 1) /\ IsFiniteSet(1..k)
        /\ (1..(k + 1) + 1) \ {(k + 1) + 1} = 1..k + 1
        /\ (1..k + 1) \ {k + 1} = 1..k
        /\ (k + 1) + 1 \in 1..(k + 1) + 1 /\ k + 1 \in 1..k + 1
    <3>1. IsFiniteSet(1..(k + 1) + 1) /\ IsFiniteSet(1..k + 1) /\ IsFiniteSet(1..k)
      BY FS_Interval
    <3>2. /\ (1..(k + 1) + 1) \ {(k + 1) + 1} = 1..k + 1
          /\ (1..k + 1) \ {k + 1} = 1..k
          /\ (k + 1) + 1 \in 1..(k + 1) + 1 /\ k + 1 \in 1..k + 1
      OBVIOUS
    <3> QED BY <3>1, <3>2
  <2> DEFINE A == 1..(k + 1) + 1
             B == 1..k + 1
             C == 1..k
  <2>a. \A i \in A : f[i] \in Nat
    <3>1. \A i \in A : i \in 1..n + 1
      BY <2>1
    <3> QED BY <3>1
  <2>b. \A i \in B : g[i] = f[i + 1] /\ i + 1 \in A
    <3>1. \A i \in B : i \in 1..n
      BY <2>1
    <3> QED BY <3>1
  <2>c. /\ IsFiniteSet(A) /\ IsFiniteSet(B) /\ IsFiniteSet(C)
        /\ A \ {(k + 1) + 1} = B /\ B \ {k + 1} = C
        /\ (k + 1) + 1 \in A /\ k + 1 \in B
    BY <2>3
  <2>2a. Sum(f, B) = f[1] + Sum(g, C) /\ 1 \in A /\ C \subseteq B
    BY <2>2
  <2> SUFFICES Sum(f, A) = f[1] + Sum(g, B)
    OBVIOUS
  <2> HIDE DEF A, B, C
  <2>4. /\ \A i \in B : g[i] \in Nat
        /\ g[k + 1] = f[(k + 1) + 1]
    BY <2>a, <2>b, <2>c
  <2>5. Sum(f, A) = f[(k + 1) + 1] + Sum(f, B)
    <3>1. Sum(f, A) = f[(k + 1) + 1] + Sum(f, A \ {(k + 1) + 1})
      BY <2>a, <2>c, SumRemove
    <3> QED BY <3>1, <2>c
  <2>6. Sum(g, B) = g[k + 1] + Sum(g, C)
    <3>1. Sum(g, B) = g[k + 1] + Sum(g, B \ {k + 1})
      BY <2>4, <2>c, SumRemove
    <3> QED BY <3>1, <2>c
  <2>7. Sum(g, C) \in Nat /\ f[1] \in Nat /\ g[k + 1] \in Nat
    <3>1. \A i \in C : g[i] \in Nat
      BY <2>4, <2>2a
    <3>2. Sum(g, C) \in Nat
      BY <2>c, <3>1, SumNat
    <3> QED BY <2>a, <2>2a, <2>4, <2>c, <3>2
  <2> QED BY <2>2a, <2>4, <2>5, <2>6, <2>7
<1>3. Nat \subseteq Q
  <2> HIDE DEF Q
  <2> QED BY <1>1, <1>2, NaturalInduction
<1>4. n \in Q
  BY <1>3
<1> QED BY <1>4

-----------------------------------------------------------------------------
(* Sums of integers.                                                       *)

(* A sum of integers is an integer.                                        *)
LEMMA SumInt ==
    ASSUME NEW f, NEW S, IsFiniteSet(S), \A x \in S : f[x] \in Int
    PROVE  Sum(f, S) \in Int
<1> DEFINE Q == {T \in SUBSET S : Sum(f, T) \in Int}
<1>1. ASSUME NEW T \in SUBSET S, \A x \in T : T \ {x} \in Q
      PROVE  T \in Q
  <2> DEFINE c == CHOOSE x \in T : TRUE
  <2>1. IsFiniteSet(T)
    BY FS_Subset
  <2>2. Sum(f, T) = IF T = {} THEN 0 ELSE f[c] + Sum(f, T \ {c})
    BY <2>1, SumEquation
  <2>3. T # {} => c \in T
    OBVIOUS
  <2> HIDE DEF c
  <2> QED BY <1>1, <2>2, <2>3
<1>2. S \in Q
  <2> HIDE DEF Q
  <2> QED BY <1>1, SubsetInduction
<1> QED BY <1>2

(* Integers, too, may be added in any order.                               *)
LEMMA SumIntRemove ==
    ASSUME NEW f, NEW S, IsFiniteSet(S), \A x \in S : f[x] \in Int, NEW y \in S
    PROVE  Sum(f, S) = f[y] + Sum(f, S \ {y})
<1> DEFINE Q == {T \in SUBSET S : \A x \in T : Sum(f, T) = f[x] + Sum(f, T \ {x})}
<1>1. ASSUME NEW T \in SUBSET S, \A x \in T : T \ {x} \in Q
      PROVE  T \in Q
  <2>1. SUFFICES ASSUME NEW x \in T
                 PROVE  Sum(f, T) = f[x] + Sum(f, T \ {x})
    OBVIOUS
  <2> DEFINE c == CHOOSE z \in T : TRUE
  <2>2. IsFiniteSet(T) /\ IsFiniteSet(T \ {x})
    BY FS_Subset
  <2>3. c \in T /\ Sum(f, T) = f[c] + Sum(f, T \ {c})
    BY <2>2, SumEquation
  <2> HIDE DEF c
  <2>4. CASE x # c
    <3> DEFINE R == (T \ {c}) \ {x}
    <3>1. Sum(f, T \ {c}) = f[x] + Sum(f, R)
      BY <1>1, <2>3, <2>4
    <3>2. (T \ {x}) \ {c} = R
      OBVIOUS
    <3>3. Sum(f, T \ {x}) = f[c] + Sum(f, (T \ {x}) \ {c})
      BY <1>1, <2>3, <2>4
    <3>4. Sum(f, R) \in Int /\ f[c] \in Int /\ f[x] \in Int
      <4>1. IsFiniteSet(R) /\ \A z \in R : f[z] \in Int
        BY FS_Subset
      <4> HIDE DEF R
      <4> QED BY <4>1, SumInt, <2>3
    <3>5. Sum(f, T \ {x}) = f[c] + Sum(f, R)
      BY <3>2, <3>3
    <3> HIDE DEF R
    <3>6. f[c] + (f[x] + Sum(f, R)) = f[x] + (f[c] + Sum(f, R))
      <4>1. \A i, j, k \in Int : i + (j + k) = j + (i + k)
        OBVIOUS
      <4> QED BY <3>4, <4>1
    <3>7. Sum(f, T) = f[c] + (f[x] + Sum(f, R))
      BY <2>3, <3>1
    <3> QED BY <3>5, <3>6, <3>7
  <2> QED BY <2>3, <2>4
<1>2. S \in Q
  <2> HIDE DEF Q
  <2> QED BY <1>1, SubsetInduction
<1> QED BY <1>2

(* The sum over a set is that over a part of it and that over the rest.     *)
LEMMA SumIntSplit ==
    ASSUME NEW f, NEW S, IsFiniteSet(S), \A x \in S : f[x] \in Int, NEW A \in SUBSET S
    PROVE  Sum(f, S) = Sum(f, A) + Sum(f, S \ A)
<1> DEFINE Q == {T \in SUBSET A : Sum(f, T \cup (S \ A)) = Sum(f, T) + Sum(f, S \ A)}
<1>0. IsFiniteSet(A) /\ IsFiniteSet(S \ A) /\ Sum(f, S \ A) \in Int
  <2>1. IsFiniteSet(A) /\ IsFiniteSet(S \ A)
    BY FS_Subset
  <2> QED BY <2>1, SumInt
<1>1. ASSUME NEW T \in SUBSET A, \A x \in T : T \ {x} \in Q
      PROVE  T \in Q
  <2> DEFINE B == S \ A
  <2>1. IsFiniteSet(T) /\ IsFiniteSet(T \cup B)
    BY <1>0, FS_Subset
  <2>2. CASE T = {}
    <3>1. T \cup B = B
      BY <2>2
    <3> QED BY <1>0, <2>2, <3>1, SumEmpty
  <2>3. CASE T # {}
    <3>1. PICK c \in T : TRUE
      BY <2>3
    <3>2. Sum(f, (T \ {c}) \cup B) = Sum(f, T \ {c}) + Sum(f, B)
      BY <1>1, <3>1
    <3>3. (T \cup B) \ {c} = (T \ {c}) \cup B
      BY <3>1
    <3>4. Sum(f, T) = f[c] + Sum(f, T \ {c})
      <4>1. \A x \in T : f[x] \in Int
        OBVIOUS
      <4> QED BY <2>1, <3>1, <4>1, SumIntRemove
    <3>5. Sum(f, T \cup B) = f[c] + Sum(f, (T \ {c}) \cup B)
      <4>1. \A x \in T \cup B : f[x] \in Int
        OBVIOUS
      <4>2. Sum(f, T \cup B) = f[c] + Sum(f, (T \cup B) \ {c})
        BY <2>1, <3>1, <4>1, SumIntRemove
      <4> QED BY <3>3, <4>2
    <3>6. Sum(f, T \ {c}) \in Int /\ f[c] \in Int
      <4>1. IsFiniteSet(T \ {c})
        BY <2>1, FS_Subset
      <4> QED BY <3>1, <4>1, SumInt
    <3>7. Sum(f, T \cup B) = Sum(f, T) + Sum(f, B)
      BY <1>0, <3>2, <3>4, <3>5, <3>6
    <3> QED BY <3>7
  <2> QED BY <2>2, <2>3
<1>2. A \in Q
  <2> HIDE DEF Q
  <2> QED BY <1>0, <1>1, SubsetInduction
<1>3. A \cup (S \ A) = S
  OBVIOUS
<1> QED BY <1>2, <1>3

(* The sum of two functions is the sum of their sums.                      *)
LEMMA SumIntAdd ==
    ASSUME NEW f, NEW g, NEW h, NEW S, IsFiniteSet(S),
           \A x \in S : f[x] \in Int /\ g[x] \in Int /\ h[x] = f[x] + g[x]
    PROVE  Sum(h, S) = Sum(f, S) + Sum(g, S)
<1> DEFINE Q == {T \in SUBSET S : Sum(h, T) = Sum(f, T) + Sum(g, T)}
<1>1. ASSUME NEW T \in SUBSET S, \A x \in T : T \ {x} \in Q
      PROVE  T \in Q
  <2> DEFINE c == CHOOSE x \in T : TRUE
  <2>1. IsFiniteSet(T)
    BY FS_Subset
  <2>2. /\ Sum(f, T) = IF T = {} THEN 0 ELSE f[c] + Sum(f, T \ {c})
        /\ Sum(g, T) = IF T = {} THEN 0 ELSE g[c] + Sum(g, T \ {c})
        /\ Sum(h, T) = IF T = {} THEN 0 ELSE h[c] + Sum(h, T \ {c})
    BY <2>1, SumEquation
  <2>3. T # {} => c \in T
    OBVIOUS
  <2> HIDE DEF c
  <2>4. Sum(f, T \ {c}) \in Int /\ Sum(g, T \ {c}) \in Int
    <3>1. IsFiniteSet(T \ {c})
      BY <2>1, FS_Subset
    <3>2. \A x \in T \ {c} : f[x] \in Int /\ g[x] \in Int
      OBVIOUS
    <3> QED BY <3>1, <3>2, SumInt
  <2>5. T # {} => Sum(h, T \ {c}) = Sum(f, T \ {c}) + Sum(g, T \ {c})
    BY <1>1, <2>3
  <2>6. Sum(h, T) = Sum(f, T) + Sum(g, T)
    BY <2>2, <2>3, <2>4, <2>5
  <2> QED BY <2>6
<1>2. S \in Q
  <2> HIDE DEF Q
  <2> QED BY <1>1, SubsetInduction
<1> QED BY <1>2

(* Terms that are at most m add up to at most as many times m.             *)
LEMMA SumIntAtMost ==
    ASSUME NEW f, NEW m \in Int, NEW S, IsFiniteSet(S),
           \A x \in S : f[x] \in Int /\ f[x] <= m
    PROVE  Sum(f, S) <= Cardinality(S) * m
<1> DEFINE Q == {T \in SUBSET S : Sum(f, T) <= Cardinality(T) * m}
<1>1. ASSUME NEW T \in SUBSET S, \A x \in T : T \ {x} \in Q
      PROVE  T \in Q
  <2>1. IsFiniteSet(T)
    BY FS_Subset
  <2>2. CASE T = {}
    <3>1. Sum(f, T) = 0 /\ Cardinality(T) = 0
      BY <2>2, SumEmpty, FS_EmptySet
    <3>2. 0 * m = 0
      OBVIOUS
    <3> QED BY <3>1, <3>2
  <2>3. CASE T # {}
    <3>1. PICK c \in T : TRUE
      BY <2>3
    <3>2. \A x \in T : f[x] \in Int
      OBVIOUS
    <3>3. Sum(f, T) = f[c] + Sum(f, T \ {c})
      BY <2>1, <3>1, <3>2, SumIntRemove
    <3>4. /\ IsFiniteSet(T \ {c}) /\ Cardinality(T \ {c}) = Cardinality(T) - 1
          /\ Cardinality(T) \in Nat
      BY <2>1, <3>1, FS_RemoveElement, FS_CardinalityType
    <3>5. Sum(f, T \ {c}) \in Int
      BY <3>2, <3>4, SumInt
    <3>6. Sum(f, T \ {c}) <= (Cardinality(T) - 1) * m
      BY <1>1, <3>1, <3>4
    <3>7. \A n \in Nat : (n - 1) * m + m = n * m /\ n * m \in Int /\ (n - 1) * m \in Int
      OBVIOUS
    <3>8. f[c] <= m /\ f[c] \in Int
      BY <3>1
    <3>9. Sum(f, T) <= Cardinality(T) * m
      BY <3>3, <3>4, <3>5, <3>6, <3>7, <3>8
    <3> QED BY <3>9
  <2> QED BY <2>2, <2>3
<1>2. S \in Q
  <2> HIDE DEF Q
  <2> QED BY <1>1, SubsetInduction
<1> QED BY <1>2

(***************************************************************************)
(* Part two: FoldLeft. Like a sum, a fold is defined by a recursive        *)
(* function over sets of positions; existence and uniqueness of its        *)
(* solution come first.                                                    *)
(***************************************************************************)
Fold(base, s) == FoldLeft(combine, base, s)

(* g solves the recursion of FoldLeft over the sets of positions of s in D. *)
Folds(g, base, s, D) ==
    g = [t \in SUBSET D |->
           IF t = {} THEN base ELSE combine(g[t \ {Max(t)}], s[Max(t)])]

(* A fold is the value of a solution of the recursion at all positions.    *)
LEMMA FoldIsSolution ==
    ASSUME NEW base, NEW s
    PROVE  Fold(base, s) = (CHOOSE g : Folds(g, base, s, DOMAIN s))[DOMAIN s]
BY DEF Fold, FoldLeft, MapThenFoldSet, Folds

(* Every nonempty set of positions has a largest one, and Max finds it.    *)
LEMMA MaxOfPositions ==
    ASSUME NEW n \in Nat, NEW t \in SUBSET (1..n), t # {}
    PROVE  Max(t) \in t /\ \A i \in t : Max(t) >= i
<1> DEFINE D == {n - i : i \in t}
<1>1. D \in SUBSET Nat /\ D # {}
  <2>1. \A i \in t : n - i \in Nat
    <3>1. \A i \in 1..n : n - i \in Nat
      OBVIOUS
    <3> QED BY <3>1
  <2> QED BY <2>1
<1>2. PICK d \in D : \A e \in D : d <= e
  <2> HIDE DEF D
  <2> QED BY <1>1, LeastNatural
<1>3. PICK m \in t : d = n - m
  BY <1>2
<1>4. \A i \in t : m >= i
  <2>1. TAKE i \in t
  <2>2. n - i \in D
    OBVIOUS
  <2>3. d <= n - i
    BY <1>2, <2>2
  <2>4. m \in 1..n /\ i \in 1..n
    OBVIOUS
  <2> HIDE DEF D
  <2> QED BY <1>3, <2>3, <2>4
<1> QED BY <1>4 DEF Max

Agree(s, r, D) == \A i \in D : s[i] = r[i]

(* Solutions for sequences that agree on D agree at D.                     *)
LEMMA FoldsAgree ==
    ASSUME NEW n \in Nat, NEW D \in SUBSET (1..n), NEW E, D \subseteq E,
           NEW base, NEW s, NEW r, Agree(s, r, D),
           NEW g, Folds(g, base, s, D), NEW h, Folds(h, base, r, E)
    PROVE  g[D] = h[D]
<1> DEFINE Q == {t \in SUBSET D : g[t] = h[t]}
<1>1. ASSUME NEW t \in SUBSET D, \A x \in t : t \ {x} \in Q
      PROVE  t \in Q
  <2>1. t \subseteq E
    OBVIOUS
  <2>2. CASE t = {}
    BY <2>1, <2>2 DEF Folds
  <2>3. CASE t # {}
    <3> DEFINE c == Max(t)
    <3>1. c \in t
      BY <2>3, MaxOfPositions
    <3> HIDE DEF c
    <3>2. g[t \ {c}] = h[t \ {c}]
      BY <1>1, <2>1, <3>1
    <3>3. g[t] = combine(g[t \ {c}], s[c]) /\ h[t] = combine(h[t \ {c}], r[c])
      BY <2>1, <2>3 DEF Folds, c
    <3>4. s[c] = r[c]
      BY <2>1, <3>1 DEF Agree
    <3> QED BY <3>2, <3>3, <3>4
  <2> QED BY <2>2, <2>3
<1>2. IsFiniteSet(D)
  <2>1. IsFiniteSet(1..n)
    BY FS_Interval
  <2> QED BY <2>1, FS_Subset
<1>3. SUBSET D \subseteq Q
  <2> HIDE DEF Q
  <2> QED BY <1>1, <1>2, SubsetInduction
<1> QED BY <1>3

(* The recursion has a solution for every number of positions.             *)
LEMMA FoldsExist ==
    ASSUME NEW n \in Nat, NEW base, NEW s
    PROVE  \E g : Folds(g, base, s, 1..n)
<1> DEFINE Q == {k \in Nat : k <= n => \E g : Folds(g, base, s, 1..k)}
           G(k) == CHOOSE g : Folds(g, base, s, 1..k)
<1>1. 0 \in Q
  <2> DEFINE g == [t \in SUBSET (1..0) |-> base]
  <2>1. SUBSET (1..0) = {{}}
    OBVIOUS
  <2>2. Folds(g, base, s, 1..0)
    BY <2>1 DEF Folds
  <2> QED BY <2>2
<1>2. ASSUME NEW k \in Nat, k \in Q
      PROVE  k + 1 \in Q
  <2>1. SUFFICES ASSUME k + 1 <= n PROVE \E g : Folds(g, base, s, 1..k + 1)
    OBVIOUS
  <2>2. PICK h : Folds(h, base, s, 1..k)
    BY <1>2, <2>1
  <2> DEFINE g == [t \in SUBSET (1..k + 1) |->
                     IF k + 1 \in t THEN combine(h[t \ {k + 1}], s[k + 1]) ELSE h[t]]
  <2>3. ASSUME NEW t \in SUBSET (1..k + 1)
        PROVE  g[t] = IF t = {} THEN base ELSE combine(g[t \ {Max(t)}], s[Max(t)])
    <3>1. CASE k + 1 \in t
      <4>1. Max(t) = k + 1
        <5>1. Max(t) \in t /\ Max(t) >= k + 1
          <6>1. k + 1 \in Nat /\ t # {}
            BY <3>1
          <6> QED BY <3>1, <6>1, MaxOfPositions
        <5>2. Max(t) \in 1..k + 1
          BY <5>1
        <5> HIDE DEF g
        <5> QED BY <5>1, <5>2
      <4>2. t \ {k + 1} \in SUBSET (1..k + 1) /\ k + 1 \notin t \ {k + 1}
        OBVIOUS
      <4>3. g[t \ {k + 1}] = h[t \ {k + 1}]
        BY <4>2
      <4>4. g[t] = combine(h[t \ {k + 1}], s[k + 1])
        BY <3>1
      <4> HIDE DEF g
      <4> QED BY <3>1, <4>1, <4>3, <4>4
    <3>2. CASE k + 1 \notin t /\ t # {}
      <4>1. t \in SUBSET (1..k) /\ t \ {Max(t)} \in SUBSET (1..k + 1)
            /\ k + 1 \notin t \ {Max(t)}
        <5>1. \A i \in 1..k + 1 : i # k + 1 => i \in 1..k
          OBVIOUS
        <5> QED BY <3>2, <5>1
      <4>2. g[t] = h[t] /\ g[t \ {Max(t)}] = h[t \ {Max(t)}]
        BY <3>2, <4>1
      <4> HIDE DEF g
      <4> QED BY <2>2, <3>2, <4>1, <4>2 DEF Folds
    <3>3. CASE t = {}
      <4>1. t \in SUBSET (1..k) /\ g[t] = h[t]
        BY <3>3
      <4> HIDE DEF g
      <4> QED BY <2>2, <3>3, <4>1 DEF Folds
    <3> QED BY <3>1, <3>2, <3>3
  <2>4. g = [t \in SUBSET (1..k + 1) |-> g[t]]
    OBVIOUS
  <2> HIDE DEF g
  <2>5. Folds(g, base, s, 1..k + 1)
    BY <2>3, <2>4 DEF Folds
  <2> QED BY <2>5
<1>3. Nat \subseteq Q
  <2> HIDE DEF Q
  <2> QED BY <1>1, <1>2, NaturalInduction
<1>4. n \in Q
  BY <1>3
<1> QED BY <1>4

(* Folding nothing gives the base.                                         *)
LEMMA FoldEmpty ==
    ASSUME NEW base PROVE Fold(base, << >>) = base
<1> DEFINE G == CHOOSE g : Folds(g, base, << >>, 1..0)
<1>1. DOMAIN << >> = 1..0 /\ 1..0 = {}
  OBVIOUS
<1>2. Folds(G, base, << >>, 1..0)
  BY FoldsExist
<1>3. Fold(base, << >>) = G[1..0]
  BY <1>1, FoldIsSolution
<1> HIDE DEF G
<1>4. G[1..0] = base
  BY <1>1, <1>2 DEF Folds
<1> QED BY <1>3, <1>4

(* The last element is applied last.                                       *)
LEMMA FoldAppend ==
    ASSUME NEW A, NEW s \in Seq(A), NEW x \in A, NEW base
    PROVE  Fold(base, Append(s, x)) = combine(Fold(base, s), x)
<1> DEFINE n == Len(s)
           r == Append(s, x)
           G == CHOOSE g : Folds(g, base, s, 1..n)
           H == CHOOSE g : Folds(g, base, r, 1..n + 1)
<1>1. /\ n \in Nat /\ DOMAIN s = 1..n /\ DOMAIN r = 1..n + 1
      /\ r[n + 1] = x /\ \A i \in 1..n : r[i] = s[i]
  OBVIOUS
<1> HIDE DEF n, r
<1>2. Folds(G, base, s, 1..n)
  BY <1>1, FoldsExist
<1>3. Folds(H, base, r, 1..n + 1)
  BY <1>1, FoldsExist
<1>4. Fold(base, s) = G[1..n]
  BY <1>1, FoldIsSolution
<1>5. Fold(base, r) = H[1..n + 1]
  BY <1>1, FoldIsSolution
<1> HIDE DEF G, H
<1>6. G[1..n] = H[1..n]
  <2> DEFINE D == 1..n
             E == 1..n + 1
  <2>1. /\ D \in SUBSET (1..n) /\ D \subseteq E /\ Agree(s, r, D)
        /\ Folds(G, base, s, D) /\ Folds(H, base, r, E)
    BY <1>1, <1>2, <1>3 DEF Agree
  <2> HIDE DEF D, E
  <2>2. G[D] = H[D]
    BY <1>1, <2>1, FoldsAgree
  <2> QED BY <2>2 DEF D
<1>7. H[1..n + 1] = combine(H[1..n], x)
  <2>1. 1..n + 1 # {} /\ (1..n + 1) \ {n + 1} = 1..n /\ n + 1 \in Nat
    BY <1>1
  <2>2. Max(1..n + 1) = n + 1
    <3>1. Max(1..n + 1) \in 1..n + 1 /\ Max(1..n + 1) >= n + 1
      <4> DEFINE t == 1..n + 1
      <4>1. t \in SUBSET (1..n + 1) /\ t # {} /\ n + 1 \in t
        BY <1>1
      <4> HIDE DEF t
      <4>2. Max(t) \in t /\ \A i \in t : Max(t) >= i
        BY <2>1, <4>1, MaxOfPositions
      <4> QED BY <4>1, <4>2 DEF t
    <3> QED BY <1>1, <3>1
  <2>3. H[1..n + 1] = combine(H[(1..n + 1) \ {Max(1..n + 1)}], r[Max(1..n + 1)])
    BY <1>3, <2>1 DEF Folds
  <2> QED BY <1>1, <2>1, <2>2, <2>3
<1> QED BY <1>4, <1>5, <1>6, <1>7 DEF r

(* A fold stays in any set that holds its base and is closed under combine.     *)
LEMMA FoldType ==
    ASSUME NEW A, NEW s \in Seq(A), NEW T, NEW base \in T,
           \A st \in T, x \in A : combine(st, x) \in T
    PROVE  Fold(base, s) \in T
<1> DEFINE Q == {n \in Nat : \A r \in Seq(A) : Len(r) = n => Fold(base, r) \in T}
<1>0. ASSUME NEW n \in Nat, n = 0 \/ n - 1 \in Q PROVE n \in Q
  <2>1. SUFFICES ASSUME NEW r \in Seq(A), Len(r) = n PROVE Fold(base, r) \in T
    OBVIOUS
  <2>2. CASE n = 0
    <3>1. r = << >>
      BY <2>1, <2>2, EmptySeq
    <3> QED BY <3>1, FoldEmpty
  <2>3. CASE n # 0
    <3>1. r # << >>
      BY <2>1, <2>3, EmptySeq
    <3>2. PICK q \in Seq(A), x \in A : r = Append(q, x)
      BY <3>1, SequenceEmptyOrAppend
    <3>3. Len(q) \in Nat /\ Len(r) = Len(q) + 1
      BY <3>2, AppendProperties, LenProperties
    <3>4. Fold(base, q) \in T
      BY <1>0, <2>1, <2>3, <3>3
    <3>5. Fold(base, Append(q, x)) = combine(Fold(base, q), x)
      BY FoldAppend
    <3> QED BY <3>2, <3>4, <3>5
  <2> QED BY <2>2, <2>3
<1>1. Nat \subseteq Q
  <2>1. 0 \in Q
    BY <1>0
  <2>2. ASSUME NEW n \in Nat, n \in Q PROVE n + 1 \in Q
    <3> HIDE DEF Q
    <3>1. n + 1 \in Nat /\ (n + 1) - 1 \in Q
      BY <2>2
    <3> QED BY <3>1, <1>0
  <2> HIDE DEF Q
  <2> QED BY <2>1, <2>2, NaturalInduction
<1>2. Len(s) \in Q
  BY <1>1, LenProperties
<1> QED BY <1>2

(* The first element is applied first.                                     *)
LEMMA FoldHead ==
    ASSUME NEW A, NEW s \in Seq(A), s # << >>, NEW base
    PROVE  Fold(base, s) = Fold(combine(base, Head(s)), Tail(s))
<1> DEFINE Q == {n \in Nat : \A r \in Seq(A) : Len(r) = n + 1 =>
                    Fold(base, r) = Fold(combine(base, Head(r)), Tail(r))}
<1>0. ASSUME NEW n \in Nat, n = 0 \/ n - 1 \in Q PROVE n \in Q
  <2>1. SUFFICES ASSUME NEW r \in Seq(A), Len(r) = n + 1
                 PROVE  Fold(base, r) = Fold(combine(base, Head(r)), Tail(r))
    OBVIOUS
  <2>2. PICK q \in Seq(A), x \in A : r = Append(q, x)
    <3>1. r # << >>
      BY <2>1
    <3> QED BY <3>1, SequenceEmptyOrAppend
  <2>3. Len(q) = n
    BY <2>1, <2>2
  <2>4. /\ Head(r) = IF q = << >> THEN x ELSE Head(q)
        /\ Tail(r) = IF q = << >> THEN << >> ELSE Append(Tail(q), x)
    BY <2>2, HeadTailAppend
  <2>5. Fold(base, Append(q, x)) = combine(Fold(base, q), x)
    BY <2>2, FoldAppend
  <2>6. CASE q = << >>
    <3>1. Fold(base, << >>) = base
      BY FoldEmpty
    <3>2. Fold(combine(base, x), << >>) = combine(base, x)
      BY FoldEmpty
    <3> QED BY <2>2, <2>4, <2>5, <2>6, <3>1, <3>2
  <2>7. CASE q # << >>
    <3>1. n - 1 \in Q /\ Len(q) = (n - 1) + 1
      BY <1>0, <2>3, <2>7, EmptySeq
    <3>2. Fold(base, q) = Fold(combine(base, Head(q)), Tail(q))
      BY <3>1
    <3>3. Tail(q) \in Seq(A)
      BY <2>7, HeadTailProperties
    <3>4. Fold(combine(base, Head(q)), Append(Tail(q), x)) = combine(Fold(combine(base, Head(q)), Tail(q)), x)
      BY <3>3, FoldAppend
    <3> HIDE DEF Q
    <3> QED BY <2>2, <2>4, <2>5, <2>7, <3>2, <3>4
  <2> QED BY <2>6, <2>7
<1>1. Nat \subseteq Q
  <2>1. 0 \in Q
    BY <1>0
  <2>2. ASSUME NEW n \in Nat, n \in Q PROVE n + 1 \in Q
    <3> HIDE DEF Q
    <3>1. n + 1 \in Nat /\ (n + 1) - 1 \in Q
      BY <2>2
    <3> QED BY <3>1, <1>0
  <2> HIDE DEF Q
  <2> QED BY <2>1, <2>2, NaturalInduction
<1>2. Len(s) - 1 \in Nat /\ Len(s) = (Len(s) - 1) + 1
  BY EmptySeq
<1>3. Len(s) - 1 \in Q
  BY <1>1, <1>2
<1> QED BY <1>2, <1>3

(* Elements that act alike at every position give the same fold.           *)
LEMMA FoldSame ==
    ASSUME NEW A, NEW s \in Seq(A), NEW r \in Seq(A), Len(s) = Len(r), NEW base,
           \A i \in 1..Len(s) : \A st : combine(st, s[i]) = combine(st, r[i])
    PROVE  Fold(base, s) = Fold(base, r)
<1> DEFINE Alike(p, q) == /\ Len(p) = Len(q)
                          /\ \A i \in 1..Len(p) : \A st : combine(st, p[i]) = combine(st, q[i])
           Q == {n \in Nat : \A p, q \in Seq(A) :
                    Len(p) = n /\ Alike(p, q) => Fold(base, p) = Fold(base, q)}
<1>0. ASSUME NEW n \in Nat, n = 0 \/ n - 1 \in Q PROVE n \in Q
  <2>1. SUFFICES ASSUME NEW p \in Seq(A), NEW q \in Seq(A), Len(p) = n, Alike(p, q)
                 PROVE  Fold(base, p) = Fold(base, q)
    OBVIOUS
  <2>2. CASE n = 0
    <3>1. p = << >> /\ q = << >>
      BY <2>1, <2>2, EmptySeq
    <3> QED BY <3>1
  <2>3. CASE n # 0
    <3>1. p # << >> /\ q # << >>
      BY <2>1, <2>3, EmptySeq
    <3>2. PICK p0 \in Seq(A), x \in A : p = Append(p0, x)
      BY <3>1, SequenceEmptyOrAppend
    <3>3. PICK q0 \in Seq(A), y \in A : q = Append(q0, y)
      BY <3>1, SequenceEmptyOrAppend
    <3>4. /\ Len(p) = Len(p0) + 1 /\ p[Len(p0) + 1] = x
          /\ \A i \in 1..Len(p0) : p[i] = p0[i]
      BY <3>2, AppendProperties
    <3>5. /\ Len(q) = Len(q0) + 1 /\ q[Len(q0) + 1] = y
          /\ \A i \in 1..Len(q0) : q[i] = q0[i]
      BY <3>3, AppendProperties
    <3>6. Len(p0) = n - 1 /\ Len(q0) = n - 1 /\ Len(p0) \in Nat
      <4>1. Len(p0) \in Nat /\ Len(q0) \in Nat
        BY LenProperties
      <4>2. Len(p) = n /\ Len(q) = n
        BY <2>1
      <4>3. Len(p) = Len(p0) + 1 /\ Len(q) = Len(q0) + 1
        BY <3>4, <3>5
      <4> QED BY <4>1, <4>2, <4>3
    <3>7. \A i \in 1..Len(p0) : i \in 1..Len(p)
      BY <3>4, <3>6
    <3>8. Alike(p0, q0)
      BY <2>1, <3>4, <3>5, <3>6, <3>7
    <3>9. Fold(base, p0) = Fold(base, q0)
      BY <1>0, <2>3, <3>6, <3>8
    <3>10. \A st : combine(st, x) = combine(st, y)
      <4>1. Len(p0) + 1 \in 1..Len(p)
        BY <3>4, <3>6
      <4> QED BY <2>1, <3>4, <3>5, <3>6, <4>1
    <3>11. Fold(base, Append(p0, x)) = combine(Fold(base, p0), x)
      BY <3>2, FoldAppend
    <3>12. Fold(base, Append(q0, y)) = combine(Fold(base, q0), y)
      BY <3>3, FoldAppend
    <3> QED BY <3>2, <3>3, <3>9, <3>10, <3>11, <3>12
  <2> QED BY <2>2, <2>3
<1>1. Nat \subseteq Q
  <2>1. 0 \in Q
    BY <1>0
  <2>2. ASSUME NEW n \in Nat, n \in Q PROVE n + 1 \in Q
    <3> HIDE DEF Q
    <3>1. n + 1 \in Nat /\ (n + 1) - 1 \in Q
      BY <2>2
    <3> QED BY <3>1, <1>0
  <2> HIDE DEF Q
  <2> QED BY <2>1, <2>2, NaturalInduction
<1>2. Len(s) \in Q
  BY <1>1, LenProperties
<1> QED BY <1>2

(* What every step of a fold preserves, the number of elements folded so far *)
(* included, holds of its result.                                          *)
LEMMA FoldInduction ==
    ASSUME NEW A, NEW s \in Seq(A), NEW base, NEW G, <<0, base>> \in G,
           ASSUME NEW k \in Nat, k < Len(s), NEW st, <<k, st>> \in G
           PROVE  <<k + 1, combine(st, s[k + 1])>> \in G
    PROVE  <<Len(s), Fold(base, s)>> \in G
<1> DEFINE pre(k) == SubSeq(s, 1, k)
           Q == {k \in Nat : k <= Len(s) => <<k, Fold(base, pre(k))>> \in G}
<1>1. 0 \in Q
  <2>1. pre(0) = << >>
    OBVIOUS
  <2>2. <<0, Fold(base, pre(0))>> \in G
    BY <2>1, FoldEmpty
  <2> QED BY <2>2
<1>2. ASSUME NEW k \in Nat, k \in Q PROVE k + 1 \in Q
  <2>1. SUFFICES ASSUME k + 1 <= Len(s)
                 PROVE  <<k + 1, Fold(base, pre(k + 1))>> \in G
    OBVIOUS
  <2>2. /\ Len(s) \in Nat /\ k < Len(s) /\ k + 1 \in 1..Len(s)
        /\ s[k + 1] \in A
    BY <2>1
  <2>3. pre(k) \in Seq(A) /\ Len(pre(k)) = k /\ \A i \in 1..k : pre(k)[i] = s[i]
    <3>1. \A i \in 1..k : s[i] \in A
      BY <2>2
    <3> QED BY <2>2, <3>1, SubSeqProperties
  <2>4. pre(k + 1) \in Seq(A) /\ Len(pre(k + 1)) = k + 1 /\ \A i \in 1..k + 1 : pre(k + 1)[i] = s[i]
    <3>1. \A i \in 1..k + 1 : s[i] \in A
      BY <2>2
    <3> QED BY <2>2, <3>1, SubSeqProperties
  <2>5. pre(k + 1) = Append(pre(k), s[k + 1])
    <3> HIDE DEF pre
    <3>1. /\ Append(pre(k), s[k + 1]) \in Seq(A)
          /\ Len(Append(pre(k), s[k + 1])) = k + 1
          /\ \A i \in 1..k + 1 : Append(pre(k), s[k + 1])[i] = s[i]
      BY <2>2, <2>3
    <3> QED BY <2>4, <3>1, SeqEqual
  <2>6. Fold(base, pre(k + 1)) = combine(Fold(base, pre(k)), s[k + 1])
    <3> HIDE DEF pre
    <3> QED BY <2>2, <2>3, <2>5, FoldAppend
  <2>7. <<k, Fold(base, pre(k))>> \in G
    BY <1>2, <2>2
  <2>8. <<k + 1, combine(Fold(base, pre(k)), s[k + 1])>> \in G
    <3> HIDE DEF pre
    <3> QED BY <2>2, <2>7
  <2> QED BY <2>6, <2>8
<1>3. Nat \subseteq Q
  <2> HIDE DEF Q
  <2> QED BY <1>1, <1>2, NaturalInduction
<1>4. <<Len(s), Fold(base, pre(Len(s)))>> \in G
  BY <1>3
<1>5. pre(Len(s)) = s
  <2>1. \A i \in 1..Len(s) : s[i] \in A
    OBVIOUS
  <2>2. /\ pre(Len(s)) \in Seq(A) /\ Len(pre(Len(s))) = Len(s)
        /\ \A i \in 1..Len(s) : pre(Len(s))[i] = s[i]
    BY <2>1, SubSeqProperties
  <2> HIDE DEF pre
  <2> QED BY <2>2, SeqEqual
<1> QED BY <1>4, <1>5

=============================================================================
