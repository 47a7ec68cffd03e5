--------------------------- MODULE RotationProofs ---------------------------
(***************************************************************************)
(* Proofs about the proposer rotation. Priorities are bounded through the  *)
(* sums over all subsets of the validator set: a single priority cannot be *)
(* bounded by induction, because a turn moves debt from the proposer to    *)
(* the others, but the sums over m validators stay within                  *)
(* Total * m * (2N - 1 - m) / 2, whoever joins or leaves.                  *)
(***************************************************************************)
EXTENDS FoldProofs, Rotation

-----------------------------------------------------------------------------
(* Arithmetic.                                                             *)

(* Multiplying by a natural keeps an inequality.                           *)
LEMMA TimesMonotone ==
    ASSUME NEW n \in Nat, NEW x \in Int, NEW y \in Int, x <= y
    PROVE  n * x <= n * y
<1>1. y - x \in Nat
  OBVIOUS
<1>2. \A i, j \in Nat : i * j >= 0
  OBVIOUS
<1>3. n * (y - x) = n * y - n * x
  OBVIOUS
<1>4. n * x \in Int /\ n * y \in Int /\ n * (y - x) >= 0
  BY <1>1, <1>2
<1> QED BY <1>3, <1>4

N == Cardinality(Val)
Total == W(Val)

(* Twice what m validators may owe or be owed together *)
G(m) == Total * (m * (2 * N - 1 - m))

(* The number of validators and their power are natural numbers.           *)
LEMMA Sizes ==
    /\ N \in Nat \ {0}
    /\ Total \in Nat
    /\ \A S \in SUBSET Val : W(S) \in Nat /\ W(S) <= Total
    /\ \A S \in SUBSET Val : S # {} => W(S) >= 1
<1>1. \A v \in Val : Power[v] \in Nat /\ Power[v] >= 1
  BY RotationAssumption
<1>2. N \in Nat \ {0}
  BY RotationAssumption, FS_CardinalityType, FS_EmptySet DEF N
<1>3. ASSUME NEW S \in SUBSET Val
      PROVE  IsFiniteSet(S) /\ W(S) \in Nat /\ W(S) <= Total /\ (S # {} => W(S) >= 1)
  <2>1. IsFiniteSet(S) /\ IsFiniteSet(Val)
    BY RotationAssumption, FS_Subset
  <2>2. Sum(Power, S) \in Nat
    BY <1>1, <2>1, SumNat
  <2>3. Sum(Power, S) <= Sum(Power, Val)
    BY <1>1, <2>1, SumMonotone
  <2>4. ASSUME NEW v \in S PROVE Sum(Power, S) >= 1
    <3>1. Power[v] <= Sum(Power, S)
      BY <1>1, <2>1, SumAtLeast
    <3> QED BY <1>1, <2>2, <3>1
  <2> QED BY <2>1, <2>2, <2>3, <2>4 DEF W, TotalPower, Total
<1>4. Total \in Nat
  BY <1>3 DEF Total
<1> QED BY <1>2, <1>3, <1>4

(* The bound is an integer.                                                *)
LEMMA GInt == \A m \in Int : G(m) \in Int
BY Sizes DEF G

(* The bound grows with the number of validators.                          *)
LEMMA GMonotone ==
    ASSUME NEW m \in Nat, NEW n \in Nat, m <= n, n <= N
    PROVE  0 <= G(m) /\ G(m) <= G(n)
<1> DEFINE c == 2 * N - 1
           d == n - m
<1>1. N \in Int /\ Total \in Nat /\ c \in Int /\ d \in Nat /\ c - m - n \in Int
  BY Sizes
<1>2. n # m => c - m - n \in Nat
  BY <1>1, Sizes
<1>3. \A i, j \in Nat : i * j \in Nat
  OBVIOUS
<1>4. d * (c - m - n) \in Nat
  BY <1>1, <1>2, <1>3
<1>5. n * (c - n) = m * (c - m) + d * (c - m - n)
  BY <1>1
<1>6. m * (c - m) \in Nat
  BY <1>1, <1>3, Sizes
<1>7. Total * (m * (c - m)) <= Total * (n * (c - n)) /\ Total * (m * (c - m)) \in Nat
  <2>1. n * (c - n) \in Int /\ m * (c - m) <= n * (c - n)
    BY <1>1, <1>4, <1>5, <1>6
  <2> HIDE DEF c
  <2> QED BY <1>1, <1>3, <1>6, <2>1, TimesMonotone
<1> QED BY <1>7 DEF G

(* How the bounds for m - 1, m and m + j validators are related.           *)
LEMMA GLow ==
    ASSUME NEW m \in Int, NEW j \in Int
    PROVE  (j + 1) * G(m) = j * G(m - 1) + G(m + j) + Total * (j * (j + 1))
<1> DEFINE c == 2 * N - 1
<1>1. Total \in Int /\ c \in Int
  BY Sizes
<1>2. G(m) = Total * (m * (c - m))
  BY DEF G
<1>3. G(m - 1) = Total * ((m - 1) * (c - (m - 1)))
  BY DEF G
<1>4. G(m + j) = Total * ((m + j) * (c - (m + j)))
  BY DEF G
<1> HIDE DEF c
<1>5. \A t, x, y, z \in Int : (y + 1) * (t * (x * (z - x)))
          = y * (t * ((x - 1) * (z - (x - 1)))) + t * ((x + y) * (z - (x + y)))
              + t * (y * (y + 1))
  OBVIOUS
<1> QED BY <1>1, <1>2, <1>3, <1>4, <1>5

(* How the bounds for m and m + 1 validators are related.                  *)
LEMMA GHigh ==
    ASSUME NEW m \in Int
    PROVE  (m + 1) * G(m) = m * G(m + 1) + Total * (m * (m + 1))
<1> DEFINE c == 2 * N - 1
<1>1. Total \in Int /\ c \in Int
  BY Sizes
<1>2. G(m) = Total * (m * (c - m))
  BY DEF G
<1>3. G(m + 1) = Total * ((m + 1) * (c - (m + 1)))
  BY DEF G
<1> HIDE DEF c
<1>4. \A t, x, z \in Int : (x + 1) * (t * (x * (z - x)))
          = x * (t * ((x + 1) * (z - (x + 1)))) + t * (x * (x + 1))
  OBVIOUS
<1> QED BY <1>1, <1>2, <1>3, <1>4

(* The proposer of a turn owes at most what the bound allows: the sum over  *)
(* the m validators it belongs to is pulled up by its own priority M, the    *)
(* largest of all, and by what the other j validators cannot exceed.        *)
LEMMA LowArithmetic ==
    ASSUME NEW j \in Nat, j >= 1, NEW a \in Int, NEW M \in Int, NEW w \in Int,
           NEW t \in Nat, w <= t, NEW g \in Int, NEW g1 \in Int, NEW gn \in Int,
           2 * a >= 2 * M - g1,
           2 * a >= 2 * w - gn - 2 * (j * M),
           (j + 1) * g = j * g1 + gn + t * (j * (j + 1))
    PROVE  2 * (a - w) >= -g
<1> DEFINE Y == 2 * (a - w) + g
<1>1. SUFFICES ASSUME Y <= -1 PROVE FALSE
  OBVIOUS
<1>2. j * Y <= j * (-1)
  BY <1>1, TimesMonotone
<1>3. j * (2 * M - g1) <= j * (2 * a)
  BY TimesMonotone
<1>4. j * w <= j * t
  BY TimesMonotone
<1>5. j * t <= j * (j * t)
  <2>1. 1 * t <= j * t
    <3>1. t * 1 <= t * j
      BY TimesMonotone
    <3> QED BY <3>1
  <2>2. t <= j * t /\ j * t \in Int
    BY <2>1
  <2> QED BY <2>2, TimesMonotone
<1>6. /\ j * Y = 2 * (j * a) - 2 * (j * w) + j * g
      /\ j * (2 * M - g1) = 2 * (j * M) - j * g1
      /\ j * (2 * a) = 2 * (j * a)
      /\ t * (j * (j + 1)) = j * (j * t) + j * t
      /\ (j + 1) * g = j * g + g
  OBVIOUS
<1>7. /\ j * a \in Int /\ j * w \in Int /\ j * g \in Int /\ j * M \in Int
      /\ j * g1 \in Int /\ j * t \in Int /\ j * (j * t) \in Int
  OBVIOUS
<1> QED BY <1>1, <1>2, <1>3, <1>4, <1>5, <1>6, <1>7

(* Those that did not propose are owed at most what the bound allows: the m   *)
(* of them have at most m times the proposer's M, and with it at most what   *)
(* m + 1 validators may have.                                               *)
LEMMA HighArithmetic ==
    ASSUME NEW m \in Nat, m >= 1, NEW a \in Int, NEW M \in Int,
           NEW t \in Nat, NEW g \in Int, NEW gn \in Int,
           a <= m * M,
           2 * (a + M) <= gn + 2 * t,
           (m + 1) * g = m * gn + t * (m * (m + 1))
    PROVE  2 * a <= g
<1> DEFINE Y == g - 2 * a
<1>1. SUFFICES ASSUME Y <= -1 PROVE FALSE
  OBVIOUS
<1>2. m * Y <= m * (-1)
  BY <1>1, TimesMonotone
<1>3. m * (2 * (a + M)) <= m * (gn + 2 * t)
  BY TimesMonotone
<1>5. m * t <= m * (m * t)
  <2>1. t * 1 <= t * m
    BY TimesMonotone
  <2>2. t <= m * t /\ m * t \in Int
    BY <2>1
  <2> QED BY <2>2, TimesMonotone
<1>6. /\ m * Y = m * g - 2 * (m * a)
      /\ m * (2 * (a + M)) = 2 * (m * a) + 2 * (m * M)
      /\ m * (gn + 2 * t) = m * gn + 2 * (m * t)
      /\ t * (m * (m + 1)) = m * (m * t) + m * t
      /\ (m + 1) * g = m * g + g
  OBVIOUS
<1>7. /\ m * a \in Int /\ m * g \in Int /\ m * M \in Int
      /\ m * gn \in Int /\ m * t \in Int /\ m * (m * t) \in Int
  OBVIOUS
<1> QED BY <1>1, <1>2, <1>3, <1>5, <1>6, <1>7

-----------------------------------------------------------------------------
(* The proposer.                                                           *)

(* A member exists that no other precedes in the order of select_proposer:  *)
(* the largest priority, and among equals the last address.                *)
LEMMA ProposerExists ==
    ASSUME NEW p, NEW rank, NEW S, IsFiniteSet(S), S # {},
           \A v \in S : p[v] \in Int /\ rank[v] \in Int
    PROVE  \E v \in S : \A u \in S : \/ p[u] < p[v]
                                     \/ p[u] = p[v] /\ rank[u] <= rank[v]
<1> DEFINE Below(u, v) == \/ p[u] < p[v]
                          \/ p[u] = p[v] /\ rank[u] <= rank[v]
           Q == {T \in SUBSET S : T # {} => \E v \in T : \A u \in T : Below(u, v)}
<1>1. ASSUME NEW T \in SUBSET S, \A x \in T : T \ {x} \in Q
      PROVE  T \in Q
  <2> SUFFICES ASSUME T # {} PROVE \E v \in T : \A u \in T : Below(u, v)
    OBVIOUS
  <2>1. PICK x \in T : TRUE
    OBVIOUS
  <2>2. CASE T = {x}
    BY <2>1, <2>2
  <2>3. CASE T # {x}
    <3>1. T \ {x} # {}
      BY <2>1, <2>3
    <3>2. PICK v \in T \ {x} : \A u \in T \ {x} : Below(u, v)
      BY <1>1, <2>1, <3>1
    <3>3. CASE Below(x, v)
      BY <3>2, <3>3
    <3>4. CASE ~Below(x, v)
      <4>1. \A u \in T : Below(u, x)
        BY <2>1, <3>2, <3>4
      <4> QED BY <4>1, <2>1
    <3> QED BY <3>3, <3>4
  <2> QED BY <2>2, <2>3
<1>2. SUBSET S \subseteq Q
  <2> HIDE DEF Q
  <2> QED BY <1>1, SubsetInduction
<1> QED BY <1>2

(* The proposer is a member, and no member has accrued more.               *)
LEMMA ProposerMax ==
    ASSUME NEW p, NEW S \in SUBSET Val, S # {}, \A v \in S : p[v] \in Int
    PROVE  /\ ProposerOf(Power, p, S, Rank) \in S
           /\ \A v \in S : /\ Accrued(Power, p, S)[v] = p[v] + Power[v]
                           /\ p[v] + Power[v] \in Int
                           /\ Accrued(Power, p, S)[v]
                                <= Accrued(Power, p, S)[ProposerOf(Power, p, S, Rank)]
<1> DEFINE acc == Accrued(Power, p, S)
           k == ProposerOf(Power, p, S, Rank)
           OK(v) == \A u \in S : \/ acc[u] < acc[v]
                                 \/ acc[u] = acc[v] /\ Rank[u] <= Rank[v]
<1>1. IsFiniteSet(S) /\ \A v \in S : Power[v] \in Int /\ Rank[v] \in Int
  BY RotationAssumption, FS_Subset
<1>2. \A v \in S : acc[v] = p[v] + Power[v] /\ acc[v] \in Int
  BY <1>1 DEF Accrued
<1>3. \E v \in S : OK(v)
  <2> HIDE DEF acc
  <2> QED BY <1>1, <1>2, ProposerExists
<1>4. k = CHOOSE v \in S : OK(v)
  BY DEF ProposerOf
<1> HIDE DEF acc, k
<1>5. k \in S /\ OK(k)
  BY <1>3, <1>4
<1>6. \A v \in S : acc[v] <= acc[k]
  BY <1>2, <1>5
<1> USE DEF acc, k
<1> QED BY <1>2, <1>5, <1>6

-----------------------------------------------------------------------------
(* Bounded priorities.                                                     *)

(* What every m members may owe or be owed together, for every m *)
SumsBounded(p, S) ==
    \A T \in SUBSET S : /\ -G(Cardinality(T)) <= 2 * Sum(p, T)
                        /\ 2 * Sum(p, T) <= G(Cardinality(T))

(* A turn adds to every group of members their power, and takes the total   *)
(* from a group that holds the proposer.                                    *)
LEMMA TurnSums ==
    ASSUME NEW p, NEW S \in SUBSET Val, S # {}, \A v \in S : p[v] \in Int,
           NEW acc, acc = Accrued(Power, p, S),
           NEW k, k = ProposerOf(Power, p, S, Rank),
           NEW q, q = select_proposer(Power, p, S, Rank)
    PROVE  /\ q \in [S -> Int]
           /\ \A v \in S : q[v] = acc[v] - (IF v = k THEN W(S) ELSE 0)
           /\ \A T \in SUBSET S :
                /\ Sum(p, T) \in Int /\ Sum(acc, T) \in Int
                /\ Sum(acc, T) = Sum(p, T) + W(T)
                /\ Sum(q, T) = Sum(acc, T) - (IF k \in T THEN W(S) ELSE 0)
<1>1. /\ \A v \in S : acc[v] = p[v] + Power[v] /\ acc[v] \in Int /\ acc[v] <= acc[k]
      /\ k \in S
  BY ProposerMax
<1>2. W(S) \in Nat
  BY Sizes
<1>3. q = [v \in S |-> acc[v] - (IF v = k THEN W(S) ELSE 0)]
  BY DEF select_proposer, W
<1>4. q \in [S -> Int] /\ \A v \in S : q[v] = acc[v] - (IF v = k THEN W(S) ELSE 0)
  BY <1>1, <1>2, <1>3
<1>5. \A v \in S : Power[v] \in Int
  BY RotationAssumption
<1>6. ASSUME NEW T \in SUBSET S
      PROVE  /\ Sum(p, T) \in Int /\ Sum(acc, T) \in Int
             /\ Sum(acc, T) = Sum(p, T) + W(T)
             /\ Sum(q, T) = Sum(acc, T) - (IF k \in T THEN W(S) ELSE 0)
  <2>1. IsFiniteSet(T)
    BY RotationAssumption, FS_Subset
  <2>2. Sum(p, T) \in Int /\ Sum(acc, T) \in Int
    BY <1>1, <2>1, SumInt
  <2>3. Sum(acc, T) = Sum(p, T) + Sum(Power, T)
    BY <1>1, <1>5, <2>1, SumIntAdd
  <2>4. CASE k \notin T
    <3>1. \A v \in T : q[v] = acc[v]
      BY <1>1, <1>4, <2>4
    <3>2. Sum(q, T) = Sum(acc, T)
      BY <2>1, <3>1, SumSame
    <3> QED BY <2>2, <2>3, <2>4, <3>2 DEF W, TotalPower
  <2>5. CASE k \in T
    <3>1. IsFiniteSet(T \ {k}) /\ \A v \in T \ {k} : q[v] = acc[v]
      BY <1>1, <1>4, <2>1, FS_Subset
    <3>2. Sum(q, T \ {k}) = Sum(acc, T \ {k})
      BY <3>1, SumSame
    <3>3. Sum(acc, T \ {k}) \in Int
      BY <1>1, <3>1, SumInt
    <3>4. Sum(acc, T) = acc[k] + Sum(acc, T \ {k})
      BY <1>1, <2>1, <2>5, SumIntRemove
    <3>5. Sum(q, T) = q[k] + Sum(q, T \ {k})
      BY <1>4, <2>1, <2>5, SumIntRemove
    <3>6. q[k] = acc[k] - W(S) /\ acc[k] \in Int
      BY <1>1, <1>4
    <3>7. Sum(q, T) = Sum(acc, T) - W(S)
      BY <1>2, <3>2, <3>3, <3>4, <3>5, <3>6
    <3> QED BY <2>2, <2>3, <2>5, <3>7 DEF W, TotalPower
  <2> QED BY <2>4, <2>5
<1> QED BY <1>4, <1>6

(* A turn keeps the sums within their bounds.                              *)
LEMMA TurnBounded ==
    ASSUME NEW p, NEW S \in SUBSET Val, S # {}, \A v \in S : p[v] \in Int,
           SumsBounded(p, S)
    PROVE  SumsBounded(select_proposer(Power, p, S, Rank), S)
<1>1. PICK acc, k, q : /\ acc = Accrued(Power, p, S)
                       /\ k = ProposerOf(Power, p, S, Rank)
                       /\ q = select_proposer(Power, p, S, Rank)
  OBVIOUS
<1>2. /\ \A v \in S : acc[v] = p[v] + Power[v] /\ acc[v] \in Int /\ acc[v] <= acc[k]
      /\ k \in S
  BY <1>1, ProposerMax
<1>3. \A T \in SUBSET S :
         /\ Sum(p, T) \in Int /\ Sum(acc, T) \in Int
         /\ Sum(acc, T) = Sum(p, T) + W(T)
         /\ Sum(q, T) = Sum(acc, T) - (IF k \in T THEN W(S) ELSE 0)
  BY <1>1, TurnSums
<1>4. \A T \in SUBSET S : IsFiniteSet(T) /\ Cardinality(T) \in Nat
                          /\ Cardinality(T) <= N /\ T \in SUBSET Val
  BY RotationAssumption, FS_Subset, FS_CardinalityType DEF N
<1>5. \A T \in SUBSET S : /\ G(Cardinality(T)) \in Int
                          /\ -G(Cardinality(T)) <= 2 * Sum(p, T)
                          /\ 2 * Sum(p, T) <= G(Cardinality(T))
                          /\ W(T) \in Nat /\ W(T) <= W(S)
  <2>1. ASSUME NEW T \in SUBSET S PROVE W(T) \in Nat /\ W(T) <= W(S)
    <3>1. \A v \in S : Power[v] \in Nat
      BY RotationAssumption
    <3>2. Sum(Power, T) <= Sum(Power, S)
      BY <1>4, <3>1, SumMonotone
    <3> QED BY <1>4, <3>2, Sizes DEF W, TotalPower
  <2> QED BY <1>4, <2>1, GInt DEF SumsBounded
<1>6. W(S) \in Nat /\ W(S) <= Total /\ Total \in Nat
  BY Sizes
<1>7. ASSUME NEW T \in SUBSET S
      PROVE  -G(Cardinality(T)) <= 2 * Sum(q, T)
  <2>1. PICK m \in Nat : m = Cardinality(T)
    BY <1>4
  <2>2. CASE k \notin T
    BY <1>3, <1>5, <2>2
  <2>3. CASE T = S
    BY <1>2, <1>3, <1>5, <2>3
  <2>4. CASE k \in T /\ T # S
    <3> DEFINE R == T \ {k}
               O == S \ T
    <3>1. PICK j \in Nat : j = Cardinality(O)
      BY <1>4
    <3>2. j >= 1
      BY <1>4, <2>4, <3>1, FS_EmptySet
    <3>3. Cardinality(S) = m + j
      <4>1. T \cap O = {} /\ T \cup O = S /\ IsFiniteSet(T) /\ IsFiniteSet(O)
        BY <1>4
      <4> HIDE DEF O
      <4>2. Cardinality(T \cup O) = Cardinality(T) + Cardinality(O) - Cardinality(T \cap O)
        BY <4>1, FS_Union
      <4>3. Cardinality(T \cap O) = 0
        BY <4>1, FS_EmptySet
      <4>4. Cardinality(S) = Cardinality(T) + Cardinality(O) - 0
        <5>1. S = T \cup O
          BY <4>1
        <5> QED BY <4>2, <4>3, <5>1, Zenon
      <4> QED BY <2>1, <3>1, <4>4
    <3>4. R \in SUBSET S /\ Cardinality(R) = m - 1
      BY <1>4, <2>1, <2>4, FS_RemoveElement
    <3>5. Sum(acc, T) = acc[k] + Sum(acc, R)
      BY <1>2, <1>4, <2>4, SumIntRemove
    <3>6. Sum(acc, S) = Sum(acc, T) + Sum(acc, O)
      BY <1>2, <1>4, SumIntSplit
    <3>7. Sum(acc, O) <= j * acc[k]
      <4>1. \A v \in O : acc[v] \in Int /\ acc[v] <= acc[k]
        BY <1>2
      <4>2. IsFiniteSet(O) /\ acc[k] \in Int
        BY <1>2, <1>4
      <4> HIDE DEF O
      <4> QED BY <3>1, <4>1, <4>2, SumIntAtMost
    <3>8. O \in SUBSET S
      OBVIOUS
    <3> HIDE DEF R, O
    <3>9. 2 * Sum(acc, T) >= 2 * acc[k] - G(m - 1)
      BY <1>2, <1>3, <1>5, <3>4, <3>5
    <3>10. 2 * Sum(acc, T) >= 2 * W(S) - G(m + j) - 2 * (j * acc[k])
      <4>1. 2 * Sum(acc, S) >= 2 * W(S) - G(m + j)
        BY <1>3, <1>5, <3>3
      <4>2. j * acc[k] \in Int /\ G(m + j) \in Int /\ Sum(acc, O) \in Int /\ Sum(acc, T) \in Int
        BY <1>2, <1>3, <3>8, GInt
      <4> QED BY <1>6, <3>6, <3>7, <4>1, <4>2
    <3>11. (j + 1) * G(m) = j * G(m - 1) + G(m + j) + Total * (j * (j + 1))
      BY GLow
    <3>12. G(m) \in Int /\ G(m - 1) \in Int /\ G(m + j) \in Int
      BY GInt
    <3>13. 2 * (Sum(acc, T) - W(S)) >= -G(m)
      <4>1. PICK a \in Int, M \in Int, w \in Nat, t \in Nat, g \in Int, g1 \in Int, gn \in Int :
                 /\ a = Sum(acc, T) /\ M = acc[k] /\ w = W(S) /\ t = Total
                 /\ g = G(m) /\ g1 = G(m - 1) /\ gn = G(m + j)
        BY <1>2, <1>3, <1>6, <3>12
      <4>2. /\ w <= t /\ 2 * a >= 2 * M - g1
            /\ 2 * a >= 2 * w - gn - 2 * (j * M)
            /\ (j + 1) * g = j * g1 + gn + t * (j * (j + 1))
        BY <1>6, <3>9, <3>10, <3>11, <4>1
      <4>3. 2 * (a - w) >= -g
        BY <3>2, <4>2, LowArithmetic
      <4> QED BY <4>1, <4>3
    <3> QED BY <1>3, <1>6, <2>1, <2>4, <3>12, <3>13
  <2> QED BY <2>2, <2>3, <2>4
<1>8. ASSUME NEW T \in SUBSET S
      PROVE  2 * Sum(q, T) <= G(Cardinality(T))
  <2>1. PICK m \in Nat : m = Cardinality(T)
    BY <1>4
  <2>2. CASE k \in T
    BY <1>3, <1>5, <1>6, <2>2
  <2>3. CASE T = {}
    <3>1. Sum(q, T) = 0 /\ G(Cardinality(T)) >= 0
      BY <1>4, <2>3, SumEmpty, GMonotone
    <3> QED BY <1>5, <3>1
  <2>4. CASE k \notin T /\ T # {}
    <3> DEFINE U == T \cup {k}
    <3>1. m >= 1
      BY <1>4, <2>1, <2>4, FS_EmptySet
    <3>2. U \in SUBSET S /\ Cardinality(U) = m + 1 /\ U \ {k} = T
      BY <1>2, <1>4, <2>1, <2>4, FS_AddElement
    <3>3. Sum(acc, U) = acc[k] + Sum(acc, T)
      <4>1. k \in U
        OBVIOUS
      <4> HIDE DEF U
      <4>2. Sum(acc, U) = acc[k] + Sum(acc, U \ {k})
        BY <1>2, <1>4, <3>2, <4>1, SumIntRemove
      <4> QED BY <3>2, <4>2
    <3>4. Sum(acc, T) <= m * acc[k]
      BY <1>2, <1>4, <2>1, SumIntAtMost
    <3> HIDE DEF U
    <3>5. 2 * (Sum(acc, T) + acc[k]) <= G(m + 1) + 2 * Total
      <4>1. W(U) <= Total /\ W(U) \in Nat
        BY <1>4, <3>2, Sizes
      <4>2. 2 * Sum(p, U) <= G(m + 1) /\ G(m + 1) \in Int /\ Sum(p, U) \in Int
        BY <1>3, <1>5, <3>2
      <4>3. Sum(acc, U) = Sum(p, U) + W(U) /\ Sum(acc, T) \in Int /\ acc[k] \in Int
        BY <1>2, <1>3, <3>2
      <4> QED BY <1>6, <3>3, <4>1, <4>2, <4>3
    <3>6. (m + 1) * G(m) = m * G(m + 1) + Total * (m * (m + 1))
      BY GHigh
    <3>7. G(m) \in Int /\ G(m + 1) \in Int
      BY GInt
    <3>8. 2 * Sum(acc, T) <= G(m)
      BY <1>2, <1>3, <1>6, <3>1, <3>4, <3>5, <3>6, <3>7, HighArithmetic
    <3> QED BY <1>3, <2>1, <2>4, <3>8
  <2> QED BY <2>2, <2>3, <2>4
<1>9. SumsBounded(q, S)
  BY <1>7, <1>8 DEF SumsBounded
<1> QED BY <1>1, <1>9

(* Members of both sets keep their priority and the others start at 0: the  *)
(* bounds survive a change of the set.                                      *)
LEMMA CarryBounded ==
    ASSUME NEW M \in SUBSET Val, NEW p \in [M -> Int], NEW S \in SUBSET Val,
           SumsBounded(p, M)
    PROVE  /\ \A v \in S : carry_priorities(p, S)[v] \in Int
           /\ SumsBounded(carry_priorities(p, S), S)
<1>1. PICK c : c = carry_priorities(p, S)
  OBVIOUS
<1>2. \A v \in S : c[v] = (IF v \in M THEN p[v] ELSE 0) /\ c[v] \in Int
  BY <1>1 DEF carry_priorities
<1>3. ASSUME NEW T \in SUBSET S
      PROVE  /\ -G(Cardinality(T)) <= 2 * Sum(c, T)
             /\ 2 * Sum(c, T) <= G(Cardinality(T))
  <2> DEFINE A == T \cap M
             B == T \ A
  <2>1. /\ IsFiniteSet(T) /\ IsFiniteSet(A) /\ IsFiniteSet(B)
        /\ Cardinality(T) \in Nat /\ Cardinality(A) \in Nat
        /\ Cardinality(A) <= Cardinality(T) /\ Cardinality(T) <= N
    <3>1. T \in SUBSET Val /\ A \in SUBSET T /\ B \in SUBSET T
      OBVIOUS
    <3>2. IsFiniteSet(T) /\ Cardinality(T) <= N
      BY <3>1, RotationAssumption, FS_Subset DEF N
    <3> HIDE DEF A, B
    <3> QED BY <3>1, <3>2, FS_Subset, FS_CardinalityType
  <2>2. \A v \in A : c[v] = p[v] /\ p[v] \in Int
    BY <1>2
  <2>3. \A v \in B : c[v] = 0
    BY <1>2
  <2>4. A \in SUBSET T /\ A \in SUBSET M /\ \A v \in T : c[v] \in Int
    BY <1>2
  <2>5. Sum(c, T) = Sum(c, A) + Sum(c, T \ A)
    <3> HIDE DEF A
    <3> QED BY <2>1, <2>4, SumIntSplit
  <2> HIDE DEF A, B
  <2>6. Sum(c, B) = 0
    BY <2>1, <2>3, SumZero
  <2>7. Sum(c, A) = Sum(p, A) /\ Sum(p, A) \in Int
    <3>1. Sum(c, A) = Sum(p, A)
      BY <2>1, <2>2, SumSame
    <3>2. Sum(p, A) \in Int
      BY <2>1, <2>2, SumInt
    <3> QED BY <3>1, <3>2
  <2>8. Sum(c, T) = Sum(p, A)
    <3> USE DEF B
    <3> QED BY <2>5, <2>6, <2>7
  <2>9. -G(Cardinality(A)) <= 2 * Sum(p, A) /\ 2 * Sum(p, A) <= G(Cardinality(A))
    BY <2>4 DEF SumsBounded
  <2>10. G(Cardinality(A)) <= G(Cardinality(T))
    BY <2>1, GMonotone
  <2>11. G(Cardinality(A)) \in Int /\ G(Cardinality(T)) \in Int
    BY <2>1, GInt
  <2> QED BY <2>7, <2>8, <2>9, <2>10, <2>11
<1> QED BY <1>1, <1>2, <1>3 DEF SumsBounded

-----------------------------------------------------------------------------
(* The invariants.                                                         *)

(* The window's counters: no more turns than the members' total power *)
WindowInv ==
    /\ turn \in 0..W(members)
    /\ turns \in [Val -> Nat]
    /\ \A v \in Val : turns[v] <= turn

(* While the set has not changed, a priority is what the validator's power  *)
(* has earned in this window minus what its turns cost                      *)
Epoch ==
    changes = 0 =>
      /\ members = Val
      /\ Sum(prio, Val) = 0
      /\ \A v \in Val : /\ prio[v] = turn * Power[v] - Total * turns[v]
                        /\ prio[v] > -Total

Inv ==
    /\ members \in (SUBSET Val) \ {{}}
    /\ prio \in [members -> Int]
    /\ proposer \in Val
    /\ changes \in 0..MaxChanges
    /\ WindowInv
    /\ SumsBounded(prio, members)
    /\ Epoch

(* The invariant gives the shape of the state.                             *)
LEMMA InvTypes == Inv => TypeOK
<1> SUFFICES ASSUME Inv PROVE TypeOK
  OBVIOUS
<1>1. W(members) \in Nat /\ W(members) <= W(Val) /\ W(Val) \in Nat
  BY Sizes DEF Inv, Total
<1>2. turn \in 0..W(Val)
  BY <1>1 DEF Inv, WindowInv
<1>3. turns \in [Val -> 0..W(Val)]
  <2>1. \A v \in Val : turns[v] \in 0..W(Val)
    BY <1>1, <1>2 DEF Inv, WindowInv
  <2> QED BY <2>1 DEF Inv, WindowInv
<1> QED BY <1>2, <1>3 DEF Inv, TypeOK

(* The sums over single members bound their priorities.                    *)
LEMMA InvBounded == Inv => PriorityBounded
<1> SUFFICES ASSUME Inv, NEW v \in members
             PROVE  /\ -((N - 1) * Total) <= prio[v]
                    /\ prio[v] <= (N - 1) * Total
  BY DEF PriorityBounded, N, Total
<1>1. prio[v] \in Int /\ IsFiniteSet({v}) /\ Cardinality({v}) = 1
  BY FS_Singleton DEF Inv
<1>2. Sum(prio, {v}) = prio[v]
  <2>1. \A u \in {v} : prio[u] \in Int
    BY <1>1
  <2>2. v \in {v} /\ {v} \ {v} = {}
    OBVIOUS
  <2>3. Sum(prio, {v}) = prio[v] + Sum(prio, {v} \ {v})
    BY <1>1, <2>1, <2>2, SumIntRemove
  <2>4. Sum(prio, {v} \ {v}) = 0
    BY <2>2, SumEmpty
  <2> QED BY <1>1, <2>3, <2>4
<1>3. -G(1) <= 2 * Sum(prio, {v}) /\ 2 * Sum(prio, {v}) <= G(1)
  <2>1. {v} \in SUBSET members
    OBVIOUS
  <2>2. /\ -G(Cardinality({v})) <= 2 * Sum(prio, {v})
        /\ 2 * Sum(prio, {v}) <= G(Cardinality({v}))
    BY <2>1 DEF Inv, SumsBounded
  <2> QED BY <1>1, <2>2
<1>4. G(1) = 2 * ((N - 1) * Total) /\ (N - 1) * Total \in Int
  BY Sizes DEF G
<1> QED BY <1>1, <1>2, <1>3, <1>4

(* At the end of a window every validator has had its turns and all debts   *)
(* are paid.                                                               *)
LEMMA WindowPaid ==
    ASSUME Inv, changes = 0, turn = Total
    PROVE  turns = Power /\ \A v \in Val : prio[v] = 0
<1>1. /\ members = Val /\ Sum(prio, Val) = 0
      /\ \A v \in Val : /\ prio[v] = Total * Power[v] - Total * turns[v]
                        /\ prio[v] > -Total
  BY DEF Inv, Epoch
<1>2. Total \in Nat /\ Total >= 1
  BY Sizes, RotationAssumption DEF Total
<1>3. \A v \in Val : Power[v] \in Nat /\ turns[v] \in Nat
  BY RotationAssumption DEF Inv, WindowInv
<1>4. ASSUME NEW v \in Val PROVE Power[v] - turns[v] \in Nat /\ prio[v] \in Nat
  <2>1. PICK d \in Int : d = Power[v] - turns[v]
    BY <1>3
  <2>2. prio[v] = Total * d
    BY <1>1, <1>2, <1>3, <2>1
  <2>3. d >= 0
    <3>1. SUFFICES ASSUME d <= -1 PROVE FALSE
      OBVIOUS
    <3>2. Total * d <= Total * (-1)
      BY <1>2, <3>1, TimesMonotone
    <3> QED BY <1>1, <1>2, <2>2, <3>2
  <2>4. \A i, j \in Nat : i * j \in Nat
    OBVIOUS
  <2> QED BY <1>2, <2>1, <2>2, <2>3, <2>4
<1>5. ASSUME NEW v \in Val PROVE prio[v] = 0 /\ turns[v] = Power[v]
  <2>1. prio[v] <= Sum(prio, Val)
    BY <1>4, RotationAssumption, SumAtLeast
  <2>2. prio[v] = 0
    BY <1>1, <1>4, <2>1
  <2>3. PICK d \in Nat : d = Power[v] - turns[v]
    BY <1>4
  <2>4. Total * d = 0
    BY <1>1, <1>2, <1>3, <2>2, <2>3
  <2>5. d = 0
    <3>1. SUFFICES ASSUME d >= 1 PROVE FALSE
      BY <2>3
    <3>2. Total * 1 <= Total * d
      BY <1>2, <2>3, <3>1, TimesMonotone
    <3> QED BY <1>2, <2>4, <3>2
  <2> QED BY <1>3, <2>2, <2>3, <2>5
<1>6. turns = Power
  BY <1>5, RotationAssumption DEF Inv, WindowInv
<1> QED BY <1>5, <1>6


(* The invariant holds at the start.                                       *)
LEMMA InitInv == Init => Inv
<1> SUFFICES ASSUME Init PROVE Inv
  OBVIOUS
<1>1. Val # {} /\ IsFiniteSet(Val) /\ MaxChanges \in Nat
  BY RotationAssumption
<1>2. members = Val /\ prio \in [Val -> Int] /\ proposer \in Val /\ changes = 0
  BY <1>1 DEF Init
<1>3. \A T \in SUBSET Val : Sum(prio, T) = 0
  <2> SUFFICES ASSUME NEW T \in SUBSET Val PROVE Sum(prio, T) = 0
    OBVIOUS
  <2>1. IsFiniteSet(T) /\ \A v \in T : prio[v] = 0
    BY <1>1, FS_Subset DEF Init
  <2> QED BY <2>1, SumZero
<1>4. SumsBounded(prio, members)
  <2> SUFFICES ASSUME NEW T \in SUBSET Val
               PROVE  /\ -G(Cardinality(T)) <= 2 * Sum(prio, T)
                      /\ 2 * Sum(prio, T) <= G(Cardinality(T))
    BY <1>2 DEF SumsBounded
  <2>1. Cardinality(T) \in Nat /\ Cardinality(T) <= N
    BY <1>1, FS_Subset, FS_CardinalityType DEF N
  <2>2. G(Cardinality(T)) >= 0 /\ G(Cardinality(T)) \in Int
    BY <2>1, GMonotone, GInt
  <2> QED BY <1>3, <2>2
<1>5. W(members) \in Nat /\ Total \in Nat /\ Total >= 1
  BY <1>1, <1>2, Sizes DEF Total
<1>6. WindowInv
  BY <1>5 DEF WindowInv, Init
<1>7. Epoch
  <2>1. ASSUME NEW v \in Val
        PROVE  prio[v] = turn * Power[v] - Total * turns[v] /\ prio[v] > -Total
    <3>1. prio[v] = 0 /\ turn = 0 /\ turns[v] = 0 /\ Power[v] \in Nat
      BY RotationAssumption DEF Init
    <3> QED BY <1>5, <3>1
  <2> QED BY <1>2, <1>3, <2>1 DEF Epoch
<1> QED BY <1>1, <1>2, <1>4, <1>6, <1>7 DEF Inv

(* A turn keeps everything but the count of changes and the accounts of an  *)
(* unchanged set within the invariant.                                     *)
LEMMA TurnInv ==
    ASSUME Inv, NEW S \in SUBSET Val, S # {}, Turn(S)
    PROVE  /\ members' \in (SUBSET Val) \ {{}}
           /\ prio' \in [members' -> Int]
           /\ proposer' \in Val
           /\ WindowInv'
           /\ SumsBounded(prio, members)'
<1>1. PICK p : p = carry_priorities(prio, S)
  OBVIOUS
<1>2. (\A v \in S : p[v] \in Int) /\ SumsBounded(p, S)
  BY <1>1, CarryBounded DEF Inv
<1>3. PICK q : q = select_proposer(Power, p, S, Rank)
  OBVIOUS
<1>4. q \in [S -> Int] /\ SumsBounded(q, S)
  <2>1. q \in [S -> Int]
    BY <1>2, <1>3, TurnSums
  <2> QED BY <1>2, <1>3, <2>1, TurnBounded
<1>5. members' = S /\ prio' = q /\ proposer' = ProposerOf(Power, p, S, Rank)
  BY <1>1, <1>3 DEF Turn
<1>6. proposer' \in S
  BY <1>2, <1>5, ProposerMax
<1>7. SumsBounded(prio, members)'
  BY <1>4, <1>5 DEF SumsBounded
<1>8. WindowInv'
  <2>1. W(S) \in Nat /\ W(S) >= 1 /\ W(members) \in Nat /\ members \in SUBSET Val
    BY Sizes DEF Inv
  <2>2. PICK k \in Val : k = proposer'
    BY <1>6
  <2>3. PICK fresh \in BOOLEAN : fresh = (S # members \/ turn = W(members))
    OBVIOUS
  <2>4. PICK t : t = IF fresh THEN [v \in Val |-> 0] ELSE turns
    OBVIOUS
  <2>5. turn' = (IF fresh THEN 1 ELSE turn + 1) /\ turns' = [t EXCEPT ![k] = @ + 1]
    <3>1. k = ProposerOf(Power, p, S, Rank)
      BY <1>5, <2>2
    <3> QED BY <1>1, <2>3, <2>4, <3>1 DEF Turn
  <2>6. CASE fresh
    <3>1. turns' = [[v \in Val |-> 0] EXCEPT ![k] = @ + 1] /\ turn' = 1
      BY <2>4, <2>5, <2>6
    <3>2. turns' \in [Val -> Nat] /\ \A v \in Val : turns'[v] <= 1
      BY <3>1
    <3>3. turn' \in 0..W(S)
      BY <2>1, <3>1
    <3> QED BY <1>5, <3>1, <3>2, <3>3 DEF WindowInv, W
  <2>7. CASE ~fresh
    <3>1. turns' = [turns EXCEPT ![k] = @ + 1] /\ turn' = turn + 1 /\ S = members
      BY <2>3, <2>4, <2>5, <2>7
    <3>2. turn \in 0..W(members) /\ turns \in [Val -> Nat] /\ \A v \in Val : turns[v] <= turn
      BY DEF Inv, WindowInv
    <3>3. turn' \in 0..W(S) /\ turns' \in [Val -> Nat]
      <4>1. turn # W(members)
        BY <2>3, <2>7
      <4>2. turn' \in 0..W(S)
        BY <2>1, <3>1, <3>2, <4>1
      <4>3. turns' \in [Val -> Nat]
        BY <3>1, <3>2
      <4> QED BY <4>2, <4>3
    <3>4. \A v \in Val : turns'[v] <= turn'
      BY <3>1, <3>2
    <3> QED BY <1>5, <3>3, <3>4 DEF WindowInv, W
  <2> QED BY <2>6, <2>7
<1> QED BY <1>4, <1>5, <1>6, <1>7, <1>8

(* Once more is one more time.                                             *)
LEMMA OneMoreTime == \A a, b \in Nat : (a + 1) * b = a * b + b
OBVIOUS

(* The same with the factors changed.                                      *)
LEMMA TimesOneMore == \A a, b \in Nat : b * (a + 1) = b * a + b
OBVIOUS

(* With an unchanged set a turn earns every validator its power and costs   *)
(* the proposer the total, whose priority was positive.                     *)
LEMMA SameSetEpoch ==
    ASSUME Inv, changes = 0, Turn(members)
    PROVE  /\ members' = Val
           /\ Sum(prio', Val) = 0
           /\ \A v \in Val : /\ prio'[v] = turn' * Power[v] - Total * turns'[v]
                             /\ prio'[v] > -Total
<1>1. /\ members = Val /\ Sum(prio, Val) = 0 /\ prio \in [Val -> Int]
      /\ \A v \in Val : /\ prio[v] = turn * Power[v] - Total * turns[v]
                        /\ prio[v] > -Total
      /\ turn \in Nat /\ turns \in [Val -> Nat]
  <2>1. W(members) \in Nat
    BY Sizes DEF Inv
  <2> QED BY <2>1 DEF Inv, Epoch, WindowInv
<1>2. carry_priorities(prio, Val) = prio
  BY <1>1 DEF carry_priorities
<1>3. Val # {} /\ IsFiniteSet(Val) /\ Total \in Nat /\ Total >= 1 /\ W(Val) = Total
  BY RotationAssumption, Sizes DEF Total
<1>4. PICK p, acc, k, q : /\ p = prio
                          /\ acc = Accrued(Power, p, Val)
                          /\ k = ProposerOf(Power, p, Val, Rank)
                          /\ q = select_proposer(Power, p, Val, Rank)
  OBVIOUS
<1>5. /\ k \in Val
      /\ \A v \in Val : acc[v] = p[v] + Power[v] /\ acc[v] \in Int /\ acc[v] <= acc[k]
  BY <1>1, <1>3, <1>4, ProposerMax
<1>6. /\ \A v \in Val : q[v] = acc[v] - (IF v = k THEN Total ELSE 0)
      /\ Sum(acc, Val) = Sum(p, Val) + Total
      /\ Sum(q, Val) = Sum(acc, Val) - (IF k \in Val THEN Total ELSE 0)
  <2>1. /\ \A v \in Val : q[v] = acc[v] - (IF v = k THEN W(Val) ELSE 0)
        /\ \A T \in SUBSET Val :
             /\ Sum(acc, T) = Sum(p, T) + W(T)
             /\ Sum(q, T) = Sum(acc, T) - (IF k \in T THEN W(Val) ELSE 0)
    BY <1>1, <1>3, <1>4, TurnSums
  <2> QED BY <1>3, <2>1
<1>7. acc[k] >= 1
  <2>1. SUFFICES ASSUME acc[k] <= 0 PROVE FALSE
    BY <1>5
  <2>2. Sum(acc, Val) <= Cardinality(Val) * 0
    <3>1. \A v \in Val : acc[v] \in Int /\ acc[v] <= 0
      BY <1>5, <2>1
    <3> QED BY <1>3, <3>1, SumIntAtMost
  <2>3. Cardinality(Val) * 0 = 0
    BY Sizes DEF N
  <2> QED BY <1>1, <1>3, <1>4, <1>6, <2>2, <2>3
<1>8. members' = Val /\ prio' = q
  BY <1>1, <1>2, <1>4 DEF Turn
<1>9. Sum(prio', Val) = 0
  <2>1. Sum(q, Val) = 0
    BY <1>1, <1>3, <1>4, <1>5, <1>6
  <2> QED BY <1>8, <2>1
<1>10. ASSUME NEW v \in Val
       PROVE  /\ prio'[v] = turn' * Power[v] - Total * turns'[v]
              /\ prio'[v] > -Total
  <2>1. /\ prio'[v] = (prio[v] + Power[v]) - (IF v = k THEN Total ELSE 0)
        /\ prio[v] \in Int /\ Power[v] \in Nat
    <3>1. prio[v] \in Int /\ Power[v] \in Nat
      BY <1>1, RotationAssumption
    <3>2. acc[v] = prio[v] + Power[v] /\ q[v] = acc[v] - (IF v = k THEN Total ELSE 0)
      BY <1>4, <1>5, <1>6
    <3>3. prio'[v] = q[v]
      BY <1>8
    <3> QED BY <3>1, <3>2, <3>3, Zenon
  <2>2. prio'[v] > -Total
    <3>1. CASE v = k
      <4>1. prio'[v] = acc[k] - Total
        BY <1>6, <1>8, <3>1
      <4> QED BY <1>3, <1>5, <1>7, <4>1
    <3>2. CASE v # k
      BY <1>1, <1>3, <2>1, <3>2
    <3> QED BY <3>1, <3>2
  <2>3. CASE turn = Total
    <3>1. prio[v] = 0
      BY <1>1, <2>3, WindowPaid
    <3>2. turn' = 1 /\ turns' = [[u \in Val |-> 0] EXCEPT ![k] = @ + 1]
      BY <1>1, <1>2, <1>3, <1>4, <2>3 DEF Turn
    <3>3. turns'[v] = IF v = k THEN 1 ELSE 0
      BY <1>5, <3>2
    <3> QED BY <1>3, <2>1, <2>2, <3>1, <3>2, <3>3
  <2>4. CASE turn # Total
    <3>1. turn' = turn + 1 /\ turns' = [turns EXCEPT ![k] = @ + 1]
      BY <1>1, <1>2, <1>3, <1>4, <2>4 DEF Turn
    <3>2. turns'[v] = turns[v] + (IF v = k THEN 1 ELSE 0) /\ turns[v] \in Nat
      BY <1>1, <1>5, <3>1
    <3>3. turn' * Power[v] = turn * Power[v] + Power[v]
      <4>1. (turn + 1) * Power[v] = turn * Power[v] + Power[v]
        BY <1>1, <2>1, OneMoreTime
      <4> QED BY <3>1, <4>1
    <3>4. Total * turns'[v] = Total * turns[v] + (IF v = k THEN Total ELSE 0)
      <4>1. Total * (turns[v] + 1) = Total * turns[v] + Total
        BY <1>3, <3>2, TimesOneMore
      <4>2. CASE v = k
        BY <3>2, <4>1, <4>2
      <4>3. CASE v # k
        <5>1. turns'[v] = turns[v] /\ Total * turns[v] \in Int
          BY <1>3, <3>2, <4>3
        <5> QED BY <4>3, <5>1
      <4> QED BY <4>2, <4>3
    <3>5. turn * Power[v] \in Int /\ Total * turns[v] \in Int
      BY <1>1, <1>3, <2>1, <3>2
    <3>6. prio[v] = turn * Power[v] - Total * turns[v]
      BY <1>1
    <3> QED BY <1>3, <2>1, <2>2, <3>3, <3>4, <3>5, <3>6
  <2> QED BY <2>3, <2>4
<1> QED BY <1>8, <1>9, <1>10

(* Every step keeps the invariant.                                         *)
LEMMA NextInv == Inv /\ [Next]_vars => Inv'
<1> SUFFICES ASSUME Inv, [Next]_vars PROVE Inv'
  OBVIOUS
<1>1. CASE SameSet
  <2>1. Turn(members) /\ changes' = changes
    BY <1>1 DEF SameSet
  <2>2. members \in SUBSET Val /\ members # {} /\ changes \in 0..MaxChanges
    BY DEF Inv
  <2>3. /\ members' \in (SUBSET Val) \ {{}} /\ prio' \in [members' -> Int]
        /\ proposer' \in Val /\ WindowInv' /\ SumsBounded(prio, members)'
    BY <2>1, <2>2, TurnInv
  <2>4. changes = 0 => /\ members' = Val
                       /\ Sum(prio', Val) = 0
                       /\ \A v \in Val : /\ prio'[v] = turn' * Power[v] - Total * turns'[v]
                                         /\ prio'[v] > -Total
    BY <2>1, SameSetEpoch
  <2>5. Epoch'
    BY <2>1, <2>4 DEF Epoch, Total, W
  <2> QED BY <2>1, <2>2, <2>3, <2>5 DEF Inv
<1>2. ASSUME NEW S \in (SUBSET Val) \ {{}}, ChangeSet(S)
      PROVE  Inv'
  <2>1. Turn(S) /\ changes' = changes + 1 /\ changes < MaxChanges
    BY <1>2 DEF ChangeSet
  <2>2. changes \in 0..MaxChanges /\ MaxChanges \in Nat
    BY RotationAssumption DEF Inv
  <2>3. /\ members' \in (SUBSET Val) \ {{}} /\ prio' \in [members' -> Int]
        /\ proposer' \in Val /\ WindowInv' /\ SumsBounded(prio, members)'
    BY <2>1, TurnInv
  <2>4. changes' \in 0..MaxChanges /\ changes' # 0
    BY <2>1, <2>2
  <2>5. Epoch'
    BY <2>4 DEF Epoch
  <2> QED BY <2>3, <2>4, <2>5 DEF Inv
<1>3. CASE UNCHANGED vars
  BY <1>3 DEF vars, Inv, WindowInv, SumsBounded, Epoch, Total, W
<1> QED BY <1>1, <1>2, <1>3 DEF Next

(* The invariant gives the proportional share.                             *)
LEMMA InvShare == Inv => ProportionalShare
BY WindowPaid DEF ProportionalShare, Total

(* The state keeps its shape: the counters of a window never pass the total  *)
(* power.                                                                  *)
THEOREM TypeCorrect == Spec => []TypeOK
BY InitInv, NextInv, InvTypes, PTL DEF Spec

(* Priorities of select_proposer stay within (N - 1) times the total power   *)
(* for any number of validators, any powers and any sequence of changes of   *)
(* the set: the saturating i64 arithmetic never saturates as long as that    *)
(* product fits.                                                           *)
THEOREM Bounded == Spec => []PriorityBounded
BY InitInv, NextInv, InvBounded, PTL DEF Spec

(* As long as the set does not change, select_proposer gives every          *)
(* validator exactly its power in turns per window, for any powers.          *)
THEOREM Proportional == Spec => []ProportionalShare
BY InitInv, NextInv, InvShare, PTL DEF Spec


=============================================================================
