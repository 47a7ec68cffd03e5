---------------------------- MODULE WalletProofs ----------------------------
(***************************************************************************)
(* Theorems about WebWallet, for any networks, phrases, recipients, amounts  *)
(* and bounds, and for any hash and byte order of the nodes.                *)
(***************************************************************************)
EXTENDS WebWallet, FoldProofs

(* The folds of the wallet and its node.                                    *)
TenFold   == INSTANCE FoldProofs WITH combine <- TimesTen
DigitFold == INSTANCE FoldProofs WITH combine <- AppendDigit
BlockFold == INSTANCE FoldProofs WITH combine <- ExecuteOrDrop

(* The fold of Pow10 is the one FoldProofs reasons about.                   *)
LEMMA TenFoldForm ==
    ASSUME NEW st, NEW s PROVE TenFold!Fold(st, s) = FoldLeft(TimesTen, st, s)
BY DEF TenFold!Fold, TenFold!FoldLeft, TenFold!MapThenFoldSet, TenFold!Max,
       FoldLeft, MapThenFoldSet, Max

(* So is the fold of BigInt.                                                *)
LEMMA DigitFoldForm ==
    ASSUME NEW st, NEW s PROVE DigitFold!Fold(st, s) = FoldLeft(AppendDigit, st, s)
BY DEF DigitFold!Fold, DigitFold!FoldLeft, DigitFold!MapThenFoldSet, DigitFold!Max,
       FoldLeft, MapThenFoldSet, Max

(* So is the fold of mine_block.                                            *)
LEMMA BlockFoldForm ==
    ASSUME NEW st, NEW s PROVE BlockFold!Fold(st, s) = FoldLeft(ExecuteOrDrop, st, s)
BY DEF BlockFold!Fold, BlockFold!FoldLeft, BlockFold!MapThenFoldSet, BlockFold!Max,
       FoldLeft, MapThenFoldSet, Max

-----------------------------------------------------------------------------
(* Amounts.                                                                *)

(* Each power of ten is ten times the one before.                           *)
LEMMA Powers ==
    /\ Pow10[0] = 1
    /\ \A k \in 0..Digits : Pow10[k] \in Nat
    /\ \A k \in 0..Digits : k > 0 => Pow10[k] = 10 * Pow10[k - 1]
<1> DEFINE upTo(k) == [i \in 1..k |-> i]
           pow(k) == FoldLeft(TimesTen, 1, upTo(k))
<1>0. Digits \in Nat
  BY WalletAssumption
<1>1. \A k \in 0..Digits : Pow10[k] = pow(k)
  BY DEF Pow10
<1>2. \A k \in Nat : upTo(k) \in Seq(Nat) /\ Len(upTo(k)) = k
  OBVIOUS
<1>3. pow(0) = 1
  <2>1. upTo(0) = << >>
    OBVIOUS
  <2> QED BY <2>1, TenFold!FoldEmpty, TenFoldForm
<1>4. ASSUME NEW k \in Nat PROVE pow(k + 1) = 10 * pow(k)
  <2>1. upTo(k + 1) = Append(upTo(k), k + 1)
    OBVIOUS
  <2>2. k + 1 \in Nat
    OBVIOUS
  <2> HIDE DEF upTo
  <2>3. TenFold!Fold(1, Append(upTo(k), k + 1)) = TimesTen(TenFold!Fold(1, upTo(k)), k + 1)
    BY <1>2, <2>2, TenFold!FoldAppend
  <2> QED BY <2>1, <2>3, TenFoldForm DEF TimesTen
<1> HIDE DEF pow
<1>5. \A k \in Nat : pow(k) \in Nat
  <2> DEFINE Q == {k \in Nat : pow(k) \in Nat}
  <2>1. 0 \in Q
    BY <1>3
  <2>2. ASSUME NEW k \in Nat, k \in Q PROVE k + 1 \in Q
    BY <1>4, <2>2
  <2>3. Nat \subseteq Q
    <3> HIDE DEF Q
    <3> QED BY <2>1, <2>2, NaturalInduction
  <2> QED BY <2>3
<1>6. ASSUME NEW k \in 0..Digits, k > 0 PROVE Pow10[k] = 10 * Pow10[k - 1]
  <2>1. k - 1 \in Nat /\ k - 1 \in 0..Digits /\ (k - 1) + 1 = k
    BY <1>0, <1>6
  <2>2. pow((k - 1) + 1) = 10 * pow(k - 1)
    BY <1>4, <2>1
  <2> QED BY <1>1, <2>1, <2>2
<1>7. Pow10[0] = 1
  BY <1>0, <1>1, <1>3
<1>8. \A k \in 0..Digits : Pow10[k] \in Nat
  BY <1>0, <1>1, <1>5
<1> QED BY <1>6, <1>7, <1>8

(* The digits of a string with their weights.                              *)
Weighted(s) == [i \in 1..Digits |-> s[i] * Pow10[Len(s) - i]]

(* BigInt reads a string of at most Digits digits by position.              *)
LEMMA BigIntByPosition ==
    ASSUME NEW s \in Seq(0..9), Len(s) <= Digits
    PROVE  /\ BigInt(s) \in Nat
           /\ BigInt(s) = Sum(Weighted(s), 1..Len(s))
<1> DEFINE term(q) == Weighted(q)
           Good(q) == BigInt(q) \in Nat /\ BigInt(q) = Sum(term(q), 1..Len(q))
           Q == {n \in Nat : n <= Digits =>
                    \A q \in Seq(0..9) : Len(q) = n => Good(q)}
<1>0. Digits \in Nat
  BY WalletAssumption
<1>1. 0 \in Q
  <2>1. SUFFICES ASSUME NEW q \in Seq(0..9), Len(q) = 0 PROVE Good(q)
    OBVIOUS
  <2>2. q = << >> /\ 1..0 = {}
    BY <2>1
  <2>3. BigInt(q) = 0
    BY <2>2, DigitFold!FoldEmpty, DigitFoldForm DEF BigInt
  <2>4. Sum(term(q), 1..Len(q)) = 0
    <3> HIDE DEF term
    <3> QED BY <2>1, <2>2, SumEmpty
  <2> QED BY <2>3, <2>4
<1>2. ASSUME NEW n \in Nat, n \in Q PROVE n + 1 \in Q
  <2>1. SUFFICES ASSUME n + 1 <= Digits, NEW q \in Seq(0..9), Len(q) = n + 1
                 PROVE  Good(q)
    OBVIOUS
  <2> DEFINE r == SubSeq(q, 1, n)
             x == q[n + 1]
  <2>2. x \in 0..9 /\ x \in Nat /\ \A i \in 1..n + 1 : q[i] \in Nat
    BY <2>1
  <2>3. r \in Seq(0..9) /\ Len(r) = n /\ \A i \in 1..n : r[i] = q[i]
    <3>1. \A i \in 1..n : q[i] \in 0..9
      BY <2>1
    <3> QED BY <2>1, <3>1, SubSeqProperties
  <2>4. q = Append(r, x)
    <3> HIDE DEF r
    <3>1. /\ Append(r, x) \in Seq(0..9) /\ Len(Append(r, x)) = n + 1
          /\ \A i \in 1..n + 1 : Append(r, x)[i] = q[i]
      BY <2>2, <2>3
    <3> QED BY <2>1, <3>1, SeqEqual
  <2>5. BigInt(q) = 10 * BigInt(r) + x
    <3> HIDE DEF r, x
    <3>1. DigitFold!Fold(0, Append(r, x)) = AppendDigit(DigitFold!Fold(0, r), x)
      BY <2>2, <2>3, DigitFold!FoldAppend
    <3> QED BY <2>4, <3>1, DigitFoldForm DEF BigInt, AppendDigit
  <2>6. BigInt(r) \in Nat /\ BigInt(r) = Sum(term(r), 1..n)
    <3>1. Good(r)
      <4> HIDE DEF r, Good
      <4> QED BY <1>0, <1>2, <2>1, <2>3
    <3> QED BY <2>3, <3>1
  <2>7. \A i \in 1..n : term(r)[i] \in Nat /\ term(q)[i] = 10 * term(r)[i]
    <3>1. SUFFICES ASSUME NEW i \in 1..n
                   PROVE  term(r)[i] \in Nat /\ term(q)[i] = 10 * term(r)[i]
      OBVIOUS
    <3>2. i \in 1..Digits /\ n - i \in 0..Digits /\ (n + 1) - i \in 0..Digits
          /\ (n + 1) - i > 0 /\ ((n + 1) - i) - 1 = n - i
      BY <1>0, <2>1
    <3>3. Pow10[(n + 1) - i] = 10 * Pow10[n - i] /\ Pow10[n - i] \in Nat
      BY <3>2, Powers
    <3>4. term(r)[i] = q[i] * Pow10[n - i] /\ term(q)[i] = q[i] * Pow10[(n + 1) - i]
      BY <2>1, <2>3, <3>2 DEF Weighted
    <3>5. q[i] \in Nat
      BY <2>2
    <3>6. ASSUME NEW a \in Nat, NEW b \in Nat PROVE a * (10 * b) = 10 * (a * b) /\ a * b \in Nat
      OBVIOUS
    <3> HIDE DEF term
    <3> QED BY <3>3, <3>4, <3>5, <3>6
  <2>8. term(q)[n + 1] = x
    <3>1. n + 1 \in 1..Digits /\ (n + 1) - (n + 1) = 0
      BY <1>0, <2>1
    <3>2. term(q)[n + 1] = q[n + 1] * Pow10[0]
      BY <2>1, <3>1 DEF Weighted
    <3> QED BY <2>2, <3>2, Powers
  <2>9. /\ IsFiniteSet(1..n) /\ IsFiniteSet(1..n + 1) /\ n + 1 \in 1..n + 1
        /\ (1..n + 1) \ {n + 1} = 1..n
    <3>1. IsFiniteSet(1..n) /\ IsFiniteSet(1..n + 1)
      BY FS_Interval
    <3>2. n + 1 \in 1..n + 1 /\ (1..n + 1) \ {n + 1} = 1..n
      OBVIOUS
    <3> QED BY <3>1, <3>2
  <2> HIDE DEF term, r, x
  <2>10. Sum(term(q), 1..n) = 10 * Sum(term(r), 1..n)
    BY <2>7, <2>9, SumScale
  <2>11. Sum(term(q), 1..n + 1) = term(q)[n + 1] + Sum(term(q), 1..n)
    <3>1. \A i \in 1..n + 1 : term(q)[i] \in Nat
      <4>1. \A i \in 1..n : term(q)[i] \in Nat
        BY <2>7
      <4>2. \A i \in 1..n + 1 : i \in 1..n \/ i = n + 1
        OBVIOUS
      <4> QED BY <2>2, <2>8, <4>1, <4>2
    <3>2. Sum(term(q), 1..n + 1) = term(q)[n + 1] + Sum(term(q), (1..n + 1) \ {n + 1})
      <4> DEFINE B == 1..n + 1
      <4>1. IsFiniteSet(B) /\ n + 1 \in B /\ \A i \in B : term(q)[i] \in Nat
        BY <2>9, <3>1
      <4> HIDE DEF B
      <4>2. Sum(term(q), B) = term(q)[n + 1] + Sum(term(q), B \ {n + 1})
        BY <4>1, SumRemove
      <4> QED BY <4>2 DEF B
    <3> QED BY <2>9, <3>2
  <2>12. Sum(term(q), 1..Len(q)) = 10 * BigInt(r) + x
    BY <2>1, <2>2, <2>6, <2>8, <2>10, <2>11
  <2>13. BigInt(q) \in Nat
    BY <2>2, <2>5, <2>6
  <2> QED BY <2>5, <2>12, <2>13
<1>3. Nat \subseteq Q
  <2> HIDE DEF Q
  <2> QED BY <1>1, <1>2, NaturalInduction
<1>4. Len(s) \in Nat
  OBVIOUS
<1>5. Good(s)
  <2> HIDE DEF Good
  <2> QED BY <1>3, <1>4
<1> QED BY <1>5

(* What is signed for an amount is what its digits are worth: leading zeros   *)
(* count, missing places are zeros, surplus places are cut off.              *)
LEMMA DigitsExact ==
    ASSUME NEW a \in Typed
    PROVE  sprxToAtto(a) = DigitsWorth(a) /\ DigitsWorth(a) \in Nat
<1> DEFINE f == a.frac
           D == {k \in DOMAIN f : k <= Digits}
           E == (1..Digits) \ D
           worth == [k \in 1..Digits |-> f[k] * Pow10[Digits - k]]
           p == places(f)
           term == Weighted(p)
<1>0. Digits \in Nat /\ f \in Seq(0..9) /\ a.whole \in Nat
  BY WalletAssumption
<1>1. p \in Seq(0..9) /\ Len(p) = Digits
        /\ \A k \in 1..Digits : p[k] = IF k <= Len(f) THEN f[k] ELSE 0
  <2>1. \A k \in 1..Digits : (IF k <= Len(f) THEN f[k] ELSE 0) \in 0..9
    BY <1>0
  <2> QED BY <1>0, <2>1 DEF places
<1>2. BigInt(p) = Sum(term, 1..Digits) /\ BigInt(p) \in Nat
  <2>1. BigInt(p) = Sum(Weighted(p), 1..Len(p)) /\ BigInt(p) \in Nat
    <3> HIDE DEF p
    <3> QED BY <1>0, <1>1, BigIntByPosition
  <2> QED BY <1>1, <2>1
<1>3. IsFiniteSet(D) /\ IsFiniteSet(E) /\ D \cap E = {} /\ D \cup E = 1..Digits
  <2>1. D \subseteq 1..Digits
    BY <1>0
  <2>2. IsFiniteSet(1..Digits)
    BY <1>0, FS_Interval
  <2>3. IsFiniteSet(D) /\ IsFiniteSet(E)
    <3> HIDE DEF D
    <3> QED BY <2>1, <2>2, FS_Subset
  <2> QED BY <2>1, <2>3
<1>4. \A k \in D : term[k] = worth[k] /\ term[k] \in Nat
  <2>1. SUFFICES ASSUME NEW k \in D PROVE term[k] = worth[k] /\ term[k] \in Nat
    OBVIOUS
  <2>2. k \in 1..Digits /\ k <= Len(f) /\ Digits - k \in 0..Digits
    BY <1>0
  <2>3. term[k] = f[k] * Pow10[Digits - k] /\ worth[k] = f[k] * Pow10[Digits - k]
    BY <1>1, <2>2 DEF Weighted
  <2>4. f[k] \in Nat
    <3>1. k \in 1..Len(f) /\ f \in Seq(0..9)
      BY <1>0, <2>2
    <3>2. f[k] \in 0..9
      <4> HIDE DEF f, D, E, worth, p, term
      <4> QED BY <3>1, ElementOfSeq
    <3> QED BY <3>2
  <2>5. Pow10[Digits - k] \in Nat
    BY <2>2, Powers
  <2> QED BY <2>3, <2>4, <2>5
<1>5. \A k \in E : term[k] = 0
  <2>1. SUFFICES ASSUME NEW k \in E PROVE term[k] = 0
    OBVIOUS
  <2>2. k \in 1..Digits /\ ~ (k <= Len(f)) /\ Digits - k \in 0..Digits
    BY <1>0
  <2>3. term[k] = 0 * Pow10[Digits - k] /\ Pow10[Digits - k] \in Nat
    BY <1>1, <2>2, Powers DEF Weighted
  <2> QED BY <2>3
<1> HIDE DEF D, E, term, worth, p
<1>6. Sum(term, 1..Digits) = Sum(term, D) + Sum(term, E)
  <2>1. \A k \in D \cup E : term[k] \in Nat
    BY <1>4, <1>5
  <2>2. Sum(term, D \cup E) = Sum(term, D) + Sum(term, E)
    BY <1>3, <2>1, SumDisjoint
  <2> QED BY <1>3, <2>2
<1>7. Sum(term, D) = Sum(worth, D) /\ Sum(term, E) = 0 /\ Sum(worth, D) \in Nat
  BY <1>3, <1>4, <1>5, SumSame, SumZero, SumNat
<1>8. BigInt(places(a.frac)) = Sum(worth, D)
  BY <1>2, <1>6, <1>7 DEF p
<1>9. a.whole * ATTO_PER_SPRX \in Nat
  <2>1. Pow10[Digits] \in Nat
    BY <1>0, Powers
  <2> QED BY <1>0, <2>1 DEF ATTO_PER_SPRX
<1>10. DigitsWorth(a) = a.whole * ATTO_PER_SPRX + Sum(worth, D)
  BY DEF DigitsWorth, worth, D
<1> QED BY <1>7, <1>8, <1>9, <1>10 DEF sprxToAtto

(* What is signed for an amount is what was asked for: an exponent is either    *)
(* absent, or cut off, or makes the signing throw.                           *)
LEMMA AmountAsAsked ==
    ASSUME NEW a \in Typed, ~ signThrows(a)
    PROVE  sprxToAtto(a) = AskedAtto(a)
<1>1. a.exp \in Nat /\ Len(a.frac) \in Nat /\ Digits \in Nat
  BY WalletAssumption
<1>2. a.exp = 0 \/ Len(a.frac) >= Digits
  BY <1>1 DEF signThrows
<1>3. AskedAtto(a) = DigitsWorth(a)
  BY <1>1, <1>2 DEF AskedAtto, CutOff, Worth
<1> QED BY <1>3, DigitsExact

-----------------------------------------------------------------------------
(* The inductive invariant.                                                *)

(* A phrase is known when the password step is reached.                     *)
PhraseKnown ==
    /\ onboarding.step \in {"create", "verify"} => onboarding.generated # None
    /\ onboarding.step = "password" =>
         onboarding.generated # None \/ onboarding.imported # None

(* One open dialog has at most one call under way, and a closed dialog has   *)
(* none: openSend starts from a fresh form.                                 *)
Mine(i) == sends[i].attached /\ Active(sends[i])

DialogInv ==
    /\ \A i, j \in DOMAIN sends : Mine(i) /\ Mine(j) => i = j
    /\ form.submitting <=> \E i \in DOMAIN sends : Mine(i)
    /\ ~ sendOpen => \A i \in DOMAIN sends : ~ sends[i].attached

(* What a call holds at each of its awaits: nothing signed before the nonce   *)
(* has come, and then the signed form of what was asked.                     *)
SendsInv ==
    \A i \in DOMAIN sends :
        /\ sends[i].pc = "nonce" => sends[i].tx = NoTx
        /\ sends[i].pc \in {"nonce", "post"} => ~ sends[i].accepted
        /\ sends[i].pc \in {"post", "answer", "sent"} \/ sends[i].accepted =>
             sends[i].tx # NoTx
        /\ sends[i].tx # NoTx => \E k \in Nat : sends[i].tx = signedTx(sends[i], i, k)
        /\ sends[i].pc = "sent" => sends[i].accepted

(* What a node holds was posted by the call it names, to that node.          *)
OriginInv ==
    \A n \in Networks : \A t \in Range(node[n].pool) \cup node[n].paid :
        /\ t.by \in DOMAIN sends
        /\ sends[t.by].tx = t /\ sends[t.by].net = n /\ sends[t.by].accepted

(* Between two blocks nothing is executed: all of the pool could be next.     *)
PoolInv ==
    \A n \in Networks : \A t \in Range(node[n].pool) :
        ValidStatic(n, t) /\ CanExecute(node[n], t)

(* An accepted transaction is pooled, paid, or overtaken by a paid one of    *)
(* the same account.                                                       *)
Taken(s) ==
    \/ s.tx \in Range(node[s.net].pool) \cup node[s.net].paid
    \/ /\ s.tx.nonce < node[s.net].nonce[s.tx.key]
       /\ \E u \in node[s.net].paid : u.sender = s.tx.sender /\ u.nonce >= s.tx.nonce

TakenInv == \A i \in DOMAIN sends : sends[i].accepted => Taken(sends[i])

NodeInv == SendsInv /\ OriginInv /\ PoolInv /\ TakenInv

Inv == TypeOK /\ PhraseKnown /\ DialogInv /\ NodeInv

-----------------------------------------------------------------------------
(* What the steps have in common.                                           *)

(* The elements of a sequence are its values at its positions.              *)
LEMMA MembersOfSeq ==
    ASSUME NEW S, NEW s \in Seq(S)
    PROVE  /\ DOMAIN s = 1..Len(s) /\ Len(s) \in Nat
           /\ Range(s) \subseteq S
           /\ \A x : x \in Range(s) <=> \E i \in 1..Len(s) : x = s[i]
<1>1. DOMAIN s = 1..Len(s) /\ Len(s) \in Nat
  OBVIOUS
<1>2. \A i \in 1..Len(s) : s[i] \in S
  OBVIOUS
<1>3. \A x : x \in Range(s) <=> \E i \in 1..Len(s) : x = s[i]
  BY <1>1 DEF Range
<1>4. Range(s) \subseteq S
  BY <1>2, <1>3
<1> QED BY <1>1, <1>3, <1>4

(* A number of calls under way is at most the total that is bounded.         *)
LEMMA UnderTotal ==
    ASSUME NEW S, IsFiniteSet(S), NEW m \in Nat, NEW f \in [S -> 0..m], NEW k \in S,
           Total(f) < m
    PROVE  [f EXCEPT ![k] = @ + 1] \in [S -> 0..m]
<1>1. f[k] <= Sum(f, S)
  <2>1. \A x \in S : f[x] \in Nat
    OBVIOUS
  <2> QED BY <2>1, SumAtLeast
<1>2. Sum(f, S) < m
  BY DEF Total
<1>3. Sum(f, S) \in Nat
  <2>1. \A x \in S : f[x] \in Nat
    OBVIOUS
  <2> QED BY <2>1, SumNat
<1>4. f[k] + 1 \in 0..m
  <2>1. f[k] \in 0..m
    OBVIOUS
  <2> QED BY <1>1, <1>2, <1>3, <2>1
<1> QED BY <1>4

(* There are finitely many balances to ask for.                             *)
LEMMA FetchKeys == IsFiniteSet(Networks \X Phrases)
BY WalletAssumption, FS_Product

(* One call replaced by another record.                                     *)
LEMMA OneSend ==
    ASSUME TypeOK, NEW i \in DOMAIN sends, NEW e \in SendRecord,
           sends' = [sends EXCEPT ![i] = e]
    PROVE  /\ sends' \in Seq(SendRecord) /\ Len(sends') = Len(sends)
           /\ DOMAIN sends' = DOMAIN sends
           /\ sends'[i] = e
           /\ \A j \in DOMAIN sends : j # i => sends'[j] = sends[j]
<1>1. sends \in Seq(SendRecord)
  BY DEF TypeOK
<1>2. i \in 1..Len(sends)
  BY <1>1
<1>3. sends' \in Seq(SendRecord) /\ Len(sends') = Len(sends)
  BY <1>1, <1>2, ExceptSeq
<1> QED BY <1>1, <1>2, <1>3

(* All calls detached from their dialog.                                    *)
LEMMA Detached ==
    ASSUME NEW ss \in Seq(SendRecord)
    PROVE  /\ DetachAll(ss) \in Seq(SendRecord) /\ Len(DetachAll(ss)) = Len(ss)
           /\ DOMAIN DetachAll(ss) = DOMAIN ss
           /\ \A i \in DOMAIN ss : DetachAll(ss)[i] = [ss[i] EXCEPT !.attached = FALSE]
<1>1. \A i \in DOMAIN ss : [ss[i] EXCEPT !.attached = FALSE] \in SendRecord
  <2>1. \A r \in SendRecord : [r EXCEPT !.attached = FALSE] \in SendRecord
    BY DEF SendRecord
  <2> QED BY <2>1
<1>2. DOMAIN ss = 1..Len(ss) /\ Len(ss) \in Nat
  OBVIOUS
<1>3. DetachAll(ss) \in [1..Len(ss) -> SendRecord]
  BY <1>1, <1>2 DEF DetachAll
<1>4. DetachAll(ss) \in Seq(SendRecord)
  BY <1>2, <1>3, SeqDef
<1> QED BY <1>2, <1>3, <1>4 DEF DetachAll

(* A step that leaves the nodes alone, and the requests and transactions of   *)
(* the calls, keeps what is known of nodes: a call may fail, and may end       *)
(* well if it was accepted.                                                 *)
SameCalls ==
    /\ DOMAIN sends' = DOMAIN sends
    /\ \A i \in DOMAIN sends :
         /\ sends'[i].net = sends[i].net /\ sends'[i].from = sends[i].from
         /\ sends'[i].to = sends[i].to /\ sends'[i].amount = sends[i].amount
         /\ sends'[i].tx = sends[i].tx /\ sends'[i].accepted = sends[i].accepted
         /\ \/ sends'[i].pc \in {sends[i].pc, "failed"}
            \/ sends'[i].pc = "sent" /\ sends[i].accepted

(* Such a step keeps what is known of calls and nodes.                      *)
LEMMA SameCallsKeep ==
    ASSUME NodeInv, SameCalls, node' = node
    PROVE  NodeInv'
<1>1. SendsInv'
  <2> SUFFICES ASSUME NEW i \in DOMAIN sends
               PROVE  /\ sends'[i].pc = "nonce" => sends'[i].tx = NoTx
                      /\ sends'[i].pc \in {"nonce", "post"} => ~ sends'[i].accepted
                      /\ sends'[i].pc \in {"post", "answer", "sent"} \/ sends'[i].accepted =>
                           sends'[i].tx # NoTx
                      /\ sends'[i].tx # NoTx =>
                           \E k \in Nat : sends'[i].tx = signedTx(sends'[i], i, k)
                      /\ sends'[i].pc = "sent" => sends'[i].accepted
    BY DEF SameCalls, SendsInv
  <2>1. \A k : signedTx(sends'[i], i, k) = signedTx(sends[i], i, k)
    BY DEF SameCalls, signedTx
  <2>2. /\ sends[i].pc = "nonce" => sends[i].tx = NoTx
        /\ sends[i].pc \in {"nonce", "post"} => ~ sends[i].accepted
        /\ sends[i].pc \in {"post", "answer", "sent"} \/ sends[i].accepted =>
             sends[i].tx # NoTx
        /\ sends[i].tx # NoTx => \E k \in Nat : sends[i].tx = signedTx(sends[i], i, k)
        /\ sends[i].pc = "sent" => sends[i].accepted
    BY DEF NodeInv, SendsInv
  <2>3. /\ sends'[i].tx = sends[i].tx /\ sends'[i].accepted = sends[i].accepted
        /\ \/ sends'[i].pc \in {sends[i].pc, "failed"}
           \/ sends'[i].pc = "sent" /\ sends[i].accepted
    BY DEF SameCalls
  <2> QED BY <2>1, <2>2, <2>3
<1>2. OriginInv'
  BY DEF NodeInv, OriginInv, SameCalls
<1>3. PoolInv'
  BY DEF NodeInv, PoolInv
<1>4. TakenInv'
  <2>1. \A i \in DOMAIN sends : Taken(sends[i])' <=> Taken(sends[i])
    BY DEF SameCalls, Taken
  <2> QED BY <2>1 DEF NodeInv, TakenInv, SameCalls
<1> QED BY <1>1, <1>2, <1>3, <1>4 DEF NodeInv

-----------------------------------------------------------------------------
(* Onboarding and the dashboard: no call and no node is touched.             *)

(* A step that touches no dialog, no call and no node.                      *)
LEMMA QuietStep ==
    ASSUME Inv, TypeOK', PhraseKnown', UNCHANGED <<sendOpen, form, sends, node>>
    PROVE  Inv'
<1>1. DialogInv'
  <2>1. \A i : Mine(i)' <=> Mine(i)
    BY DEF Mine
  <2> QED BY <2>1 DEF Inv, DialogInv
<1>2. SameCalls
  BY DEF SameCalls
<1>3. NodeInv'
  BY <1>2, SameCallsKeep DEF Inv
<1> QED BY <1>1, <1>3 DEF Inv

(* What a component starts with has its type.                               *)
LEMMA FreshTyped ==
    /\ FreshOnboarding \in [step : {"choose", "create", "verify", "import", "password"},
                            generated : Phrases \cup {None}, imported : Phrases \cup {None},
                            error : BOOLEAN]
    /\ FreshForm \in [submitting : BOOLEAN, error : BOOLEAN]
    /\ NoFetches \in [Networks \X Phrases -> 0..MaxFetching]
<1>1. 0 \in 0..MaxFetching
  BY WalletAssumption
<1> QED BY <1>1 DEF FreshOnboarding, FreshForm, NoFetches

(* A step of onboarding that stores the phrase before it asks for a         *)
(* password.                                                                *)
LEMMA OnboardingStepKeeps ==
    ASSUME Inv, NEW step \in {"choose", "create", "verify", "import", "password"},
           NEW g \in Phrases \cup {None}, NEW m \in Phrases \cup {None}, NEW e \in BOOLEAN,
           step \in {"create", "verify"} => g # None,
           step = "password" => g # None \/ m # None,
           onboarding' = [step |-> step, generated |-> g, imported |-> m, error |-> e],
           UNCHANGED <<network, account, encrypting, sendOpen, form, sends, shown,
                       fetching, node>>
    PROVE  Inv'
<1>1. TypeOK'
  BY DEF Inv, TypeOK
<1>2. PhraseKnown'
  BY DEF PhraseKnown
<1> QED BY <1>1, <1>2, QuietStep

(* Every step of onboarding, the encryption included.                       *)
LEMMA OnboardingKeeps ==
    ASSUME Inv, OnboardingNext
    PROVE  Inv'
<1> DEFINE o == onboarding
           Rest == UNCHANGED <<network, account, encrypting, sendOpen, form, sends, shown,
                               fetching, node>>
<1>0. /\ o = [step |-> o.step, generated |-> o.generated, imported |-> o.imported,
              error |-> o.error]
      /\ o.step \in {"choose", "create", "verify", "import", "password"}
      /\ o.generated \in Phrases \cup {None} /\ o.imported \in Phrases \cup {None}
      /\ o.error \in BOOLEAN
      /\ TypeOK /\ PhraseKnown
  BY DEF Inv, TypeOK
<1>a. \A p \in Phrases : p # None
  BY WalletAssumption
<1>1. CASE handleStartCreate
  <2>1. PICK p \in Phrases : onboarding' = [o EXCEPT !.step = "create", !.generated = p]
    BY <1>1 DEF handleStartCreate, OnboardingStep
  <2>2. onboarding' = [step |-> "create", generated |-> p, imported |-> o.imported,
                       error |-> o.error]
    BY <1>0, <2>1
  <2>3. Rest
    BY <1>1 DEF handleStartCreate, OnboardingStep
  <2> QED BY <1>0, <1>a, <2>2, <2>3, OnboardingStepKeeps
<1>2. CASE handleVerifyStep
  <2>1. onboarding' = [o EXCEPT !.step = "verify"] /\ o.step = "create" /\ Rest
    BY <1>2 DEF handleVerifyStep, Onboarding, OnboardingStep
  <2>2. onboarding' = [step |-> "verify", generated |-> o.generated,
                       imported |-> o.imported, error |-> o.error]
    BY <1>0, <2>1
  <2>3. o.generated # None
    BY <1>0, <2>1 DEF PhraseKnown
  <2> QED BY <1>0, <2>1, <2>2, <2>3, OnboardingStepKeeps
<1>3. CASE handleCheckWord
  <2>1. \/ onboarding' = [o EXCEPT !.error = FALSE, !.step = "password"]
        \/ onboarding' = [o EXCEPT !.error = TRUE]
    <3>1. PICK correct \in BOOLEAN :
            onboarding' = [o EXCEPT !.error = ~correct,
                                    !.step = IF correct THEN "password" ELSE @]
      BY <1>3 DEF handleCheckWord, OnboardingStep
    <3>2. CASE correct = TRUE
      BY <1>0, <3>1, <3>2
    <3>3. CASE correct = FALSE
      BY <1>0, <3>1, <3>3
    <3> QED BY <3>2, <3>3
  <2>2. o.step = "verify" /\ o.generated # None /\ Rest
    BY <1>0, <1>3 DEF handleCheckWord, Onboarding, OnboardingStep, PhraseKnown
  <2>3. CASE onboarding' = [o EXCEPT !.error = FALSE, !.step = "password"]
    <3>1. onboarding' = [step |-> "password", generated |-> o.generated,
                         imported |-> o.imported, error |-> FALSE]
      BY <1>0, <2>3
    <3> QED BY <1>0, <2>2, <3>1, OnboardingStepKeeps
  <2>4. CASE onboarding' = [o EXCEPT !.error = TRUE]
    <3>1. onboarding' = [step |-> o.step, generated |-> o.generated,
                         imported |-> o.imported, error |-> TRUE]
      BY <1>0, <2>4
    <3> QED BY <1>0, <2>2, <3>1, OnboardingStepKeeps
  <2> QED BY <2>1, <2>3, <2>4
<1>4. CASE chooseImport
  <2>1. onboarding' = [o EXCEPT !.step = "import"] /\ Rest
    BY <1>4 DEF chooseImport, OnboardingStep
  <2>2. onboarding' = [step |-> "import", generated |-> o.generated,
                       imported |-> o.imported, error |-> o.error]
    BY <1>0, <2>1
  <2> QED BY <1>0, <2>1, <2>2, OnboardingStepKeeps
<1>5. CASE handleImportMnemonic
  <2>0. o.step = "import" /\ Rest
    BY <1>5 DEF handleImportMnemonic, Onboarding, OnboardingStep
  <2>1. CASE onboarding' = [o EXCEPT !.error = TRUE]
    <3>1. onboarding' = [step |-> o.step, generated |-> o.generated,
                         imported |-> o.imported, error |-> TRUE]
      BY <1>0, <2>1
    <3> QED BY <1>0, <2>0, <3>1, OnboardingStepKeeps
  <2>2. ASSUME NEW p \in Phrases,
               onboarding' = [o EXCEPT !.error = FALSE, !.imported = p, !.step = "password"]
        PROVE  Inv'
    <3>1. onboarding' = [step |-> "password", generated |-> o.generated,
                         imported |-> p, error |-> FALSE]
      BY <1>0, <2>2
    <3> QED BY <1>0, <1>a, <2>0, <3>1, OnboardingStepKeeps
  <2> QED BY <1>5, <2>1, <2>2 DEF handleImportMnemonic, OnboardingStep
<1>6. CASE passwordRefused
  <2>1. o.step = "password" /\ onboarding' = [o EXCEPT !.error = TRUE] /\ Rest
    BY <1>6 DEF passwordRefused, Onboarding, OnboardingStep
  <2>2. onboarding' = [step |-> o.step, generated |-> o.generated,
                       imported |-> o.imported, error |-> TRUE]
    BY <1>0, <2>1
  <2>3. o.generated # None \/ o.imported # None
    BY <1>0, <2>1 DEF PhraseKnown
  <2> QED BY <1>0, <2>1, <2>2, <2>3, OnboardingStepKeeps
<1>7. CASE handleCompletePassword
  <2>1. /\ Total(encrypting) < MaxEncrypting
        /\ encrypting' = [encrypting EXCEPT ![mnemonicToSave] = @ + 1]
        /\ UNCHANGED <<network, account, onboarding, sendOpen, form, sends, shown,
                       fetching, node>>
    BY <1>7 DEF handleCompletePassword
  <2>2. mnemonicToSave \in Phrases
    BY <1>0, <1>7 DEF handleCompletePassword, Onboarding, PhraseKnown, mnemonicToSave
  <2>3. encrypting' \in [Phrases -> 0..MaxEncrypting]
    <3>1. encrypting \in [Phrases -> 0..MaxEncrypting] /\ MaxEncrypting \in Nat
          /\ IsFiniteSet(Phrases)
      BY <1>0, WalletAssumption DEF TypeOK
    <3> QED BY <2>1, <2>2, <3>1, UnderTotal
  <2>4. TypeOK'
    BY <1>0, <2>1, <2>3 DEF TypeOK
  <2>5. PhraseKnown'
    BY <1>0, <2>1 DEF PhraseKnown
  <2> QED BY <2>1, <2>4, <2>5, QuietStep
<1>8. ASSUME NEW p \in Phrases, vaultEncrypted(p) \/ vaultFailed(p)
      PROVE  Inv'
  <2>1. encrypting[p] > 0 /\ encrypting' = [encrypting EXCEPT ![p] = @ - 1]
    BY <1>8 DEF vaultEncrypted, vaultFailed
  <2>2. encrypting' \in [Phrases -> 0..MaxEncrypting]
    <3>1. encrypting \in [Phrases -> 0..MaxEncrypting] /\ MaxEncrypting \in Nat
      BY <1>0, WalletAssumption DEF TypeOK
    <3>2. encrypting[p] \in 0..MaxEncrypting
      BY <3>1
    <3>3. encrypting[p] - 1 \in 0..MaxEncrypting
      BY <2>1, <3>1, <3>2
    <3> QED BY <2>1, <3>1, <3>3
  <2>3. UNCHANGED <<network, sendOpen, form, sends, node>>
    BY <1>8 DEF vaultEncrypted, vaultFailed
  <2>4. CASE vaultFailed(p)
    <3>1. UNCHANGED <<account, onboarding, shown, fetching>>
      BY <2>4 DEF vaultFailed
    <3>2. TypeOK'
      BY <1>0, <2>2, <2>3, <3>1 DEF TypeOK
    <3>3. PhraseKnown'
      BY <1>0, <3>1 DEF PhraseKnown
    <3> QED BY <2>3, <3>2, <3>3, QuietStep
  <2>5. CASE vaultEncrypted(p)
    <3>1. account' = p /\ onboarding' = FreshOnboarding /\ shown' \in {Zero, shown}
      BY <2>5 DEF vaultEncrypted
    <3>2. fetching' \in [Networks \X Phrases -> 0..MaxFetching]
      <4>1. /\ fetching \in [Networks \X Phrases -> 0..MaxFetching] /\ MaxFetching \in Nat
            /\ <<network, p>> \in Networks \X Phrases
        BY <1>0, WalletAssumption DEF TypeOK
      <4>2. \/ fetching' = fetching
            \/ /\ Total(fetching) < MaxFetching
               /\ fetching' = [fetching EXCEPT ![<<network, p>>] = @ + 1]
        BY <2>5 DEF vaultEncrypted
      <4>3. Total(fetching) < MaxFetching =>
              [fetching EXCEPT ![<<network, p>>] = @ + 1] \in [Networks \X Phrases -> 0..MaxFetching]
        BY <4>1, UnderTotal, FetchKeys
      <4> QED BY <4>1, <4>2, <4>3, Zenon
    <3>3. TypeOK'
      <4>1. shown' \in (Networks \X Phrases) \cup {Zero}
        BY <1>0, <3>1 DEF TypeOK
      <4> QED BY <1>0, <2>2, <2>3, <3>1, <3>2, <4>1, FreshTyped DEF TypeOK
    <3>4. PhraseKnown'
      BY <3>1 DEF PhraseKnown, FreshOnboarding
    <3> QED BY <2>3, <3>3, <3>4, QuietStep
  <2> QED BY <1>8, <2>4, <2>5
<1> QED BY <1>1, <1>2, <1>3, <1>4, <1>5, <1>6, <1>7, <1>8 DEF OnboardingNext

(* The balance: every request under way is counted once.                     *)
LEMMA BalanceKeeps ==
    ASSUME Inv,
           \/ \E n \in Networks : setNetwork(n)
           \/ intervalFires
           \/ \E k \in Networks \X Phrases : balanceAnswered(k) \/ balanceFailed(k)
    PROVE  Inv'
<1>0. /\ TypeOK /\ PhraseKnown
      /\ fetching \in [Networks \X Phrases -> 0..MaxFetching] /\ MaxFetching \in Nat
  BY WalletAssumption DEF Inv, TypeOK
<1>1. UNCHANGED <<account, onboarding, encrypting, sendOpen, form, sends, node>>
  BY DEF setNetwork, intervalFires, balanceAnswered, balanceFailed,
     BalanceRead
<1>2. network' \in Networks
  BY <1>0 DEF TypeOK, setNetwork, intervalFires, balanceAnswered, balanceFailed,
     BalanceRead
<1>3. shown' \in (Networks \X Phrases) \cup {Zero}
  BY <1>0 DEF TypeOK, setNetwork, intervalFires, balanceAnswered, balanceFailed,
     BalanceRead
<1>4. fetching' \in [Networks \X Phrases -> 0..MaxFetching]
  <2>1. \/ fetching' = fetching
        \/ \E k \in Networks \X Phrases :
             /\ Total(fetching) < MaxFetching
             /\ fetching' = [fetching EXCEPT ![k] = @ + 1]
        \/ \E k \in Networks \X Phrases :
             fetching[k] > 0 /\ fetching' = [fetching EXCEPT ![k] = @ - 1]
    <3>1. account # None => account \in Phrases
      BY <1>0 DEF TypeOK
    <3>2. network \in Networks
      BY <1>0 DEF TypeOK
    <3>3. ASSUME NEW n \in Networks, setNetwork(n)
          PROVE  \/ fetching' = fetching
                 \/ /\ Total(fetching) < MaxFetching
                    /\ <<n, account>> \in Networks \X Phrases
                    /\ fetching' = [fetching EXCEPT ![<<n, account>>] = @ + 1]
      BY <3>1, <3>3 DEF setNetwork
    <3>4. ASSUME intervalFires
          PROVE  /\ Total(fetching) < MaxFetching
                 /\ <<network, account>> \in Networks \X Phrases
                 /\ fetching' = [fetching EXCEPT ![<<network, account>>] = @ + 1]
      BY <3>1, <3>2, <3>4 DEF intervalFires
    <3>5. ASSUME NEW k \in Networks \X Phrases, balanceAnswered(k) \/ balanceFailed(k)
          PROVE  fetching[k] > 0 /\ fetching' = [fetching EXCEPT ![k] = @ - 1]
      BY <3>5 DEF balanceAnswered, balanceFailed, BalanceRead
    <3> QED BY <3>3, <3>4, <3>5
  <2>2. ASSUME NEW k \in Networks \X Phrases, fetching[k] > 0,
               fetching' = [fetching EXCEPT ![k] = @ - 1]
        PROVE  fetching' \in [Networks \X Phrases -> 0..MaxFetching]
    <3>1. fetching[k] - 1 \in 0..MaxFetching
      <4>1. fetching[k] \in 0..MaxFetching
        BY <1>0
      <4> QED BY <1>0, <2>2, <4>1
    <3> QED BY <1>0, <2>2, <3>1
  <2>3. ASSUME NEW k \in Networks \X Phrases, Total(fetching) < MaxFetching,
               fetching' = [fetching EXCEPT ![k] = @ + 1]
        PROVE  fetching' \in [Networks \X Phrases -> 0..MaxFetching]
    BY <1>0, <2>3, UnderTotal, FetchKeys
  <2> QED BY <1>0, <2>1, <2>2, <2>3
<1>5. TypeOK'
  BY <1>0, <1>1, <1>2, <1>3, <1>4 DEF TypeOK
<1>6. PhraseKnown'
  BY <1>0, <1>1 DEF PhraseKnown
<1> QED BY <1>1, <1>5, <1>6, QuietStep

-----------------------------------------------------------------------------
(* The Send dialog.                                                         *)

(* When every call is detached and the form is fresh, nothing is under way   *)
(* for the dialog.                                                          *)
LEMMA AllDetached ==
    ASSUME \A i \in DOMAIN sends' : ~ sends'[i].attached, form' = FreshForm
    PROVE  DialogInv'
<1>1. \A i \in DOMAIN sends' : ~ Mine(i)'
  BY DEF Mine
<1>2. form'.submitting = FALSE
  BY DEF FreshForm
<1> QED BY <1>1, <1>2 DEF DialogInv

(* Only the mark of the dialog is taken off the calls.                       *)
LEMMA DetachKeeps ==
    ASSUME Inv, sends' = DetachAll(sends), form' = FreshForm, node' = node
    PROVE  /\ DialogInv' /\ NodeInv'
           /\ sends' \in Seq(SendRecord) /\ Len(sends') = Len(sends)
<1>1. sends \in Seq(SendRecord)
  BY DEF Inv, TypeOK
<1>2. /\ sends' \in Seq(SendRecord) /\ Len(sends') = Len(sends)
      /\ DOMAIN sends' = DOMAIN sends
      /\ \A i \in DOMAIN sends : sends'[i] = [sends[i] EXCEPT !.attached = FALSE]
  BY <1>1, Detached
<1>3. \A i \in DOMAIN sends : sends[i] \in SendRecord
  BY <1>1
<1>4. \A i \in DOMAIN sends :
        /\ ~ sends'[i].attached /\ sends'[i].pc = sends[i].pc
        /\ sends'[i].net = sends[i].net /\ sends'[i].from = sends[i].from
        /\ sends'[i].to = sends[i].to /\ sends'[i].amount = sends[i].amount
        /\ sends'[i].tx = sends[i].tx /\ sends'[i].accepted = sends[i].accepted
  BY <1>2, <1>3 DEF SendRecord
<1>5. DialogInv'
  BY <1>2, <1>4, AllDetached
<1>6. SameCalls
  BY <1>2, <1>4 DEF SameCalls
<1>7. NodeInv'
  BY <1>6, SameCallsKeep DEF Inv
<1> QED BY <1>2, <1>5, <1>7

(* Locking the wallet under a call: the call goes on, its dialog is gone.   *)
LEMMA LockKeeps ==
    ASSUME Inv, handleLockWallet
    PROVE  Inv'
<1>1. /\ account' = None /\ onboarding' = FreshOnboarding /\ form' = FreshForm
      /\ sends' = DetachAll(sends) /\ shown' = Zero /\ fetching' = NoFetches
      /\ UNCHANGED <<network, encrypting, sendOpen, node>>
  BY DEF handleLockWallet
<1>2. /\ DialogInv' /\ NodeInv'
      /\ sends' \in Seq(SendRecord) /\ Len(sends') = Len(sends)
  BY <1>1, DetachKeeps
<1>3. TypeOK'
  BY <1>1, <1>2, FreshTyped DEF Inv, TypeOK
<1>4. PhraseKnown'
  BY <1>1 DEF PhraseKnown, FreshOnboarding
<1> QED BY <1>2, <1>3, <1>4 DEF Inv

(* Closing the dialog under a call.                                         *)
LEMMA CloseKeeps ==
    ASSUME Inv, closeSend
    PROVE  Inv'
<1>1. /\ sendOpen' = FALSE /\ form' = FreshForm /\ sends' = DetachAll(sends)
      /\ UNCHANGED <<network, account, onboarding, encrypting, shown, fetching, node>>
  BY DEF closeSend
<1>2. /\ DialogInv' /\ NodeInv'
      /\ sends' \in Seq(SendRecord) /\ Len(sends') = Len(sends)
  BY <1>1, DetachKeeps
<1>3. TypeOK'
  BY <1>1, <1>2, FreshTyped DEF Inv, TypeOK
<1>4. PhraseKnown'
  BY <1>1 DEF Inv, PhraseKnown
<1> QED BY <1>2, <1>3, <1>4 DEF Inv

(* A dialog opens without a call: the last one left with its own.            *)
LEMMA OpenKeeps ==
    ASSUME Inv, openSend
    PROVE  Inv'
<1>1. /\ ~ sendOpen /\ sendOpen' = TRUE /\ form' = FreshForm
      /\ UNCHANGED <<network, account, onboarding, encrypting, sends, shown,
                     fetching, node>>
  BY DEF openSend
<1>2. DialogInv'
  BY <1>1, AllDetached DEF Inv, DialogInv
<1>3. TypeOK'
  BY <1>1, FreshTyped DEF Inv, TypeOK
<1>4. PhraseKnown'
  BY <1>1 DEF Inv, PhraseKnown
<1>5. NodeInv'
  <2>1. SameCalls
    BY <1>1 DEF SameCalls
  <2> QED BY <1>1, <2>1, SameCallsKeep DEF Inv
<1> QED BY <1>2, <1>3, <1>4, <1>5 DEF Inv

(* A refused form shows its error and starts no call.                       *)
LEMMA RefusedKeeps ==
    ASSUME Inv, NEW r \in Recipients, NEW a \in Typed, handleSendRefused(r, a)
    PROVE  Inv'
<1>1. /\ form' = [form EXCEPT !.error = TRUE]
      /\ UNCHANGED <<network, account, onboarding, encrypting, shown, fetching,
                     sendOpen, sends, node>>
  BY DEF handleSendRefused, Untouched
<1>2. form' \in [submitting : BOOLEAN, error : BOOLEAN] /\ form'.submitting = form.submitting
  BY <1>1 DEF Inv, TypeOK
<1>3. TypeOK'
  BY <1>1, <1>2 DEF Inv, TypeOK
<1>4. DialogInv'
  <2>1. \A i : Mine(i)' <=> Mine(i)
    BY <1>1 DEF Mine
  <2> QED BY <1>1, <1>2, <2>1 DEF Inv, DialogInv
<1>5. PhraseKnown'
  BY <1>1 DEF Inv, PhraseKnown
<1>6. NodeInv'
  <2>1. SameCalls
    BY <1>1 DEF SameCalls
  <2> QED BY <1>1, <2>1, SameCallsKeep DEF Inv
<1> QED BY <1>3, <1>4, <1>5, <1>6 DEF Inv

(* A call starts: no other of this dialog is under way.                      *)
LEMMA SendKeeps ==
    ASSUME Inv, NEW r \in Recipients, NEW a \in Typed, handleSend(r, a)
    PROVE  Inv'
<1> DEFINE e == NewSend(r, a)
<1>0. PICK n \in Nat : n = Len(sends) + 1
  BY DEF Inv, TypeOK
<1>1. /\ SendShown /\ ~ form.submitting /\ Len(sends) < MaxSends
      /\ form' = [submitting |-> TRUE, error |-> FALSE]
      /\ sends' = Append(sends, e)
      /\ UNCHANGED <<network, account, onboarding, encrypting, shown, fetching,
                     sendOpen, node>>
  BY DEF handleSend, StartSend, Untouched
<1>2. e \in SendRecord
  BY <1>1 DEF Inv, TypeOK, SendShown, NewSend, SendRecord
<1>3. sends \in Seq(SendRecord) /\ Len(sends) \in Nat /\ DOMAIN sends = 1..Len(sends)
  BY DEF Inv, TypeOK
<1>4. /\ sends' \in Seq(SendRecord) /\ Len(sends') = n /\ DOMAIN sends' = 1..n
      /\ sends'[n] = e /\ \A i \in DOMAIN sends : sends'[i] = sends[i]
      /\ DOMAIN sends' = DOMAIN sends \cup {n} /\ n \notin DOMAIN sends
  <2> HIDE DEF e
  <2>1. /\ sends' \in Seq(SendRecord) /\ Len(sends') = n
        /\ sends'[n] = e /\ \A i \in DOMAIN sends : sends'[i] = sends[i]
    BY <1>0, <1>1, <1>2, <1>3
  <2>2. DOMAIN sends' = 1..n
    BY <2>1
  <2>3. 1..n = (1..Len(sends)) \cup {n} /\ n \notin 1..Len(sends)
    BY <1>0, <1>3
  <2> QED BY <1>3, <2>1, <2>2, <2>3
<1>5. /\ e.pc = "nonce" /\ e.tx = NoTx /\ ~ e.accepted /\ e.attached
  BY DEF NewSend
<1> HIDE DEF e
<1>6. TypeOK'
  <2>1. Len(sends') <= MaxSends
    BY <1>0, <1>1, <1>3, <1>4, WalletAssumption
  <2>2. form' \in [submitting : BOOLEAN, error : BOOLEAN]
    BY <1>1
  <2> QED BY <1>1, <1>4, <2>1, <2>2 DEF Inv, TypeOK
<1>7. DialogInv'
  <2>1. \A i \in DOMAIN sends : ~ Mine(i)
    BY <1>1 DEF Inv, DialogInv
  <2>2. \A i \in DOMAIN sends : Mine(i)' <=> Mine(i)
    BY <1>4 DEF Mine
  <2>3. Mine(n)'
    BY <1>4, <1>5 DEF Mine, Active
  <2>4. sendOpen' /\ form'.submitting
    BY <1>1 DEF SendShown
  <2> QED BY <1>4, <2>1, <2>2, <2>3, <2>4 DEF DialogInv
<1>8. PhraseKnown'
  BY <1>1 DEF Inv, PhraseKnown
<1>9. NodeInv'
  <2>1. SendsInv'
    <3>1. SendsInv
      BY DEF Inv, NodeInv
    <3> QED BY <1>4, <1>5, <3>1 DEF SendsInv
  <2>2. OriginInv'
    <3>1. OriginInv
      BY DEF Inv, NodeInv
    <3> QED BY <1>1, <1>4, <3>1 DEF OriginInv
  <2>3. PoolInv'
    BY <1>1 DEF Inv, NodeInv, PoolInv
  <2>4. TakenInv'
    <3>1. \A i \in DOMAIN sends : Taken(sends[i])' <=> Taken(sends[i])
      BY <1>1, <1>4 DEF Taken
    <3>2. TakenInv
      BY DEF Inv, NodeInv
    <3> QED BY <1>4, <1>5, <3>1, <3>2 DEF TakenInv
  <2> QED BY <2>1, <2>2, <2>3, <2>4 DEF NodeInv
<1> QED BY <1>6, <1>7, <1>8, <1>9 DEF Inv

-----------------------------------------------------------------------------
(* The awaits of a call.                                                    *)

(* The other variables of a step of a call.                                 *)
LEMMA CallFrame ==
    ASSUME Inv, UNCHANGED Untouched,
           sendOpen' \in BOOLEAN, form' \in [submitting : BOOLEAN, error : BOOLEAN],
           sends' \in Seq(SendRecord), Len(sends') = Len(sends),
           node' \in [Networks -> NodeRecord]
    PROVE  TypeOK' /\ PhraseKnown'
<1>1. TypeOK'
  BY DEF Inv, TypeOK, Untouched
<1>2. PhraseKnown'
  BY DEF Inv, PhraseKnown, Untouched
<1> QED BY <1>1, <1>2

(* A call that goes on keeps the button disabled.                            *)
LEMMA GoesOn ==
    ASSUME Inv, NEW i \in DOMAIN sends, Active(sends[i]), Active(sends[i])',
           DOMAIN sends' = DOMAIN sends, sends'[i].attached = sends[i].attached,
           \A j \in DOMAIN sends : j # i => sends'[j] = sends[j],
           UNCHANGED <<form, sendOpen>>
    PROVE  DialogInv'
<1>1. \A j \in DOMAIN sends : Mine(j)' <=> Mine(j)
  <2>1. Mine(i)' <=> Mine(i)
    BY DEF Mine
  <2>2. \A j \in DOMAIN sends : j # i => (Mine(j)' <=> Mine(j))
    BY DEF Mine, Active
  <2> QED BY <2>1, <2>2
<1>2. \A j \in DOMAIN sends : sends'[j].attached = sends[j].attached
  OBVIOUS
<1> QED BY <1>1, <1>2 DEF Inv, DialogInv

(* A call that fails enables the button of the dialog it is attached        *)
(* to, if any.                                                              *)
LEMMA FailKeeps ==
    ASSUME Inv, NEW i \in DOMAIN sends, Active(sends[i]), SendFails(i), node' = node
    PROVE  Inv'
<1> DEFINE e == [sends[i] EXCEPT !.pc = "failed"]
<1>1. /\ sends' = [sends EXCEPT ![i] = e]
      /\ form' = IF sends[i].attached THEN [submitting |-> FALSE, error |-> TRUE] ELSE form
      /\ UNCHANGED Untouched /\ sendOpen' = sendOpen
  BY DEF SendFails
<1>2. sends \in Seq(SendRecord) /\ sends[i] \in SendRecord /\ TypeOK
  BY DEF Inv, TypeOK
<1>3. /\ e \in SendRecord /\ e.pc = "failed" /\ e.net = sends[i].net /\ e.from = sends[i].from
      /\ e.to = sends[i].to /\ e.amount = sends[i].amount /\ e.tx = sends[i].tx
      /\ e.accepted = sends[i].accepted /\ e.attached = sends[i].attached
  BY <1>2 DEF SendRecord
<1> HIDE DEF e
<1>4. /\ sends' \in Seq(SendRecord) /\ Len(sends') = Len(sends)
      /\ DOMAIN sends' = DOMAIN sends /\ sends'[i] = e
      /\ \A j \in DOMAIN sends : j # i => sends'[j] = sends[j]
  BY <1>1, <1>2, <1>3, OneSend
<1>5. TypeOK' /\ PhraseKnown'
  <2>1. form' \in [submitting : BOOLEAN, error : BOOLEAN] /\ sendOpen' \in BOOLEAN
    BY <1>1, <1>2 DEF TypeOK
  <2>2. node' \in [Networks -> NodeRecord]
    BY <1>2 DEF TypeOK
  <2> QED BY <1>1, <1>4, <2>1, <2>2, CallFrame
<1>6. NodeInv'
  <2>1. SameCalls
    BY <1>3, <1>4 DEF SameCalls
  <2> QED BY <2>1, SameCallsKeep DEF Inv
<1>7. DialogInv'
  <2>1. ~ Mine(i)' /\ \A j \in DOMAIN sends : j # i => (Mine(j)' <=> Mine(j))
    BY <1>3, <1>4 DEF Mine, Active
  <2>2. CASE sends[i].attached
    <3>1. Mine(i) /\ form'.submitting = FALSE
      BY <1>1, <2>2 DEF Mine
    <3>2. \A j \in DOMAIN sends : ~ Mine(j)'
      BY <2>1, <3>1 DEF Inv, DialogInv
    <3>3. sendOpen'
      BY <1>1, <2>2 DEF Inv, DialogInv
    <3> QED BY <1>4, <3>1, <3>2, <3>3 DEF DialogInv
  <2>3. CASE ~ sends[i].attached
    <3>1. ~ Mine(i) /\ form' = form
      BY <1>1, <2>3 DEF Mine
    <3>2. \A j \in DOMAIN sends : Mine(j)' <=> Mine(j)
      BY <2>1, <3>1
    <3>3. \A j \in DOMAIN sends : sends'[j].attached = sends[j].attached
      BY <1>3, <1>4
    <3> QED BY <1>1, <1>4, <3>1, <3>2, <3>3 DEF Inv, DialogInv
  <2> QED BY <2>2, <2>3
<1> QED BY <1>5, <1>6, <1>7 DEF Inv

(* The answer that says "submitted" closes whatever dialog is open.          *)
LEMMA SuccessKeeps ==
    ASSUME Inv, NEW i \in DOMAIN sends, broadcastAnswered(i)
    PROVE  Inv'
<1> DEFINE e == [sends[i] EXCEPT !.pc = "sent"]
           ss == [sends EXCEPT ![i] = e]
<1>1. /\ sends[i].accepted /\ sendOpen' = FALSE /\ form' = FreshForm
      /\ sends' = DetachAll(ss) /\ UNCHANGED Untouched /\ node' = node
  BY DEF broadcastAnswered, SendSucceeds
<1>2. sends \in Seq(SendRecord) /\ sends[i] \in SendRecord /\ TypeOK
      /\ i \in 1..Len(sends) /\ DOMAIN sends = 1..Len(sends)
  BY DEF Inv, TypeOK
<1>3. /\ e \in SendRecord /\ e.pc = "sent" /\ e.net = sends[i].net /\ e.from = sends[i].from
      /\ e.to = sends[i].to /\ e.amount = sends[i].amount /\ e.tx = sends[i].tx
      /\ e.accepted = sends[i].accepted
  BY <1>2 DEF SendRecord
<1> HIDE DEF e
<1>4. /\ ss \in Seq(SendRecord) /\ Len(ss) = Len(sends) /\ DOMAIN ss = DOMAIN sends
      /\ ss[i] = e /\ \A j \in DOMAIN sends : j # i => ss[j] = sends[j]
  <2>1. ss \in Seq(SendRecord) /\ Len(ss) = Len(sends)
    BY <1>2, <1>3, ExceptSeq
  <2> QED BY <1>2, <2>1
<1> HIDE DEF ss
<1>5. /\ sends' \in Seq(SendRecord) /\ Len(sends') = Len(sends)
      /\ DOMAIN sends' = DOMAIN sends
      /\ \A j \in DOMAIN sends : sends'[j] = [ss[j] EXCEPT !.attached = FALSE]
  BY <1>1, <1>4, Detached
<1>6. \A j \in DOMAIN sends :
        /\ ~ sends'[j].attached /\ sends'[j].pc = ss[j].pc
        /\ sends'[j].net = ss[j].net /\ sends'[j].from = ss[j].from
        /\ sends'[j].to = ss[j].to /\ sends'[j].amount = ss[j].amount
        /\ sends'[j].tx = ss[j].tx /\ sends'[j].accepted = ss[j].accepted
  <2>1. \A j \in DOMAIN sends : ss[j] \in SendRecord
    BY <1>4
  <2> QED BY <1>5, <2>1 DEF SendRecord
<1>7. TypeOK' /\ PhraseKnown'
  <2>1. node' \in [Networks -> NodeRecord]
    BY <1>1, <1>2 DEF TypeOK
  <2> QED BY <1>1, <1>5, <2>1, CallFrame, FreshTyped
<1>8. DialogInv'
  BY <1>1, <1>5, <1>6, AllDetached
<1>9. NodeInv'
  <2>1. SameCalls
    <3>1. /\ sends'[i].net = sends[i].net /\ sends'[i].from = sends[i].from
          /\ sends'[i].to = sends[i].to /\ sends'[i].amount = sends[i].amount
          /\ sends'[i].tx = sends[i].tx /\ sends'[i].accepted = sends[i].accepted
          /\ sends'[i].pc = "sent" /\ sends[i].accepted
      BY <1>1, <1>3, <1>4, <1>6
    <3>2. \A j \in DOMAIN sends : j # i =>
            /\ sends'[j].net = sends[j].net /\ sends'[j].from = sends[j].from
            /\ sends'[j].to = sends[j].to /\ sends'[j].amount = sends[j].amount
            /\ sends'[j].tx = sends[j].tx /\ sends'[j].accepted = sends[j].accepted
            /\ sends'[j].pc = sends[j].pc
      BY <1>4, <1>6
    <3> QED BY <1>5, <3>1, <3>2 DEF SameCalls
  <2> QED BY <1>1, <2>1, SameCallsKeep DEF Inv
<1> QED BY <1>7, <1>8, <1>9 DEF Inv

(* The nonce has come: the call signs what was asked for.                    *)
LEMMA PostKeeps ==
    ASSUME Inv, NEW i \in DOMAIN sends, NEW k \in Nat,
           sends[i].pc = "nonce",
           sends' = [sends EXCEPT ![i].pc = "post", ![i].tx = signedTx(sends[i], i, k)],
           UNCHANGED Untouched, UNCHANGED <<sendOpen, form, node>>
    PROVE  Inv'
<1> DEFINE s == sends[i]
           t == signedTx(s, i, k)
           e == [s EXCEPT !.pc = "post", !.tx = t]
<1>1. /\ sends \in Seq(SendRecord) /\ s \in SendRecord /\ TypeOK
      /\ i \in 1..MaxSends
  <2>1. sends \in Seq(SendRecord) /\ Len(sends) <= MaxSends /\ TypeOK
    BY DEF Inv, TypeOK
  <2>2. i \in 1..Len(sends) /\ Len(sends) \in Nat /\ MaxSends \in Nat
    BY <2>1, WalletAssumption
  <2> QED BY <2>1, <2>2
<1>2. t \in SignedTx
  <2>1. sprxToAtto(s.amount) \in Nat
    <3>1. s.amount \in Typed
      BY <1>1 DEF SendRecord
    <3> QED BY <3>1, DigitsExact
  <2>2. /\ s.net \in Networks /\ s.from \in Phrases /\ s.to \in Recipients
    BY <1>1 DEF SendRecord
  <2> QED BY <1>1, <2>1, <2>2 DEF signedTx, SignedTx, deriveAccount, parseToBytes
<1>3. t.by = i
  BY DEF signedTx
<1>4. t # NoTx
  <2>1. t.by # 0
    BY <1>1, <1>3
  <2>2. NoTx.by = 0
    BY DEF NoTx
  <2> QED BY <2>1, <2>2
<1>5. \A r : r.net = s.net /\ r.from = s.from /\ r.to = s.to /\ r.amount = s.amount
        => signedTx(r, i, k) = t
  BY DEF signedTx
<1> HIDE DEF t
<1>6. sends' = [sends EXCEPT ![i] = e]
  BY DEF t
<1>7. /\ e \in SendRecord /\ e.pc = "post" /\ e.net = s.net /\ e.from = s.from
      /\ e.to = s.to /\ e.amount = s.amount /\ e.tx = t
      /\ e.accepted = s.accepted /\ e.attached = s.attached
  BY <1>1, <1>2 DEF SendRecord
<1> HIDE DEF e
<1>8. /\ sends' \in Seq(SendRecord) /\ Len(sends') = Len(sends)
      /\ DOMAIN sends' = DOMAIN sends /\ sends'[i] = e
      /\ \A j \in DOMAIN sends : j # i => sends'[j] = sends[j]
  BY <1>1, <1>6, <1>7, OneSend
<1>9. TypeOK' /\ PhraseKnown'
  <2>1. /\ form' \in [submitting : BOOLEAN, error : BOOLEAN] /\ sendOpen' \in BOOLEAN
        /\ node' \in [Networks -> NodeRecord]
    BY <1>1 DEF TypeOK
  <2> QED BY <1>8, <2>1, CallFrame
<1>10. DialogInv'
  <2>1. Active(sends[i]) /\ Active(sends[i])'
    BY <1>7, <1>8 DEF Active
  <2> QED BY <1>7, <1>8, <2>1, GoesOn
<1>11. ~ s.accepted
  BY DEF Inv, NodeInv, SendsInv
<1>12. SendsInv'
  <2>1. SendsInv
    BY DEF Inv, NodeInv
  <2>2. ASSUME NEW j \in DOMAIN sends, j # i
        PROVE  sends'[j] = sends[j]
    BY <1>8, <2>2
  <2>3. /\ sends'[i].pc = "post" /\ ~ sends'[i].accepted /\ sends'[i].tx # NoTx
        /\ sends'[i].tx = signedTx(sends'[i], i, k)
    <3>1. signedTx(e, i, k) = t
      BY <1>5, <1>7
    <3> HIDE DEF s
    <3> QED BY <1>4, <1>7, <1>8, <1>11, <3>1
  <2>4. ASSUME NEW j \in DOMAIN sends
        PROVE  /\ sends'[j].pc = "nonce" => sends'[j].tx = NoTx
               /\ sends'[j].pc \in {"nonce", "post"} => ~ sends'[j].accepted
               /\ sends'[j].pc \in {"post", "answer", "sent"} \/ sends'[j].accepted =>
                    sends'[j].tx # NoTx
               /\ sends'[j].tx # NoTx =>
                    \E c \in Nat : sends'[j].tx = signedTx(sends'[j], j, c)
               /\ sends'[j].pc = "sent" => sends'[j].accepted
    <3>1. CASE j = i
      BY <2>3, <3>1
    <3>2. CASE j # i
      BY <2>1, <2>2, <3>2 DEF SendsInv
    <3> QED BY <3>1, <3>2
  <2> QED BY <1>8, <2>4 DEF SendsInv
<1>13. OriginInv'
  <2>1. OriginInv
    BY DEF Inv, NodeInv
  <2> QED BY <1>8, <1>11, <2>1 DEF OriginInv
<1>14. PoolInv'
  BY DEF Inv, NodeInv, PoolInv
<1>15. TakenInv'
  <2>1. \A j \in DOMAIN sends : j # i => (Taken(sends[j])' <=> Taken(sends[j]))
    BY <1>8 DEF Taken
  <2>2. TakenInv
    BY DEF Inv, NodeInv
  <2>3. ~ sends'[i].accepted
    BY <1>7, <1>8, <1>11
  <2> QED BY <1>8, <2>1, <2>2, <2>3 DEF TakenInv
<1> QED BY <1>9, <1>10, <1>12, <1>13, <1>14, <1>15 DEF Inv, NodeInv

(* getAccountNonce answers: the account's nonce, or 0.                       *)
LEMMA NonceKeeps ==
    ASSUME Inv, NEW i \in DOMAIN sends, nonceAnswered(i)
    PROVE  Inv'
<1> DEFINE s == sends[i]
<1>1. PICK k \in {node[s.net].nonce[s.from], 0} : signAndPost(i, k)
  BY DEF nonceAnswered, Nonces
<1>2. k \in Nat
  <2>1. s \in SendRecord /\ node \in [Networks -> NodeRecord]
    BY DEF Inv, TypeOK
  <2>2. s.net \in Networks /\ s.from \in Phrases
    BY <2>1 DEF SendRecord
  <2>3. node[s.net].nonce \in [Phrases -> Nat]
    BY <2>1, <2>2 DEF NodeRecord
  <2> QED BY <2>2, <2>3
<1>3. s.pc = "nonce" /\ node' = node
  BY DEF nonceAnswered
<1>4. CASE SendFails(i)
  BY <1>3, <1>4, FailKeeps DEF Active
<1>5. CASE ~ SendFails(i)
  <2>1. /\ sends' = [sends EXCEPT ![i].pc = "post", ![i].tx = signedTx(sends[i], i, k)]
        /\ UNCHANGED Untouched /\ UNCHANGED <<sendOpen, form>>
    BY <1>1, <1>5 DEF signAndPost
  <2> QED BY <1>2, <1>3, <2>1, PostKeeps
<1> QED BY <1>4, <1>5

(* The node decides on the broadcast and the call waits for the answer: what   *)
(* it takes is marked as accepted in the same step.                          *)
LEMMA ReceivedKeeps ==
    ASSUME Inv, NEW i \in DOMAIN sends, broadcastReceived(i)
    PROVE  Inv'
<1> DEFINE s == sends[i]
           n == s.net
           t == s.tx
           ok == handle_rest_broadcast(n, t)
           e == [s EXCEPT !.pc = "answer", !.accepted = ok]
<1>1. /\ s.pc = "post"
      /\ node' = IF ok THEN [node EXCEPT ![n].pool = Append(@, t)] ELSE node
      /\ sends' = [sends EXCEPT ![i] = e]
      /\ UNCHANGED Untouched /\ UNCHANGED <<sendOpen, form>>
  BY DEF broadcastReceived
<1>2. /\ sends \in Seq(SendRecord) /\ s \in SendRecord /\ TypeOK
      /\ node \in [Networks -> NodeRecord]
  BY DEF Inv, TypeOK
<1>3. ok \in BOOLEAN
  BY DEF handle_rest_broadcast, submit_transaction, parse_address
<1>4. /\ e \in SendRecord /\ e.pc = "answer" /\ e.net = s.net /\ e.from = s.from
      /\ e.to = s.to /\ e.amount = s.amount /\ e.tx = s.tx
      /\ e.accepted = ok /\ e.attached = s.attached
  <2> HIDE DEF ok
  <2> QED BY <1>2, <1>3 DEF SendRecord
<1> HIDE DEF e
<1>5. /\ sends' \in Seq(SendRecord) /\ Len(sends') = Len(sends)
      /\ DOMAIN sends' = DOMAIN sends /\ sends'[i] = e
      /\ \A j \in DOMAIN sends : j # i => sends'[j] = sends[j]
  BY <1>1, <1>2, <1>4, OneSend
<1>6. SendsInv /\ OriginInv /\ PoolInv /\ TakenInv
  BY DEF Inv, NodeInv
<1>7. ~ s.accepted /\ t # NoTx /\ \E k \in Nat : t = signedTx(s, i, k)
  BY <1>1, <1>6 DEF SendsInv
<1>8. t \in SignedTx /\ n \in Networks /\ t.by = i
  <2>1. t \in SignedTx /\ n \in Networks
    BY <1>2, <1>7 DEF SendRecord
  <2> QED BY <1>7, <2>1 DEF signedTx
<1>9. \A k : signedTx(e, i, k) = signedTx(s, i, k)
  BY <1>4 DEF signedTx
<1>10. DialogInv'
  <2>1. Active(sends[i]) /\ Active(sends[i])'
    BY <1>1, <1>4, <1>5 DEF Active
  <2> QED BY <1>1, <1>4, <1>5, <2>1, GoesOn
<1>11. SendsInv'
  <2>1. /\ sends'[i].pc = "answer" /\ sends'[i].tx # NoTx
        /\ \E k \in Nat : sends'[i].tx = signedTx(sends'[i], i, k)
    BY <1>4, <1>5, <1>7, <1>9
  <2> QED BY <1>5, <1>6, <2>1 DEF SendsInv
<1>12. \A j \in DOMAIN sends :
         /\ sends'[j].tx = sends[j].tx /\ sends'[j].net = sends[j].net
         /\ j # i => sends'[j].accepted = sends[j].accepted
  BY <1>4, <1>5
<1>13. CASE ~ ok
  <2>1. node' = node
    BY <1>1, <1>13
  <2>2. TypeOK' /\ PhraseKnown'
    <3>1. /\ form' \in [submitting : BOOLEAN, error : BOOLEAN] /\ sendOpen' \in BOOLEAN
          /\ node' \in [Networks -> NodeRecord]
      BY <1>1, <1>2, <2>1 DEF TypeOK
    <3> QED BY <1>1, <1>5, <3>1, CallFrame
  <2>3. ~ sends'[i].accepted
    BY <1>4, <1>5, <1>13
  <2>4. OriginInv'
    BY <1>5, <1>6, <1>7, <1>12, <2>1 DEF OriginInv
  <2>5. PoolInv'
    BY <1>6, <2>1 DEF PoolInv
  <2>6. TakenInv'
    <3>1. \A j \in DOMAIN sends : Taken(sends[j])' <=> Taken(sends[j])
      BY <1>12, <2>1 DEF Taken
    <3> QED BY <1>5, <1>6, <1>12, <2>3, <3>1 DEF TakenInv
  <2> QED BY <1>10, <1>11, <2>2, <2>4, <2>5, <2>6 DEF Inv, NodeInv
<1>14. CASE ok
  <2> DEFINE d == node[n]
             q == Append(d.pool, t)
  <2>1. d \in NodeRecord /\ d.pool \in Seq(SignedTx)
    BY <1>2, <1>8 DEF NodeRecord
  <2>2. node' = [node EXCEPT ![n] = [d EXCEPT !.pool = q]]
    BY <1>1, <1>14
  <2>3. q \in Seq(SignedTx) /\ Range(q) = Range(d.pool) \cup {t}
    <3>1. /\ q \in Seq(SignedTx) /\ Len(q) = Len(d.pool) + 1 /\ Len(d.pool) \in Nat
          /\ \A j \in 1..Len(d.pool) : q[j] = d.pool[j]
          /\ q[Len(d.pool) + 1] = t
      <4> HIDE DEF d, t
      <4> QED BY <1>8, <2>1
    <3>2. \A j \in 1..Len(d.pool) + 1 : j \in 1..Len(d.pool) \/ j = Len(d.pool) + 1
      BY <3>1
    <3>3. \A j \in 1..Len(d.pool) : j \in 1..Len(d.pool) + 1
      BY <3>1
    <3>4. Len(d.pool) + 1 \in 1..Len(d.pool) + 1
      BY <3>1
    <3>5. /\ \A x : x \in Range(q) <=> \E j \in 1..Len(q) : x = q[j]
          /\ \A x : x \in Range(d.pool) <=> \E j \in 1..Len(d.pool) : x = d.pool[j]
      <4> HIDE DEF d, q
      <4> QED BY <2>1, <3>1, MembersOfSeq
    <3> HIDE DEF d, q, t
    <3> QED BY <3>1, <3>2, <3>3, <3>4, <3>5
  <2> HIDE DEF q
  <2>4. /\ node' \in [Networks -> NodeRecord]
        /\ node'[n].pool = q /\ node'[n].paid = d.paid
        /\ node'[n].nonce = d.nonce /\ node'[n].balance = d.balance
        /\ \A m \in Networks : m # n => node'[m] = node[m]
    <3>1. [d EXCEPT !.pool = q] \in NodeRecord
      BY <2>1, <2>3 DEF NodeRecord
    <3>2. node'[n] = [d EXCEPT !.pool = q]
      BY <1>2, <1>8, <2>2
    <3>3. /\ node'[n].pool = q /\ node'[n].paid = d.paid
          /\ node'[n].nonce = d.nonce /\ node'[n].balance = d.balance
      BY <2>1, <3>2 DEF NodeRecord
    <3> QED BY <1>2, <2>2, <3>1, <3>3
  <2>5. TypeOK' /\ PhraseKnown'
    <3>1. form' \in [submitting : BOOLEAN, error : BOOLEAN] /\ sendOpen' \in BOOLEAN
      BY <1>1, <1>2 DEF TypeOK
    <3> QED BY <1>1, <1>5, <2>4, <3>1, CallFrame
  <2>6. sends'[i].accepted
    BY <1>4, <1>5, <1>14
  <2>7. \A m \in Networks :
          /\ node'[m].paid = node[m].paid
          /\ node'[m].nonce = node[m].nonce /\ node'[m].balance = node[m].balance
          /\ Range(node[m].pool) \subseteq Range(node'[m].pool)
          /\ \A u \in Range(node'[m].pool) : u \in Range(node[m].pool) \/ (u = t /\ m = n)
    BY <2>3, <2>4
  <2> HIDE DEF d
  <2>8. OriginInv'
    <3> SUFFICES ASSUME NEW m \in Networks,
                        NEW u \in Range(node'[m].pool) \cup node'[m].paid
                 PROVE  /\ u.by \in DOMAIN sends
                        /\ sends'[u.by].tx = u /\ sends'[u.by].net = m
                        /\ sends'[u.by].accepted
      BY <1>5 DEF OriginInv
    <3>1. CASE u \in Range(node[m].pool) \cup node[m].paid
      <4>1. /\ u.by \in DOMAIN sends /\ sends[u.by].tx = u /\ sends[u.by].net = m
            /\ sends[u.by].accepted
        BY <1>6, <3>1 DEF OriginInv
      <4> QED BY <1>12, <2>6, <4>1
    <3>2. CASE u = t /\ m = n
      BY <1>8, <1>12, <2>6, <3>2
    <3> QED BY <2>7, <3>1, <3>2
  <2>9. PoolInv'
    <3> SUFFICES ASSUME NEW m \in Networks, NEW u \in Range(node'[m].pool)
                 PROVE  ValidStatic(m, u) /\ CanExecute(node'[m], u)
      BY DEF PoolInv
    <3>1. ValidStatic(m, u) /\ CanExecute(node[m], u)
      <4>1. ok => ValidStatic(n, t) /\ CanExecute(node[n], t)
        BY DEF handle_rest_broadcast, submit_transaction
      <4> QED BY <1>6, <1>14, <2>7, <4>1 DEF PoolInv
    <3> QED BY <2>7, <3>1 DEF CanExecute
  <2>10. TakenInv'
    <3> SUFFICES ASSUME NEW j \in DOMAIN sends, sends'[j].accepted
                 PROVE  Taken(sends[j])'
      BY <1>5 DEF TakenInv
    <3>1. CASE j = i
      <4>1. sends'[j].tx = t /\ sends'[j].net = n
        BY <1>12, <3>1
      <4>2. t \in Range(node'[n].pool)
        BY <2>3, <2>4
      <4> QED BY <4>1, <4>2 DEF Taken
    <3>2. CASE j # i
      <4>1. Taken(sends[j]) /\ sends[j].net \in Networks
        <5>1. sends[j].accepted
          BY <1>12, <3>2
        <5>2. sends[j] \in SendRecord
          BY <1>2
        <5>3. sends[j].net \in Networks
          BY <5>2 DEF SendRecord
        <5> QED BY <1>6, <5>1, <5>3 DEF TakenInv
      <4>2. sends'[j].tx = sends[j].tx /\ sends'[j].net = sends[j].net
        BY <1>12
      <4> QED BY <2>7, <4>1, <4>2 DEF Taken
    <3> QED BY <3>1, <3>2
  <2> QED BY <1>10, <1>11, <2>5, <2>8, <2>9, <2>10 DEF Inv, NodeInv
<1> QED BY <1>13, <1>14

(* One step of one call.                                                    *)
LEMMA AnswersKeep ==
    ASSUME Inv, NEW i \in DOMAIN sends, SendAnswers(i)
    PROVE  Inv'
<1>1. CASE nonceAnswered(i)
  BY <1>1, NonceKeeps
<1>2. CASE broadcastReceived(i)
  BY <1>2, ReceivedKeeps
<1>3. CASE broadcastLost(i) \/ broadcastRefused(i)
  <2>1. SendFails(i) /\ node' = node /\ Active(sends[i])
    BY <1>3 DEF broadcastLost, broadcastRefused, Active
  <2> QED BY <2>1, FailKeeps
<1>4. CASE broadcastAnswered(i)
  BY <1>4, SuccessKeeps
<1> QED BY <1>1, <1>2, <1>3, <1>4 DEF SendAnswers

-----------------------------------------------------------------------------
(* A block.                                                                 *)

(* The node d after a block of its whole pool.                              *)
Mined(d) == FoldLeft(ExecuteOrDrop, [d EXCEPT !.pool = << >>], d.pool)

(* What executing or dropping one transaction does to a node.                *)
LEMMA ExecuteEffect ==
    ASSUME NEW d \in NodeRecord, NEW t \in SignedTx
    PROVE  /\ ExecuteOrDrop(d, t) \in NodeRecord
           /\ ExecuteOrDrop(d, t).pool = d.pool
           /\ \A p \in Phrases : p # t.key =>
                /\ ExecuteOrDrop(d, t).nonce[p] = d.nonce[p]
                /\ ExecuteOrDrop(d, t).balance[p] = d.balance[p]
           /\ CanExecute(d, t) =>
                /\ ExecuteOrDrop(d, t).nonce[t.key] = d.nonce[t.key] + 1
                /\ ExecuteOrDrop(d, t).paid = d.paid \cup {t}
           /\ ~ CanExecute(d, t) => ExecuteOrDrop(d, t) = d
<1>1. t.key \in Phrases /\ t.amount \in Nat /\ Fee \in Nat
  BY WalletAssumption DEF SignedTx
<1>2. /\ d.nonce \in [Phrases -> Nat] /\ d.balance \in [Phrases -> Nat]
      /\ d.pool \in Seq(SignedTx) /\ d.paid \in SUBSET SignedTx
  BY DEF NodeRecord
<1>3. CASE ~ CanExecute(d, t)
  BY <1>3 DEF ExecuteOrDrop
<1>4. CASE CanExecute(d, t)
  <2> DEFINE c == d.balance[t.key] - TotalRequired(t)
             e == [nonce   |-> [d.nonce EXCEPT ![t.key] = @ + 1],
                   balance |-> [d.balance EXCEPT ![t.key] = c],
                   pool |-> d.pool, paid |-> d.paid \cup {t}]
  <2>1. c \in Nat
    <3>1. d.balance[t.key] \in Nat /\ TotalRequired(t) \in Nat
      BY <1>1, <1>2 DEF TotalRequired
    <3> QED BY <1>4, <3>1 DEF CanExecute
  <2>2. d = [nonce |-> d.nonce, balance |-> d.balance, pool |-> d.pool, paid |-> d.paid]
    BY DEF NodeRecord
  <2>3. ExecuteOrDrop(d, t) = [d EXCEPT !.nonce[t.key] = @ + 1,
                                        !.balance[t.key] = @ - TotalRequired(t),
                                        !.paid = @ \cup {t}]
    BY <1>4 DEF ExecuteOrDrop
  <2>4. ExecuteOrDrop(d, t) = e
    BY <2>2, <2>3
  <2>5. e \in NodeRecord
    <3>1. d.nonce[t.key] + 1 \in Nat
      BY <1>1, <1>2
    <3>2. [d.nonce EXCEPT ![t.key] = @ + 1] \in [Phrases -> Nat]
      BY <1>1, <1>2, <3>1
    <3>3. [d.balance EXCEPT ![t.key] = c] \in [Phrases -> Nat]
      BY <1>1, <1>2, <2>1
    <3>4. d.paid \cup {t} \in SUBSET SignedTx
      BY <1>2
    <3> HIDE DEF c
    <3> QED BY <1>2, <3>2, <3>3, <3>4 DEF NodeRecord
  <2>6. /\ e.pool = d.pool /\ e.paid = d.paid \cup {t}
        /\ e.nonce[t.key] = d.nonce[t.key] + 1
        /\ \A p \in Phrases : p # t.key =>
             e.nonce[p] = d.nonce[p] /\ e.balance[p] = d.balance[p]
    BY <1>1, <1>2
  <2> QED BY <1>4, <2>4, <2>5, <2>6
<1> QED BY <1>3, <1>4

(* All of a pool could be executed first; after the block, each transaction   *)
(* is paid or another of the pool with its key has used up its nonce.         *)
LEMMA BlockResult ==
    ASSUME NEW d \in NodeRecord, \A t \in Range(d.pool) : CanExecute(d, t)
    PROVE  /\ Mined(d) \in NodeRecord /\ Mined(d).pool = << >>
           /\ d.paid \subseteq Mined(d).paid
           /\ Mined(d).paid \subseteq d.paid \cup Range(d.pool)
           /\ \A p \in Phrases : d.nonce[p] <= Mined(d).nonce[p]
           /\ \A t \in Range(d.pool) :
                \/ t \in Mined(d).paid
                \/ /\ t.nonce < Mined(d).nonce[t.key]
                   /\ \E u \in Mined(d).paid \cap Range(d.pool) :
                        u.key = t.key /\ u.nonce = t.nonce
<1> DEFINE s == d.pool
           base == [d EXCEPT !.pool = << >>]
           Used(x, p) == /\ d.nonce[p] < x.nonce[p]
                         /\ \E u \in x.paid \cap Range(s) : u.key = p /\ u.nonce = d.nonce[p]
           Fresh(x, p) == x.nonce[p] = d.nonce[p] /\ x.balance[p] = d.balance[p]
           Good(k, x) == /\ x \in NodeRecord /\ x.pool = << >>
                         /\ d.paid \subseteq x.paid /\ x.paid \subseteq d.paid \cup Range(s)
                         /\ \A p \in Phrases : Fresh(x, p) \/ Used(x, p)
                         /\ \A i \in 1..Len(s) : i <= k =>
                              s[i] \in x.paid \/ Used(x, s[i].key)
           G == {z \in Nat \X NodeRecord : Good(z[1], z[2])}
<1>1. /\ s \in Seq(SignedTx) /\ Len(s) \in Nat /\ Range(s) \subseteq SignedTx
      /\ \A x : x \in Range(s) <=> \E i \in 1..Len(s) : x = s[i]
      /\ \A i \in 1..Len(s) : s[i] \in Range(s)
      /\ d.nonce \in [Phrases -> Nat] /\ d.balance \in [Phrases -> Nat]
  <2>1. /\ s \in Seq(SignedTx)
        /\ d.nonce \in [Phrases -> Nat] /\ d.balance \in [Phrases -> Nat]
    BY DEF NodeRecord
  <2>2. /\ Len(s) \in Nat /\ Range(s) \subseteq SignedTx
        /\ \A x : x \in Range(s) <=> \E i \in 1..Len(s) : x = s[i]
    BY <2>1, MembersOfSeq
  <2> QED BY <2>1, <2>2
<1>2. \A t \in Range(s) : /\ t.key \in Phrases /\ t.nonce = d.nonce[t.key]
                          /\ d.balance[t.key] >= TotalRequired(t)
  BY <1>1 DEF CanExecute, SignedTx
<1>3. <<0, base>> \in G
  <2>1. base \in NodeRecord /\ base.pool = << >> /\ base.paid = d.paid
        /\ base.nonce = d.nonce /\ base.balance = d.balance
    <3> HIDE DEF Good, Used, Fresh, G
    <3>1. d = [nonce |-> d.nonce, balance |-> d.balance, pool |-> d.pool, paid |-> d.paid]
          /\ d.paid \in SUBSET SignedTx
      BY DEF NodeRecord
    <3>2. << >> \in Seq(SignedTx)
      OBVIOUS
    <3>3. base = [nonce |-> d.nonce, balance |-> d.balance, pool |-> << >>, paid |-> d.paid]
      BY <3>1
    <3>4. [nonce |-> d.nonce, balance |-> d.balance, pool |-> << >>, paid |-> d.paid]
            \in NodeRecord
      BY <1>1, <3>1, <3>2 DEF NodeRecord
    <3> QED BY <3>3, <3>4
  <2> HIDE DEF base
  <2>2. Good(0, base)
    BY <1>1, <2>1
  <2> HIDE DEF Good
  <2> QED BY <2>1, <2>2
<1>4. ASSUME NEW k \in Nat, k < Len(s), NEW x, <<k, x>> \in G
      PROVE  <<k + 1, ExecuteOrDrop(x, s[k + 1])>> \in G
  <2> DEFINE t == s[k + 1]
             y == ExecuteOrDrop(x, t)
             p == t.key
  <2>1. Good(k, x)
    BY <1>4
  <2>2. x \in NodeRecord /\ x.nonce \in [Phrases -> Nat] /\ x.balance \in [Phrases -> Nat]
    BY <2>1 DEF NodeRecord
  <2>3. k + 1 \in 1..Len(s) /\ t \in Range(s) /\ t \in SignedTx /\ p \in Phrases
        /\ t.nonce = d.nonce[p] /\ d.balance[p] >= TotalRequired(t)
        /\ d.nonce[p] \in Nat
    <3>1. k + 1 \in 1..Len(s)
      BY <1>1, <1>4
    <3> QED BY <1>1, <1>2, <3>1
  <2> HIDE DEF t
  <2>4. CASE CanExecute(x, t)
    <3>1. /\ y \in NodeRecord /\ y.pool = << >> /\ y.paid = x.paid \cup {t}
          /\ y.nonce[p] = x.nonce[p] + 1
          /\ \A r \in Phrases : r # p => y.nonce[r] = x.nonce[r] /\ y.balance[r] = x.balance[r]
      BY <2>1, <2>2, <2>3, <2>4, ExecuteEffect
    <3> HIDE DEF y
    <3>2. d.nonce[p] < y.nonce[p]
      <4>1. x.nonce[p] \in Nat /\ d.nonce[p] <= x.nonce[p]
        BY <2>1, <2>2, <2>3
      <4> QED BY <2>3, <3>1, <4>1
    <3>3. Used(y, p)
      BY <2>3, <3>1, <3>2
    <3>4. \A r \in Phrases : Used(x, r) => Used(y, r)
      <4>1. \A r \in Phrases : r # p /\ Used(x, r) => Used(y, r)
        BY <3>1
      <4> QED BY <3>3, <4>1
    <3>5. \A r \in Phrases : Fresh(y, r) \/ Used(y, r)
      <4>1. \A r \in Phrases : r # p /\ Fresh(x, r) => Fresh(y, r)
        BY <3>1
      <4> HIDE DEF Used, Fresh
      <4> QED BY <2>1, <3>3, <3>4, <4>1
    <3>6. \A i \in 1..Len(s) : i <= k + 1 => s[i] \in y.paid \/ Used(y, s[i].key)
      <4>1. SUFFICES ASSUME NEW i \in 1..Len(s), i <= k + 1
                     PROVE  s[i] \in y.paid \/ Used(y, s[i].key)
        OBVIOUS
      <4>2. CASE i = k + 1
        BY <3>1, <4>2 DEF t
      <4>3. CASE i # k + 1
        <5>1. i <= k
          BY <1>1, <4>1, <4>3
        <5>2. s[i].key \in Phrases
          BY <1>1, <1>2
        <5>3. s[i] \in x.paid \/ Used(x, s[i].key)
          BY <2>1, <5>1
        <5> HIDE DEF Used
        <5> QED BY <3>1, <3>4, <5>2, <5>3
      <4> QED BY <4>2, <4>3
    <3>7. d.paid \subseteq y.paid /\ y.paid \subseteq d.paid \cup Range(s)
      BY <2>1, <2>3, <3>1
    <3>8. Good(k + 1, y)
      <4> HIDE DEF Used, Fresh
      <4> QED BY <3>1, <3>5, <3>6, <3>7
    <3> HIDE DEF Good
    <3>9. <<k + 1, y>> \in G
      BY <3>1, <3>8
    <3> QED BY <3>9 DEF y, t
  <2>5. CASE ~ CanExecute(x, t)
    <3>1. y = x
      BY <2>5 DEF ExecuteOrDrop
    <3>2. Used(x, p)
      <4>1. ~ Fresh(x, p)
        BY <2>3, <2>5 DEF CanExecute
      <4> HIDE DEF Used, Fresh
      <4> QED BY <2>1, <2>3, <4>1
    <3>3. \A i \in 1..Len(s) : i <= k + 1 => s[i] \in x.paid \/ Used(x, s[i].key)
      <4>1. SUFFICES ASSUME NEW i \in 1..Len(s), i <= k + 1
                     PROVE  s[i] \in x.paid \/ Used(x, s[i].key)
        OBVIOUS
      <4>2. CASE i = k + 1
        <5> HIDE DEF Used
        <5> QED BY <3>2, <4>2 DEF t
      <4>3. CASE i # k + 1
        <5>1. i <= k
          BY <1>1, <4>1, <4>3
        <5> HIDE DEF Used
        <5> QED BY <2>1, <5>1
      <4> QED BY <4>2, <4>3
    <3>4. Good(k + 1, x)
      <4> HIDE DEF Used, Fresh
      <4> QED BY <2>1, <3>3
    <3> HIDE DEF Good, y
    <3>5. <<k + 1, y>> \in G
      BY <2>2, <3>1, <3>4
    <3> QED BY <3>5 DEF y, t
  <2> QED BY <2>4, <2>5
<1>5. <<Len(s), Mined(d)>> \in G
  <2> HIDE DEF G
  <2>1. <<Len(s), BlockFold!Fold(base, s)>> \in G
    BY <1>1, <1>3, <1>4, BlockFold!FoldInduction
  <2> QED BY <2>1, BlockFoldForm DEF Mined
<1> DEFINE m == Mined(d)
<1>6. Good(Len(s), m)
  <2> HIDE DEF Good, m
  <2> QED BY <1>5 DEF m
<1> HIDE DEF m
<1>7. \A p \in Phrases : d.nonce[p] <= m.nonce[p]
  <2>1. m.nonce \in [Phrases -> Nat]
    BY <1>6 DEF NodeRecord
  <2> QED BY <1>1, <1>6, <2>1
<1>8. ASSUME NEW t \in Range(d.pool)
      PROVE  \/ t \in m.paid
             \/ /\ t.nonce < m.nonce[t.key]
                /\ \E u \in m.paid \cap Range(d.pool) : u.key = t.key /\ u.nonce = t.nonce
  <2>1. PICK i \in 1..Len(s) : t = s[i]
    BY <1>1
  <2>2. t \in m.paid \/ Used(m, t.key)
    BY <1>1, <1>6, <2>1
  <2> QED BY <1>2, <2>2
<1> QED BY <1>6, <1>7, <1>8 DEF m

(* A block leaves every accepted transaction paid, pooled elsewhere, or       *)
(* overtaken by one of the same account that it paid.                        *)
LEMMA MineKeeps ==
    ASSUME Inv, NEW n \in Networks, mine_block(n)
    PROVE  Inv'
<1> DEFINE d == node[n]
           m == Mined(d)
<1>1. /\ node' = [node EXCEPT ![n] = m]
      /\ UNCHANGED <<network, account, onboarding, encrypting, sendOpen, form, sends,
                     shown, fetching>>
  BY DEF mine_block, Mined
<1>2. TypeOK /\ PhraseKnown /\ DialogInv /\ SendsInv /\ OriginInv /\ PoolInv /\ TakenInv
  BY DEF Inv, NodeInv
<1>3. node \in [Networks -> NodeRecord] /\ d \in NodeRecord
  BY <1>2 DEF TypeOK
<1>4. \A t \in Range(d.pool) : ValidStatic(n, t) /\ CanExecute(d, t)
  BY <1>2 DEF PoolInv
<1>5. /\ m \in NodeRecord /\ m.pool = << >>
      /\ d.paid \subseteq m.paid /\ m.paid \subseteq d.paid \cup Range(d.pool)
      /\ \A p \in Phrases : d.nonce[p] <= m.nonce[p]
      /\ \A t \in Range(d.pool) :
           \/ t \in m.paid
           \/ /\ t.nonce < m.nonce[t.key]
              /\ \E u \in m.paid \cap Range(d.pool) : u.key = t.key /\ u.nonce = t.nonce
  <2> HIDE DEF d
  <2> QED BY <1>3, <1>4, BlockResult
<1> HIDE DEF m
<1>6. node'[n] = m /\ \A l \in Networks : l # n => node'[l] = node[l]
  BY <1>1, <1>3
<1>7. TypeOK'
  <2>1. node' \in [Networks -> NodeRecord]
    BY <1>1, <1>3, <1>5
  <2> QED BY <1>1, <1>2, <2>1 DEF TypeOK
<1>8. PhraseKnown'
  BY <1>1, <1>2 DEF PhraseKnown
<1>9. DialogInv'
  <2>1. \A i : Mine(i)' <=> Mine(i)
    BY <1>1 DEF Mine
  <2> QED BY <1>1, <1>2, <2>1 DEF DialogInv
<1>10. SendsInv'
  BY <1>1, <1>2 DEF SendsInv
<1>11. Range(<< >>) = {}
  BY DEF Range
<1>12. OriginInv'
  <2> SUFFICES ASSUME NEW l \in Networks,
                      NEW u \in Range(node'[l].pool) \cup node'[l].paid
               PROVE  /\ u.by \in DOMAIN sends
                      /\ sends[u.by].tx = u /\ sends[u.by].net = l
                      /\ sends[u.by].accepted
    BY <1>1 DEF OriginInv
  <2>1. u \in Range(node[l].pool) \cup node[l].paid
    <3>1. CASE l = n
      BY <1>5, <1>6, <1>11, <3>1
    <3>2. CASE l # n
      BY <1>6, <3>2
    <3> QED BY <3>1, <3>2
  <2> QED BY <1>2, <2>1 DEF OriginInv
<1>13. PoolInv'
  <2> SUFFICES ASSUME NEW l \in Networks, NEW u \in Range(node'[l].pool)
               PROVE  ValidStatic(l, u) /\ CanExecute(node'[l], u)
    BY DEF PoolInv
  <2>1. l # n
    BY <1>5, <1>6, <1>11
  <2> QED BY <1>2, <1>6, <2>1 DEF PoolInv
<1>14. TakenInv'
  <2> SUFFICES ASSUME NEW i \in DOMAIN sends, sends[i].accepted
               PROVE  Taken(sends[i])'
    BY <1>1 DEF TakenInv
  <2>1. Taken(sends[i])
    BY <1>2 DEF TakenInv
  <2>2. CASE sends[i].net # n
    <3>1. sends[i].net \in Networks
      <4>1. sends[i] \in SendRecord
        BY <1>2 DEF TypeOK
      <4> QED BY <4>1 DEF SendRecord
    <3>2. node'[sends[i].net] = node[sends[i].net]
      BY <1>6, <2>2, <3>1
    <3> QED BY <1>1, <2>1, <3>2 DEF Taken
  <2>3. CASE sends[i].net = n
    <3>0. PICK t : t = sends[i].tx
      OBVIOUS
    <3>1. SUFFICES \/ t \in m.paid
                   \/ /\ t.nonce < m.nonce[t.key]
                      /\ \E u \in m.paid : u.sender = t.sender /\ u.nonce >= t.nonce
      BY <1>1, <1>6, <2>3, <3>0 DEF Taken
    <3>2. t \in SignedTx
      <4>1. sends[i].tx # NoTx
        BY <1>2 DEF SendsInv
      <4>2. sends[i] \in SendRecord
        BY <1>2 DEF TypeOK
      <4> QED BY <3>0, <4>1, <4>2 DEF SendRecord
    <3>3. t.nonce \in Nat /\ t.key \in Phrases
      BY <3>2 DEF SignedTx
    <3>4. CASE t \in Range(d.pool)
      <4>1. CASE t \in m.paid
        BY <4>1
      <4>2. CASE t \notin m.paid
        <5>1. PICK u \in m.paid \cap Range(d.pool) : u.key = t.key /\ u.nonce = t.nonce
          BY <1>5, <3>4, <4>2
        <5>2. u.sender = t.sender
          BY <1>4, <3>4, <5>1 DEF ValidStatic
        <5>3. t.nonce < m.nonce[t.key] /\ u.nonce >= t.nonce
          BY <1>5, <3>3, <3>4, <4>2, <5>1
        <5> QED BY <5>1, <5>2, <5>3
      <4> QED BY <4>1, <4>2
    <3>5. CASE t \in d.paid
      BY <1>5, <3>5
    <3>6. CASE /\ t.nonce < d.nonce[t.key]
               /\ \E u \in d.paid : u.sender = t.sender /\ u.nonce >= t.nonce
      <4>1. d.nonce[t.key] \in Nat /\ m.nonce[t.key] \in Nat
        BY <1>3, <1>5, <3>3 DEF NodeRecord
      <4>2. t.nonce < m.nonce[t.key]
        <5>1. d.nonce[t.key] <= m.nonce[t.key]
          BY <1>5, <3>3
        <5> QED BY <3>3, <3>6, <4>1, <5>1
      <4> QED BY <1>5, <3>6, <4>2
    <3>7. \/ t \in Range(d.pool) \cup d.paid
          \/ /\ t.nonce < d.nonce[t.key]
             /\ \E u \in d.paid : u.sender = t.sender /\ u.nonce >= t.nonce
      BY <2>1, <2>3, <3>0 DEF Taken
    <3> QED BY <3>4, <3>5, <3>6, <3>7
  <2> QED BY <2>2, <2>3
<1> QED BY <1>7, <1>8, <1>9, <1>10, <1>12, <1>13, <1>14 DEF Inv, NodeInv

-----------------------------------------------------------------------------
(* The invariant holds.                                                     *)

(* A wallet that was just loaded: locked, no call, nothing at the nodes.      *)
LEMMA InitInv == Init => Inv
<1> SUFFICES ASSUME Init PROVE Inv
  OBVIOUS
<1> DEFINE d == [nonce |-> [p \in Phrases |-> 0], balance |-> [p \in Phrases |-> Funds],
                 pool |-> << >>, paid |-> {}]
<1>1. sends = << >> /\ node = [n \in Networks |-> d] /\ form = FreshForm
      /\ onboarding = FreshOnboarding
  BY DEF Init
<1>2. d \in NodeRecord
  <2>1. Funds \in Nat
    BY WalletAssumption
  <2>2. [p \in Phrases |-> 0] \in [Phrases -> Nat]
        /\ [p \in Phrases |-> Funds] \in [Phrases -> Nat]
    BY <2>1
  <2>3. << >> \in Seq(SignedTx) /\ {} \in SUBSET SignedTx
    OBVIOUS
  <2> QED BY <2>2, <2>3 DEF NodeRecord
<1>3. d.pool = << >> /\ d.paid = {}
  OBVIOUS
<1> HIDE DEF d
<1>4. TypeOK
  <2>1. << >> \in Seq(SendRecord) /\ Len(<< >>) <= MaxSends
    BY WalletAssumption
  <2>2. [p \in Phrases |-> 0] \in [Phrases -> 0..MaxEncrypting]
    BY WalletAssumption
  <2>3. node \in [Networks -> NodeRecord]
    BY <1>1, <1>2
  <2>4. "local" \in Networks
    BY WalletAssumption
  <2> QED BY <1>1, <2>1, <2>2, <2>3, <2>4, FreshTyped DEF Init, TypeOK
<1>5. PhraseKnown
  BY <1>1 DEF PhraseKnown, FreshOnboarding
<1>6. DOMAIN sends = {}
  BY <1>1
<1>7. DialogInv
  BY <1>1, <1>6 DEF DialogInv, FreshForm
<1>8. SendsInv /\ TakenInv
  BY <1>6 DEF SendsInv, TakenInv
<1>9. \A n \in Networks : Range(node[n].pool) = {} /\ node[n].paid = {}
  BY <1>1, <1>3 DEF Range
<1>10. OriginInv /\ PoolInv
  BY <1>9 DEF OriginInv, PoolInv
<1> QED BY <1>4, <1>5, <1>7, <1>8, <1>10 DEF Inv, NodeInv

(* Every step of the wallet, its calls and the nodes keeps the invariant.     *)
LEMMA NextInv == Inv /\ [Next]_vars => Inv'
<1> SUFFICES ASSUME Inv, [Next]_vars PROVE Inv'
  OBVIOUS
<1>1. CASE OnboardingNext
  BY <1>1, OnboardingKeeps
<1>2. CASE WalletNext
  <2>1. CASE handleLockWallet
    BY <2>1, LockKeeps
  <2>2. CASE \/ \E n \in Networks : setNetwork(n)
             \/ intervalFires
             \/ \E k \in Networks \X Phrases : balanceAnswered(k) \/ balanceFailed(k)
    BY <2>2, BalanceKeeps
  <2>3. CASE openSend
    BY <2>3, OpenKeeps
  <2>4. CASE closeSend
    BY <2>4, CloseKeeps
  <2>5. CASE \E r \in Recipients, a \in Typed : handleSend(r, a) \/ handleSendRefused(r, a)
    BY <2>5, SendKeeps, RefusedKeeps
  <2> QED BY <1>2, <2>1, <2>2, <2>3, <2>4, <2>5 DEF WalletNext
<1>3. CASE \E i \in 1..MaxSends : i \in DOMAIN sends /\ SendAnswers(i)
  BY <1>3, AnswersKeep
<1>4. CASE \E n \in Networks : mine_block(n)
  BY <1>4, MineKeeps
<1>5. CASE UNCHANGED vars
  <2>1. UNCHANGED <<network, account, onboarding, encrypting, sendOpen, form, sends,
                    shown, fetching, node>>
    BY <1>5 DEF vars
  <2>2. TypeOK'
    BY <2>1 DEF Inv, TypeOK
  <2>3. PhraseKnown'
    BY <2>1 DEF Inv, PhraseKnown
  <2> QED BY <2>1, <2>2, <2>3, QuietStep
<1> QED BY <1>1, <1>2, <1>3, <1>4, <1>5 DEF Next

(* The invariant of the wallet and the nodes it talks to.                    *)
THEOREM Invariance == Spec => []Inv
BY InitInv, NextInv, PTL DEF Spec

(* Every variable of the wallet and its nodes keeps its type: no balance goes *)
(* below zero and no counter of calls under way goes out of its range.        *)
THEOREM TypeCorrect == Spec => []TypeOK
<1>1. Inv => TypeOK
  BY DEF Inv
<1> QED BY <1>1, Invariance, PTL

(* The open dialog has at most one call, and is disabled while it has one.    *)
LEMMA ButtonFollows == Inv => ButtonFollowsSend
<1> SUFFICES ASSUME Inv PROVE ButtonFollowsSend
  OBVIOUS
<1> DEFINE mine == {i \in DOMAIN sends : sends[i].attached /\ Active(sends[i])}
<1>1. /\ \A i, j \in mine : i = j
      /\ form.submitting <=> (mine # {})
  BY DEF Inv, DialogInv, Mine
<1>2. Cardinality(mine) <= 1
  <2>1. mine = {} \/ \E i \in mine : mine = {i}
    BY <1>1
  <2> HIDE DEF mine
  <2>2. mine = {} => Cardinality(mine) = 0
    BY FS_EmptySet
  <2>3. ASSUME NEW i, mine = {i} PROVE Cardinality(mine) = 1
    BY <2>3, FS_Singleton
  <2> QED BY <2>1, <2>2, <2>3
<1> QED BY <1>1, <1>2 DEF ButtonFollowsSend

(* One dialog never has two payments under way, and its button is disabled     *)
(* exactly while it has one (SendModal.tsx: isSubmitting).                    *)
THEOREM OneCallPerDialog == Spec => []ButtonFollowsSend
BY ButtonFollows, Invariance, PTL

(* A call that ended well was accepted, and an accepted transaction is taken.  *)
LEMMA SubmittedFollows == Inv => SubmittedWasTaken
<1> SUFFICES ASSUME Inv, NEW i \in DOMAIN sends, sends[i].pc = "sent"
             PROVE  \/ sends[i].tx \in Range(node[sends[i].net].pool) \cup node[sends[i].net].paid
                    \/ /\ ~ CanExecute(node[sends[i].net], sends[i].tx)
                       /\ \E u \in node[sends[i].net].paid :
                            u.sender = sends[i].tx.sender /\ u.nonce >= sends[i].tx.nonce
  BY DEF SubmittedWasTaken
<1>1. Taken(sends[i]) /\ sends[i].tx # NoTx
  BY DEF Inv, NodeInv, SendsInv, TakenInv
<1>2. sends[i] \in SendRecord /\ node \in [Networks -> NodeRecord]
  BY DEF Inv, TypeOK
<1>3. sends[i].net \in Networks /\ sends[i].tx \in SignedTx
  BY <1>1, <1>2 DEF SendRecord
<1>4. sends[i].tx.nonce \in Nat /\ sends[i].tx.key \in Phrases
  BY <1>3 DEF SignedTx
<1>5. node[sends[i].net].nonce[sends[i].tx.key] \in Nat
  <2>1. node[sends[i].net] \in NodeRecord
    BY <1>2, <1>3
  <2>2. node[sends[i].net].nonce \in [Phrases -> Nat]
    BY <2>1 DEF NodeRecord
  <2> QED BY <1>4, <2>2
<1>6. sends[i].tx.nonce < node[sends[i].net].nonce[sends[i].tx.key] =>
        ~ CanExecute(node[sends[i].net], sends[i].tx)
  BY <1>4, <1>5 DEF CanExecute
<1> QED BY <1>1, <1>6 DEF Taken

(* "Transaction submitted" is only said of a transaction the node took: it is  *)
(* pooled or paid, or a paid one of the same account has overtaken it.        *)
THEOREM SubmittedTaken == Spec => []SubmittedWasTaken
BY SubmittedFollows, Invariance, PTL

-----------------------------------------------------------------------------
(* The wallet implements Payments.                                          *)

(* The numbers of the calls whose transaction has been paid.                 *)
PaidNos == {q.tx.by : q \in PaidTxs}

(* Payments' two variables, as the wallet has them.                          *)
AskedBar == [i \in DOMAIN sends |-> Asked(sends[i])]
PaidBar == [i \in PaidNos |->
              [net |-> PaidFor(i).net, from |-> PaidFor(i).tx.key,
               to |-> PaidFor(i).tx.to, atto |-> PaidFor(i).tx.amount]]

(* What is signed did not throw.                                             *)
SignedInv == \A i \in DOMAIN sends : sends[i].tx # NoTx => ~ signThrows(sends[i].amount)

PaidInv == Inv /\ SignedInv

(* No amount and no transaction changes.                                     *)
SameSigned ==
    /\ DOMAIN sends' = DOMAIN sends
    /\ \A i \in DOMAIN sends : sends'[i].tx = sends[i].tx /\ sends'[i].amount = sends[i].amount

(* Of the awaits of a call only the one on the nonce signs.                   *)
LEMMA CallsSign ==
    ASSUME Inv, SignedInv, NEW i \in DOMAIN sends, SendAnswers(i)
    PROVE  SignedInv'
<1>0. sends \in Seq(SendRecord) /\ \A j \in DOMAIN sends : sends[j] \in SendRecord
  BY DEF Inv, TypeOK
<1>1. ASSUME NEW e, e.tx = sends[i].tx \/ ~ signThrows(sends[i].amount),
             e.amount = sends[i].amount, sends' = [sends EXCEPT ![i] = e]
      PROVE  SignedInv'
  BY <1>1 DEF SignedInv
<1>2. ASSUME SendFails(i) PROVE SignedInv'
  <2> DEFINE e == [sends[i] EXCEPT !.pc = "failed"]
  <2>1. sends' = [sends EXCEPT ![i] = e]
    BY <1>2 DEF SendFails
  <2>2. e.tx = sends[i].tx /\ e.amount = sends[i].amount
    BY <1>0 DEF SendRecord
  <2> HIDE DEF e
  <2> QED BY <1>1, <2>1, <2>2
<1>3. CASE nonceAnswered(i)
  <2>1. PICK k : signAndPost(i, k)
    BY <1>3 DEF nonceAnswered
  <2>2. CASE ~ SendFails(i)
    <3> DEFINE e == [sends[i] EXCEPT !.pc = "post", !.tx = signedTx(sends[i], i, k)]
    <3>1. sends' = [sends EXCEPT ![i] = e] /\ ~ signThrows(sends[i].amount)
      BY <2>1, <2>2 DEF signAndPost
    <3>2. e.amount = sends[i].amount
      BY <1>0 DEF SendRecord
    <3> HIDE DEF e
    <3> QED BY <1>1, <3>1, <3>2
  <2> QED BY <1>2, <2>2
<1>4. CASE broadcastReceived(i)
  <2> DEFINE ok == handle_rest_broadcast(sends[i].net, sends[i].tx)
             e == [sends[i] EXCEPT !.pc = "answer", !.accepted = ok]
  <2>1. sends' = [sends EXCEPT ![i] = e]
    BY <1>4 DEF broadcastReceived
  <2> HIDE DEF ok
  <2>2. e.tx = sends[i].tx /\ e.amount = sends[i].amount
    BY <1>0 DEF SendRecord
  <2> HIDE DEF e
  <2> QED BY <1>1, <2>1, <2>2
<1>5. CASE broadcastLost(i) \/ broadcastRefused(i)
  BY <1>2, <1>5 DEF broadcastLost, broadcastRefused
<1>6. CASE broadcastAnswered(i)
  <2> DEFINE e == [sends[i] EXCEPT !.pc = "sent"]
             ss == [sends EXCEPT ![i] = e]
  <2>1. sends' = DetachAll(ss)
    BY <1>6 DEF broadcastAnswered, SendSucceeds
  <2>2. e.tx = sends[i].tx /\ e.amount = sends[i].amount /\ e \in SendRecord
    BY <1>0 DEF SendRecord
  <2> HIDE DEF e
  <2>3. /\ DOMAIN ss = DOMAIN sends
        /\ \A j \in DOMAIN sends :
             ss[j] \in SendRecord /\ ss[j].tx = sends[j].tx /\ ss[j].amount = sends[j].amount
    BY <1>0, <2>2
  <2> HIDE DEF ss
  <2>4. /\ DOMAIN sends' = DOMAIN sends
        /\ \A j \in DOMAIN sends : sends'[j] = [ss[j] EXCEPT !.attached = FALSE]
    BY <2>1, <2>3 DEF DetachAll
  <2>5. \A j \in DOMAIN sends :
          sends'[j].tx = sends[j].tx /\ sends'[j].amount = sends[j].amount
    BY <2>3, <2>4 DEF SendRecord
  <2> QED BY <2>4, <2>5 DEF SignedInv
<1> QED BY <1>3, <1>4, <1>5, <1>6 DEF SendAnswers

(* Every other step leaves the transactions, or adds a call that has none.     *)
LEMMA NextSigned == Inv /\ SignedInv /\ [Next]_vars => SignedInv'
<1> SUFFICES ASSUME Inv, SignedInv, [Next]_vars PROVE SignedInv'
  OBVIOUS
<1>0. sends \in Seq(SendRecord) /\ \A j \in DOMAIN sends : sends[j] \in SendRecord
  BY DEF Inv, TypeOK
<1>1. ASSUME SameSigned PROVE SignedInv'
  BY <1>1 DEF SameSigned, SignedInv
<1>2. ASSUME sends' = sends PROVE SignedInv'
  BY <1>2 DEF SignedInv
<1>3. ASSUME sends' = DetachAll(sends) PROVE SignedInv'
  <2>1. /\ DOMAIN sends' = DOMAIN sends
        /\ \A i \in DOMAIN sends : sends'[i] = [sends[i] EXCEPT !.attached = FALSE]
    BY <1>3 DEF DetachAll
  <2>2. SameSigned
    BY <1>0, <2>1 DEF SameSigned, SendRecord
  <2> QED BY <1>1, <2>2
<1>4. CASE OnboardingNext
  <2>1. sends' = sends
    BY <1>4 DEF OnboardingNext, handleStartCreate, handleVerifyStep, handleCheckWord,
       chooseImport, handleImportMnemonic, passwordRefused, handleCompletePassword,
       vaultEncrypted, vaultFailed, OnboardingStep
  <2> QED BY <1>2, <2>1
<1>5. CASE WalletNext
  <2>1. CASE handleLockWallet \/ closeSend
    BY <1>3, <2>1 DEF handleLockWallet, closeSend
  <2>2. CASE \/ \E n \in Networks : setNetwork(n)
             \/ intervalFires
             \/ \E k \in Networks \X Phrases : balanceAnswered(k) \/ balanceFailed(k)
             \/ openSend
    <3>1. sends' = sends
      BY <2>2 DEF setNetwork, intervalFires, balanceAnswered, balanceFailed,
         BalanceRead, openSend
    <3> QED BY <1>2, <3>1
  <2>3. ASSUME NEW r \in Recipients, NEW a \in Typed, handleSend(r, a)
        PROVE  SignedInv'
    <3> DEFINE e == NewSend(r, a)
    <3>1. sends' = Append(sends, e)
      BY <2>3 DEF handleSend, StartSend
    <3>2. e.tx = NoTx
      BY DEF NewSend
    <3> HIDE DEF e
    <3>3. \A i \in DOMAIN sends' : (i \in DOMAIN sends /\ sends'[i] = sends[i]) \/ sends'[i] = e
      BY <1>0, <3>1
    <3> QED BY <3>2, <3>3 DEF SignedInv
  <2>4. ASSUME NEW r \in Recipients, NEW a \in Typed, handleSendRefused(r, a)
        PROVE  SignedInv'
    BY <1>2, <2>4 DEF handleSendRefused
  <2> QED BY <1>5, <2>1, <2>2, <2>3, <2>4 DEF WalletNext
<1>6. CASE \E i \in 1..MaxSends : i \in DOMAIN sends /\ SendAnswers(i)
  BY <1>6, CallsSign
<1>7. CASE \E n \in Networks : mine_block(n)
  BY <1>2, <1>7 DEF mine_block
<1>8. CASE UNCHANGED vars
  BY <1>2, <1>8 DEF vars
<1> QED BY <1>4, <1>5, <1>6, <1>7, <1>8 DEF Next

(* Both hold of every state.                                                *)
LEMMA AlwaysPaidInv == Spec => []PaidInv
<1>1. Init => SignedInv
  BY DEF Init, SignedInv
<1>2. Spec => []SignedInv
  BY <1>1, NextSigned, Invariance, PTL DEF Spec
<1> QED BY <1>2, Invariance, PTL DEF PaidInv

(* What is paid is what was asked for under its number.                      *)
PaidAsAsked ==
    /\ PaidNos \subseteq DOMAIN sends
    /\ PaidBar = [i \in PaidNos |-> Asked(sends[i])]

(* The transaction of a number is that of the call, and it was signed for     *)
(* the network, account, recipient and amount of that call.                   *)
LEMMA PaidAsAskedFollows == PaidInv => PaidAsAsked
<1> SUFFICES ASSUME Inv, SignedInv PROVE PaidAsAsked
  BY DEF PaidInv
<1> DEFINE held(i) == [net |-> sends[i].net, tx |-> sends[i].tx]
<1>1. \A q \in PaidTxs : \E n \in Networks : \E t \in node[n].paid : q = [net |-> n, tx |-> t]
  BY DEF PaidTxs
<1>2. \A q \in PaidTxs : q.tx.by \in DOMAIN sends /\ q = held(q.tx.by)
  <2> SUFFICES ASSUME NEW q \in PaidTxs
               PROVE  q.tx.by \in DOMAIN sends /\ q = held(q.tx.by)
    OBVIOUS
  <2>0. PICK n \in Networks : \E t \in node[n].paid : q = [net |-> n, tx |-> t]
    BY <1>1
  <2>1. PICK t \in node[n].paid : q = [net |-> n, tx |-> t]
    BY <2>0
  <2>2. t.by \in DOMAIN sends /\ sends[t.by].tx = t /\ sends[t.by].net = n
    BY DEF Inv, NodeInv, OriginInv
  <2> QED BY <2>1, <2>2
<1>3. \A i \in PaidNos : i \in DOMAIN sends /\ PaidFor(i) = held(i)
                           /\ sends[i].tx # NoTx
  <2> SUFFICES ASSUME NEW i \in PaidNos
               PROVE  i \in DOMAIN sends /\ PaidFor(i) = held(i) /\ sends[i].tx # NoTx
    OBVIOUS
  <2>1. \E q \in PaidTxs : q.tx.by = i
    BY DEF PaidNos
  <2>2. PaidFor(i) \in PaidTxs /\ PaidFor(i).tx.by = i
    BY <2>1 DEF PaidFor
  <2>3. i \in DOMAIN sends /\ PaidFor(i) = held(i)
    BY <1>2, <2>2
  <2>4. sends[i].tx # NoTx
    <3>0. PICK n \in Networks : \E t \in node[n].paid : PaidFor(i) = [net |-> n, tx |-> t]
      BY <1>1, <2>2
    <3>1. PICK t \in node[n].paid : PaidFor(i) = [net |-> n, tx |-> t]
      BY <3>0
    <3>2. sends[t.by].accepted /\ t.by = i
      BY <2>2, <3>1 DEF Inv, NodeInv, OriginInv
    <3> QED BY <2>3, <3>2 DEF Inv, NodeInv, SendsInv
  <2> QED BY <2>3, <2>4
<1>4. \A i \in PaidNos :
        [net |-> PaidFor(i).net, from |-> PaidFor(i).tx.key,
         to |-> PaidFor(i).tx.to, atto |-> PaidFor(i).tx.amount] = Asked(sends[i])
  <2> SUFFICES ASSUME NEW i \in PaidNos
               PROVE  [net |-> PaidFor(i).net, from |-> PaidFor(i).tx.key,
                       to |-> PaidFor(i).tx.to, atto |-> PaidFor(i).tx.amount]
                        = Asked(sends[i])
    OBVIOUS
  <2>1. PICK k \in Nat : sends[i].tx = signedTx(sends[i], i, k)
    BY <1>3 DEF Inv, NodeInv, SendsInv
  <2>2. /\ sends[i].tx.key = sends[i].from /\ sends[i].tx.to = sends[i].to.bytes
        /\ sends[i].tx.amount = sprxToAtto(sends[i].amount)
    BY <2>1 DEF signedTx, parseToBytes
  <2>3. sprxToAtto(sends[i].amount) = AskedAtto(sends[i].amount)
    <3>1. sends[i] \in SendRecord
      BY <1>3 DEF Inv, TypeOK
    <3>2. sends[i].amount \in Typed
      BY <3>1 DEF SendRecord
    <3>3. ~ signThrows(sends[i].amount)
      BY <1>3 DEF SignedInv
    <3> QED BY <3>2, <3>3, AmountAsAsked
  <2>4. PaidFor(i).net = sends[i].net /\ PaidFor(i).tx = sends[i].tx
    BY <1>3
  <2> QED BY <2>2, <2>3, <2>4 DEF Asked
<1>5. PaidNos \subseteq DOMAIN sends
  BY <1>3
<1> QED BY <1>4, <1>5 DEF PaidAsAsked, PaidBar

(* The same in the state after a step.                                      *)
LEMMA PaidAsAskedNext == PaidInv' => PaidAsAsked'
BY PaidAsAskedFollows, PTL

(* No request is changed, and nothing is paid.                              *)
SameRequests ==
    /\ DOMAIN sends' = DOMAIN sends
    /\ \A i \in DOMAIN sends :
         /\ sends'[i].net = sends[i].net /\ sends'[i].from = sends[i].from
         /\ sends'[i].to = sends[i].to /\ sends'[i].amount = sends[i].amount

SamePaid == \A n \in Networks : node'[n].paid = node[n].paid

(* Equal requests are the same value of asked.                              *)
LEMMA AskedStays ==
    ASSUME SameRequests
    PROVE  AskedBar' = AskedBar /\ \A i \in DOMAIN sends : Asked(sends'[i]) = Asked(sends[i])
<1>1. \A i \in DOMAIN sends : Asked(sends'[i]) = Asked(sends[i])
  BY DEF SameRequests, Asked
<1> QED BY <1>1 DEF SameRequests, AskedBar

(* Equal sets of paid transactions are the same value of paid.               *)
LEMMA PaidStays ==
    ASSUME SamePaid
    PROVE  PaidBar' = PaidBar
<1>1. PaidTxs' = PaidTxs
  BY DEF SamePaid, PaidTxs
<1>2. PaidNos' = PaidNos /\ \A i : PaidFor(i)' = PaidFor(i)
  BY <1>1 DEF PaidNos, PaidFor
<1> QED BY <1>2 DEF PaidBar

(* No await of a call changes what it asked for, and none pays.              *)
LEMMA CallsAskNothing ==
    ASSUME TypeOK, NEW i \in DOMAIN sends, SendAnswers(i)
    PROVE  SameRequests /\ SamePaid
<1>0. /\ \A j \in DOMAIN sends : sends[j] \in SendRecord
      /\ sends \in Seq(SendRecord) /\ node \in [Networks -> NodeRecord]
  BY DEF TypeOK
<1>1. ASSUME NEW e, e.net = sends[i].net, e.from = sends[i].from, e.to = sends[i].to,
             e.amount = sends[i].amount, sends' = [sends EXCEPT ![i] = e]
      PROVE  SameRequests
  BY <1>1 DEF SameRequests
<1>2. ASSUME SendFails(i) PROVE SameRequests
  <2> DEFINE e == [sends[i] EXCEPT !.pc = "failed"]
  <2>1. sends' = [sends EXCEPT ![i] = e]
    BY <1>2 DEF SendFails
  <2>2. /\ e.net = sends[i].net /\ e.from = sends[i].from
        /\ e.to = sends[i].to /\ e.amount = sends[i].amount
    BY <1>0 DEF SendRecord
  <2> HIDE DEF e
  <2> QED BY <1>1, <2>1, <2>2
<1>3. CASE nonceAnswered(i)
  <2>1. PICK k : signAndPost(i, k)
    BY <1>3 DEF nonceAnswered
  <2>2. SamePaid
    BY <1>3 DEF nonceAnswered, SamePaid
  <2>3. CASE ~ SendFails(i)
    <3> DEFINE e == [sends[i] EXCEPT !.pc = "post", !.tx = signedTx(sends[i], i, k)]
    <3>1. sends' = [sends EXCEPT ![i] = e]
      BY <2>1, <2>3 DEF signAndPost
    <3>2. /\ e.net = sends[i].net /\ e.from = sends[i].from
          /\ e.to = sends[i].to /\ e.amount = sends[i].amount
      BY <1>0 DEF SendRecord
    <3> HIDE DEF e
    <3>3. SameRequests
      BY <1>1, <3>1, <3>2
    <3> QED BY <2>2, <3>3
  <2> QED BY <1>2, <2>2, <2>3
<1>4. CASE broadcastReceived(i)
  <2> DEFINE n == sends[i].net
             ok == handle_rest_broadcast(n, sends[i].tx)
             e == [sends[i] EXCEPT !.pc = "answer", !.accepted = ok]
  <2>1. /\ node' = IF ok THEN [node EXCEPT ![n].pool = Append(@, sends[i].tx)] ELSE node
        /\ sends' = [sends EXCEPT ![i] = e]
    BY <1>4 DEF broadcastReceived
  <2> HIDE DEF ok
  <2>2. /\ e.net = sends[i].net /\ e.from = sends[i].from
        /\ e.to = sends[i].to /\ e.amount = sends[i].amount
    BY <1>0 DEF SendRecord
  <2> HIDE DEF e
  <2>3. SameRequests
    BY <1>1, <2>1, <2>2
  <2>4. SamePaid
    <3>1. \A l \in Networks : node[l] \in NodeRecord
      BY <1>0
    <3>2. \A l \in Networks :
            [node[l] EXCEPT !.pool = Append(node[l].pool, sends[i].tx)].paid = node[l].paid
      BY <3>1 DEF NodeRecord
    <3>3. \A l \in Networks :
            \/ node'[l] = node[l]
            \/ node'[l] = [node[l] EXCEPT !.pool = Append(node[l].pool, sends[i].tx)]
      <4>1. CASE ok
        <5>1. node' = [node EXCEPT ![n] = [node[n] EXCEPT !.pool = Append(node[n].pool, sends[i].tx)]]
          BY <2>1, <4>1
        <5> QED BY <1>0, <5>1
      <4>2. CASE ~ ok
        BY <2>1, <4>2
      <4> QED BY <4>1, <4>2
    <3>4. ASSUME NEW l \in Networks PROVE node'[l].paid = node[l].paid
      BY <3>2, <3>3
    <3> QED BY <3>4 DEF SamePaid
  <2> QED BY <2>3, <2>4
<1>5. CASE broadcastLost(i) \/ broadcastRefused(i)
  <2>1. SendFails(i) /\ node' = node
    BY <1>5 DEF broadcastLost, broadcastRefused
  <2> QED BY <1>2, <2>1 DEF SamePaid
<1>6. CASE broadcastAnswered(i)
  <2> DEFINE e == [sends[i] EXCEPT !.pc = "sent"]
             ss == [sends EXCEPT ![i] = e]
  <2>1. sends' = DetachAll(ss) /\ node' = node
    BY <1>6 DEF broadcastAnswered, SendSucceeds
  <2>2. /\ e.net = sends[i].net /\ e.from = sends[i].from
        /\ e.to = sends[i].to /\ e.amount = sends[i].amount /\ e \in SendRecord
    BY <1>0 DEF SendRecord
  <2> HIDE DEF e
  <2>3. /\ DOMAIN ss = DOMAIN sends
        /\ \A j \in DOMAIN sends :
             /\ ss[j] \in SendRecord
             /\ ss[j].net = sends[j].net /\ ss[j].from = sends[j].from
             /\ ss[j].to = sends[j].to /\ ss[j].amount = sends[j].amount
    BY <1>0, <2>2
  <2> HIDE DEF ss
  <2>4. /\ DOMAIN sends' = DOMAIN sends
        /\ \A j \in DOMAIN sends : sends'[j] = [ss[j] EXCEPT !.attached = FALSE]
    BY <2>1, <2>3 DEF DetachAll
  <2>5. \A j \in DOMAIN sends :
          /\ sends'[j].net = ss[j].net /\ sends'[j].from = ss[j].from
          /\ sends'[j].to = ss[j].to /\ sends'[j].amount = ss[j].amount
    BY <2>3, <2>4 DEF SendRecord
  <2>6. SameRequests
    BY <2>3, <2>4, <2>5 DEF SameRequests
  <2> QED BY <2>1, <2>6 DEF SamePaid
<1> QED BY <1>3, <1>4, <1>5, <1>6 DEF SendAnswers

(* Pressing Send asks for one payment under the next number.                 *)
LEMMA SendAsks ==
    ASSUME Inv, NEW r \in Recipients, NEW a \in Typed, handleSend(r, a)
    PROVE  P!Next
<1> DEFINE e == NewSend(r, a)
           p == Asked(e)
<1>0. PICK n \in Nat : n = Len(sends) + 1
  BY DEF Inv, TypeOK
<1>1. /\ SendShown /\ Len(sends) < MaxSends /\ sends' = Append(sends, e) /\ node' = node
  BY DEF handleSend, StartSend
<1>2. sends \in Seq(SendRecord) /\ Len(sends) \in Nat /\ DOMAIN sends = 1..Len(sends)
  BY DEF Inv, TypeOK
<1>3. /\ DOMAIN sends' = DOMAIN sends \cup {n} /\ n \notin DOMAIN sends
      /\ sends'[n] = e /\ \A i \in DOMAIN sends : sends'[i] = sends[i]
      /\ n \in 1..MaxSends
  <2> HIDE DEF e
  <2>1. /\ Len(sends') = n /\ sends'[n] = e /\ \A i \in DOMAIN sends : sends'[i] = sends[i]
        /\ DOMAIN sends' = 1..n
    BY <1>0, <1>1, <1>2
  <2>2. 1..n = (1..Len(sends)) \cup {n} /\ n \notin 1..Len(sends)
    BY <1>0, <1>2
  <2>3. n \in 1..MaxSends
    BY <1>0, <1>1, <1>2, WalletAssumption
  <2> QED BY <1>2, <2>1, <2>2, <2>3
<1>4. p \in {[net |-> m, from |-> q, to |-> s.bytes, atto |-> AskedAtto(b)] :
               m \in Networks, q \in Phrases, s \in Recipients, b \in Typed}
  <2>1. network \in Networks /\ account \in Phrases
    BY <1>1 DEF Inv, TypeOK, SendShown
  <2>2. p = [net |-> network, from |-> account, to |-> r.bytes, atto |-> AskedAtto(a)]
    BY DEF Asked, NewSend
  <2> QED BY <2>1, <2>2
<1> HIDE DEF e
<1>5. n \notin DOMAIN AskedBar
  BY <1>3 DEF AskedBar
<1>6. AskedBar' = P!With(AskedBar, [j \in {n} |-> p])
  BY <1>3 DEF AskedBar, P!With
<1>7. PaidBar' = PaidBar
  BY <1>1, PaidStays DEF SamePaid
<1> HIDE DEF p
<1>8. P!Ask(n, p)
  BY <1>5, <1>6, <1>7 DEF P!Ask, AskedBar, PaidBar, PaidNos
<1> QED BY <1>3, <1>4, <1>8 DEF P!Next

(* A block pays the requests whose transactions it executes, none twice.      *)
LEMMA BlockPays ==
    ASSUME PaidInv, PaidInv', NEW n \in Networks, mine_block(n)
    PROVE  P!Next
<1> DEFINE d == node[n]
<1>0. PICK S : S = PaidNos' \ PaidNos
  OBVIOUS
<1>1. node' = [node EXCEPT ![n] = Mined(d)] /\ sends' = sends
  BY DEF mine_block, Mined
<1>2. node \in [Networks -> NodeRecord] /\ d \in NodeRecord
  BY DEF PaidInv, Inv, TypeOK
<1>3. \A t \in Range(d.pool) : CanExecute(d, t)
  BY DEF PaidInv, Inv, NodeInv, PoolInv
<1>4. \A l \in Networks : node[l].paid \subseteq node'[l].paid
  <2>1. d.paid \subseteq Mined(d).paid
    <3> HIDE DEF d
    <3> QED BY <1>2, <1>3, BlockResult
  <2>2. node'[n] = Mined(d) /\ \A l \in Networks : l # n => node'[l] = node[l]
    BY <1>1, <1>2
  <2> QED BY <2>1, <2>2
<1>5. PaidNos \subseteq PaidNos'
  <2>1. PaidTxs \subseteq PaidTxs'
    BY <1>4 DEF PaidTxs
  <2> QED BY <2>1 DEF PaidNos
<1>6. /\ PaidNos \subseteq DOMAIN sends /\ PaidBar = [i \in PaidNos |-> Asked(sends[i])]
      /\ PaidNos' \subseteq DOMAIN sends
      /\ PaidBar' = [i \in PaidNos' |-> Asked(sends[i])]
  BY <1>1, PaidAsAskedFollows, PaidAsAskedNext DEF PaidAsAsked
<1>7. AskedBar' = AskedBar /\ DOMAIN AskedBar = DOMAIN sends
      /\ \A i \in DOMAIN sends : AskedBar[i] = Asked(sends[i])
  BY <1>1 DEF AskedBar
<1>8. DOMAIN PaidBar = PaidNos
  BY DEF PaidBar
<1>9. PaidBar' = P!With(PaidBar, [i \in S |-> AskedBar[i]])
  <2>1. PaidNos \cup S = PaidNos'
    BY <1>0, <1>5
  <2>2. \A i \in PaidNos' :
          (IF i \in PaidNos THEN PaidBar[i] ELSE [j \in S |-> AskedBar[j]][i])
            = Asked(sends[i])
    BY <1>0, <1>6, <1>7
  <2>3. P!With(PaidBar, [i \in S |-> AskedBar[i]])
          = [i \in PaidNos' |->
               IF i \in PaidNos THEN PaidBar[i] ELSE [j \in S |-> AskedBar[j]][i]]
    BY <1>8, <2>1 DEF P!With
  <2> QED BY <1>6, <2>2, <2>3
<1>10. S \subseteq (DOMAIN AskedBar) \ (DOMAIN PaidBar)
  BY <1>0, <1>6, <1>7, <1>8
<1>11. P!Pay(S)
  BY <1>7, <1>9, <1>10 DEF P!Pay, AskedBar, PaidBar, PaidNos
<1>12. S \in SUBSET DOMAIN AskedBar
  BY <1>10
<1> QED BY <1>11, <1>12 DEF P!Next, AskedBar

(* Nothing has been asked for and nothing is paid when the wallet is loaded.   *)
LEMMA InitImplements == Init => P!Init
<1> SUFFICES ASSUME Init PROVE P!Init
  OBVIOUS
<1>1. DOMAIN sends = {}
  BY DEF Init
<1>2. \A n \in Networks : node[n].paid = {}
  BY DEF Init
<1>3. PaidTxs = {}
  BY <1>2 DEF PaidTxs
<1>4. DOMAIN AskedBar = {} /\ DOMAIN PaidBar = {}
  BY <1>1, <1>3 DEF AskedBar, PaidBar, PaidNos
<1> QED BY <1>4 DEF P!Init, AskedBar, PaidBar, PaidNos

(* Every step of the wallet asks, pays, or is none of Payments' business.     *)
LEMMA NextImplements == PaidInv /\ PaidInv' /\ [Next]_vars => [P!Next]_(P!pvars)
<1> SUFFICES ASSUME PaidInv, PaidInv', Inv, [Next]_vars PROVE P!Next \/ UNCHANGED P!pvars
  BY DEF PaidInv
<1>1. ASSUME SameRequests, SamePaid PROVE UNCHANGED P!pvars
  <2>1. AskedBar' = AskedBar /\ PaidBar' = PaidBar
    BY <1>1, AskedStays, PaidStays
  <2> QED BY <2>1 DEF P!pvars, AskedBar, PaidBar, PaidNos
<1>2. ASSUME sends' = sends, node' = node PROVE UNCHANGED P!pvars
  BY <1>1, <1>2 DEF SameRequests, SamePaid
<1>3. ASSUME sends' = DetachAll(sends), node' = node PROVE UNCHANGED P!pvars
  <2>1. \A i \in DOMAIN sends : sends[i] \in SendRecord
    BY DEF Inv, TypeOK
  <2>2. /\ DOMAIN sends' = DOMAIN sends
        /\ \A i \in DOMAIN sends : sends'[i] = [sends[i] EXCEPT !.attached = FALSE]
    BY <1>3 DEF DetachAll
  <2>3. SameRequests
    BY <2>1, <2>2 DEF SameRequests, SendRecord
  <2> QED BY <1>1, <1>3, <2>3 DEF SamePaid
<1>4. CASE OnboardingNext
  <2>1. sends' = sends /\ node' = node
    BY <1>4 DEF OnboardingNext, handleStartCreate, handleVerifyStep, handleCheckWord,
       chooseImport, handleImportMnemonic, passwordRefused, handleCompletePassword,
       vaultEncrypted, vaultFailed, OnboardingStep
  <2> QED BY <1>2, <2>1
<1>5. CASE WalletNext
  <2>1. CASE handleLockWallet \/ closeSend
    <3>1. sends' = DetachAll(sends) /\ node' = node
      BY <2>1 DEF handleLockWallet, closeSend
    <3> QED BY <1>3, <3>1
  <2>2. CASE \/ \E n \in Networks : setNetwork(n)
             \/ intervalFires
             \/ \E k \in Networks \X Phrases : balanceAnswered(k) \/ balanceFailed(k)
             \/ openSend
    <3>1. sends' = sends /\ node' = node
      BY <2>2 DEF setNetwork, intervalFires, balanceAnswered, balanceFailed,
         BalanceRead, openSend
    <3> QED BY <1>2, <3>1
  <2>3. ASSUME NEW r \in Recipients, NEW a \in Typed, handleSend(r, a)
        PROVE  P!Next
    BY <2>3, SendAsks
  <2>4. ASSUME NEW r \in Recipients, NEW a \in Typed, handleSendRefused(r, a)
        PROVE  UNCHANGED P!pvars
    <3>1. sends' = sends /\ node' = node
      BY <2>4 DEF handleSendRefused
    <3> QED BY <1>2, <3>1
  <2> QED BY <1>5, <2>1, <2>2, <2>3, <2>4 DEF WalletNext
<1>6. CASE \E i \in 1..MaxSends : i \in DOMAIN sends /\ SendAnswers(i)
  <2>1. SameRequests /\ SamePaid
    BY <1>6, CallsAskNothing DEF Inv
  <2> QED BY <1>1, <2>1
<1>7. CASE \E n \in Networks : mine_block(n)
  BY <1>7, BlockPays
<1>8. CASE UNCHANGED vars
  BY <1>2, <1>8 DEF vars
<1> QED BY <1>4, <1>5, <1>6, <1>7, <1>8 DEF Next

(* The wallet and its nodes implement Payments: whatever is closed, locked,    *)
(* switched, lost or answered late, what a chain pays is what one press of the *)
(* button asked for - network, account, recipient, atto - and only once.  The   *)
(* atto are those of the amount typed, except that an exponent behind all the   *)
(* places read is dropped (CutOff) and what stands before it is paid.          *)
THEOREM Implements == Spec => PaymentsImplemented
<1>1. Spec => P!Init /\ [][P!Next]_(P!pvars)
  BY InitImplements, NextImplements, AlwaysPaidInv, PTL DEF Spec
<1> QED BY <1>1 DEF PaymentsImplemented, P!Spec

=============================================================================
