-------------------------- MODULE FiniteInduction --------------------------
(***************************************************************************)
(* Induction for the proofs about what recursive functions compute.  The   *)
(* library's induction theorems take an operator, which the provers cannot *)
(* instantiate; here induction is stated for sets, and follows from the    *)
(* library's theorem that strict inclusion of finite sets is well founded. *)
(* With what follows for recursion on numbers, for Min and Max, and for    *)
(* Front, Last and FlattenSeq of sequences.                                *)
(***************************************************************************)
EXTENDS Integers, SequencesExt, FiniteSetTheorems, SequenceTheorems, TLAPS

\* Among finite sets there is one that contains no other.
LEMMA FiniteSetMinimal ==
  ASSUME NEW S, NEW C, C \subseteq FiniteSubsetsOf(S), C # {}
  PROVE  \E x \in C : \A y \in C : ~ (y \subseteq x /\ y # x)
<1>1. PICK R : R = StrictSubsetOrdering(S)
  OBVIOUS
<1>2. PICK F : F = FiniteSubsetsOf(S)
  OBVIOUS
<1>3. IsWellFoundedOn(R, F)
  BY <1>1, <1>2, FS_StrictSubsetOrderingWellFounded
<1>4. \E x \in C : \A y \in C : ~ (<<y, x>> \in R)
  BY <1>2, <1>3, WFMin
<1>5. \A x, y \in C : (y \subseteq x /\ y # x) => <<y, x>> \in R
  BY <1>1 DEF StrictSubsetOrdering, FiniteSubsetsOf
<1> QED
  BY <1>4, <1>5

\* A set with 0 and with the successor of each of its numbers has them all:
\* a number outside it gives a least one, whose interval contains no other.
LEMMA NatSetInduction ==
  ASSUME NEW S, 0 \in S, \A n \in Nat : n \in S => n + 1 \in S
  PROVE  Nat \subseteq S
<1>1. SUFFICES ASSUME NEW m \in Nat \ S PROVE FALSE
  OBVIOUS
<1>2. PICK C : C = { 0..n : n \in Nat \ S }
  OBVIOUS
<1>3. C \subseteq FiniteSubsetsOf(Nat)
  <2>1. \A n \in Nat : IsFiniteSet(0..n)
    BY FS_Interval
  <2>2. \A n \in Nat : 0..n \in SUBSET Nat
    OBVIOUS
  <2>3. \A n \in Nat : 0..n \in FiniteSubsetsOf(Nat)
    BY <2>1, <2>2 DEF FiniteSubsetsOf
  <2> QED
    BY <1>2, <2>3
<1>4. C # {}
  BY <1>2
<1>5. PICK x \in C : \A y \in C : ~ (y \subseteq x /\ y # x)
  BY <1>3, <1>4, FiniteSetMinimal
<1>6. PICK n \in Nat \ S : x = 0..n
  BY <1>2
<1>7. n # 0 /\ n - 1 \in Nat \ S
  OBVIOUS
<1>8. 0..(n-1) \in C
  BY <1>2, <1>7
<1>9. 0..(n-1) \subseteq 0..n /\ n \notin 0..(n-1) /\ n \in 0..n
  OBVIOUS
<1> QED
  BY <1>5, <1>6, <1>8, <1>9

\* A finite set of numbers has a largest one: the set of the larger ones is
\* smallest for it.
LEMMA LargestNumber ==
  ASSUME NEW S \in SUBSET Nat, IsFiniteSet(S), S # {}
  PROVE  \E m \in S : \A k \in S : k <= m
<1>1. PICK C : C = { { b \in S : b > a } : a \in S }
  OBVIOUS
<1>2. C \subseteq FiniteSubsetsOf(S) /\ C # {}
  <2>1. \A a \in S : { b \in S : b > a } \in SUBSET S
    OBVIOUS
  <2>2. \A T \in SUBSET S : IsFiniteSet(T)
    BY FS_Subset
  <2>3. \A a \in S : { b \in S : b > a } \in FiniteSubsetsOf(S)
    BY <2>1, <2>2 DEF FiniteSubsetsOf
  <2> QED
    BY <1>1, <2>3
<1>3. PICK x \in C : \A y \in C : ~ (y \subseteq x /\ y # x)
  BY <1>2, FiniteSetMinimal
<1>4. PICK m \in S : x = { b \in S : b > m }
  BY <1>1, <1>3
<1>5. SUFFICES ASSUME NEW k \in S, k > m PROVE FALSE
  BY <1>4
<1>6. PICK y : y = { b \in S : b > k }
  OBVIOUS
<1>7. y \in C
  BY <1>1, <1>6
<1>8. y \subseteq x /\ k \in x /\ k \notin y
  <2>1. k \in Nat /\ m \in Nat /\ k > m
    BY <1>5
  <2>2. \A b \in S : b > k => b > m
    BY <2>1
  <2>3. ~ (k > k)
    BY <2>1
  <2> QED
    BY <1>4, <1>5, <1>6, <2>2, <2>3
<1> QED
  BY <1>3, <1>7, <1>8

\* A finite set of numbers can be listed in ascending order.
LEMMA AscendingList ==
  ASSUME NEW S \in SUBSET Nat, IsFiniteSet(S)
  PROVE  \E f \in [1..Cardinality(S) -> S] : \A i, j \in DOMAIN f : i < j => f[i] < f[j]
<1> DEFINE Listed(T) == \E f \in [1..Cardinality(T) -> T] :
                           \A i, j \in DOMAIN f : i < j => f[i] < f[j]
<1>1. SUFFICES ASSUME ~ Listed(S) PROVE FALSE
  OBVIOUS
<1>2. PICK C : C = { T \in FiniteSubsetsOf(Nat) : ~ Listed(T) }
  OBVIOUS
<1>3. C \subseteq FiniteSubsetsOf(Nat)
  BY <1>2
<1>4. PICK x \in C : \A y \in C : ~ (y \subseteq x /\ y # x)
  <2>1. C # {}
    BY <1>1, <1>2 DEF FiniteSubsetsOf
  <2> QED
    BY <1>3, <2>1, FiniteSetMinimal
<1>5. x \in SUBSET Nat /\ IsFiniteSet(x) /\ ~ Listed(x)
  BY <1>2, <1>4 DEF FiniteSubsetsOf
<1>6. x # {}
  <2>1. SUFFICES ASSUME x = {} PROVE FALSE
    OBVIOUS
  <2>2. Cardinality(x) = 0
    BY <2>1, FS_EmptySet
  <2>3. PICK f : f = [i \in 1..0 |-> 0]
    OBVIOUS
  <2>4. f \in [1..0 -> x] /\ DOMAIN f = {}
    BY <2>3
  <2> QED
    BY <1>5, <2>2, <2>4
<1>7. PICK m \in x : \A k \in x : k <= m
  BY <1>5, <1>6, LargestNumber
<1>8. PICK y : y = x \ {m}
  OBVIOUS
<1>9. /\ y \in SUBSET Nat /\ IsFiniteSet(y) /\ y \subseteq x /\ y # x
      /\ Cardinality(x) \in Nat /\ Cardinality(y) = Cardinality(x) - 1
      /\ Cardinality(y) \in Nat
  BY <1>5, <1>7, <1>8, FS_RemoveElement, FS_CardinalityType
<1>10. Listed(y)
  <2>1. y \notin C
    BY <1>4, <1>9
  <2>2. y \in FiniteSubsetsOf(Nat)
    BY <1>9 DEF FiniteSubsetsOf
  <2> QED
    BY <1>2, <2>1, <2>2
<1>11. PICK f \in [1..Cardinality(y) -> y] : \A i, j \in DOMAIN f : i < j => f[i] < f[j]
  BY <1>10
<1>12. PICK n \in Nat : n = Cardinality(x)
  BY <1>9
<1>13. n # 0 /\ f \in [1..(n - 1) -> y]
  BY <1>9, <1>11, <1>12
<1>14. PICK g : g = [i \in 1..n |-> IF i = n THEN m ELSE f[i]]
  OBVIOUS
<1>15. g \in [1..n -> x]
  <2>1. \A i \in 1..n : i # n => f[i] \in x
    <3>1. \A i \in 1..n : i # n => i \in 1..(n - 1)
      BY <1>12
    <3>2. \A i \in 1..(n - 1) : f[i] \in y
      BY <1>13
    <3> QED
      BY <1>8, <3>1, <3>2
  <2> QED
    BY <1>7, <1>14, <2>1
<1>16. ASSUME NEW i \in 1..n, NEW j \in 1..n, i < j PROVE g[i] < g[j]
  <2>1. i \in 1..(n - 1) /\ g[i] = f[i]
    BY <1>12, <1>14, <1>16
  <2>2. f[i] \in x /\ f[i] # m /\ f[i] \in Nat /\ m \in Nat
    BY <1>5, <1>7, <1>8, <1>13, <2>1
  <2>3. CASE j = n
    <3>1. f[i] <= m
      BY <1>7, <2>2
    <3>2. g[j] = m
      BY <1>14, <2>3
    <3> QED
      BY <2>1, <2>2, <3>1, <3>2
  <2>4. CASE j # n
    <3>1. j \in 1..(n - 1) /\ g[j] = f[j]
      BY <1>12, <1>14, <2>4
    <3>2. DOMAIN f = 1..(n - 1)
      BY <1>13
    <3>3. f[i] < f[j]
      BY <1>11, <1>16, <2>1, <3>1, <3>2
    <3> QED
      BY <2>1, <3>1, <3>3
  <2> QED
    BY <2>3, <2>4
<1>17. Listed(x)
  <2>1. g \in [1..Cardinality(x) -> x] /\ DOMAIN g = 1..n
    BY <1>12, <1>15
  <2> QED
    BY <1>16, <2>1
<1> QED
  BY <1>5, <1>17
----------------------------------------------------------------------------
(* Recursion, and the smallest and the largest number of a set *)

\* The values from a at 0 to n, of which each one is a step g from the one before.
iterate(a, g, n) == CHOOSE f : f = [i \in 0..n |-> IF i = 0 THEN a ELSE g[i][f[i - 1]]]

\* They exist when the step leads from every value to a value.
Steps(g, n, S) == g \in [1..n -> [S -> S]]

\* The values are what the steps make them.
LEMMA NatRecursion ==
  ASSUME NEW S, NEW a \in S, NEW n \in Nat, NEW g, Steps(g, n, S)
  PROVE  /\ iterate(a, g, n) \in [0..n -> S] /\ iterate(a, g, n)[0] = a
         /\ \A i \in 1..n : iterate(a, g, n)[i] = g[i][iterate(a, g, n)[i - 1]]
<1>0. g \in [1..n -> [S -> S]]
  BY DEF Steps
<1> DEFINE Defined(m, f) == f[0] = a /\ \A i \in 1..m : f[i] = g[i][f[i - 1]]
           M == { m \in Nat : m <= n => \E f \in [0..m -> S] : Defined(m, f) }
<1>1. 0 \in M
  <2>1. [i \in 0..0 |-> a] \in [0..0 -> S] /\ Defined(0, [i \in 0..0 |-> a])
    OBVIOUS
  <2> QED
    BY <2>1
<1>2. \A m \in Nat : m \in M => m + 1 \in M
  <2> SUFFICES ASSUME NEW m \in Nat, m \in M, m + 1 <= n
               PROVE \E f \in [0..(m + 1) -> S] : Defined(m + 1, f)
    <3> HIDE DEF Defined
    <3> QED
      OBVIOUS
  <2>1. PICK f \in [0..m -> S] : Defined(m, f)
    OBVIOUS
  <2>2. m \in 0..m /\ m + 1 \in 1..n
    OBVIOUS
  <2>3. PICK v \in S : v = g[m + 1][f[m]]
    BY <1>0, <2>2
  <2>4. PICK h : h = [i \in 0..(m + 1) |-> IF i = m + 1 THEN v ELSE f[i]]
    OBVIOUS
  <2>5. /\ h \in [0..(m + 1) -> S] /\ h[m + 1] = v
        /\ \A i \in 0..m : h[i] = f[i]
    BY <2>4
  <2>6. \A i \in 1..m : i \in 0..m /\ i - 1 \in 0..m
    OBVIOUS
  <2>7. ASSUME NEW i \in 1..(m + 1) PROVE h[i] = g[i][h[i - 1]]
    <3>1. CASE i = m + 1
      <4>1. i - 1 = m
        BY <3>1
      <4> QED
        BY <2>2, <2>3, <2>5, <3>1, <4>1
    <3>2. CASE i \in 1..m
      BY <2>1, <2>5, <2>6, <3>2
    <3> QED
      BY <3>1, <3>2
  <2>8. h[0] = a
    BY <2>1, <2>5
  <2> QED
    BY <2>5, <2>7, <2>8
<1>3. n \in M
  <2> HIDE DEF M
  <2> QED
    BY <1>1, <1>2, NatSetInduction
<1>4. PICK f \in [0..n -> S] : Defined(n, f)
  BY <1>3
<1> HIDE DEF M
<1> DEFINE eq(h) == h = [i \in 0..n |-> IF i = 0 THEN a ELSE g[i][h[i - 1]]]
           s == CHOOSE h : eq(h)
<1>5. eq(f)
  <2>1. \A i \in 0..n : f[i] = IF i = 0 THEN a ELSE g[i][f[i - 1]]
    BY <1>4
  <2> QED
    BY <1>4, <2>1
<1>6. eq(s)
  <2> HIDE DEF eq
  <2> QED
    BY <1>5
<1>7. iterate(a, g, n) = s
  BY Zenon DEF iterate
<1> HIDE DEF s
<1>8. s = [i \in 0..n |-> s[i]] /\ s[0] = a
  <2>1. 0 \in 0..n
    OBVIOUS
  <2> QED
    BY <1>6, <2>1
<1>9. ASSUME NEW i \in 1..n PROVE s[i] = g[i][s[i - 1]]
  <2>1. i \in 0..n /\ i # 0
    OBVIOUS
  <2> QED
    BY <1>6, <2>1
<1> HIDE DEF eq
<1> DEFINE K == { i \in Nat : i <= n => s[i] \in S }
<1>10. 0 \in K
  BY <1>8
<1>11. ASSUME NEW i \in Nat, i \in K PROVE i + 1 \in K
  <2> SUFFICES ASSUME i + 1 <= n PROVE s[i + 1] \in S
    OBVIOUS
  <2>1. s[i] \in S /\ i + 1 \in 1..n /\ (i + 1) - 1 = i
    BY <1>11
  <2>2. s[i + 1] = g[i + 1][s[i]]
    BY <1>9, <2>1
  <2> QED
    BY <1>0, <2>1, <2>2
<1>12. Nat \subseteq K
  <2> HIDE DEF K
  <2> QED
    BY <1>10, <1>11, NatSetInduction
<1>13. \A i \in 0..n : s[i] \in S
  BY <1>12
<1>14. s \in [0..n -> S]
  BY <1>8, <1>13
<1> QED
  BY <1>7, <1>8, <1>9, <1>14

\* A set of numbers has a smallest one, and a finite set a largest one.
LEMMA MinIsSmallest ==
  ASSUME NEW S \in SUBSET Nat, S # {}
  PROVE  Min(S) \in S /\ \A y \in S : Min(S) <= y
<1> DEFINE T == { k \in Nat : \A y \in S : k <= y }
<1>1. SUFFICES ASSUME ~ \E x \in S : \A y \in S : x <= y PROVE FALSE
  BY DEF Min
<1>2. 0 \in T
  OBVIOUS
<1>3. ASSUME NEW k \in Nat, k \in T PROVE k + 1 \in T
  <2>1. k \notin S
    BY <1>1, <1>3
  <2> QED
    BY <1>3, <2>1
<1>4. Nat \subseteq T
  <2> HIDE DEF T
  <2> QED
    BY <1>2, <1>3, NatSetInduction
<1>5. PICK y \in S : TRUE
  OBVIOUS
<1>6. y + 1 \in T
  BY <1>4
<1>7. y + 1 <= y
  BY <1>6
<1> QED
  BY <1>7

LEMMA MaxIsLargest ==
  ASSUME NEW S \in SUBSET Nat, IsFiniteSet(S), S # {}
  PROVE  Max(S) \in S /\ \A y \in S : y <= Max(S)
<1>1. \E x \in S : \A y \in S : x >= y
  BY LargestNumber
<1>2. Max(S) \in S /\ \A y \in S : Max(S) >= y
  BY <1>1 DEF Max
<1> QED
  BY <1>2
----------------------------------------------------------------------------
(* Sequences *)

\* Sequences with the same elements are equal.
LEMMA SameElements ==
  ASSUME NEW P, NEW s \in Seq(P), NEW t \in Seq(P), Len(s) = Len(t),
         \A k \in 1..Len(s) : s[k] = t[k]
  PROVE  s = t
  OBVIOUS

\* What Front and Last say of a sequence with one more element,
LEMMA FrontAppend ==
  ASSUME NEW P, NEW s \in Seq(P), NEW e \in P, NEW t, t = Append(s, e)
  PROVE  /\ t \in Seq(P) /\ Len(t) = Len(s) + 1 /\ t # <<>> /\ Front(t) = s /\ Last(t) = e
         /\ \A k \in 1..Len(s) : t[k] = s[k]
<1>1. /\ t \in Seq(P) /\ Len(t) = Len(s) + 1 /\ Len(s) \in Nat /\ t # <<>>
      /\ \A k \in 1..Len(s) : t[k] = s[k]
      /\ t[Len(s) + 1] = e
  OBVIOUS
<1>2. Last(t) = e
  BY <1>1 DEF Last
<1>3. Front(t) = s
  <2>1. Front(t) = SubSeq(t, 1, Len(s))
    BY <1>1 DEF Front
  <2>2. PICK u : u = SubSeq(t, 1, Len(s))
    OBVIOUS
  <2>3. \A k \in 1..Len(s) : t[k] \in P
    BY <1>1
  <2>4. u \in Seq(P) /\ Len(u) = Len(s) /\ \A k \in 1..Len(s) : u[k] = t[k]
    <3>1. PICK n \in Nat : n = Len(s)
      BY <1>1
    <3>2. /\ SubSeq(t, 1, n) \in Seq(P)
          /\ Len(SubSeq(t, 1, n)) = IF 1 <= n THEN n - 1 + 1 ELSE 0
          /\ \A k \in 1..(n - 1 + 1) : SubSeq(t, 1, n)[k] = t[1 + k - 1]
      BY <2>3, <3>1, SubSeqProperties
    <3>3. n - 1 + 1 = n /\ (IF 1 <= n THEN n - 1 + 1 ELSE 0) = n
      OBVIOUS
    <3>4. \A k \in 1..n : 1 + k - 1 = k
      OBVIOUS
    <3> QED
      BY <2>2, <3>1, <3>2, <3>3, <3>4
  <2>5. u = s
    BY <1>1, <2>4, SameElements
  <2> QED
    BY <2>1, <2>2, <2>5
<1> QED
  BY <1>1, <1>2, <1>3

\* and of any that is not empty.
LEMMA FrontLast ==
  ASSUME NEW P, NEW s \in Seq(P), s # <<>>
  PROVE  /\ Len(s) \in Nat \ {0} /\ Last(s) \in P /\ Last(s) = s[Len(s)]
         /\ Front(s) \in Seq(P) /\ Len(Front(s)) = Len(s) - 1
         /\ \A k \in 1..(Len(s) - 1) : Front(s)[k] = s[k]
         /\ s = Append(Front(s), Last(s))
<1>1. Len(s) \in Nat \ {0} /\ \A k \in 1..Len(s) : s[k] \in P
  OBVIOUS
<1>2. PICK n \in Nat : n = Len(s) - 1
  BY <1>1
<1>3. /\ SubSeq(s, 1, n) \in Seq(P) /\ Len(SubSeq(s, 1, n)) = n
      /\ \A k \in 1..n : SubSeq(s, 1, n)[k] = s[k]
  <2>1. \A k \in 1..n : s[k] \in P
    BY <1>1, <1>2
  <2>2. /\ SubSeq(s, 1, n) \in Seq(P)
        /\ Len(SubSeq(s, 1, n)) = IF 1 <= n THEN n - 1 + 1 ELSE 0
        /\ \A k \in 1..(n - 1 + 1) : SubSeq(s, 1, n)[k] = s[1 + k - 1]
    BY <1>2, <2>1, SubSeqProperties
  <2>3. n - 1 + 1 = n /\ (IF 1 <= n THEN n - 1 + 1 ELSE 0) = n
    OBVIOUS
  <2>4. \A k \in 1..n : 1 + k - 1 = k
    OBVIOUS
  <2> QED
    BY <2>2, <2>3, <2>4
<1>4. Front(s) = SubSeq(s, 1, n) /\ Last(s) = s[n + 1] /\ n + 1 = Len(s)
  BY <1>1, <1>2 DEF Front, Last
<1>5. PICK f : f = Front(s)
  OBVIOUS
<1>6. f \in Seq(P) /\ Len(f) = n /\ \A k \in 1..n : f[k] = s[k]
  BY <1>3, <1>4, <1>5
<1>7. PICK e \in P : e = Last(s)
  BY <1>1, <1>4
<1>8. PICK t : t = Append(f, e)
  OBVIOUS
<1>9. t \in Seq(P) /\ Len(t) = n + 1 /\ t[n + 1] = e /\ \A k \in 1..n : t[k] = f[k]
  BY <1>6, <1>8
<1>10. \A k \in 1..Len(s) : t[k] = s[k]
  BY <1>2, <1>4, <1>6, <1>7, <1>9, SMTT(30)
<1>11. t = s
  BY <1>4, <1>9, <1>10, SameElements
<1> QED
  BY <1>1, <1>2, <1>4, <1>5, <1>6, <1>7, <1>8, <1>11
----------------------------------------------------------------------------
(* FlattenSeq *)

\* The first sequences put together, for each number of them.
joins(seqs) == CHOOSE f : f = [i \in 1..Len(seqs) |->
                                 IF i = 1 THEN seqs[i] ELSE f[i - 1] \o seqs[i]]

\* FlattenSeq is the last of them, and each one follows from the one before.
LEMMA FlattenDef ==
  ASSUME NEW P, NEW seqs \in Seq(Seq(P)), seqs # <<>>
  PROVE  /\ FlattenSeq(seqs) = joins(seqs)[Len(seqs)]
         /\ joins(seqs) \in [1..Len(seqs) -> Seq(P)] /\ joins(seqs)[1] = seqs[1]
         /\ \A i \in 2..Len(seqs) : joins(seqs)[i] = joins(seqs)[i - 1] \o seqs[i]
<1>0. PICK n \in Nat : n = Len(seqs) /\ n # 0
  OBVIOUS
<1> DEFINE eq(h) == h = [i \in 1..n |-> IF i = 1 THEN seqs[i] ELSE h[i - 1] \o seqs[i]]
           s == CHOOSE h : eq(h)
<1>1. Len(seqs) = n /\ \A i \in 1..n : seqs[i] \in Seq(P)
  BY <1>0
<1>2. FlattenSeq(seqs) = joins(seqs)[n] /\ joins(seqs) = s
  <2>1. FlattenSeq(seqs) = IF Len(seqs) = 0 THEN seqs ELSE joins(seqs)[Len(seqs)]
    BY ZenonT(60) DEF FlattenSeq, joins
  <2>2. joins(seqs) = s
    BY <1>1, Zenon DEF joins
  <2> QED
    BY <1>1, <2>1, <2>2
<1>3. PICK S : S = Seq(P)
  OBVIOUS
<1>4. PICK m \in Nat : m = n - 1
  <2>1. n - 1 \in Nat
    BY <1>0
  <2> QED
    BY <2>1
<1>5. PICK g : g = [i \in 1..m |-> [q \in S |-> q \o seqs[i + 1]]]
  OBVIOUS
<1>6. \A i \in 1..m : i + 1 \in 1..n /\ i - 1 \in 0..m /\ i \in 0..m /\ i + 1 # 1 /\ (i + 1) - 1 = i
  BY <1>4
<1>7. ASSUME NEW q \in S, NEW i \in 1..m PROVE g[i][q] = q \o seqs[i + 1]
  BY <1>5
<1>8. ASSUME NEW q \in S, NEW i \in 1..m PROVE q \o seqs[i + 1] \in S
  <2>1. PICK t \in Seq(P) : t = seqs[i + 1]
    BY <1>1, <1>6
  <2> QED
    BY <1>3, <2>1
<1>9. Steps(g, m, S)
  BY <1>5, <1>8 DEF Steps
<1>10. PICK a \in S : a = seqs[1]
  BY <1>1, <1>3
<1>11. PICK h : h = iterate(a, g, m)
  OBVIOUS
<1>12. /\ 0 \in 0..m /\ h \in [0..m -> S] /\ h[0] = a
       /\ \A i \in 1..m : h[i] = g[i][h[i - 1]]
  <2>1. /\ iterate(a, g, m) \in [0..m -> S] /\ iterate(a, g, m)[0] = a
        /\ \A i \in 1..m : iterate(a, g, m)[i] = g[i][iterate(a, g, m)[i - 1]]
    BY <1>9, NatRecursion
  <2> QED
    BY <1>11, <2>1
<1>13. ASSUME NEW i \in 1..m PROVE h[i] = h[i - 1] \o seqs[i + 1]
  <2>1. h[i - 1] \in S /\ h[i] = g[i][h[i - 1]]
    BY <1>6, <1>12
  <2> QED
    BY <1>7, <2>1
<1>14. PICK f : f = [i \in 1..n |-> h[i - 1]]
  OBVIOUS
<1>15. \A i \in 1..n : i - 1 \in 0..m /\ (i # 1 => i \in 2..n)
  BY <1>4
<1>16. f \in [1..n -> S] /\ f[1] = seqs[1]
  <2>1. 1 \in 1..n /\ 1 - 1 = 0
    BY <1>0
  <2>2. f[1] = h[0]
    BY <1>14, <2>1
  <2>3. f \in [1..n -> S]
    BY <1>12, <1>14, <1>15
  <2> QED
    BY <1>10, <1>12, <2>2, <2>3
<1>17. ASSUME NEW i \in 2..n PROVE f[i] = f[i - 1] \o seqs[i]
  <2>1. i \in 1..n /\ i - 1 \in 1..n /\ i - 1 \in 1..m /\ (i - 1) + 1 = i
    BY <1>4
  <2>2. f[i] = h[i - 1] /\ f[i - 1] = h[(i - 1) - 1]
    BY <1>14, <2>1
  <2> QED
    BY <1>13, <2>1, <2>2
<1>18. eq(f)
  <2>1. \A i \in 1..n : f[i] = IF i = 1 THEN seqs[i] ELSE f[i - 1] \o seqs[i]
    BY <1>15, <1>16, <1>17
  <2> QED
    BY <1>16, <2>1
<1>19. eq(s)
  <2> HIDE DEF eq
  <2> QED
    BY <1>18
<1> HIDE DEF s
<1>20. s = [i \in 1..n |-> s[i]] /\ s[1] = seqs[1]
  BY <1>0, <1>19
<1>21. ASSUME NEW i \in 2..n PROVE s[i] = s[i - 1] \o seqs[i]
  <2>1. i \in 1..n /\ i # 1
    OBVIOUS
  <2> QED
    BY <1>19, <2>1
<1> HIDE DEF eq
<1>22. \A i \in 1..n : s[i] = f[i]
  <2> DEFINE M == { i \in Nat : i + 1 <= n => s[i + 1] = f[i + 1] }
  <2>1. 0 \in M
    BY <1>16, <1>20
  <2>2. ASSUME NEW i \in Nat, i \in M PROVE i + 1 \in M
    <3> SUFFICES ASSUME (i + 1) + 1 <= n PROVE s[(i + 1) + 1] = f[(i + 1) + 1]
      OBVIOUS
    <3>1. i + 1 <= n /\ (i + 1) + 1 \in 2..n /\ ((i + 1) + 1) - 1 = i + 1
      OBVIOUS
    <3> QED
      BY <1>17, <1>21, <2>2, <3>1
  <2>3. Nat \subseteq M
    <3> HIDE DEF M
    <3> QED
      BY <2>1, <2>2, NatSetInduction
  <2>4. ASSUME NEW i \in 1..n PROVE s[i] = f[i]
    <3>1. PICK j \in Nat : j = i - 1
      OBVIOUS
    <3>2. j \in M /\ j + 1 = i
      <4> HIDE DEF M
      <4> QED
        BY <2>3, <3>1
    <3>3. j + 1 <= n
      BY <3>1
    <3> QED
      BY <3>2, <3>3
  <2> QED
    BY <2>4
<1>23. s = f
  <2>1. f = [i \in 1..n |-> f[i]]
    BY <1>16
  <2> QED
    BY <1>20, <1>22, <2>1
<1>24. \A i \in 2..n : f[i] = f[i - 1] \o seqs[i]
  BY <1>17
<1> QED
  BY <1>0, <1>2, <1>3, <1>16, <1>23, <1>24

\* It has the elements of the sequences.
LEMMA FlattenType ==
  ASSUME NEW P, NEW seqs \in Seq(Seq(P))
  PROVE  FlattenSeq(seqs) \in Seq(P)
<1>1. CASE seqs = <<>>
  <2>1. Len(seqs) = 0 /\ seqs \in Seq(P)
    BY <1>1
  <2>2. FlattenSeq(seqs) = seqs
    BY <2>1 DEF FlattenSeq
  <2> QED
    BY <2>1, <2>2
<1>2. CASE seqs # <<>>
  <2>1. PICK n \in Nat : n = Len(seqs) /\ n # 0
    BY <1>2
  <2>2. joins(seqs) \in [1..n -> Seq(P)] /\ FlattenSeq(seqs) = joins(seqs)[n]
    BY <1>2, <2>1, FlattenDef
  <2> QED
    BY <2>1, <2>2
<1> QED
  BY <1>1, <1>2
============================================================================
