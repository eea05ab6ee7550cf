------------------------------- MODULE Orders -------------------------------
(***************************************************************************)
(* The code pages through rows in the order of their ids, takes the oldest  *)
(* of what is due, and counts rows: facts about the least and the greatest  *)
(* of a set of numbers, batches and copies, which the provers do not know.  *)
(***************************************************************************)
EXTENDS Integers, FiniteSets, FiniteSetTheorems, WellFoundedInduction, TLAPS

\* A relation that is the order of the naturals, given as a constant.
LEMMA LeastInOrder ==
  ASSUME NEW R, IsWellFoundedOn(R, Nat), \A x, y \in Nat : <<y, x>> \in R <=> y < x
  PROVE  \A S \in SUBSET Nat : S # {} => \E x \in S : \A y \in S : x <= y
<1> SUFFICES ASSUME NEW S \in SUBSET Nat, S # {}
             PROVE  \E x \in S : \A y \in S : x <= y
  OBVIOUS
<1>1. PICK x \in S : \A y \in S : ~(<<y, x>> \in R)
  BY WFMin
<1>2. ASSUME NEW y \in S PROVE x <= y
  <2>1. x \in Nat /\ y \in Nat /\ ~(<<y, x>> \in R)
    BY <1>1
  <2>2. ~(y < x)
    BY <2>1, Zenon
  <2> QED
    BY <2>1, <2>2
<1> QED
  BY <1>2

\* A set of numbers that is not empty has a least element,
LEMMA LeastNat ==
  ASSUME NEW S \in SUBSET Nat, S # {}
  PROVE  \E x \in S : \A y \in S : x <= y
<1>1. \A x, y \in Nat : <<y, x>> \in OpToRel(<, Nat) <=> y < x
  BY DEF OpToRel
<1>2. IsWellFoundedOn(OpToRel(<, Nat), Nat)
  BY NatLessThanWellFounded
<1> QED
  BY <1>1, <1>2, LeastInOrder, Zenon

\* and a greatest when it is bounded.
LEMMA GreatestNat ==
  ASSUME NEW N \in Nat, NEW S \in SUBSET (0..N), S # {}
  PROVE  \E x \in S : \A y \in S : x >= y
<1> DEFINE T == {i \in 0..N : N - i \in S}
<1>1. T \in SUBSET Nat /\ T # {}
  <2>1. PICK s \in S : TRUE
    OBVIOUS
  <2>2. N - s \in T
    BY <2>1
  <2> QED
    BY <2>2
<1> HIDE DEF T
<1>2. PICK x \in T : \A y \in T : x <= y
  BY <1>1, LeastNat
<1>3. N - x \in S /\ x \in 0..N
  BY <1>2 DEF T
<1>4. ASSUME NEW y \in S PROVE N - x >= y
  <2>1. N - y \in T
    BY DEF T
  <2> QED
    BY <2>1, <1>2, <1>3
<1> QED
  BY <1>3, <1>4

\* A batch, as jobs page through ids: the first n numbers of A above a position.
FirstAbove(A, n, pos) ==
  {b \in A : b > pos /\ Cardinality({a \in A : pos < a /\ a <= b}) <= n}

\* It leaves out none between the position and its end, and is empty only when
\* none is left.
LEMMA BatchIsFirstAbove ==
  ASSUME NEW A \in SUBSET Nat, IsFiniteSet(A), NEW n \in Nat \ {0}, NEW pos \in Nat
  PROVE  /\ FirstAbove(A, n, pos) \subseteq A
         /\ \A b \in FirstAbove(A, n, pos) : b > pos
         /\ \A a \in A, b \in FirstAbove(A, n, pos) :
              pos < a /\ a <= b => a \in FirstAbove(A, n, pos)
         /\ FirstAbove(A, n, pos) = {} => \A a \in A : a <= pos
<1> DEFINE batch == FirstAbove(A, n, pos)
           Upto(b) == {a \in A : pos < a /\ a <= b}
<1>0. pos \in Int /\ \A a \in A : a \in Int
  OBVIOUS
<1>1. \A b : IsFiniteSet(Upto(b)) /\ Cardinality(Upto(b)) \in Nat
  BY FS_Subset, FS_CardinalityType
<1>2. \A b : b \in batch <=> b \in A /\ b > pos /\ Cardinality(Upto(b)) <= n
  BY DEF FirstAbove
<1> HIDE DEF batch
<1>3. ASSUME NEW a \in A, NEW b \in batch, pos < a, a <= b
      PROVE  a \in batch
  <2>1. Upto(a) \subseteq Upto(b)
    <3>1. a \in Int /\ b \in Int
      BY <1>0, <1>2
    <3>2. \A c \in A : c \in Int /\ (c <= a => c <= b)
      BY <1>0, <1>3, <3>1
    <3> QED
      BY <3>2
  <2>2. Cardinality(Upto(a)) <= Cardinality(Upto(b))
    BY <1>1, <2>1, FS_Subset
  <2> HIDE DEF Upto
  <2>3. Cardinality(Upto(a)) <= n
    BY <1>1, <1>2, <2>2
  <2> QED
    BY <1>0, <1>2, <1>3, <2>3
<1>4. ASSUME NEW a \in A, a > pos
      PROVE  batch # {}
  <2> DEFINE Above == {c \in A : c > pos}
  <2>1. PICK least \in Above : \A c \in Above : least <= c
    <3>1. Above \in SUBSET Nat /\ Above # {}
      BY <1>4
    <3> HIDE DEF Above
    <3> QED
      BY <3>1, LeastNat
  <2>2. Upto(least) = {least}
    <3>1. least \in A /\ least \in Int /\ pos < least
      BY <1>0, <2>1
    <3>2. \A c \in A : pos < c /\ c <= least => c = least
      BY <1>0, <2>1, <3>1
    <3>3. least <= least
      BY <3>1
    <3> QED
      BY <3>1, <3>2, <3>3, Zenon
  <2>3. Cardinality(Upto(least)) = 1
    BY <2>2, FS_Singleton
  <2>4. least \in A /\ least > pos
    BY <2>1
  <2> HIDE DEF Upto
  <2> QED
    BY <1>2, <2>3, <2>4
<1>5. batch = {} => \A a \in A : a <= pos
  BY <1>0, <1>4
<1>6. batch \subseteq A /\ \A b \in batch : b > pos
  BY <1>2
<1> QED
  BY <1>3, <1>5, <1>6 DEF batch

\* So many copies of each member of a finite set are a number of copies.
LEMMA CopiesCounted ==
  ASSUME NEW B, IsFiniteSet(B), NEW f \in [B -> Nat]
  PROVE  Cardinality(UNION {{b} \X (1..f[b]) : b \in B}) \in Nat
<1> DEFINE copies == [b \in B |-> {b} \X (1..f[b])]
           T == {{b} \X (1..f[b]) : b \in B}
<1>1. IsFiniteSet(T)
  <2>1. copies \in Surjection(B, T)
    BY DEF Surjection
  <2> HIDE DEF copies, T
  <2> QED
    BY <2>1, FS_Surjection
<1>2. ASSUME NEW b \in B PROVE IsFiniteSet({b} \X (1..f[b]))
  <2>1. IsFiniteSet({b})
    BY FS_Singleton
  <2>2. f[b] \in Int /\ 1 \in Int
    OBVIOUS
  <2>3. IsFiniteSet(1..f[b])
    BY <2>2, FS_Interval
  <2> QED
    BY <2>1, <2>3, FS_Product
<1>3. \A X \in T : IsFiniteSet(X)
  BY <1>2
<1>4. IsFiniteSet(UNION T)
  <2> HIDE DEF T
  <2> QED
    BY <1>1, <1>3, FS_UNION
<1> QED
  BY <1>4, FS_CardinalityType

\* The first few of a finite set: those with less than n before them are at most
\* n.
LEMMA FirstFew ==
  ASSUME NEW S, IsFiniteSet(S), NEW before \in [S -> SUBSET S],
         \A x, y \in S : x = y \/ x \in before[y] \/ y \in before[x],
         \A x \in S : x \notin before[x],
         \A x, y \in S : x \in before[y] => before[x] \subseteq before[y],
         NEW n \in Nat, NEW few \in SUBSET S, \A x \in few : Cardinality(before[x]) < n
  PROVE  IsFiniteSet(few) /\ Cardinality(few) <= n
<1> DEFINE place == [x \in few |-> Cardinality(before[x])]
<1>1. \A x \in S : IsFiniteSet(before[x]) /\ Cardinality(before[x]) \in Nat
  <2>1. ASSUME NEW x \in S
        PROVE  IsFiniteSet(before[x])
    <3>1. before[x] \in SUBSET S
      OBVIOUS
    <3> QED
      BY <3>1, FS_Subset
  <2> QED
    BY <2>1, FS_CardinalityType
<1>2. ASSUME NEW x \in S, NEW y \in S, x \in before[y]
      PROVE  Cardinality(before[x]) < Cardinality(before[y])
  <2>1. before[x] \in SUBSET before[y] /\ before[x] # before[y]
    BY <1>2
  <2>2. /\ Cardinality(before[x]) <= Cardinality(before[y])
        /\ Cardinality(before[y]) = Cardinality(before[x]) => before[y] = before[x]
    BY <1>1, <2>1, FS_Subset
  <2> QED
    BY <1>1, <2>1, <2>2
<1>3. place \in Injection(few, 0..(n - 1))
  <2>1. place \in [few -> 0..(n - 1)]
    BY <1>1
  <2>2. ASSUME NEW x \in few, NEW y \in few, place[x] = place[y]
        PROVE  x = y
    <3>1. x \in S /\ y \in S /\ Cardinality(before[x]) = Cardinality(before[y])
      BY <2>2
    <3>2. x \notin before[y] /\ y \notin before[x]
      BY <1>1, <1>2, <3>1
    <3> QED
      BY <3>1, <3>2
  <2> QED
    BY <2>1, <2>2 DEF Injection, IsInjective
<1>4. IsFiniteSet(0..(n - 1)) /\ Cardinality(0..(n - 1)) = n
  <2>1. n - 1 \in Int /\ 0 \in Int
    OBVIOUS
  <2>2. IsFiniteSet(0..(n - 1)) /\ Cardinality(0..(n - 1)) = IF 0 > n - 1 THEN 0 ELSE (n - 1) - 0 + 1
    BY <2>1, FS_Interval
  <2> QED
    BY <2>2
<1> HIDE DEF place
<1> QED
  BY <1>3, <1>4, FS_Injection

\* The least few of a set of numbers: at most n, and some if there are any.
LEMMA LeastFew ==
  ASSUME NEW S \in SUBSET Nat, IsFiniteSet(S), NEW n \in Nat
  PROVE  /\ Cardinality({x \in S : Cardinality({y \in S : y < x}) < n}) <= n
         /\ n > 0 /\ S # {} => {x \in S : Cardinality({y \in S : y < x}) < n} # {}
<1> DEFINE below == [x \in S |-> {y \in S : y < x}]
           few == {x \in S : Cardinality({y \in S : y < x}) < n}
<1>1. \A x, y \in S : y \in below[x] <=> y < x
  OBVIOUS
<1>2. below \in [S -> SUBSET S] /\ few \in SUBSET S /\ \A x \in few : Cardinality(below[x]) < n
  OBVIOUS
<1>3. Cardinality(few) <= n
  <2> HIDE DEF below, few
  <2>1. \A x, y \in S : x = y \/ x \in below[y] \/ y \in below[x]
    <3>1. \A x, y \in S : x = y \/ x < y \/ y < x
      OBVIOUS
    <3> QED
      BY <1>1, <3>1
  <2>2. \A x \in S : x \notin below[x]
    BY <1>1
  <2>3. \A x, y \in S : x \in below[y] => below[x] \subseteq below[y]
    <3>1. \A x, y, z \in S : z < x /\ x < y => z < y
      OBVIOUS
    <3>2. \A x \in S : below[x] \subseteq S
      BY <1>2
    <3> QED
      BY <1>1, <3>1, <3>2
  <2> QED
    BY <1>2, <2>1, <2>2, <2>3, FirstFew
<1>4. ASSUME n > 0, S # {}
      PROVE  few # {}
  <2>1. PICK least \in S : \A y \in S : least <= y
    BY <1>4, LeastNat
  <2>2. {y \in S : y < least} = {}
    <3>1. \A y \in S : ~(y < least)
      BY <2>1
    <3> QED
      BY <3>1
  <2>3. Cardinality({y \in S : y < least}) = 0
    BY <2>2, FS_EmptySet
  <2> QED
    BY <1>4, <2>3
<1> QED
  BY <1>3, <1>4

\* A finite set of numbers that is not empty has a greatest element.
LEMMA GreatestOfFinite ==
  ASSUME NEW S \in SUBSET Nat, IsFiniteSet(S), S # {}
  PROVE  \E x \in S : \A y \in S : y <= x
<1> DEFINE below(x) == {y \in S : y < x}
           places == {Cardinality(below(x)) : x \in S}
<1>1. \A x : IsFiniteSet(below(x)) /\ Cardinality(below(x)) <= Cardinality(S)
  BY FS_Subset
<1>2. \A x : Cardinality(below(x)) \in Nat
  BY <1>1, FS_CardinalityType
<1>3. PICK n \in Nat : n = Cardinality(S)
  BY FS_CardinalityType
<1>4. ASSUME NEW x \in S, NEW y \in S, x < y
      PROVE  Cardinality(below(x)) < Cardinality(below(y))
  <2>1. \A z \in S : z < x => z < y
    BY <1>4
  <2>2. x \in below(y) /\ x \notin below(x)
    BY <1>4
  <2>3. below(x) \in SUBSET below(y) /\ below(x) # below(y)
    BY <2>1, <2>2
  <2> HIDE DEF below
  <2>4. /\ Cardinality(below(x)) <= Cardinality(below(y))
        /\ Cardinality(below(y)) = Cardinality(below(x)) => below(y) = below(x)
    BY <1>1, <2>3, FS_Subset
  <2> QED
    BY <1>2, <2>3, <2>4
<1> HIDE DEF below
<1>5. places \in SUBSET (0..n) /\ places # {}
  <2>1. \A x : Cardinality(below(x)) \in 0..n
    BY <1>1, <1>2, <1>3
  <2> QED
    BY <2>1
<1>6. PICK p \in places : \A q \in places : p >= q
  <2> HIDE DEF places
  <2> QED
    BY <1>5, GreatestNat
<1>7. PICK x \in S : p = Cardinality(below(x))
  OBVIOUS
<1>8. ASSUME NEW y \in S PROVE y <= x
  <2>1. Cardinality(below(x)) >= Cardinality(below(y))
    BY <1>6, <1>7
  <2>2. ~(x < y)
    BY <1>2, <1>4, <2>1
  <2> QED
    BY <2>2
<1> QED
  BY <1>8

-----------------------------------------------------------------------------
(* Sums: R is the function of the partial sums of v.                         *)

SumsUp(R, v, N) ==
    /\ R \in [0..N -> Nat]
    /\ \A n \in 0..N : R[n] = IF n = 0 THEN 0 ELSE R[n - 1] + v[n]

\* u is v with d more at m, and a sum is larger by d.
MoreAt(u, v, N, m, d) == \A n \in 1..N : u[n] = IF n = m THEN v[n] + d ELSE v[n]
LargerBy(Q, R, N, d) == Q[N] = R[N] + d

\* There are partial sums: those up to the first number that had none would be
\* those before it with one more.
LEMMA SumsExist ==
  ASSUME NEW N \in Nat, NEW v \in [1..N -> Nat]
  PROVE  \E R : SumsUp(R, v, N)
<1> DEFINE S == {m \in 0..N : ~ \E R : SumsUp(R, v, m)}
<1>1. ASSUME S # {} PROVE FALSE
  <2>1. S \in SUBSET Nat
    OBVIOUS
  <2>2. PICK m \in S : \A x \in S : m <= x
    BY <1>1, <2>1, LeastNat
  <2>3. m # 0
    <3>1. SumsUp([n \in 0..0 |-> 0], v, 0)
      BY DEF SumsUp
    <3> QED
      BY <2>2, <3>1
  <2>4. m - 1 \in 0..N /\ m - 1 \notin S /\ m \in 1..N
    BY <2>2, <2>3
  <2>5. PICK R : SumsUp(R, v, m - 1)
    BY <2>4
  <2>6. PICK Q : Q = [n \in 0..m |-> IF n = m THEN R[m - 1] + v[m] ELSE R[n]]
    OBVIOUS
  <2>7. R \in [0..(m - 1) -> Nat] /\ v[m] \in Nat
    BY <2>4, <2>5 DEF SumsUp
  <2>8. Q \in [0..m -> Nat]
    BY <2>4, <2>6, <2>7
  <2>9. ASSUME NEW n \in 0..m PROVE Q[n] = IF n = 0 THEN 0 ELSE Q[n - 1] + v[n]
    <3>1. CASE n = m
      <4>1. Q[m] = R[m - 1] + v[m] /\ Q[m - 1] = R[m - 1]
        BY <2>4, <2>6
      <4> QED
        BY <2>3, <3>1, <4>1
    <3>2. CASE n # m
      <4>1. n \in 0..(m - 1)
        BY <2>4, <3>2
      <4>2. Q[n] = R[n] /\ R[n] = IF n = 0 THEN 0 ELSE R[n - 1] + v[n]
        BY <2>5, <2>6, <3>2, <4>1 DEF SumsUp
      <4>3. n # 0 => Q[n - 1] = R[n - 1]
        BY <2>4, <2>6, <4>1
      <4> QED
        BY <4>2, <4>3
    <3> QED
      BY <3>1, <3>2
  <2>10. SumsUp(Q, v, m)
    BY <2>8, <2>9 DEF SumsUp
  <2> QED
    BY <2>2, <2>10
<1>2. N \notin S
  BY <1>1
<1> QED
  BY <1>2

\* When one of the numbers is d larger, the sum is d larger.
LEMMA SumsDiffer ==
  ASSUME NEW N \in Nat, NEW v \in [1..N -> Nat], NEW u \in [1..N -> Nat],
         NEW R, NEW Q, NEW m \in 1..N, NEW d \in Nat,
         SumsUp(R, v, N), SumsUp(Q, u, N), MoreAt(u, v, N, m, d)
  PROVE  LargerBy(Q, R, N, d)
<1> DEFINE S == {n \in 0..N : Q[n] # IF n < m THEN R[n] ELSE R[n] + d}
<1>1. ASSUME S # {} PROVE FALSE
  <2>1. S \in SUBSET Nat
    OBVIOUS
  <2>2. PICK n \in S : \A x \in S : n <= x
    BY <1>1, <2>1, LeastNat
  <2>3. R[0] = 0 /\ Q[0] = 0
    BY DEF SumsUp
  <2>4. n # 0
    BY <2>2, <2>3
  <2>5. n - 1 \in 0..N /\ n - 1 \notin S /\ n \in 1..N
    BY <2>2, <2>4
  <2>6. Q[n - 1] = IF n - 1 < m THEN R[n - 1] ELSE R[n - 1] + d
    BY <2>5
  <2>7. Q[n] = Q[n - 1] + u[n] /\ R[n] = R[n - 1] + v[n]
    <3>1. n \in 0..N /\ n # 0
      BY <2>4, <2>5
    <3> QED
      BY <3>1 DEF SumsUp
  <2>8. R[n - 1] \in Nat /\ v[n] \in Nat /\ u[n] \in Nat
    BY <2>5 DEF SumsUp
  <2>9. u[n] = IF n = m THEN v[n] + d ELSE v[n]
    BY <2>5 DEF MoreAt
  <2>10. Q[n] = IF n < m THEN R[n] ELSE R[n] + d
    <3>1. n \in Nat /\ m \in Nat
      BY <2>5
    <3>2. CASE n < m
      <4>1. Q[n - 1] = R[n - 1] /\ u[n] = v[n]
        BY <2>6, <2>9, <3>1, <3>2
      <4> QED
        BY <2>7, <3>2, <4>1
    <3>3. CASE n = m
      <4>1. Q[n - 1] = R[n - 1] /\ u[n] = v[n] + d
        BY <2>6, <2>9, <3>1, <3>3
      <4> QED
        BY <2>7, <2>8, <3>3, <3>1, <4>1
    <3>4. CASE n > m
      <4>1. Q[n - 1] = R[n - 1] + d /\ u[n] = v[n]
        BY <2>6, <2>9, <3>1, <3>4
      <4> QED
        BY SMTT(30), <2>7, <2>8, <3>1, <3>4, <4>1
    <3> QED
      BY <3>1, <3>2, <3>3, <3>4
  <2> QED
    BY <2>2, <2>10
<1>2. N \notin S
  BY <1>1
<1> QED
  BY <1>2 DEF LargerBy

LEMMA SumOfNothing ==
  ASSUME NEW N \in Nat, NEW v, NEW R, SumsUp(R, v, N), \A n \in 1..N : v[n] = 0
  PROVE  R[N] = 0
<1> DEFINE S == {n \in 0..N : R[n] # 0}
<1>1. ASSUME S # {} PROVE FALSE
  <2>1. S \in SUBSET Nat
    OBVIOUS
  <2>2. PICK n \in S : \A x \in S : n <= x
    BY <1>1, <2>1, LeastNat
  <2>3. R[0] = 0
    BY DEF SumsUp
  <2>5. n - 1 \in 0..N /\ n - 1 \notin S /\ n \in 1..N
    BY <2>2, <2>3
  <2>6. R[n] = R[n - 1] + v[n] /\ R[n - 1] = 0
    BY <2>5 DEF SumsUp
  <2> QED
    BY <2>2, <2>5, <2>6
<1> QED
  BY <1>1
=============================================================================
