--------------------------- MODULE SortingProofs ----------------------------
(***************************************************************************)
(* Facts about lists that other proofs need: a sorted list has every       *)
(* element once, and sequences that are put end to end stay as they are.   *)
(* The library's induction theorems take the goal as an operator; Induct   *)
(* and SmallestSubset take it as a set.                                    *)
(***************************************************************************)
EXTENDS Sorting, SequencesExt, FiniteSetTheorems, SequenceTheorems, TLAPS

\* A set of numbers that is not empty has a least one.
LEMMA Least ==
    ASSUME NEW T, T \subseteq Nat, T # {}
    PROVE  \E n \in T : \A m \in T : n <= m
<1>1. PICK R : /\ IsWellFoundedOn(R, Nat)
               /\ \A x, y \in Nat : y < x => <<y, x>> \in R
  <2> DEFINE Less == OpToRel(<, Nat)
  <2>1. IsWellFoundedOn(Less, Nat)
    BY NatLessThanWellFounded
  <2>2. \A x, y \in Nat : y < x => <<y, x>> \in Less
    BY DEF OpToRel
  <2> HIDE DEF Less
  <2> QED
    BY <2>1, <2>2
<1>2. PICK n \in T : \A m \in T : ~(<<m, n>> \in R)
  BY <1>1, WFMin
<1>3. \A m \in T : ~(m < n)
  BY <1>1, <1>2
<1> QED
  BY <1>3

\* Induction up to a bound: S is the set of numbers for which the goal holds.
LEMMA Induct ==
    ASSUME NEW n \in Nat, NEW S, 0 \in S,
           \A i \in 1..n : i - 1 \in S => i \in S
    PROVE  \A i \in 0..n : i \in S
<1> DEFINE Missing == {i \in 0..n : i \notin S}
<1>1. SUFFICES ASSUME Missing # {} PROVE FALSE
  OBVIOUS
<1>2. Missing \subseteq Nat
  OBVIOUS
<1> HIDE DEF Missing
<1>3. PICK i \in Missing : \A j \in Missing : i <= j
  BY <1>1, <1>2, Least
<1>4. i \in 1..n /\ i \notin S
  BY DEF Missing
<1>5. i - 1 \in 0..n /\ ~(i <= i - 1)
  BY <1>4
<1>6. i - 1 \in S
  BY <1>3, <1>5 DEF Missing
<1> QED
  BY <1>4, <1>6

\* Induction over subsets: F is the family of those for which the goal fails.
LEMMA SmallestSubset ==
    ASSUME NEW S, IsFiniteSet(S), NEW F, F \subseteq SUBSET S, F # {}
    PROVE  \E T \in F : \A U \in F : U \subseteq T => U = T
<1>1. F \subseteq FiniteSubsetsOf(S)
  BY FS_FiniteSubsetsOfFinite
<1>2. PICK T \in F : \A U \in F : ~(<<U, T>> \in StrictSubsetOrdering(S))
  BY <1>1, FS_StrictSubsetOrderingWellFounded, WFMin
<1> QED
  BY <1>2 DEF StrictSubsetOrdering

-----------------------------------------------------------------------------
(* Sorted lists.                                                           *)

InOrder(s, S, key) ==
    /\ s \in [1..Cardinality(S) -> S]
    /\ \A i, j \in 1..Cardinality(S) :
          i < j => s[i] # s[j] /\ key[s[i]] <= key[s[j]]

\* A sorted list of T without its least element, and that element before it.
LEMMA SortedFromRest ==
    ASSUME NEW T, IsFiniteSet(T), NEW key, \A y \in T : key[y] \in Nat,
           NEW x \in T, \A y \in T : key[x] <= key[y],
           NEW r, InOrder(r, T \ {x}, key)
    PROVE  \E s : InOrder(s, T, key)
<1> DEFINE n == Cardinality(T)
           s == [i \in 1..n |-> IF i = 1 THEN x ELSE r[i - 1]]
<1>1. n \in Nat /\ n >= 1 /\ Cardinality(T \ {x}) = n - 1
  BY FS_CardinalityType, FS_EmptySet, FS_RemoveElement
<1> HIDE DEF n
<1>2. \A i \in 1..n : i # 1 => i - 1 \in 1..(n - 1)
  BY <1>1
<1>3. \A i \in 1..n : i # 1 => r[i - 1] \in T \ {x}
  BY <1>1, <1>2 DEF InOrder
<1>4. s \in [1..n -> T]
  BY <1>3
<1>5. ASSUME NEW i \in 1..n, NEW j \in 1..n, i < j
      PROVE  s[i] # s[j] /\ key[s[i]] <= key[s[j]]
  <2>1. j # 1 /\ s[j] = r[j - 1] /\ s[j] \in T \ {x}
    BY <1>1, <1>3, <1>5
  <2>2. CASE i = 1
    BY <2>1, <2>2
  <2>3. CASE i # 1
    <3>1. i - 1 \in 1..(n - 1) /\ j - 1 \in 1..(n - 1) /\ i - 1 < j - 1
      BY <1>1, <1>2, <1>5, <2>1, <2>3
    <3>2. s[i] = r[i - 1]
      BY <2>3
    <3> QED
      BY <1>1, <2>1, <3>1, <3>2 DEF InOrder
  <2> QED
    BY <2>2, <2>3
<1>6. InOrder(s, T, key)
  BY <1>4, <1>5 DEF InOrder, n
<1> QED
  BY <1>6

\* Every finite set can be sorted.
LEMMA SortedExists ==
    ASSUME NEW S, IsFiniteSet(S), NEW key, \A x \in S : key[x] \in Nat
    PROVE  \E s : InOrder(s, S, key)
<1> DEFINE F == {T \in SUBSET S : ~ \E s : InOrder(s, T, key)}
<1>1. SUFFICES ASSUME F # {} PROVE FALSE
  OBVIOUS
<1>2. PICK T \in F : \A U \in F : U \subseteq T => U = T
  <2>1. F \subseteq SUBSET S
    OBVIOUS
  <2> HIDE DEF F
  <2> QED
    BY <1>1, <2>1, SmallestSubset
<1>3. IsFiniteSet(T)
  BY FS_Subset
<1>4. T # {}
  <2>1. InOrder(<<>>, {}, key)
    BY FS_EmptySet DEF InOrder
  <2> QED
    BY <2>1
<1>5. PICK x \in T : \A y \in T : key[x] <= key[y]
  <2> DEFINE K == {key[y] : y \in T}
  <2>1. K # {} /\ K \subseteq Nat
    BY <1>4
  <2>2. PICK k \in K : \A m \in K : k <= m
    BY <2>1, Least
  <2> QED
    BY <2>2
<1>6. T \ {x} \in SUBSET S /\ T \ {x} \notin F
  BY <1>2
<1>7. PICK r : InOrder(r, T \ {x}, key)
  BY <1>6
<1>8. \E s : InOrder(s, T, key)
  BY <1>3, <1>5, <1>7, SortedFromRest
<1> QED
  BY <1>8

\* A sorted list has every element, in order.
LEMMA SortedProperties ==
    ASSUME NEW S, IsFiniteSet(S), NEW key, \A x \in S : key[x] \in Nat
    PROVE  /\ Cardinality(S) \in Nat
           /\ InOrder(SortedBy(S, key), S, key)
           /\ \A x \in S : \E i \in 1..Cardinality(S) : SortedBy(S, key)[i] = x
<1> DEFINE n == Cardinality(S)
           t == SortedBy(S, key)
<1>1. n \in Nat
  BY FS_CardinalityType
<1>2. InOrder(t, S, key)
  <2>1. \E s : InOrder(s, S, key)
    BY SortedExists
  <2> QED
    BY <2>1 DEF InOrder, SortedBy
<1> HIDE DEF t, n
<1>3. \A i, j \in 1..n : t[i] = t[j] => i = j
  BY <1>1, <1>2 DEF InOrder, n
<1>4. t \in Injection(1..n, S)
  BY <1>2, <1>3 DEF InOrder, n, Injection, IsInjective
<1>5. Cardinality(1..n) = n
  BY <1>1, FS_Interval
<1>6. t \in Surjection(1..n, S)
  BY <1>4, <1>5, FS_Injection DEF n
<1> QED
  BY <1>1, <1>2, <1>6 DEF n, t, Surjection

-----------------------------------------------------------------------------
(* Sequences end to end.                                                   *)

\* Short sequences written out.
LEMMA ConcatOnes ==
    ASSUME NEW a, NEW b PROVE <<a>> \o <<b>> = <<a, b>>
<1> DEFINE S == {a, b}
           s == <<a>>
           t == <<b>>
           q == <<a, b>>
<1>1. s \in Seq(S) /\ t \in Seq(S) /\ q \in Seq(S)
  OBVIOUS
<1>2. Len(s) = 1 /\ Len(t) = 1 /\ s[1] = a /\ t[1] = b
  OBVIOUS
<1>3. Len(q) = 2 /\ q[1] = a /\ q[2] = b
  OBVIOUS
<1> HIDE DEF s, t, q, S
<1>4. s \o t \in Seq(S) /\ Len(s \o t) = 2 /\ (s \o t)[1] = a /\ (s \o t)[2] = b
  <2>1. /\ s \o t \in Seq(S) /\ Len(s \o t) = Len(s) + Len(t)
        /\ \A i \in 1..Len(s) + Len(t) :
              (s \o t)[i] = IF i <= Len(s) THEN s[i] ELSE t[i - Len(s)]
    BY <1>1, ConcatProperties
  <2> QED
    BY <1>2, <2>1
<1>5. \A i \in 1..Len(s \o t) : (s \o t)[i] = q[i]
  BY <1>3, <1>4
<1>6. s \o t = q
  BY <1>1, <1>3, <1>4, <1>5, SeqEqual
<1> QED
  BY <1>6 DEF s, t, q

LEMMA ConcatTwos ==
    ASSUME NEW a, NEW b, NEW c, NEW d PROVE <<a, b>> \o <<c, d>> = <<a, b, c, d>>
<1> DEFINE S == {a, b, c, d}
           s == <<a, b>>
           t == <<c, d>>
           q == <<a, b, c, d>>
<1>1. s \in Seq(S) /\ t \in Seq(S) /\ q \in Seq(S)
  OBVIOUS
<1>2. Len(s) = 2 /\ Len(t) = 2 /\ s[1] = a /\ s[2] = b /\ t[1] = c /\ t[2] = d
  OBVIOUS
<1>3. Len(q) = 4 /\ q[1] = a /\ q[2] = b /\ q[3] = c /\ q[4] = d
  OBVIOUS
<1> HIDE DEF s, t, q, S
<1>4. /\ s \o t \in Seq(S) /\ Len(s \o t) = 4
      /\ (s \o t)[1] = a /\ (s \o t)[2] = b /\ (s \o t)[3] = c /\ (s \o t)[4] = d
  BY <1>1, <1>2, ConcatProperties
<1>5. \A i \in 1..Len(s \o t) : (s \o t)[i] = q[i]
  BY <1>3, <1>4
<1>6. s \o t = q
  BY <1>1, <1>3, <1>4, <1>5, SeqEqual
<1> QED
  BY <1>6 DEF s, t, q

\* FlattenSeq's recursive function exists.
LEMMA FlattenFunction ==
    ASSUME NEW n \in Nat, NEW s
    PROVE  \E f : f = [i \in 1..n |-> IF i = 1 THEN s[i] ELSE f[i - 1] \o s[i]]
<1> DEFINE Is(f, m) == f = [i \in 1..m |-> IF i = 1 THEN s[i] ELSE f[i - 1] \o s[i]]
           S == {m \in Nat : \E f : Is(f, m)}
<1>1. 0 \in S
  <2>1. Is(<<>>, 0)
    OBVIOUS
  <2> QED
    BY <2>1
<1>2. ASSUME NEW m \in 1..n, m - 1 \in S PROVE m \in S
  <2>1. PICK g : Is(g, m - 1)
    BY <1>2
  <2> DEFINE f == [i \in 1..m |-> IF i = m
                                  THEN IF m = 1 THEN s[m] ELSE g[m - 1] \o s[m]
                                  ELSE g[i]]
  <2>2. \A i \in 1..m : i # m => i \in 1..(m - 1) /\ i - 1 \in 0..(m - 1) /\ i - 1 # m
    OBVIOUS
  <2>3. \A i \in 1..(m - 1) : g[i] = IF i = 1 THEN s[i] ELSE g[i - 1] \o s[i]
    BY <2>1
  <2>4. ASSUME NEW i \in 1..m
        PROVE  f[i] = IF i = 1 THEN s[i] ELSE f[i - 1] \o s[i]
    <3>1. CASE i = 1
      BY <2>2, <2>3, <3>1
    <3>2. CASE i # 1
      <4>1. i - 1 \in 1..m /\ i - 1 # m
        BY <3>2
      <4>2. f[i - 1] = g[i - 1]
        BY <4>1
      <4> QED
        BY <2>2, <2>3, <3>2, <4>2
    <3> QED
      BY <3>1, <3>2
  <2> HIDE DEF f
  <2>5. f = [i \in 1..m |-> f[i]]
    BY DEF f
  <2>6. Is(f, m)
    BY <2>4, <2>5
  <2> HIDE DEF Is
  <2>7. \E h : Is(h, m)
    BY <2>6
  <2> QED
    BY <2>7
<1> HIDE DEF S
<1>3. n \in S
  BY <1>1, <1>2, Induct
<1> QED
  BY <1>3 DEF S

\* flat[i] is the first i of the sequences in s, end to end
Grows(flat, s, n, Elems) ==
    /\ flat \in [0..n -> Seq(Elems)]
    /\ flat[0] = <<>>
    /\ \A i \in 1..n : flat[i] = flat[i - 1] \o s[i]

\* FlattenSeq(s) is built up from the left.
LEMMA FlattenFromLeft ==
    ASSUME NEW n \in Nat, NEW Elems, NEW s \in [1..n -> Seq(Elems)]
    PROVE  \E flat : Grows(flat, s, n, Elems) /\ FlattenSeq(s) = flat[n]
<1> DEFINE f == CHOOSE g : g = [i \in 1..n |-> IF i = 1 THEN s[i] ELSE g[i - 1] \o s[i]]
           flat == [i \in 0..n |-> IF i = 0 THEN <<>> ELSE f[i]]
           S == {m \in 0..n : flat[m] \in Seq(Elems)}
<1>1. f = [i \in 1..n |-> IF i = 1 THEN s[i] ELSE f[i - 1] \o s[i]]
  BY FlattenFunction
<1> HIDE DEF f
<1>2. \A i \in 1..n : f[i] = IF i = 1 THEN s[i] ELSE f[i - 1] \o s[i]
  BY <1>1
<1>3. \A i \in 1..n : s[i] \in Seq(Elems) /\ i - 1 \in 0..n
  OBVIOUS
<1>4. \A i \in 1..n : flat[i] = flat[i - 1] \o s[i]
  <2> SUFFICES ASSUME NEW i \in 1..n PROVE flat[i] = flat[i - 1] \o s[i]
    OBVIOUS
  <2>1. CASE i = 1
    <3>1. flat[i] = s[i] /\ flat[i - 1] = <<>>
      BY <1>2, <2>1
    <3> QED
      BY <1>3, <3>1, ConcatEmptySeq
  <2>2. CASE i # 1
    <3>1. i - 1 # 0 /\ flat[i - 1] = f[i - 1]
      BY <1>3, <2>2
    <3>2. flat[i] = f[i]
      OBVIOUS
    <3>3. f[i] = f[i - 1] \o s[i]
      BY <1>2, <2>2
    <3> HIDE DEF flat
    <3> QED
      BY <3>1, <3>2, <3>3
  <2> QED
    BY <2>1, <2>2
<1>5. flat[0] = <<>>
  OBVIOUS
<1>6. \A i \in 0..n : flat[i] \in Seq(Elems)
  <2>1. 0 \in S
    BY <1>5
  <2>2. ASSUME NEW i \in 1..n, i - 1 \in S PROVE i \in S
    BY <1>3, <1>4, <2>2, ConcatProperties
  <2> HIDE DEF S
  <2>3. \A i \in 0..n : i \in S
    BY <2>1, <2>2, Induct
  <2> QED
    BY <2>3 DEF S
<1>7. FlattenSeq(s) = flat[n]
  <2>1. Len(s) = n
    OBVIOUS
  <2>2. CASE n = 0
    BY <1>5, <2>1, <2>2 DEF FlattenSeq
  <2>3. CASE n # 0
    BY <2>1, <2>3 DEF FlattenSeq, f
  <2> QED
    BY <2>2, <2>3
<1>8. flat \in [0..n -> Seq(Elems)]
  BY <1>6
<1> HIDE DEF flat
<1>9. Grows(flat, s, n, Elems)
  BY <1>4, <1>5, <1>8 DEF Grows
<1> QED
  BY <1>7, <1>9

\* flat[m] has each of the first m sequences in its place, and no more
Laid(flat, s, m) ==
    /\ \A i \in 1..m : \A k \in 1..Len(s[i]) :
          /\ Len(flat[i - 1]) + k \in 1..Len(flat[m])
          /\ flat[m][Len(flat[i - 1]) + k] = s[i][k]
    /\ \A j \in 1..Len(flat[m]) : \E i \in 1..m : \E k \in 1..Len(s[i]) :
          j = Len(flat[i - 1]) + k

\* flat[m] is flat[m - 1] with s[m] behind it
Grown(flat, s, m) ==
    /\ Len(s[m]) \in Nat /\ Len(flat[m]) \in Nat /\ Len(flat[m - 1]) \in Nat
    /\ Len(flat[m]) = Len(flat[m - 1]) + Len(s[m])
    /\ \A j \in 1..Len(flat[m]) :
          flat[m][j] = IF j <= Len(flat[m - 1]) THEN flat[m - 1][j]
                       ELSE s[m][j - Len(flat[m - 1])]

\* What one more sequence does.
LEMMA PrefixStep ==
    ASSUME NEW n \in Nat, NEW Elems, NEW s \in [1..n -> Seq(Elems)],
           NEW flat, Grows(flat, s, n, Elems), NEW m \in 1..n
    PROVE  Grown(flat, s, m)
<1>1. m \in 0..n /\ m - 1 \in 0..n
  OBVIOUS
<1>2. flat \in [0..n -> Seq(Elems)] /\ flat[m] = flat[m - 1] \o s[m]
  BY DEF Grows
<1>3. s[m] \in Seq(Elems) /\ flat[m] \in Seq(Elems) /\ flat[m - 1] \in Seq(Elems)
  BY <1>1, <1>2
<1>4. Len(s[m]) \in Nat /\ Len(flat[m]) \in Nat /\ Len(flat[m - 1]) \in Nat
  BY <1>3, LenProperties
<1>5. /\ Len(flat[m]) = Len(flat[m - 1]) + Len(s[m])
      /\ \A j \in 1..Len(flat[m]) :
            flat[m][j] = IF j <= Len(flat[m - 1]) THEN flat[m - 1][j]
                         ELSE s[m][j - Len(flat[m - 1])]
  BY <1>2, <1>3, <1>4, ConcatProperties
<1> QED
  BY <1>4, <1>5 DEF Grown

LEMMA LaidStep ==
    ASSUME NEW n \in Nat, NEW Elems, NEW s \in [1..n -> Seq(Elems)],
           NEW flat, NEW m \in 1..n, Grown(flat, s, m), Laid(flat, s, m - 1)
    PROVE  Laid(flat, s, m)
<1>1. /\ Len(s[m]) \in Nat /\ Len(flat[m]) \in Nat /\ Len(flat[m - 1]) \in Nat
      /\ Len(flat[m]) = Len(flat[m - 1]) + Len(s[m])
  BY DEF Grown
<1>4. \A j \in 1..Len(flat[m]) :
         flat[m][j] = IF j <= Len(flat[m - 1]) THEN flat[m - 1][j]
                      ELSE s[m][j - Len(flat[m - 1])]
  BY DEF Grown
<1>2. ASSUME NEW i \in 1..m, NEW k \in 1..Len(s[i])
      PROVE  /\ Len(flat[i - 1]) + k \in 1..Len(flat[m])
             /\ flat[m][Len(flat[i - 1]) + k] = s[i][k]
  <2>1. CASE i = m
    <3>1. /\ Len(flat[m - 1]) + k \in 1..Len(flat[m])
          /\ ~(Len(flat[m - 1]) + k <= Len(flat[m - 1]))
          /\ (Len(flat[m - 1]) + k) - Len(flat[m - 1]) = k
      BY <1>1, <2>1
    <3> QED
      BY <1>4, <2>1, <3>1
  <2>2. CASE i # m
    <3>1. i \in 1..(m - 1)
      BY <2>2
    <3>2. /\ Len(flat[i - 1]) + k \in 1..Len(flat[m - 1])
          /\ flat[m - 1][Len(flat[i - 1]) + k] = s[i][k]
      BY <3>1 DEF Laid
    <3> DEFINE j == Len(flat[i - 1]) + k
    <3>3. j \in 1..Len(flat[m - 1]) /\ flat[m - 1][j] = s[i][k]
      BY <3>2
    <3> HIDE DEF j
    <3>4. j \in 1..Len(flat[m]) /\ j <= Len(flat[m - 1])
      BY <1>1, <3>3
    <3>5. flat[m][j] = s[i][k]
      BY <1>4, <3>3, <3>4
    <3> QED
      BY <3>4, <3>5 DEF j
  <2> QED
    BY <2>1, <2>2
<1>3. ASSUME NEW j \in 1..Len(flat[m])
      PROVE  \E i \in 1..m : \E k \in 1..Len(s[i]) : j = Len(flat[i - 1]) + k
  <2>1. CASE j <= Len(flat[m - 1])
    <3>1. j \in 1..Len(flat[m - 1])
      BY <1>1, <2>1
    <3>2. PICK i \in 1..(m - 1) : \E k \in 1..Len(s[i]) : j = Len(flat[i - 1]) + k
      BY <3>1 DEF Laid
    <3> QED
      BY <3>2
  <2>2. CASE ~(j <= Len(flat[m - 1]))
    <3> DEFINE k == j - Len(flat[m - 1])
    <3>1. k \in 1..Len(s[m]) /\ j = Len(flat[m - 1]) + k
      BY <1>1, <2>2
    <3> HIDE DEF k
    <3> QED
      BY <3>1
  <2> QED
    BY <2>1, <2>2
<1> QED
  BY <1>2, <1>3 DEF Laid

\* FlattenSeq(s) has each s[i] unchanged, in order, and no more.
LEMMA FlattenProperties ==
    ASSUME NEW n \in Nat, NEW Elems, NEW s \in [1..n -> Seq(Elems)]
    PROVE  \E flat : /\ Grows(flat, s, n, Elems)
                     /\ FlattenSeq(s) = flat[n]
                     /\ Laid(flat, s, n)
<1>1. PICK flat : Grows(flat, s, n, Elems) /\ FlattenSeq(s) = flat[n]
  BY FlattenFromLeft
<1> DEFINE S == {m \in 0..n : Laid(flat, s, m)}
<1>2. 0 \in S
  BY <1>1 DEF Grows, Laid
<1>3. ASSUME NEW m \in 1..n, m - 1 \in S PROVE m \in S
  <2>1. Grown(flat, s, m)
    BY <1>1, PrefixStep
  <2>2. Laid(flat, s, m - 1)
    BY <1>3
  <2>3. Laid(flat, s, m)
    BY <2>1, <2>2, LaidStep
  <2> QED
    BY <2>3
<1> HIDE DEF S
<1>4. \A i \in 0..n : i \in S
  BY <1>2, <1>3, Induct
<1>5. Laid(flat, s, n)
  BY <1>4 DEF S
<1> QED
  BY <1>1, <1>5
=============================================================================
