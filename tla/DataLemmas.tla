----------------------------- MODULE DataLemmas -----------------------------
(***************************************************************************)
(* Facts about numbers, finite sets and sequences that the proofs of the   *)
(* components share.  Induction is stated with sets: what is to be proved  *)
(* of every number, or of every finite set, is the set of the numbers, or  *)
(* sets, that have it.                                                     *)
(***************************************************************************)
EXTENDS FiniteSetTheorems, SequencesExt, TLAPS

\* A set of finite sets that is not empty has one no other of which is a part.
LEMMA SmallestSet ==
  ASSUME NEW F, F # {}, \A S \in F : IsFiniteSet(S)
  PROVE  \E S \in F : \A T \in F : T \subseteq S => T = S
<1> DEFINE U == UNION F
<1>1. F \subseteq FiniteSubsetsOf(U)
  BY DEF FiniteSubsetsOf
<1>2. IsWellFoundedOn(StrictSubsetOrdering(U), FiniteSubsetsOf(U))
  BY FS_StrictSubsetOrderingWellFounded
<1> HIDE DEF U
<1>3. \E S \in F : \A T \in F : ~(<<T, S>> \in StrictSubsetOrdering(U))
  BY <1>1, <1>2, WFMin
<1>4. \A S, T \in F : S \in SUBSET U /\ T \in SUBSET U
  BY DEF U
<1>5. \A S, T \in F : T \subseteq S /\ T # S => <<T, S>> \in StrictSubsetOrdering(U)
  BY <1>4 DEF StrictSubsetOrdering
<1> QED
  BY <1>3, <1>5

\* A set of natural numbers that is not empty has a least one.
LEMMA SmallestNat ==
  ASSUME NEW T, T \subseteq Nat, T # {}
  PROVE  \E n \in T : \A m \in T : n <= m
<1> DEFINE F == {0..n : n \in T}
<1>1. F # {} /\ \A S \in F : IsFiniteSet(S)
  <2>1. \A n \in T : IsFiniteSet(0..n)
    BY FS_Interval
  <2> QED
    BY <2>1
<1>2. PICK S \in F : \A V \in F : V \subseteq S => V = S
  <2> HIDE DEF F
  <2> QED BY <1>1, SmallestSet
<1>3. PICK n \in T : S = 0..n
  OBVIOUS
<1>4. ASSUME NEW m \in T, m < n PROVE FALSE
  <2>1. 0..m \in F /\ 0..m \subseteq S
    BY <1>3, <1>4
  <2>2. 0..m = 0..n
    BY <2>1, <1>2, <1>3
  <2>3. n \in 0..n /\ n \notin 0..m
    BY <1>4
  <2> QED
    BY <2>2, <2>3
<1> QED
  BY <1>4

\* Induction: a set that has 0 and with each number the next has all of them.
LEMMA NatInductionOnSet ==
  ASSUME NEW T, 0 \in T, \A n \in Nat : n \in T => n + 1 \in T
  PROVE  Nat \subseteq T
<1> SUFFICES ASSUME Nat \ T # {} PROVE FALSE
  OBVIOUS
<1>1. PICK n \in Nat \ T : \A m \in Nat \ T : n <= m
  BY SmallestNat
<1>2. n # 0 /\ n - 1 \in Nat /\ ~(n <= n - 1)
  OBVIOUS
<1>3. n - 1 \in T
  BY <1>1, <1>2
<1> QED
  BY <1>2, <1>3

\* Induction over finite sets: what holds of the empty set, and of a set with one more
\* element whenever it holds of the set, holds of every finite set.
LEMMA FiniteSetInductionOnSet ==
  ASSUME NEW S, IsFiniteSet(S), NEW F, {} \in F,
         \A T \in SUBSET S : \A x \in S : T \in F /\ x \notin T => T \cup {x} \in F
  PROVE  S \in F
<1> DEFINE Bad == {T \in SUBSET S : T \notin F}
<1> SUFFICES ASSUME Bad # {} PROVE FALSE
  OBVIOUS
<1>1. \A T \in Bad : IsFiniteSet(T)
  BY FS_Subset
<1>2. PICK T \in Bad : \A V \in Bad : V \subseteq T => V = T
  <2> HIDE DEF Bad
  <2> QED BY <1>1, SmallestSet
<1>3. PICK x \in T : TRUE
  OBVIOUS
<1>4. T \ {x} \in F
  BY <1>2, <1>3
<1>5. (T \ {x}) \cup {x} = T /\ x \notin T \ {x} /\ x \in S /\ T \ {x} \in SUBSET S
  BY <1>3
<1> QED
  BY <1>4, <1>5

-----------------------------------------------------------------------------
(* Sequences. *)

\* What is in a sequence is what is at one of its places.
LEMMA InToSet ==
  ASSUME NEW S, NEW s \in Seq(S), NEW e
  PROVE  /\ ToSet(s) \subseteq S
         /\ e \in ToSet(s) <=> \E i \in 1..Len(s) : s[i] = e
  BY DEF ToSet

\* Append adds one element at the end and leaves the others where they are.
LEMMA AppendAddsLast ==
  ASSUME NEW S, NEW s \in Seq(S), NEW e \in S
  PROVE  /\ Append(s, e) \in Seq(S)
         /\ Len(Append(s, e)) = Len(s) + 1
         /\ Append(s, e)[Len(s) + 1] = e
         /\ \A i \in 1..Len(s) : Append(s, e)[i] = s[i]
         /\ ToSet(Append(s, e)) = ToSet(s) \cup {e}
<1>1. /\ Append(s, e) \in Seq(S)
      /\ Len(Append(s, e)) = Len(s) + 1
      /\ Append(s, e)[Len(s) + 1] = e
      /\ \A i \in 1..Len(s) : Append(s, e)[i] = s[i]
  OBVIOUS
<1> DEFINE t == Append(s, e)
<1>2. \A x : x \in ToSet(t) <=> \E i \in 1..Len(t) : t[i] = x
  BY <1>1, InToSet
<1>3. \A x : x \in ToSet(s) <=> \E i \in 1..Len(s) : s[i] = x
  BY InToSet
<1>4. \A i \in 1..Len(t) : i \in 1..Len(s) \/ i = Len(s) + 1
  BY <1>1
<1>5. Len(s) + 1 \in 1..Len(t) /\ \A i \in 1..Len(s) : i \in 1..Len(t)
  BY <1>1
<1> HIDE DEF t
<1>6. \A x : x \in ToSet(t) <=> x \in ToSet(s) \/ x = e
  <2>1. \A i \in 1..Len(s) : t[i] = s[i]
    BY <1>1 DEF t
  <2>2. t[Len(s) + 1] = e
    BY <1>1 DEF t
  <2> QED
    BY <1>2, <1>3, <1>4, <1>5, <2>1, <2>2
<1> QED
  BY <1>1, <1>6 DEF t

\* \o puts the second sequence after the first.
LEMMA ConcatIsBoth ==
  ASSUME NEW S, NEW s \in Seq(S), NEW t \in Seq(S)
  PROVE  /\ s \o t \in Seq(S) /\ Len(s \o t) = Len(s) + Len(t)
         /\ \A i \in 1..Len(s) : (s \o t)[i] = s[i]
         /\ \A i \in 1..Len(t) : (s \o t)[Len(s) + i] = t[i]
  OBVIOUS

\* What is in a list is what is at its places.
LEMMA InList ==
  ASSUME NEW S, NEW s \in Seq(S)
  PROVE  \A x : x \in ToSet(s) <=> \E i \in 1..Len(s) : s[i] = x
BY InToSet

\* A list of elements of S is one of a wider set.
LEMMA WiderList ==
  ASSUME NEW S, NEW T, S \subseteq T, NEW s \in Seq(S)
  PROVE  s \in Seq(T)
OBVIOUS

\* Two lists, one after the other.
LEMMA BothLists ==
  ASSUME NEW S, NEW s \in Seq(S), NEW t \in Seq(S)
  PROVE  /\ s \o t \in Seq(S)
         /\ \A x : x \in ToSet(s \o t) <=> x \in ToSet(s) \/ x \in ToSet(t)
<1>1. PICK m \in Nat : m = Len(s)
  OBVIOUS
<1>2. PICK n \in Nat : n = Len(t)
  OBVIOUS
<1>3. PICK u : u = s \o t
  OBVIOUS
<1>4. /\ u \in Seq(S) /\ Len(u) = m + n
      /\ \A i \in 1..m : u[i] = s[i]
      /\ \A i \in 1..n : u[m + i] = t[i]
  BY <1>1, <1>2, <1>3, ConcatIsBoth
<1>5. ASSUME NEW x PROVE x \in ToSet(u) <=> x \in ToSet(s) \/ x \in ToSet(t)
  <2>1. /\ x \in ToSet(u) <=> \E i \in 1..(m + n) : u[i] = x
        /\ x \in ToSet(s) <=> \E i \in 1..m : s[i] = x
        /\ x \in ToSet(t) <=> \E i \in 1..n : t[i] = x
    BY <1>1, <1>2, <1>4, InToSet, SMTT(20)
  <2>2. ASSUME NEW i \in 1..(m + n), u[i] = x PROVE x \in ToSet(s) \/ x \in ToSet(t)
    <3>1. CASE i <= m
      BY <1>4, <2>1, <2>2, <3>1
    <3>2. CASE i > m
      <4>1. PICK j \in 1..n : i = m + j
        <5>1. i - m \in 1..n /\ i = m + (i - m)
          BY <3>2
        <5> QED
          BY <5>1
      <4> QED
        BY <1>4, <2>1, <2>2, <4>1
    <3> QED
      BY <3>1, <3>2
  <2>3. ASSUME NEW i \in 1..m, s[i] = x PROVE x \in ToSet(u)
    <3>1. i \in 1..(m + n) /\ u[i] = x
      BY <1>4, <2>3
    <3> QED
      BY <2>1, <3>1
  <2>4. ASSUME NEW i \in 1..n, t[i] = x PROVE x \in ToSet(u)
    <3>1. m + i \in 1..(m + n) /\ u[m + i] = x
      BY <1>4, <2>4
    <3> QED
      BY <2>1, <3>1
  <2> QED
    BY <2>1, <2>2, <2>3, <2>4
<1> QED
  BY <1>3, <1>4, <1>5

\* The end of a sequence, element by element and as SubSeq gives it.
LEMMA EndIsSubSeq ==
  ASSUME NEW S, NEW s \in Seq(S), NEW t \in Seq(S), Len(t) <= Len(s),
         \A i \in 1..Len(t) : t[i] = s[Len(s) - Len(t) + i]
  PROVE  t = SubSeq(s, Len(s) - Len(t) + 1, Len(s))
<1> DEFINE e == SubSeq(s, Len(s) - Len(t) + 1, Len(s))
<1>1. Len(s) \in Nat /\ Len(t) \in Nat
  OBVIOUS
<1>2. e \in Seq(S) /\ Len(e) = Len(t)
  BY <1>1
<1>3. \A i \in 1..Len(t) : e[i] = s[Len(s) - Len(t) + i]
  BY <1>1
<1> HIDE DEF e
<1>4. \A i \in 1..Len(t) : t[i] = e[i]
  BY <1>3
<1>5. t = e
  BY <1>2, <1>4
<1> QED
  BY <1>5 DEF e

-----------------------------------------------------------------------------
(* Sorting. *)

\* s lists the elements of S in the order R.
ListsInOrder(s, S, R) ==
    /\ s \in [1..Cardinality(S) -> S]
    /\ \A x \in S : \E i \in 1..Cardinality(S) : s[i] = x
    /\ \A i, j \in 1..Cardinality(S) : i < j => <<s[i], s[j]>> \in R

\* A place is before another, is it, or comes after it.
LEMMA PlacesAround ==
  ASSUME NEW n \in Nat, NEW k \in 1..(n + 1), NEW i \in 1..(n + 1)
  PROVE  \/ i < k /\ i \in 1..n
         \/ i = k /\ ~(i < k)
         \/ i > k /\ i - 1 \in 1..n /\ i - 1 >= k /\ ~(i < k) /\ i # k
<1>1. CASE i < k
  BY <1>1
<1>2. CASE i = k
  BY <1>2
<1>3. CASE i > k
  BY <1>3
<1> QED
  BY <1>1, <1>2, <1>3

\* One more element finds its place.
LEMMA OneMoreInOrder ==
  ASSUME NEW S, NEW R, NEW T \in SUBSET S, NEW x \in S, x \notin T, IsFiniteSet(T),
         \A y, z \in S : y # z => <<y, z>> \in R \/ <<z, y>> \in R,
         \A y, z, w \in S : <<y, z>> \in R /\ <<z, w>> \in R => <<y, w>> \in R,
         NEW s, ListsInOrder(s, T, R)
  PROVE  \E t : ListsInOrder(t, T \cup {x}, R)
<1>1. PICK n \in Nat : n = Cardinality(T)
  BY FS_CardinalityType
<1>2. Cardinality(T \cup {x}) = n + 1
  BY <1>1, FS_AddElement
<1>3. /\ s \in [1..n -> T]
      /\ \A y \in T : \E i \in 1..n : s[i] = y
      /\ \A i, j \in 1..n : i < j => <<s[i], s[j]>> \in R
  BY <1>1 DEF ListsInOrder
<1> DEFINE K == {i \in 1..n : <<s[i], x>> \notin R} \cup {n + 1}
<1>4. PICK k \in K : \A m \in K : k <= m
  <2>1. K \subseteq Nat /\ K # {}
    OBVIOUS
  <2> HIDE DEF K
  <2> QED BY <2>1, SmallestNat
<1>5. k \in 1..(n + 1)
  OBVIOUS
<1>6. \A i \in 1..n : i < k => <<s[i], x>> \in R
  BY <1>4, <1>5
<1>7. ASSUME NEW i \in 1..n, i >= k PROVE <<x, s[i]>> \in R
  <2>1. k \in 1..n /\ <<s[k], x>> \notin R
    BY <1>4, <1>5, <1>7
  <2>2. s[k] \in T /\ s[i] \in T
    BY <1>3, <1>7, <2>1
  <2>3. <<x, s[k]>> \in R
    BY <2>1, <2>2
  <2>4. k = i \/ <<s[k], s[i]>> \in R
    BY <1>3, <1>7, <2>1
  <2> QED
    BY <2>2, <2>3, <2>4
<1> HIDE DEF K
<1> DEFINE t == [i \in 1..(n + 1) |-> IF i < k THEN s[i] ELSE IF i = k THEN x ELSE s[i - 1]]
<1>13. \A i \in 1..(n + 1) : t[i] = IF i < k THEN s[i] ELSE IF i = k THEN x ELSE s[i - 1]
  OBVIOUS
<1>14. \A i \in 1..(n + 1) :
          \/ i < k /\ i \in 1..n
          \/ i = k /\ ~(i < k)
          \/ i > k /\ i - 1 \in 1..n /\ i - 1 >= k /\ ~(i < k) /\ i # k
  BY <1>5, PlacesAround
<1>8. \A i \in 1..(n + 1) :
          \/ i < k /\ i \in 1..n /\ t[i] = s[i]
          \/ i = k /\ t[i] = x
          \/ i > k /\ i - 1 \in 1..n /\ i - 1 >= k /\ t[i] = s[i - 1]
  <2> HIDE DEF t
  <2> QED BY <1>13, <1>14
<1>9. t \in [1..(n + 1) -> T \cup {x}]
  <2>1. \A i \in 1..(n + 1) : t[i] \in T \cup {x}
    <3> HIDE DEF t
    <3> QED BY <1>3, <1>8
  <2> QED
    BY <2>1
<1>10. \A y \in T \cup {x} : \E i \in 1..(n + 1) : t[i] = y
  <2>1. t[k] = x
    BY <1>5
  <2>2. \A i \in 1..n : i < k => t[i] = s[i] /\ i \in 1..(n + 1)
    BY <1>5
  <2>3. \A i \in 1..n : i >= k => t[i + 1] = s[i] /\ i + 1 \in 1..(n + 1)
    BY <1>5
  <2>4. \A i \in 1..n : i < k \/ i >= k
    BY <1>5
  <2> HIDE DEF t
  <2> QED
    BY <1>3, <1>5, <2>1, <2>2, <2>3, <2>4
<1>11. ASSUME NEW i \in 1..(n + 1), NEW j \in 1..(n + 1), i < j
       PROVE  <<t[i], t[j]>> \in R
  <2> HIDE DEF t
  <2>1. CASE j < k
    <3>1. t[i] = s[i] /\ t[j] = s[j] /\ i \in 1..n /\ j \in 1..n
      BY <1>5, <1>8, <1>11, <2>1
    <3> QED
      BY <1>3, <1>11, <3>1
  <2>2. CASE j = k
    <3>1. t[i] = s[i] /\ t[j] = x /\ i \in 1..n /\ i < k
      BY <1>5, <1>8, <1>11, <2>2
    <3> QED
      BY <1>6, <3>1
  <2>3. CASE j > k
    <3>1. t[j] = s[j - 1] /\ j - 1 \in 1..n /\ j - 1 >= k
      BY <1>5, <1>8, <1>11, <2>3
    <3>2. CASE i < k
      <4>1. t[i] = s[i] /\ i \in 1..n /\ i < j - 1
        BY <1>5, <1>8, <1>11, <3>1, <3>2
      <4> QED
        BY <1>3, <3>1, <4>1
    <3>3. CASE i = k
      <4>1. t[i] = x
        BY <1>5, <1>8, <3>3
      <4> QED
        BY <1>7, <3>1, <4>1
    <3>4. CASE i > k
      <4>1. t[i] = s[i - 1] /\ i - 1 \in 1..n /\ i - 1 < j - 1
        BY <1>5, <1>8, <1>11, <3>4
      <4> QED
        BY <1>3, <3>1, <4>1
    <3> QED
      BY <1>5, <3>2, <3>3, <3>4
  <2> QED
    BY <1>5, <2>1, <2>2, <2>3
<1> HIDE DEF t
<1>12. ListsInOrder(t, T \cup {x}, R)
  BY <1>2, <1>9, <1>10, <1>11 DEF ListsInOrder
<1> QED
  BY <1>12

\* Every finite set that R orders can be listed in that order.
LEMMA InOrderExists ==
  ASSUME NEW S, IsFiniteSet(S), NEW R,
         \A y, z \in S : y # z => <<y, z>> \in R \/ <<z, y>> \in R,
         \A y, z, w \in S : <<y, z>> \in R /\ <<z, w>> \in R => <<y, w>> \in R
  PROVE  \E s : ListsInOrder(s, S, R)
<1> DEFINE F == {T \in SUBSET S : \E s : ListsInOrder(s, T, R)}
<1>1. {} \in F
  <2>1. Cardinality({}) = 0 /\ 1..0 = {}
    BY FS_EmptySet
  <2>2. ListsInOrder([i \in {} |-> i], {}, R)
    BY <2>1 DEF ListsInOrder
  <2> QED
    BY <2>2
<1>2. ASSUME NEW T \in SUBSET S, NEW x \in S, T \in F, x \notin T PROVE T \cup {x} \in F
  <2>1. IsFiniteSet(T)
    BY FS_Subset
  <2>2. PICK s : ListsInOrder(s, T, R)
    BY <1>2
  <2>3. \E t : ListsInOrder(t, T \cup {x}, R)
    BY <1>2, <2>1, <2>2, OneMoreInOrder
  <2> QED
    BY <1>2, <2>3
<1>3. S \in F
  <2> HIDE DEF F
  <2> QED BY <1>1, <1>2, FiniteSetInductionOnSet
<1> QED
  BY <1>3

\* No element is listed twice.
LEMMA InOrderOnce ==
  ASSUME NEW S, IsFiniteSet(S), NEW R, \A x \in S : <<x, x>> \notin R, NEW s, ListsInOrder(s, S, R)
  PROVE  \A i, j \in 1..Cardinality(S) : i # j => s[i] # s[j]
<1>1. PICK n \in Nat : n = Cardinality(S)
  BY FS_CardinalityType
<1>2. /\ s \in [1..n -> S]
      /\ \A i, j \in 1..n : i < j => <<s[i], s[j]>> \in R
  BY <1>1 DEF ListsInOrder
<1>3. \A i, j \in 1..n : i < j => s[i] # s[j]
  BY <1>2
<1>4. \A i, j \in 1..n : i # j => i < j \/ j < i
  OBVIOUS
<1> QED
  BY <1>1, <1>3, <1>4

=============================================================================
