----------------------------- MODULE ListProofs -----------------------------
(***************************************************************************)
(* Induction over the natural numbers in a form the provers can apply (a   *)
(* set in the place of a predicate), and the facts about Pick that the     *)
(* proofs about lists rest on.                                             *)
(***************************************************************************)
EXTENDS Lists, TLAPS, FiniteSetTheorems, WellFoundedInduction

\* A set of natural numbers that is not empty has a least element.
LEMMA LeastNat ==
  ASSUME NEW T \in SUBSET Nat, T # {}
  PROVE  \E n \in T : \A m \in T : n <= m
<1> DEFINE R == {p \in Nat \X Nat : p[1] < p[2]}
<1>1. IsWellFoundedOn(R, Nat)  BY NatLessThanWellFounded, Zenon DEF OpToRel
<1> HIDE DEF R
<1>2. PICK n \in T : \A m \in T : <<m, n>> \notin R  BY <1>1, WFMin
<1>3. ASSUME NEW m \in T, m < n PROVE FALSE
  <2>1. <<m, n>> \in R  BY <1>3 DEF R
  <2> QED  BY <1>2, <2>1
<1> QED  BY <1>3

\* Induction: a set with 0 that has the successor of each of its natural numbers has
\* them all.
LEMMA Induction ==
  ASSUME NEW T, 0 \in T, \A n \in Nat : n \in T => n + 1 \in T
  PROVE  Nat \subseteq T
<1> SUFFICES ASSUME Nat \ T # {} PROVE FALSE  OBVIOUS
<1>1. PICK n \in Nat \ T : \A m \in Nat \ T : n <= m  BY LeastNat
<1>2. n - 1 \in Nat /\ n - 1 \notin T  BY <1>1
<1> QED  BY <1>1, <1>2

-----------------------------------------------------------------------------
(* Positions and their ranks *)

LEMMA Positions ==
  ASSUME NEW n \in Nat, NEW I \in SUBSET (1 .. n)
  PROVE  /\ \A i \in I : i \in Int /\ 1 <= i /\ i <= n
         /\ IsFiniteSet(I) /\ Cardinality(I) \in Nat
<1>1. IsFiniteSet(1 .. n)  BY FS_Interval
<1>2. IsFiniteSet(I)  BY <1>1, FS_Subset
<1> QED  BY <1>2, FS_CardinalityType

LEMMA Below ==
  ASSUME NEW n \in Nat, NEW I \in SUBSET (1 .. n), NEW i
  PROVE  /\ IsFiniteSet({j \in I : j <= i})
         /\ Rank(I, i) \in Nat /\ Rank(I, i) <= Cardinality(I)
<1>1. IsFiniteSet(I) /\ {j \in I : j <= i} \in SUBSET I  BY Positions
<1>2. IsFiniteSet({j \in I : j <= i}) /\ Cardinality({j \in I : j <= i}) <= Cardinality(I)
  BY <1>1, FS_Subset
<1> QED  BY <1>2, FS_CardinalityType DEF Rank

\* The rank grows by one at each position of I, and nowhere else.
LEMMA RankStep ==
  ASSUME NEW n \in Nat, NEW I \in SUBSET (1 .. n), NEW i \in Int
  PROVE  /\ i \in I => Rank(I, i) = Rank(I, i - 1) + 1
         /\ i \notin I => Rank(I, i) = Rank(I, i - 1)
<1> DEFINE S == {j \in I : j <= i - 1}
<1>0. (\A j \in I : j <= i <=> j <= i - 1 \/ j = i) /\ ~(i <= i - 1)  BY Positions
<1>1. IsFiniteSet(S)  BY Below
<1>2. CASE i \in I
  <2>1. {j \in I : j <= i} = S \cup {i} /\ i \notin S  BY <1>0, <1>2
  <2>2. Cardinality(S \cup {i}) = Cardinality(S) + 1  BY <1>1, <2>1, FS_AddElement
  <2> QED  BY <1>2, <2>1, <2>2 DEF Rank
<1>3. CASE i \notin I
  <2>1. {j \in I : j <= i} = S  BY <1>0, <1>3
  <2> QED  BY <1>3, <2>1 DEF Rank
<1> QED  BY <1>2, <1>3

LEMMA RankMonotone ==
  ASSUME NEW n \in Nat, NEW I \in SUBSET (1 .. n), NEW i \in Int, NEW j \in I, i < j
  PROVE  Rank(I, i) < Rank(I, j)
<1>0. j \in Int /\ \A k \in I : k \in Int  BY Positions
<1>1. {k \in I : k <= i} \in SUBSET {k \in I : k <= j - 1}
  <2>1. \A k \in I : k <= i => k <= j - 1  BY <1>0
  <2> QED  BY <2>1
<1>2. Rank(I, i) <= Rank(I, j - 1)
  <2>1. IsFiniteSet({k \in I : k <= j - 1})  BY Below
  <2> QED  BY <1>1, <2>1, FS_Subset DEF Rank
<1>3. Rank(I, j) = Rank(I, j - 1) + 1  BY <1>0, RankStep
<1>4. Rank(I, i) \in Nat /\ Rank(I, j - 1) \in Nat  BY Below
<1> QED  BY <1>2, <1>3, <1>4

LEMMA RankEnds ==
  ASSUME NEW n \in Nat, NEW I \in SUBSET (1 .. n)
  PROVE  Rank(I, 0) = 0 /\ Rank(I, n) = Cardinality(I)
<1>0. \A j \in I : ~(j <= 0) /\ j <= n  BY Positions
<1>1. {j \in I : j <= 0} = {} /\ {j \in I : j <= n} = I  BY <1>0
<1> QED  BY <1>1, FS_EmptySet DEF Rank

\* Each rank is taken.
LEMMA RankOnto ==
  ASSUME NEW n \in Nat, NEW I \in SUBSET (1 .. n), NEW k \in 1 .. Cardinality(I)
  PROVE  \E i \in I : Rank(I, i) = k
<1> DEFINE T == {i \in 0 .. n : Rank(I, i) >= k}
<1>0. Cardinality(I) \in Nat /\ \A i : Rank(I, i) \in Nat  BY Positions, Below
<1>1. n \in T  BY <1>0, RankEnds
<1>2. T \in SUBSET Nat  OBVIOUS
<1>3. PICK i \in T : \A m \in T : i <= m
  <2> HIDE DEF T
  <2> QED  BY <1>1, <1>2, LeastNat
<1>4. i # 0
  <2>1. Rank(I, 0) = 0  BY RankEnds
  <2> QED  BY <2>1
<1>5. i - 1 \in 0 .. n /\ i - 1 \notin T  BY <1>3, <1>4
<1>6. Rank(I, i - 1) < k  BY <1>0, <1>5
<1>7. i \in Int /\ Rank(I, i) >= k  OBVIOUS
<1>8. i \in I /\ Rank(I, i) = Rank(I, i - 1) + 1
  <2>1. i \notin I => Rank(I, i) = Rank(I, i - 1)  BY <1>7, RankStep
  <2>2. i \in I => Rank(I, i) = Rank(I, i - 1) + 1  BY <1>7, RankStep
  <2> QED  BY <1>0, <1>6, <1>7, <2>1, <2>2
<1> QED  BY <1>0, <1>6, <1>7, <1>8

\* Nth enumerates the positions in their order.
LEMMA NthProperties ==
  ASSUME NEW n \in Nat, NEW I \in SUBSET (1 .. n)
  PROVE  /\ \A k \in 1 .. Cardinality(I) : Nth(I, k) \in I /\ Rank(I, Nth(I, k)) = k
         /\ \A i \in I : Rank(I, i) \in 1 .. Cardinality(I) /\ Nth(I, Rank(I, i)) = i
         /\ \A k, l \in 1 .. Cardinality(I) : k < l => Nth(I, k) < Nth(I, l)
<1>1. ASSUME NEW k \in 1 .. Cardinality(I)
      PROVE  Nth(I, k) \in I /\ Rank(I, Nth(I, k)) = k
  <2>1. \E i \in I : Rank(I, i) = k  BY RankOnto
  <2> QED  BY <2>1 DEF Nth
<1>2. ASSUME NEW i \in I, NEW j \in I, Rank(I, i) = Rank(I, j)
      PROVE  i = j
  <2>1. i \in Int /\ j \in Int /\ Rank(I, i) \in Nat  BY Positions, Below
  <2>2. i < j => Rank(I, i) < Rank(I, j)  BY <2>1, RankMonotone
  <2>3. j < i => Rank(I, j) < Rank(I, i)  BY <2>1, RankMonotone
  <2> QED  BY <1>2, <2>1, <2>2, <2>3
<1>3. ASSUME NEW i \in I
      PROVE  Rank(I, i) \in 1 .. Cardinality(I)
  <2>1. Rank(I, i) \in Nat /\ Rank(I, i) <= Cardinality(I) /\ Cardinality(I) \in Nat
    BY Positions, Below
  <2>2. Rank(I, 0) < Rank(I, i)
    <3>1. 0 \in Int /\ 0 < i  OBVIOUS
    <3> QED  BY <3>1, RankMonotone
  <2> QED  BY <2>1, <2>2, RankEnds
<1>4. ASSUME NEW i \in I
      PROVE  Nth(I, Rank(I, i)) = i
  BY <1>1, <1>2, <1>3
<1>5. ASSUME NEW k \in 1 .. Cardinality(I), NEW l \in 1 .. Cardinality(I), k < l
      PROVE  Nth(I, k) < Nth(I, l)
  <2>1. Nth(I, k) \in I /\ Nth(I, l) \in I /\ Rank(I, Nth(I, k)) = k /\ Rank(I, Nth(I, l)) = l
    BY <1>1
  <2>2. Nth(I, k) \in Int /\ Nth(I, l) \in Int /\ k \in Int /\ l \in Int
    BY <2>1, Positions
  <2>3. ~(Nth(I, l) < Nth(I, k))
    <3>1. Nth(I, l) < Nth(I, k) => Rank(I, Nth(I, l)) < Rank(I, Nth(I, k))
      BY <2>1, <2>2, RankMonotone
    <3> QED  BY <3>1, <2>1, <2>2, <1>5
  <2>4. Nth(I, l) # Nth(I, k)  BY <2>1, <2>2, <1>5
  <2> QED  BY <2>2, <2>3, <2>4
<1> QED  BY <1>1, <1>3, <1>4, <1>5

-----------------------------------------------------------------------------
(* Pick *)

\* Positions of a list.
IsPositions(I) == \E n \in Nat : I \in SUBSET (1 .. n)

\* The enumeration of the positions, as the users of Pick need it.
LEMMA Enumeration ==
  ASSUME NEW I, IsPositions(I)
  PROVE  /\ IsFiniteSet(I) /\ Cardinality(I) \in Nat
         /\ \A k \in 1 .. Cardinality(I) : Nth(I, k) \in I /\ Rank(I, Nth(I, k)) = k
         /\ \A i \in I : \E k \in 1 .. Cardinality(I) : Nth(I, k) = i
         /\ \A k, l \in 1 .. Cardinality(I) : k < l => Nth(I, k) < Nth(I, l)
<1>1. PICK n \in Nat : I \in SUBSET (1 .. n)  BY DEF IsPositions
<1> QED  BY <1>1, Positions, NthProperties

LEMMA PickType ==
  ASSUME NEW S, NEW s, NEW I, IsPositions(I), \A i \in I : s[i] \in S
  PROVE  /\ Pick(s, I) \in Seq(S)
         /\ Len(Pick(s, I)) = Cardinality(I) /\ Cardinality(I) \in Nat
         /\ DOMAIN Pick(s, I) = 1 .. Cardinality(I)
         /\ \A k \in 1 .. Cardinality(I) : Nth(I, k) \in I /\ Pick(s, I)[k] = s[Nth(I, k)]
<1>1. Cardinality(I) \in Nat  BY Enumeration
<1>2. \A k \in 1 .. Cardinality(I) : Nth(I, k) \in I  BY Enumeration
<1>3. Pick(s, I) \in [1 .. Cardinality(I) -> S]  BY <1>2 DEF Pick
<1> QED  BY <1>1, <1>2, <1>3 DEF Pick

\* Nothing at hand, nothing picked.
LEMMA PickNone == ASSUME NEW s PROVE Pick(s, {}) = <<>>
<1>1. Cardinality({}) = 0  BY FS_EmptySet
<1> QED  BY <1>1 DEF Pick

\* One more position behind the others is one more element at the end.
LEMMA PickAppend ==
  ASSUME NEW n \in Nat, NEW s, NEW I \in SUBSET (1 .. n), NEW p \in 1 .. n,
         \A i \in I : i < p
  PROVE  Pick(s, I \cup {p}) = Append(Pick(s, I), s[p])
<1> DEFINE J == I \cup {p}
<1>0. /\ J \in SUBSET (1 .. n) /\ p \in Int /\ p \notin I
      /\ (\A i \in I : i \in Int) /\ IsFiniteSet(I) /\ Cardinality(I) \in Nat
  <2>1. p \in Int /\ p \notin I /\ J \in SUBSET (1 .. n)  OBVIOUS
  <2> QED  BY <2>1, Positions
<1>1. Cardinality(J) = Cardinality(I) + 1  BY <1>0, FS_AddElement
<1>2. ASSUME NEW i \in I PROVE Rank(J, i) = Rank(I, i)
  <2>1. {j \in J : j <= i} = {j \in I : j <= i}  BY <1>0
  <2> QED  BY <2>1 DEF Rank
<1>3. Rank(J, p) = Cardinality(J)
  <2>1. \A j \in J : j <= p  BY <1>0
  <2>2. {j \in J : j <= p} = J  BY <2>1
  <2> QED  BY <2>2 DEF Rank
<1>4. ASSUME NEW k \in 1 .. Cardinality(I) PROVE Nth(J, k) = Nth(I, k)
  <2>1. Nth(I, k) \in I /\ Rank(I, Nth(I, k)) = k  BY NthProperties
  <2>2. Nth(I, k) \in J /\ Rank(J, Nth(I, k)) = k  BY <1>2, <2>1
  <2> HIDE DEF J
  <2> QED  BY <1>0, <2>2, NthProperties
<1>5. Nth(J, Cardinality(J)) = p
  <2>1. p \in J  OBVIOUS
  <2> HIDE DEF J
  <2> QED  BY <1>0, <1>3, <2>1, NthProperties
<1>6. Pick(s, J) = [k \in 1 .. Cardinality(I) + 1 |-> s[Nth(J, k)]]  BY <1>1 DEF Pick
<1>7. Pick(s, I) = [k \in 1 .. Cardinality(I) |-> s[Nth(I, k)]]  BY DEF Pick
<1>8. Append(Pick(s, I), s[p])
        = [k \in 1 .. Cardinality(I) + 1 |-> IF k = Cardinality(I) + 1 THEN s[p] ELSE s[Nth(I, k)]]
  <2>1. Pick(s, I) \in Seq({s[Nth(I, k)] : k \in 1 .. Cardinality(I)})  BY <1>0, <1>7
  <2> QED  BY <1>0, <1>7, <2>1
<1>9. \A k \in 1 .. Cardinality(I) + 1 :
        s[Nth(J, k)] = IF k = Cardinality(I) + 1 THEN s[p] ELSE s[Nth(I, k)]
  <2> SUFFICES ASSUME NEW k \in 1 .. Cardinality(I) + 1
               PROVE  s[Nth(J, k)] = IF k = Cardinality(I) + 1 THEN s[p] ELSE s[Nth(I, k)]
    OBVIOUS
  <2> HIDE DEF J
  <2> QED  BY <1>0, <1>1, <1>4, <1>5
<1> QED  BY <1>6, <1>8, <1>9
=============================================================================
