-------------------------- MODULE ReassemblyLemmas --------------------------
(***************************************************************************)
(* Facts both reassembly tables' proofs rest on: the front of a queue of   *)
(* stamps exists, what one entry of a table holds can be counted, and the  *)
(* final sort is a permutation.                                            *)
(***************************************************************************)
EXTENDS ClaimedRanges, StableSort, FiniteSetTheorems, FunctionTheorems, SequenceTheorems,
        WellFoundedInduction, TLAPS

(* A non-empty set of naturals has a least element.                        *)
LEMMA LeastNatural ==
  ASSUME NEW S, S \subseteq Nat, S # {}
  PROVE  \E x \in S : \A y \in S : x <= y
<1>1. IsWellFoundedOn(OpToRel(<, Nat), Nat)
  BY NatLessThanWellFounded
<1>2. PICK x \in S : \A y \in S : ~ (<<y, x>> \in OpToRel(<, Nat))
  BY <1>1, WFMin
<1>3. \A y \in S : ~ (y < x)
  BY <1>2 DEF OpToRel
<1> QED
  BY <1>3

(* The least and the greatest of a set are what their names say.          *)
LEMMA LeastIs ==
  ASSUME NEW S, S \subseteq Int, NEW x \in S, \A y \in S : x <= y
  PROVE  Least(S) = x
<1>1. \A z \in S : (\A y \in S : z <= y) => z = x
  OBVIOUS
<1> QED
  BY <1>1 DEF Least

LEMMA GreatestIs ==
  ASSUME NEW S, S \subseteq Int, NEW x \in S, \A y \in S : y <= x
  PROVE  Greatest(S) = x
<1>1. \A z \in S : (\A y \in S : y <= z) => z = x
  OBVIOUS
<1> QED
  BY <1>1 DEF Greatest

(* A bounded set of naturals has a greatest element.                       *)
LEMMA GreatestNatural ==
  ASSUME NEW S, S \subseteq Nat, S # {}, NEW b \in Nat, \A x \in S : x <= b
  PROVE  \E x \in S : \A y \in S : y <= x
<1> DEFINE D == {b - x : x \in S}
<1>1. D \subseteq Nat /\ D # {}
  <2>1. \A x \in S : b - x \in Nat
    OBVIOUS
  <2> QED
    BY <2>1
<1>2. PICK d \in D : \A e \in D : d <= e
  BY <1>1, LeastNatural
<1>3. PICK x \in S : d = b - x
  BY <1>2
<1>4. \A y \in S : b - x <= b - y
  BY <1>2, <1>3
<1> QED
  BY <1>4

(* A non-empty queue of stamped entries has an entry with the least stamp. *)
LEMMA LeastStamp ==
  ASSUME NEW K, NEW Q, Q \subseteq Nat \X K, Q # {}
  PROVE  \E e \in Q : \A d \in Q : e[1] <= d[1]
<1>1. PICK n \in {e[1] : e \in Q} : \A m \in {e[1] : e \in Q} : n <= m
  <2>1. {e[1] : e \in Q} \subseteq Nat /\ {e[1] : e \in Q} # {}
    OBVIOUS
  <2> QED
    BY <2>1, LeastNatural
<1> QED
  BY <1>1

(* What one entry k of a table, n octets long, adds to the held octets.    *)
Share(k, n) == {k} \X (0 .. (n - 1))

LEMMA ShareSize ==
  ASSUME NEW k, NEW n \in Nat
  PROVE  IsFiniteSet(Share(k, n)) /\ Cardinality(Share(k, n)) = n
<1>1. IsFiniteSet({k}) /\ Cardinality({k}) = 1
  BY FS_Singleton
<1>2. IsFiniteSet(0 .. (n - 1)) /\ Cardinality(0 .. (n - 1)) = n
  <2>1. /\ IsFiniteSet(0 .. (n - 1))
        /\ Cardinality(0 .. (n - 1)) = IF 0 > n - 1 THEN 0 ELSE (n - 1) - 0 + 1
    BY FS_Interval
  <2> QED
    BY <2>1
<1>3. /\ IsFiniteSet(Share(k, n))
      /\ Cardinality(Share(k, n)) = Cardinality({k}) * Cardinality(0 .. (n - 1))
  BY <1>1, <1>2, FS_Product DEF Share
<1> QED
  BY <1>1, <1>2, <1>3

(* Disjoint parts of the held octets add up.                               *)
LEMMA ShareAdds ==
  ASSUME NEW k, NEW n \in Nat, NEW Rest, IsFiniteSet(Rest), Rest \cap Share(k, n) = {}
  PROVE  /\ Cardinality(Rest) \in Nat
         /\ IsFiniteSet(Rest \cup Share(k, n))
         /\ Cardinality(Rest \cup Share(k, n)) = Cardinality(Rest) + n
<1>1. IsFiniteSet(Share(k, n)) /\ Cardinality(Share(k, n)) = n
  BY ShareSize
<1>2. /\ IsFiniteSet(Rest \cup Share(k, n))
      /\ Cardinality(Rest \cup Share(k, n)) =
           Cardinality(Rest) + n - Cardinality(Rest \cap Share(k, n))
  BY <1>1, FS_Union
<1>3. Cardinality(Rest) \in Nat
  BY FS_CardinalityType
<1>4. Cardinality(Rest \cap Share(k, n)) = 0
  BY FS_EmptySet, Zenon
<1> QED
  BY <1>2, <1>3, <1>4

(* The elements of a sequence, and being a sequence whatever they are.     *)
Of(s) == {s[i] : i \in 1 .. Len(s)}
IsSeq(s) == s \in Seq(Of(s))

LEMMA SeqOfItself ==
  ASSUME NEW S, NEW s \in Seq(S)
  PROVE  IsSeq(s) /\ Len(s) \in Nat
<1>1. Len(s) \in Nat /\ s \in [1 .. Len(s) -> S]
  BY LenProperties
<1>2. s \in [1 .. Len(s) -> Of(s)]
  BY <1>1 DEF Of
<1>3. s \in Seq(Of(s))
  BY <1>1, <1>2, SeqDef
<1> QED
  BY <1>1, <1>3 DEF IsSeq

(* A function on 1 .. n is a sequence of length n.                         *)
LEMMA FunctionSeq ==
  ASSUME NEW n \in Nat, NEW S, NEW s \in [1 .. n -> S]
  PROVE  s \in Seq(S) /\ Len(s) = n
<1>1. s \in Seq(S)
  BY SeqDef
<1> QED
  BY <1>1, LenProperties

(* What push does to a Vec.                                                *)
LEMMA AppendedSeq ==
  ASSUME NEW O, IsSeq(O), NEW c
  PROVE  /\ IsSeq(Append(O, c)) /\ Len(O) \in Nat /\ Len(Append(O, c)) = Len(O) + 1
         /\ \A i \in 1 .. Len(O) : Append(O, c)[i] = O[i]
         /\ Append(O, c)[Len(O) + 1] = c
         /\ \A i \in 1 .. Len(O) : i \in 1 .. (Len(O) + 1)
         /\ Len(O) + 1 \in 1 .. (Len(O) + 1)
         /\ \A i \in 1 .. (Len(O) + 1) : i \in 1 .. Len(O) \/ i = Len(O) + 1
<1> DEFINE S == Of(O) \cup {c}
<1>1. O \in Seq(S) /\ c \in S
  BY DEF IsSeq
<1> HIDE DEF S
<1>2. Len(O) \in Nat
  BY <1>1, LenProperties
<1>3. /\ Append(O, c) \in Seq(S) /\ Len(Append(O, c)) = Len(O) + 1
      /\ \A i \in 1 .. Len(O) : Append(O, c)[i] = O[i]
      /\ Append(O, c)[Len(O) + 1] = c
  BY <1>1, AppendProperties
<1>4. IsSeq(Append(O, c))
  BY <1>3, SeqOfItself
<1> QED
  BY <1>2, <1>3, <1>4

(* t is s with element i moved to f[i], g undoing f, smaller keys first.   *)
Resorted(s, keys, n, f, g, t) ==
  /\ f \in [1 .. n -> 1 .. n] /\ g \in [1 .. n -> 1 .. n]
  /\ \A i \in 1 .. n : g[f[i]] = i /\ f[g[i]] = i
  /\ \A r \in 1 .. n : t[r] = s[g[r]]
  /\ \A i, j \in 1 .. n : keys[i] < keys[j] => f[i] < f[j]

(* sort_by_key moves each element to its rank, and every rank is taken:    *)
(* nothing is lost or doubled, and smaller keys come first.                *)
LEMMA SortPermutes ==
  ASSUME NEW s, NEW n \in Nat, Len(s) = n, NEW keys \in [1 .. n -> Int], Len(keys) = n
  PROVE  \E f, g : Resorted(s, keys, n, f, g, SortedBy(s, keys))
<1> DEFINE f == [i \in 1 .. n |-> SortRank(keys, i)]
           g == [r \in 1 .. n |-> CHOOSE i \in 1 .. n : SortRank(keys, i) = r]
<1>1. IsFiniteSet(1 .. n) /\ Cardinality(1 .. n) = n
  <2>1. IsFiniteSet(1 .. n) /\ Cardinality(1 .. n) = IF 1 > n THEN 0 ELSE n - 1 + 1
    BY FS_Interval
  <2> QED
    BY <2>1
<1>2. \A i \in 1 .. n : keys[i] \in Int
  OBVIOUS
<1>3. ASSUME NEW i \in 1 .. n
      PROVE  /\ IsFiniteSet(Ahead(keys, i)) /\ SortRank(keys, i) \in 1 .. n
  <2>1. Ahead(keys, i) \in SUBSET ((1 .. n) \ {i})
    BY <1>2 DEF Ahead
  <2>2. IsFiniteSet((1 .. n) \ {i}) /\ Cardinality((1 .. n) \ {i}) = n - 1
    BY <1>1, FS_RemoveElement
  <2>3. IsFiniteSet(Ahead(keys, i)) /\ Cardinality(Ahead(keys, i)) <= n - 1
    BY <2>1, <2>2, FS_Subset
  <2>4. Cardinality(Ahead(keys, i)) \in Nat
    BY <2>3, FS_CardinalityType
  <2> QED
    BY <2>3, <2>4, <1>1 DEF SortRank
<1>4. ASSUME NEW i \in 1 .. n, NEW j \in 1 .. n, i \in Ahead(keys, j)
      PROVE  SortRank(keys, i) < SortRank(keys, j)
  <2>1. Ahead(keys, i) \in SUBSET Ahead(keys, j) /\ i \notin Ahead(keys, i)
    BY <1>2, <1>4 DEF Ahead
  <2>2. /\ Cardinality(Ahead(keys, i)) <= Cardinality(Ahead(keys, j))
        /\ Cardinality(Ahead(keys, i)) # Cardinality(Ahead(keys, j))
    BY <2>1, <1>3, <1>4, FS_Subset
  <2>3. Cardinality(Ahead(keys, i)) \in Nat /\ Cardinality(Ahead(keys, j)) \in Nat
    BY <1>3, FS_CardinalityType
  <2> QED
    BY <2>2, <2>3 DEF SortRank
<1>5. \A i, j \in 1 .. n : i # j => i \in Ahead(keys, j) \/ j \in Ahead(keys, i)
  BY <1>2 DEF Ahead
<1>6. ASSUME NEW i \in 1 .. n, NEW j \in 1 .. n, i # j
      PROVE  SortRank(keys, i) # SortRank(keys, j)
  <2>1. SortRank(keys, i) \in Int /\ SortRank(keys, j) \in Int
    BY <1>3
  <2>2. SortRank(keys, i) < SortRank(keys, j) \/ SortRank(keys, j) < SortRank(keys, i)
    BY <1>4, <1>5, <1>6
  <2> QED
    BY <2>1, <2>2
<1>7. f \in [1 .. n -> 1 .. n]
  BY <1>3
<1>8. f \in Injection(1 .. n, 1 .. n)
  BY <1>6, <1>7 DEF Injection, IsInjective
<1>9. f \in Surjection(1 .. n, 1 .. n)
  BY <1>1, <1>8, FS_Injection
<1>10. \A r \in 1 .. n : \E i \in 1 .. n : SortRank(keys, i) = r
  BY <1>9 DEF Surjection
<1>11. g \in [1 .. n -> 1 .. n] /\ \A r \in 1 .. n : SortRank(keys, g[r]) = r
  BY <1>10
<1>12. \A i \in 1 .. n : g[f[i]] = i /\ f[g[i]] = i
  BY <1>6, <1>7, <1>11
<1>13. \A r \in 1 .. n : SortedBy(s, keys)[r] = s[g[r]]
  BY DEF SortedBy
<1>14. \A i, j \in 1 .. n : keys[i] < keys[j] => f[i] < f[j]
  <2>1. \A i, j \in 1 .. n : keys[i] < keys[j] => i \in Ahead(keys, j)
    BY DEF Ahead
  <2> QED
    BY <2>1, <1>4
<1> QED
  <2>1. f \in [1 .. n -> 1 .. n] /\ g \in [1 .. n -> 1 .. n]
    BY <1>7, <1>11
  <2> HIDE DEF f, g
  <2> QED
    BY <2>1, <1>12, <1>13, <1>14 DEF Resorted
=============================================================================
