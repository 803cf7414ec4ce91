--------------------------- MODULE FuzzyMatchProofs ---------------------------
(***************************************************************************)
(* Proofs about FuzzyMatch, for any characters, any columns and any        *)
(* fields: the two row buffers of LevenshteinDistance hold, cell by cell,  *)
(* the costs of the cheapest alignments of two names, so that each column  *)
(* gets the first of the fields that are closest to it.                    *)
(***************************************************************************)
EXTENDS FuzzyMatch, FiniteSetTheorems, WellFoundedInduction, TLAPS

-----------------------------------------------------------------------------
(* Numbers and sequences.                                                  *)

LEMMA LeastOf ==
  ASSUME NEW S \in SUBSET Nat, S /= {}
  PROVE  \E n \in S : \A m \in S : n <= m
<1>1. PICK n \in S : \A m \in S : ~ (<<m, n>> \in OpToRel(<, Nat))
  BY NatLessThanWellFounded, WFMin
<1>2. \A m \in S : ~ (m < n)
  BY <1>1 DEF OpToRel
<1> QED
  BY <1>2

LEMMA MinIsLeast ==
  ASSUME NEW S \in SUBSET Nat, S /= {}
  PROVE  Min(S) \in S /\ \A n \in S : Min(S) <= n
BY LeastOf DEF Min

LEMMA MinIs ==
  ASSUME NEW S \in SUBSET Nat, NEW least \in S, \A n \in S : least <= n
  PROVE  Min(S) = least
<1>1. Min(S) \in S /\ \A n \in S : Min(S) <= n
  BY MinIsLeast
<1>2. Min(S) \in Nat /\ least \in Nat /\ Min(S) <= least /\ least <= Min(S)
  BY <1>1
<1> QED
  BY <1>2

-----------------------------------------------------------------------------
(* Alignments.                                                             *)

\* The pairs of an alignment that are substitutions.
Substituted(s, t, pairs) == {p \in pairs : s[p[1]] /= t[p[2]]}

LEMMA AlignmentPairs ==
  ASSUME NEW m \in Nat, NEW n \in Nat, NEW pairs \in Alignments(m, n)
  PROVE  /\ \A p \in pairs : p[1] \in 1 .. m /\ p[2] \in 1 .. n /\ p = <<p[1], p[2]>>
         /\ \A p, q \in pairs :
              p /= q => (p[1] < q[1] /\ p[2] < q[2]) \/ (q[1] < p[1] /\ q[2] < p[2])
BY DEF Alignments

LEMMA AlignmentIs ==
  ASSUME NEW m \in Nat, NEW n \in Nat, NEW pairs,
         \A p \in pairs : p[1] \in 1 .. m /\ p[2] \in 1 .. n /\ p = <<p[1], p[2]>>,
         \A p, q \in pairs :
           p /= q => (p[1] < q[1] /\ p[2] < q[2]) \/ (q[1] < p[1] /\ q[2] < p[2])
  PROVE  pairs \in Alignments(m, n)
<1>1. pairs \subseteq (1 .. m) \X (1 .. n)
  OBVIOUS
<1> QED
  BY <1>1 DEF Alignments

\* An alignment pairs each character once.
LEMMA AlignmentSize ==
  ASSUME NEW m \in Nat, NEW n \in Nat, NEW pairs \in Alignments(m, n)
  PROVE  IsFiniteSet(pairs) /\ Cardinality(pairs) \in 0 .. m /\ Cardinality(pairs) <= n
<1>1. IsFiniteSet(1 .. m) /\ Cardinality(1 .. m) = m /\ IsFiniteSet(1 .. n) /\ Cardinality(1 .. n) = n
  BY FS_Interval
<1>2. [p \in pairs |-> p[1]] \in Injection(pairs, 1 .. m)
  BY AlignmentPairs DEF Injection, IsInjective
<1>3. [p \in pairs |-> p[2]] \in Injection(pairs, 1 .. n)
  BY AlignmentPairs DEF Injection, IsInjective
<1>4. IsFiniteSet(pairs) /\ Cardinality(pairs) <= m
  BY <1>1, <1>2, FS_Injection
<1>5. Cardinality(pairs) <= n
  BY <1>1, <1>3, FS_Injection
<1> QED
  BY <1>4, <1>5, FS_CardinalityType

LEMMA SubstitutedSize ==
  ASSUME NEW s, NEW t, NEW m \in Nat, NEW n \in Nat, NEW pairs \in Alignments(m, n)
  PROVE  /\ IsFiniteSet(Substituted(s, t, pairs))
         /\ Cardinality(Substituted(s, t, pairs)) \in Nat
<1>1. Substituted(s, t, pairs) \in SUBSET pairs
  BY DEF Substituted
<1> QED
  BY <1>1, AlignmentSize, FS_Subset, FS_CardinalityType

LEMMA CostIs ==
  ASSUME NEW s, NEW t, NEW m \in Nat, NEW n \in Nat, NEW pairs \in Alignments(m, n)
  PROVE  /\ AlignmentCost(s, t, m, n, pairs) =
              m + n - 2 * Cardinality(pairs) + Cardinality(Substituted(s, t, pairs))
         /\ AlignmentCost(s, t, m, n, pairs) \in Nat
<1>1. AlignmentCost(s, t, m, n, pairs) =
        m + n - 2 * Cardinality(pairs) + Cardinality(Substituted(s, t, pairs))
  BY DEF AlignmentCost, Substituted
<1> QED
  BY <1>1, AlignmentSize, SubstitutedSize

\* The distance of two prefixes is the cost of an alignment, and of no
\* alignment more.
LEMMA DistanceIsLeast ==
  ASSUME NEW s, NEW t, NEW m \in Nat, NEW n \in Nat
  PROVE  /\ PrefixDistance(s, t, m, n) \in Nat
         /\ \E pairs \in Alignments(m, n) :
              PrefixDistance(s, t, m, n) = AlignmentCost(s, t, m, n, pairs)
         /\ \A pairs \in Alignments(m, n) :
              PrefixDistance(s, t, m, n) <= AlignmentCost(s, t, m, n, pairs)
<1> DEFINE costs == {AlignmentCost(s, t, m, n, pairs) : pairs \in Alignments(m, n)}
<1>1. {} \in Alignments(m, n)
  BY DEF Alignments
<1>2. costs \in SUBSET Nat /\ costs /= {}
  BY <1>1, CostIs
<1>3. PrefixDistance(s, t, m, n) \in costs /\ \A c \in costs : PrefixDistance(s, t, m, n) <= c
  <2> HIDE DEF costs
  <2>1. Min(costs) \in costs /\ \A c \in costs : Min(costs) <= c
    BY <1>2, MinIsLeast
  <2> QED
    BY <2>1 DEF PrefixDistance, costs
<1> QED
  BY <1>2, <1>3

LEMMA DistanceOfNothing ==
  ASSUME NEW s, NEW t, NEW n \in Nat
  PROVE  PrefixDistance(s, t, 0, n) = n /\ PrefixDistance(s, t, n, 0) = n
<1>1. \A pairs \in Alignments(0, n) \cup Alignments(n, 0) : pairs = {}
  BY AlignmentPairs
<1>2. Cardinality({}) = 0 /\ Substituted(s, t, {}) = {}
  BY FS_EmptySet DEF Substituted
<1>3. PICK pairs \in Alignments(0, n) :
        PrefixDistance(s, t, 0, n) = AlignmentCost(s, t, 0, n, pairs)
  BY DistanceIsLeast
<1>4. PICK other \in Alignments(n, 0) :
        PrefixDistance(s, t, n, 0) = AlignmentCost(s, t, n, 0, other)
  BY DistanceIsLeast
<1>5. pairs = {} /\ other = {}
  BY <1>1
<1>6. AlignmentCost(s, t, 0, n, {}) = 0 + n - 2 * Cardinality({}) + Cardinality(Substituted(s, t, {}))
  BY <1>5, CostIs
<1>7. AlignmentCost(s, t, n, 0, {}) = n + 0 - 2 * Cardinality({}) + Cardinality(Substituted(s, t, {}))
  BY <1>5, CostIs
<1> QED
  BY <1>2, <1>3, <1>4, <1>5, <1>6, <1>7

-----------------------------------------------------------------------------
(* One character more.                                                     *)

\* One more character is deleted or inserted.
LEMMA Widened ==
  ASSUME NEW s, NEW t, NEW m \in Nat, NEW n \in Nat, NEW pairs \in Alignments(m, n)
  PROVE  /\ pairs \in Alignments(m + 1, n) /\ pairs \in Alignments(m, n + 1)
         /\ AlignmentCost(s, t, m + 1, n, pairs) = AlignmentCost(s, t, m, n, pairs) + 1
         /\ AlignmentCost(s, t, m, n + 1, pairs) = AlignmentCost(s, t, m, n, pairs) + 1
<1>0. /\ \A p \in pairs : p[1] \in 1 .. m /\ p[2] \in 1 .. n /\ p = <<p[1], p[2]>>
      /\ \A p, q \in pairs :
           p /= q => (p[1] < q[1] /\ p[2] < q[2]) \/ (q[1] < p[1] /\ q[2] < p[2])
  BY AlignmentPairs
<1>1. pairs \in Alignments(m + 1, n)
  <2>1. m + 1 \in Nat /\ \A p \in pairs : p[1] \in 1 .. m + 1 /\ p[2] \in 1 .. n
    BY <1>0
  <2> QED
    BY <1>0, <2>1, AlignmentIs
<1>2. pairs \in Alignments(m, n + 1)
  <2>1. n + 1 \in Nat /\ \A p \in pairs : p[1] \in 1 .. m /\ p[2] \in 1 .. n + 1
    BY <1>0
  <2> QED
    BY <1>0, <2>1, AlignmentIs
<1>3. Cardinality(pairs) \in Nat /\ Cardinality(Substituted(s, t, pairs)) \in Nat
  BY AlignmentSize, SubstitutedSize
<1>4. m + 1 \in Nat /\ n + 1 \in Nat
  OBVIOUS
<1>5. /\ AlignmentCost(s, t, m, n, pairs) =
           m + n - 2 * Cardinality(pairs) + Cardinality(Substituted(s, t, pairs))
      /\ AlignmentCost(s, t, m + 1, n, pairs) =
           (m + 1) + n - 2 * Cardinality(pairs) + Cardinality(Substituted(s, t, pairs))
      /\ AlignmentCost(s, t, m, n + 1, pairs) =
           m + (n + 1) - 2 * Cardinality(pairs) + Cardinality(Substituted(s, t, pairs))
  BY <1>1, <1>2, <1>4, CostIs
<1> QED
  BY <1>1, <1>2, <1>3, <1>5

Differ(s, t, m, n) == IF s[m + 1] /= t[n + 1] THEN 1 ELSE 0

\* One more character of each is paired.
LEMMA Paired ==
  ASSUME NEW s, NEW t, NEW m \in Nat, NEW n \in Nat, NEW pairs \in Alignments(m, n)
  PROVE  LET more == pairs \cup {<<m + 1, n + 1>>} IN
         /\ more \in Alignments(m + 1, n + 1)
         /\ AlignmentCost(s, t, m + 1, n + 1, more) =
              AlignmentCost(s, t, m, n, pairs) + Differ(s, t, m, n)
<1> DEFINE last == <<m + 1, n + 1>>
           more == pairs \cup {last}
<1>1. last[1] = m + 1 /\ last[2] = n + 1 /\ last \notin pairs
  BY AlignmentPairs
<1>2. more \in Alignments(m + 1, n + 1)
  <2>1. \A p \in more : p[1] \in 1 .. m + 1 /\ p[2] \in 1 .. n + 1 /\ p = <<p[1], p[2]>>
    BY AlignmentPairs
  <2>2. ASSUME NEW p \in more, NEW q \in more, p /= q
        PROVE  (p[1] < q[1] /\ p[2] < q[2]) \/ (q[1] < p[1] /\ q[2] < p[2])
    <3>1. CASE p \in pairs /\ q \in pairs
      BY <2>2, <3>1, AlignmentPairs
    <3>2. CASE p \in pairs /\ q = last
      BY <3>2, AlignmentPairs
    <3>3. CASE p = last /\ q \in pairs
      BY <3>3, AlignmentPairs
    <3> QED
      BY <2>2, <3>1, <3>2, <3>3
  <2> HIDE DEF more
  <2>3. m + 1 \in Nat /\ n + 1 \in Nat
    OBVIOUS
  <2> QED
    BY <2>1, <2>2, <2>3, AlignmentIs
<1>3. IsFiniteSet(pairs) /\ Cardinality(pairs) \in Nat /\ Cardinality(more) = Cardinality(pairs) + 1
  <2> HIDE DEF last
  <2>1. IsFiniteSet(pairs) /\ Cardinality(pairs) \in Nat
    BY AlignmentSize
  <2>2. Cardinality(pairs \cup {last}) = Cardinality(pairs) + 1
    BY <1>1, <2>1, FS_AddElement
  <2> QED
    BY <2>1, <2>2
<1>4. /\ IsFiniteSet(Substituted(s, t, pairs))
      /\ Cardinality(Substituted(s, t, pairs)) \in Nat
      /\ Cardinality(Substituted(s, t, more)) = Cardinality(Substituted(s, t, pairs)) + Differ(s, t, m, n)
  <2>1. IsFiniteSet(Substituted(s, t, pairs)) /\ Cardinality(Substituted(s, t, pairs)) \in Nat
    BY SubstitutedSize
  <2>2. last \notin Substituted(s, t, pairs)
    BY <1>1 DEF Substituted
  <2>3. CASE s[m + 1] /= t[n + 1]
    <3>1. Substituted(s, t, more) = Substituted(s, t, pairs) \cup {last}
      BY <1>1, <2>3 DEF Substituted
    <3>2. Cardinality(Substituted(s, t, more)) = Cardinality(Substituted(s, t, pairs)) + 1
      BY <2>1, <2>2, <3>1, FS_AddElement
    <3> QED
      BY <2>1, <2>3, <3>2 DEF Differ
  <2>4. CASE s[m + 1] = t[n + 1]
    <3>1. Substituted(s, t, more) = Substituted(s, t, pairs)
      BY <1>1, <2>4 DEF Substituted
    <3> QED
      BY <2>1, <2>4, <3>1 DEF Differ
  <2> QED
    BY <2>1, <2>3, <2>4
<1>5. AlignmentCost(s, t, m, n, pairs) =
        m + n - 2 * Cardinality(pairs) + Cardinality(Substituted(s, t, pairs))
  BY CostIs
<1>6. AlignmentCost(s, t, m + 1, n + 1, more) =
        (m + 1) + (n + 1) - 2 * Cardinality(more) + Cardinality(Substituted(s, t, more))
  BY <1>2, CostIs
<1>7. Differ(s, t, m, n) \in Nat
  BY DEF Differ
<1> HIDE DEF more
<1>8. AlignmentCost(s, t, m + 1, n + 1, more) = AlignmentCost(s, t, m, n, pairs) + Differ(s, t, m, n)
  BY <1>3, <1>4, <1>5, <1>6, <1>7
<1> QED
  BY <1>2, <1>8 DEF more

\* The other way round: without its last pair, or its last character.
LEMMA Narrowed ==
  ASSUME NEW m \in Nat, NEW n \in Nat, NEW pairs \in Alignments(m + 1, n + 1)
  PROVE  \/ \E fewer \in Alignments(m, n) : pairs = fewer \cup {<<m + 1, n + 1>>}
         \/ pairs \in Alignments(m + 1, n)
         \/ pairs \in Alignments(m, n + 1)
<1> DEFINE last == <<m + 1, n + 1>>
<1>1. m + 1 \in Nat /\ n + 1 \in Nat /\ last[1] = m + 1 /\ last[2] = n + 1
  OBVIOUS
<1>2. \A p \in pairs : p[1] \in 1 .. m + 1 /\ p[2] \in 1 .. n + 1 /\ p = <<p[1], p[2]>>
  BY <1>1, AlignmentPairs
<1>3. \A p, q \in pairs :
        p /= q => (p[1] < q[1] /\ p[2] < q[2]) \/ (q[1] < p[1] /\ q[2] < p[2])
  BY <1>1, AlignmentPairs
<1>4. CASE last \in pairs
  <2> DEFINE fewer == pairs \ {last}
  <2>1. \A p \in fewer : p[1] \in 1 .. m /\ p[2] \in 1 .. n /\ p = <<p[1], p[2]>>
    BY <1>1, <1>2, <1>3, <1>4
  <2>2. fewer \in Alignments(m, n)
    BY <1>3, <2>1, AlignmentIs
  <2> QED
    BY <1>4, <2>2
<1>5. CASE last \notin pairs /\ \E p \in pairs : p[1] = m + 1
  <2>1. PICK p \in pairs : p[1] = m + 1
    BY <1>5
  <2>2. p[2] \in 1 .. n
    BY <1>1, <1>2, <1>5, <2>1
  <2>3. \A q \in pairs : q[2] \in 1 .. n
    BY <1>2, <1>3, <2>1, <2>2
  <2> QED
    BY <1>1, <1>2, <1>3, <2>3, AlignmentIs
<1>6. CASE \A p \in pairs : p[1] /= m + 1
  <2>1. \A p \in pairs : p[1] \in 1 .. m
    BY <1>2, <1>6
  <2> QED
    BY <1>1, <1>2, <1>3, <2>1, AlignmentIs
<1> QED
  BY <1>4, <1>5, <1>6

\* The recurrence LevenshteinDistance computes, whatever the names.
LEMMA DistanceRecurs ==
  ASSUME NEW s, NEW t, NEW m \in Nat, NEW n \in Nat
  PROVE  LET D(i, j) == PrefixDistance(s, t, i, j)
             three == {D(m + 1, n) + 1, D(m, n + 1) + 1, D(m, n) + Differ(s, t, m, n)}
         IN three \subseteq Nat /\ D(m + 1, n + 1) \in three /\ \A d \in three : D(m + 1, n + 1) <= d
<1> DEFINE D(i, j) == PrefixDistance(s, t, i, j)
           C(i, j, pairs) == AlignmentCost(s, t, i, j, pairs)
           wide == D(m + 1, n) + 1
           high == D(m, n + 1) + 1
           both == D(m, n) + Differ(s, t, m, n)
           whole == D(m + 1, n + 1)
<1>1. m + 1 \in Nat /\ n + 1 \in Nat /\ Differ(s, t, m, n) \in Nat
  BY DEF Differ
<1>2. D(m + 1, n) \in Nat /\ D(m, n + 1) \in Nat /\ D(m, n) \in Nat /\ whole \in Nat
  BY <1>1, DistanceIsLeast
<1>3. whole <= wide
  <2>1. PICK pairs \in Alignments(m + 1, n) : D(m + 1, n) = C(m + 1, n, pairs)
    BY <1>1, DistanceIsLeast
  <2>2. pairs \in Alignments(m + 1, n + 1) /\ C(m + 1, n + 1, pairs) = C(m + 1, n, pairs) + 1
    BY <1>1, Widened
  <2>3. whole <= C(m + 1, n + 1, pairs)
    BY <1>1, <2>2, DistanceIsLeast
  <2> QED
    BY <2>1, <2>2, <2>3
<1>4. whole <= high
  <2>1. PICK pairs \in Alignments(m, n + 1) : D(m, n + 1) = C(m, n + 1, pairs)
    BY <1>1, DistanceIsLeast
  <2>2. pairs \in Alignments(m + 1, n + 1) /\ C(m + 1, n + 1, pairs) = C(m, n + 1, pairs) + 1
    BY <1>1, Widened
  <2>3. whole <= C(m + 1, n + 1, pairs)
    BY <1>1, <2>2, DistanceIsLeast
  <2> QED
    BY <2>1, <2>2, <2>3
<1>5. whole <= both
  <2>1. PICK pairs \in Alignments(m, n) : D(m, n) = C(m, n, pairs)
    BY DistanceIsLeast
  <2> DEFINE more == pairs \cup {<<m + 1, n + 1>>}
  <2>2. more \in Alignments(m + 1, n + 1) /\ C(m + 1, n + 1, more) = C(m, n, pairs) + Differ(s, t, m, n)
    BY Paired
  <2> HIDE DEF more
  <2>3. whole <= C(m + 1, n + 1, more)
    BY <1>1, <2>2, DistanceIsLeast
  <2> QED
    BY <2>1, <2>2, <2>3
<1>6. wide <= whole \/ high <= whole \/ both <= whole
  <2>1. PICK pairs \in Alignments(m + 1, n + 1) : whole = C(m + 1, n + 1, pairs)
    BY <1>1, DistanceIsLeast
  <2>2. CASE \E fewer \in Alignments(m, n) : pairs = fewer \cup {<<m + 1, n + 1>>}
    <3>1. PICK fewer \in Alignments(m, n) : pairs = fewer \cup {<<m + 1, n + 1>>}
      BY <2>2
    <3>2. whole = C(m, n, fewer) + Differ(s, t, m, n)
      BY <2>1, <3>1, Paired
    <3>3. D(m, n) <= C(m, n, fewer) /\ C(m, n, fewer) \in Nat
      BY DistanceIsLeast, CostIs
    <3> QED
      BY <1>1, <1>2, <3>2, <3>3
  <2>3. CASE pairs \in Alignments(m + 1, n)
    <3>1. whole = C(m + 1, n, pairs) + 1
      BY <1>1, <2>1, <2>3, Widened
    <3>2. D(m + 1, n) <= C(m + 1, n, pairs) /\ C(m + 1, n, pairs) \in Nat
      BY <1>1, <2>3, DistanceIsLeast, CostIs
    <3> QED
      BY <1>2, <3>1, <3>2
  <2>4. CASE pairs \in Alignments(m, n + 1)
    <3>1. whole = C(m, n + 1, pairs) + 1
      BY <1>1, <2>1, <2>4, Widened
    <3>2. D(m, n + 1) <= C(m, n + 1, pairs) /\ C(m, n + 1, pairs) \in Nat
      BY <1>1, <2>4, DistanceIsLeast, CostIs
    <3> QED
      BY <1>2, <3>1, <3>2
  <2> QED
    BY <2>2, <2>3, <2>4, Narrowed
<1>7. wide \in Nat /\ high \in Nat /\ both \in Nat
  BY <1>1, <1>2
<1> HIDE DEF wide, high, both, whole
<1>8. whole = wide \/ whole = high \/ whole = both
  BY <1>2, <1>3, <1>4, <1>5, <1>6, <1>7 DEF whole
<1>9. {wide, high, both} \subseteq Nat /\ whole \in {wide, high, both}
      /\ \A d \in {wide, high, both} : whole <= d
  BY <1>3, <1>4, <1>5, <1>7, <1>8
<1> QED
  BY <1>9 DEF wide, high, both, whole

-----------------------------------------------------------------------------
(* What the distance measures.                                             *)

\* A claim about the distances of all prefixes follows from the border and the
\* recurrence: of the prefixes for which it failed some would be shortest.
LEMMA DistanceBounded ==
  ASSUME NEW s, NEW t
  PROVE  \A m, n \in Nat : PrefixDistance(s, t, m, n) <= IF m > n THEN m ELSE n
<1> DEFINE Longest(m, n) == IF m > n THEN m ELSE n
           Fits(m) == \A n \in Nat : PrefixDistance(s, t, m, n) <= Longest(m, n)
           wrong == {m \in Nat : ~Fits(m)}
<1>1. SUFFICES ASSUME wrong /= {} PROVE FALSE
  OBVIOUS
<1>2. PICK m \in wrong : \A k \in wrong : m <= k
  BY <1>1, LeastOf
<1>3. PICK n \in Nat : ~ (PrefixDistance(s, t, m, n) <= Longest(m, n))
  BY <1>2
<1>4. CASE m = 0 \/ n = 0
  BY <1>2, <1>3, <1>4, DistanceOfNothing
<1>5. CASE m > 0 /\ n > 0
  <2>1. m - 1 \in Nat /\ n - 1 \in Nat /\ m - 1 \notin wrong
    BY <1>2, <1>3, <1>5
  <2>2. PrefixDistance(s, t, m - 1, n - 1) <= Longest(m - 1, n - 1)
    BY <2>1
  <2>3. /\ PrefixDistance(s, t, m, n) <= PrefixDistance(s, t, m - 1, n - 1) + Differ(s, t, m - 1, n - 1)
        /\ PrefixDistance(s, t, m - 1, n - 1) \in Nat /\ PrefixDistance(s, t, m, n) \in Nat
    <3>1. (m - 1) + 1 = m /\ (n - 1) + 1 = n
      BY <1>2, <1>3
    <3> QED
      BY <1>2, <1>3, <2>1, <3>1, DistanceRecurs, DistanceIsLeast
  <2>4. Differ(s, t, m - 1, n - 1) \in {0, 1}
    BY DEF Differ
  <2>5. Longest(m - 1, n - 1) + 1 = Longest(m, n) /\ Longest(m - 1, n - 1) \in Nat
    BY <1>2, <1>3, <1>5
  <2> HIDE DEF Longest
  <2> QED
    BY <1>3, <2>2, <2>3, <2>4, <2>5
<1> QED
  BY <1>2, <1>3, <1>4, <1>5

\* The first m characters of s are the first n of t.
SamePrefix(s, t, m, n) == m = n /\ \A i \in 1 .. m : s[i] = t[i]

LEMMA DistanceZero ==
  ASSUME NEW s, NEW t
  PROVE  \A m, n \in Nat : PrefixDistance(s, t, m, n) = 0 <=> SamePrefix(s, t, m, n)
<1> USE DEF SamePrefix
<1> DEFINE Same(m, n) == SamePrefix(s, t, m, n)
           Tells(m) == \A n \in Nat : PrefixDistance(s, t, m, n) = 0 <=> Same(m, n)
           wrong == {m \in Nat : ~Tells(m)}
<1>1. SUFFICES ASSUME wrong /= {} PROVE FALSE
  OBVIOUS
<1>2. PICK m \in wrong : \A k \in wrong : m <= k
  BY <1>1, LeastOf
<1>3. PICK n \in Nat : ~ (PrefixDistance(s, t, m, n) = 0 <=> Same(m, n))
  BY <1>2
<1>4. CASE m = 0 \/ n = 0
  <2>1. PrefixDistance(s, t, m, n) = IF m = 0 THEN n ELSE m
    BY <1>2, <1>3, <1>4, DistanceOfNothing
  <2> QED
    BY <1>2, <1>3, <1>4, <2>1
<1>5. CASE m > 0 /\ n > 0
  <2> DEFINE D(i, j) == PrefixDistance(s, t, i, j)
             differ == Differ(s, t, m - 1, n - 1)
  <2>1. /\ m \in Nat /\ n \in Nat /\ m - 1 \in Nat /\ n - 1 \in Nat /\ m - 1 \notin wrong
        /\ (m - 1) + 1 = m /\ (n - 1) + 1 = n
    BY <1>2, <1>3, <1>5
  <2>2. D(m - 1, n - 1) = 0 <=> Same(m - 1, n - 1)
    BY <2>1
  <2>3. D(m, n) \in {D(m, n - 1) + 1, D(m - 1, n) + 1, D(m - 1, n - 1) + differ}
        /\ D(m, n) <= D(m - 1, n - 1) + differ
    BY <2>1, DistanceRecurs
  <2>4. D(m, n) \in Nat /\ D(m, n - 1) \in Nat /\ D(m - 1, n) \in Nat /\ D(m - 1, n - 1) \in Nat
    BY <2>1, DistanceIsLeast
  <2>5. (differ = 0 <=> s[m] = t[n]) /\ differ \in {0, 1}
    BY <2>1 DEF Differ
  <2> HIDE DEF D, differ
  <2>6. D(m, n) = 0 <=> D(m - 1, n - 1) = 0 /\ differ = 0
    BY <2>3, <2>4, <2>5
  <2>7. \A i : i \in 1 .. m <=> i \in 1 .. m - 1 \/ i = m
    BY <2>1
  <2>8. Same(m, n) <=> Same(m - 1, n - 1) /\ s[m] = t[n]
    BY <2>1, <2>7
  <2>9. D(m, n) = 0 <=> Same(m, n)
    BY <2>2, <2>5, <2>6, <2>8
  <2> QED
    BY <1>3, <2>9 DEF D
<1> QED
  BY <1>2, <1>3, <1>4, <1>5

\* The distance is at most the longer length, so that the confidence
\* fuzzyConfidence makes of it is never below 0 and its last test never needed;
\* and it is 0, and the confidence 1, for equal names only.
THEOREM DistanceMeasures ==
  ASSUME NEW s \in Names, NEW t \in Names
  PROVE  LET longest == IF Len(s) > Len(t) THEN Len(s) ELSE Len(t)
             confidence == Confidence(EditDistance(s, t), longest)
         IN /\ confidence[1] \in 0 .. longest /\ confidence[2] = longest
            /\ confidence[1] = confidence[2] <=> s = t
<1> DEFINE longest == IF Len(s) > Len(t) THEN Len(s) ELSE Len(t)
           d == EditDistance(s, t)
<1>1. /\ Len(s) \in Nat /\ Len(t) \in Nat /\ DOMAIN s = 1 .. Len(s) /\ DOMAIN t = 1 .. Len(t)
      /\ s = t <=> (Len(s) = Len(t) /\ \A i \in 1 .. Len(s) : s[i] = t[i])
  BY DEF Names
<1>2. d \in Nat /\ d <= longest
  <2>1. d = PrefixDistance(s, t, Len(s), Len(t))
    BY DEF EditDistance
  <2>2. PrefixDistance(s, t, Len(s), Len(t)) \in Nat
    BY <1>1, DistanceIsLeast
  <2>3. PrefixDistance(s, t, Len(s), Len(t)) <= longest
    BY <1>1, DistanceBounded
  <2> QED
    BY <2>1, <2>2, <2>3
<1>3. d = 0 <=> s = t
  <2>1. d = PrefixDistance(s, t, Len(s), Len(t))
    BY DEF EditDistance
  <2>2. PrefixDistance(s, t, Len(s), Len(t)) = 0
          <=> Len(s) = Len(t) /\ \A i \in 1 .. Len(s) : s[i] = t[i]
    <3>1. PrefixDistance(s, t, Len(s), Len(t)) = 0 <=> SamePrefix(s, t, Len(s), Len(t))
      BY <1>1, DistanceZero
    <3> QED
      BY <3>1 DEF SamePrefix
  <2> QED
    BY <1>1, <2>1, <2>2
<1>4. longest \in Nat
  BY <1>1
<1> HIDE DEF d, longest
<1>5. Confidence(d, longest)[1] = longest - d /\ Confidence(d, longest)[2] = longest
  BY DEF Confidence
<1> QED
  BY <1>2, <1>3, <1>4, <1>5 DEF d, longest

-----------------------------------------------------------------------------
(* Normalized names.                                                       *)

LEMMA Elements ==
  ASSUME NEW S, NEW s \in Seq(S)
  PROVE  /\ DOMAIN s = 1 .. Len(s) /\ Len(s) \in Nat
         /\ \A i \in 1 .. Len(s) : s[i] \in S
         /\ s /= <<>> <=> Len(s) > 0
OBVIOUS

LEMMA WriteIsName ==
  ASSUME NEW name \in Names, NEW c \in Alnum \cup Others
  PROVE  Write(name, c) \in Names
<1>1. Lower[c] \in Alnum \cup Others /\ "_" \in Alnum \cup Others
  BY LowerAssumption, CharactersAssumption
<1>2. ASSUME NEW x \in Alnum \cup Others PROVE Append(name, x) \in Names
  BY DEF Names
<1> QED
  BY <1>1, <1>2 DEF Write

\* The loop, unfolded once.
LEMMA WrittenUnfolds ==
  ASSUME NEW value \in Names
  PROVE  \A n \in 0 .. Len(value) :
           Written(value)[n] =
             IF n = 0 THEN <<>> ELSE Write(Written(value)[n - 1], value[n])
<1> DEFINE Round(g, n) == IF n = 0 THEN <<>> ELSE Write(g[n - 1], value[n])
           Computed(m) == \E g : g = [n \in 0 .. m |-> Round(g, n)]
           missing == {m \in 0 .. Len(value) : ~Computed(m)}
<1> HIDE DEF Computed
<1>1. Len(value) \in Nat /\ missing \in SUBSET Nat
  BY Elements DEF Names
<1>2. missing = {}
  <2>1. SUFFICES ASSUME missing /= {} PROVE FALSE
    OBVIOUS
  <2>2. PICK m \in missing : \A k \in missing : m <= k
    BY <1>1, <2>1, LeastOf
  <2>3. CASE m = 0
    <3> DEFINE g == [n \in 0 .. 0 |-> <<>>]
    <3>1. g = [n \in 0 .. 0 |-> Round(g, n)]
      OBVIOUS
    <3> QED
      BY <2>2, <2>3, <3>1 DEF Computed
  <2>4. CASE m > 0
    <3>1. m \in Nat /\ m - 1 \in 0 .. Len(value) /\ m - 1 \notin missing
      BY <1>1, <2>2, <2>4
    <3>2. PICK h : h = [n \in 0 .. m - 1 |-> Round(h, n)]
      BY <3>1 DEF Computed
    <3> DEFINE g == [n \in 0 .. m |-> IF n = m THEN Round(h, m) ELSE h[n]]
    <3> HIDE DEF Round
    <3>3. ASSUME NEW n \in 0 .. m PROVE g[n] = Round(g, n)
      <4>1. n = 0 \/ g[n - 1] = h[n - 1]
        BY <3>1
      <4>2. Round(g, n) = Round(h, n)
        BY <4>1 DEF Round
      <4>3. CASE n = m
        BY <4>2, <4>3
      <4>4. CASE n /= m
        <5>1. n \in 0 .. m - 1
          BY <3>1, <4>4
        <5>2. h[n] = Round(h, n)
          BY <3>2, <5>1
        <5> QED
          BY <4>2, <4>4, <5>2
      <4> QED
        BY <4>3, <4>4
    <3>4. g = [n \in 0 .. m |-> Round(g, n)]
      BY <3>3
    <3> HIDE DEF g
    <3>5. Computed(m)
      BY <3>4 DEF Computed
    <3> QED
      BY <2>2, <3>5
  <2> QED
    BY <1>1, <2>2, <2>3, <2>4
<1>3. PICK f : f = [n \in 0 .. Len(value) |-> Round(f, n)]
  <2>1. Computed(Len(value))
    BY <1>1, <1>2
  <2> QED
    BY <2>1 DEF Computed
<1>4. Written(value) = CHOOSE g : g = [n \in 0 .. Len(value) |-> Round(g, n)]
  BY DEF Written
<1> HIDE DEF Round
<1>5. Written(value) = [n \in 0 .. Len(value) |-> Round(Written(value), n)]
  BY <1>3, <1>4
<1>6. ASSUME NEW n \in 0 .. Len(value) PROVE Written(value)[n] = Round(Written(value), n)
  BY <1>5
<1> QED
  BY <1>6 DEF Round

\* A normalized name is a name.
LEMMA NormalizedIsName ==
  ASSUME NEW value \in Names
  PROVE  NormalizeName(value) \in Names
<1> DEFINE wrong == {m \in 0 .. Len(value) : Written(value)[m] \notin Names}
<1>1. Len(value) \in Nat /\ wrong \in SUBSET Nat /\ \A i \in 1 .. Len(value) : value[i] \in Alnum \cup Others
  BY Elements DEF Names
<1>2. wrong = {}
  <2>1. SUFFICES ASSUME wrong /= {} PROVE FALSE
    OBVIOUS
  <2>2. PICK m \in wrong : \A k \in wrong : m <= k
    BY <1>1, <2>1, LeastOf
  <2>3. m \in 0 .. Len(value) /\ Written(value)[m] \notin Names
    BY <2>2
  <2>4. CASE m = 0
    <3>1. Written(value)[0] = <<>>
      BY <2>3, <2>4, WrittenUnfolds
    <3> QED
      BY <2>3, <2>4, <3>1 DEF Names
  <2>5. CASE m > 0
    <3>1. m - 1 \in 0 .. Len(value) /\ m \in 1 .. Len(value) /\ m - 1 \notin wrong
      BY <1>1, <2>2, <2>3, <2>5
    <3>2. Written(value)[m] = Write(Written(value)[m - 1], value[m])
      BY <2>3, <2>5, WrittenUnfolds
    <3>3. Written(value)[m - 1] \in Names /\ value[m] \in Alnum \cup Others
      BY <1>1, <3>1
    <3> QED
      BY <2>3, <3>2, <3>3, WriteIsName
  <2> QED
    BY <2>3, <2>4, <2>5
<1> DEFINE written == Written(value)[Len(value)]
<1>3. written \in Names
  BY <1>1, <1>2
<1> HIDE DEF written
<1>4. written /= <<>> => Front(written) \in Names
  BY <1>3 DEF Front, Names
<1> QED
  BY <1>3, <1>4 DEF NormalizeName, written

-----------------------------------------------------------------------------
(* Confidences.                                                            *)

Fractions == Int \X (Nat \ {0})

LEMMA Scaled ==
  ASSUME NEW a \in Int, NEW b \in Int, NEW c \in Nat \ {0}
  PROVE  /\ a * c \in Int /\ b * c \in Int /\ a * c = c * a
         /\ a > b <=> a * c > b * c
OBVIOUS

\* Exceeds is the order of the fractions.
LEMMA ExceedsOrders ==
  ASSUME NEW p \in Fractions, NEW q \in Fractions, NEW r \in Fractions,
         Exceeds(p, q), ~Exceeds(r, q)
  PROVE  Exceeds(p, r) /\ ~Exceeds(r, p)
<1>1. PICK a \in Int, b \in Nat \ {0} : p[1] = a /\ p[2] = b
  BY DEF Fractions
<1>2. PICK c \in Int, d \in Nat \ {0} : q[1] = c /\ q[2] = d
  BY DEF Fractions
<1>3. PICK e \in Int, f \in Nat \ {0} : r[1] = e /\ r[2] = f
  BY DEF Fractions
<1>4. a * d > c * b /\ ~ (e * d > c * f)
  BY <1>1, <1>2, <1>3 DEF Exceeds
<1>5. (a * d) * f > (c * b) * f
  BY <1>4, Scaled
<1>6. ~ ((e * d) * b > (c * f) * b)
  BY <1>4, Scaled
<1>7. (a * d) * f = (a * f) * d /\ (e * d) * b = (e * b) * d /\ (c * b) * f = (c * f) * b
  OBVIOUS
<1>8. a * f > e * b
  BY <1>5, <1>6, <1>7, Scaled
<1> QED
  BY <1>1, <1>3, <1>8 DEF Exceeds

LEMMA ExceedsIsStrict ==
  ASSUME NEW p \in Fractions
  PROVE  ~Exceeds(p, p)
BY DEF Exceeds, Fractions

LEMMA MaxOfTwo ==
  ASSUME NEW a \in Nat, NEW b \in Nat
  PROVE  Max({a, b}) = IF a > b THEN a ELSE b
BY DEF Max

-----------------------------------------------------------------------------
(* The inductive invariant.                                                *)

\* Where a column is worked on, and where it is compared with a field.
AtColumn == pc \in {"field", "row", "cell"}
AtField  == pc \in {"row", "cell"}

\* Only names are compared.
NamesAreThere ==
  /\ AtColumn => source < Len(columns) /\ Column(source + 1) /= <<>>
  /\ AtField => target < Len(fields) /\ Candidate(target + 1)

\* A row is entered at its first cell and left at its last.
PlaceInTable ==
  /\ pc = "row" => cell = 0 /\ row <= Len(Longer)
  /\ pc = "cell" => cell < Len(Shorter) /\ row < Len(Longer)

\* No cell exceeds the lengths of the prefixes it compares.
CellsBounded ==
  /\ AtField => \A k \in 0 .. Len(Shorter) : previous[k] <= Max({row, k})
  /\ pc = "cell" => \A k \in 0 .. cell : current[k] <= Max({row + 1, k})

\* The distance of the first r characters of the longer name and the first k
\* of the shorter one, whichever of the two is the column.
Grid(r, k) ==
  IF Len(Column(source + 1)) > Len(Field(target + 1))
    THEN PrefixDistance(Column(source + 1), Field(target + 1), r, k)
    ELSE PrefixDistance(Column(source + 1), Field(target + 1), k, r)

\* The buffers hold the row that is done and what there is of the next.
BuffersAreRows ==
  /\ AtField => \A k \in 0 .. Len(Shorter) : previous[k] = Grid(row, k)
  /\ pc = "cell" => \A k \in 0 .. cell : current[k] = Grid(row + 1, k)

\* j is the first of the fields of S that is closest to column i.
FirstClosest(i, j, S) ==
  /\ j \in S
  /\ \A k \in S : ~Exceeds(Closeness(i, k), Closeness(i, j))
  /\ \A k \in S : k < j => Exceeds(Closeness(i, j), Closeness(i, k))

\* The candidates among the first n fields.
Seen(n) == {j \in Candidates : j <= n}

\* b is the best of them for column i.
BestOf(i, n, b) ==
  IF b.index = 0 THEN Seen(n) = {}
  ELSE FirstClosest(i, b.index, Seen(n)) /\ b.confidence = Closeness(i, b.index)

\* The best field so far is the first of the closest so far.
BestIsFirstClosest == AtColumn => BestOf(source + 1, target, best)

\* The columns, of the first n, that get a field.
Named(n) == {i \in 1 .. n : Column(i) /= <<>> /\ Candidates /= {}}

\* A suggestion of the first of the fields closest to its column.
Suits(suggestion) ==
  \E j \in Candidates :
    /\ FirstClosest(suggestion.source + 1, j, Candidates)
    /\ suggestion.target = fields[j].id
    /\ suggestion.confidence = Closeness(suggestion.source + 1, j)

\* A list has a suggestion that suits for each named column among the first n.
SuggestsFor(list, n) ==
  /\ {list[m].source + 1 : m \in DOMAIN list} = Named(n)
  /\ Len(list) = Cardinality(Named(n))
  /\ \A m \in DOMAIN list : Suits(list[m])

\* What has been suggested so far is what should be.
SuggestedSoFar == pc /= "failed" => SuggestsFor(suggestions, source)

AllColumns == pc = "done" => source = Len(columns)

\* The types, part by part.
RequestType == columns \in ColumnLists /\ fields \in FieldLists

PlaceType ==
  /\ pc \in {"column", "field", "row", "cell", "done", "failed"}
  /\ source \in 0 .. Len(columns)
  /\ target \in 0 .. Len(fields)
  /\ best.index \in 0 .. Len(fields)

BufferType ==
  AtField =>
    /\ row \in 0 .. Len(Longer)
    /\ cell \in 0 .. Len(Shorter)
    /\ previous \in [0 .. Len(Shorter) -> 0 .. Len(Longer)]
    /\ current \in [0 .. Len(Shorter) -> 0 .. Len(Longer)]

SuggestionsType ==
  suggestions \in Seq([source : Nat, target : Nat, confidence : Int \X Nat])

\* The inductive invariant.
IInv ==
  /\ TypeOK /\ SuggestionsType
  /\ NamesAreThere /\ PlaceInTable /\ CellsBounded /\ BuffersAreRows
  /\ BestIsFirstClosest
  /\ SuggestedSoFar /\ AllColumns

LEMMA Typed == TypeOK <=> RequestType /\ PlaceType /\ BufferType
BY DEF TypeOK, RequestType, PlaceType, BufferType, AtField

-----------------------------------------------------------------------------
(* Facts about a state.                                                    *)

LEMMA RequestFacts ==
  ASSUME RequestType
  PROVE  /\ Len(columns) \in Nat /\ Len(fields) \in Nat
         /\ DOMAIN fields = 1 .. Len(fields) /\ DOMAIN columns = 1 .. Len(columns)
         /\ \A i \in 1 .. Len(columns) :
              /\ Column(i) \in Names /\ Len(Column(i)) \in Nat
              /\ Column(i) /= <<>> => Len(Column(i)) > 0
         /\ \A j \in 1 .. Len(fields) :
              /\ fields[j].id \in Nat
              /\ Field(j) \in Names /\ Len(Field(j)) \in Nat
              /\ Field(j) /= <<>> => Len(Field(j)) > 0
<1>1. columns \in Seq(Names) /\ fields \in Seq([id : Nat, name : Names])
  BY ListsAssumption DEF RequestType
<1>2. ASSUME NEW i \in 1 .. Len(columns)
      PROVE  /\ Column(i) \in Names /\ Len(Column(i)) \in Nat
             /\ Column(i) /= <<>> => Len(Column(i)) > 0
  <2>1. Column(i) \in Names
    BY <1>1, Elements, NormalizedIsName DEF Column
  <2> QED
    BY <2>1, Elements DEF Names
<1>3. ASSUME NEW j \in 1 .. Len(fields)
      PROVE  /\ fields[j].id \in Nat
             /\ Field(j) \in Names /\ Len(Field(j)) \in Nat
             /\ Field(j) /= <<>> => Len(Field(j)) > 0
  <2>1. fields[j].id \in Nat /\ fields[j].name \in Names
    <3>1. fields[j] \in [id : Nat, name : Names]
      BY <1>1, Elements
    <3> QED
      BY <3>1
  <2>2. Field(j) \in Names
    BY <2>1, NormalizedIsName DEF Field
  <2> QED
    BY <2>1, <2>2, Elements DEF Names
<1> QED
  BY <1>1, <1>2, <1>3

\* There is a column and a field to compare.
Comparable ==
  /\ source < Len(columns) /\ Column(source + 1) /= <<>>
  /\ target < Len(fields) /\ Candidate(target + 1)

LEMMA ComparedNames ==
  ASSUME RequestType, PlaceType, Comparable
  PROVE  /\ source + 1 \in 1 .. Len(columns) /\ target + 1 \in 1 .. Len(fields)
         /\ Len(Column(source + 1)) \in Nat \ {0} /\ Len(Field(target + 1)) \in Nat \ {0}
         /\ Len(Shorter) \in Nat \ {0} /\ Len(Longer) \in Nat \ {0}
         /\ Len(Shorter) <= Len(Longer)
         /\ Len(Longer) = Max({Len(Column(source + 1)), Len(Field(target + 1))})
<1>1. source + 1 \in 1 .. Len(columns) /\ target + 1 \in 1 .. Len(fields)
  BY RequestFacts DEF PlaceType, Comparable
<1>2. Len(Column(source + 1)) \in Nat \ {0} /\ Len(Field(target + 1)) \in Nat \ {0}
  BY <1>1, RequestFacts DEF Comparable, Candidate
<1>3. Len(Longer) = Max({Len(Column(source + 1)), Len(Field(target + 1))})
  BY <1>2, MaxOfTwo DEF Longer
<1> QED
  BY <1>1, <1>2, <1>3 DEF Shorter, Longer

LEMMA GridBorder ==
  ASSUME NEW k \in Nat
  PROVE  Grid(0, k) = k /\ Grid(k, 0) = k
BY DistanceOfNothing DEF Grid

\* min3 is the recurrence of the distance.
LEMMA GridRecurs ==
  ASSUME NEW r \in Nat, NEW k \in Nat
  PROVE  LET cost == IF Shorter[k + 1] /= Longer[r + 1] THEN 1 ELSE 0
             three == {Grid(r + 1, k) + 1, Grid(r, k + 1) + 1, Grid(r, k) + cost}
         IN three \subseteq Nat /\ Min(three) = Grid(r + 1, k + 1)
<1> DEFINE s == Column(source + 1)
           t == Field(target + 1)
           cost == IF Shorter[k + 1] /= Longer[r + 1] THEN 1 ELSE 0
           three == {Grid(r + 1, k) + 1, Grid(r, k + 1) + 1, Grid(r, k) + cost}
<1>1. CASE Len(s) > Len(t)
  <2>1. Shorter = t /\ Longer = s /\ cost = Differ(s, t, r, k)
    BY <1>1 DEF Shorter, Longer, Differ
  <2>2. \A i, j : Grid(i, j) = PrefixDistance(s, t, i, j)
    BY <1>1 DEF Grid
  <2> DEFINE D(i, j) == PrefixDistance(s, t, i, j)
             those == {D(r + 1, k) + 1, D(r, k + 1) + 1, D(r, k) + Differ(s, t, r, k)}
  <2>3. those \subseteq Nat /\ D(r + 1, k + 1) \in those /\ \A d \in those : D(r + 1, k + 1) <= d
    BY DistanceRecurs
  <2>4. three = those /\ Grid(r + 1, k + 1) = D(r + 1, k + 1)
    BY <2>1, <2>2
  <2> HIDE DEF three, those
  <2>5. three \subseteq Nat /\ Grid(r + 1, k + 1) \in three /\ \A d \in three : Grid(r + 1, k + 1) <= d
    BY <2>3, <2>4
  <2>6. three \subseteq Nat /\ Min(three) = Grid(r + 1, k + 1)
    BY <2>5, MinIs
  <2> QED
    BY <2>6 DEF three
<1>2. CASE ~ (Len(s) > Len(t))
  <2>1. Shorter = s /\ Longer = t /\ cost = Differ(s, t, k, r)
    BY <1>2 DEF Shorter, Longer, Differ
  <2>2. \A i, j : Grid(i, j) = PrefixDistance(s, t, j, i)
    BY <1>2 DEF Grid
  <2> DEFINE D(i, j) == PrefixDistance(s, t, i, j)
             those == {D(k + 1, r) + 1, D(k, r + 1) + 1, D(k, r) + Differ(s, t, k, r)}
  <2>3. those \subseteq Nat /\ D(k + 1, r + 1) \in those /\ \A d \in those : D(k + 1, r + 1) <= d
    BY DistanceRecurs
  <2>4. three = those /\ Grid(r + 1, k + 1) = D(k + 1, r + 1)
    BY <2>1, <2>2
  <2> HIDE DEF three, those
  <2>5. three \subseteq Nat /\ Grid(r + 1, k + 1) \in three /\ \A d \in three : Grid(r + 1, k + 1) <= d
    BY <2>3, <2>4
  <2>6. three \subseteq Nat /\ Min(three) = Grid(r + 1, k + 1)
    BY <2>5, MinIs
  <2> QED
    BY <2>6 DEF three
<1> QED
  BY <1>1, <1>2

\* The last cell of the table is the distance of the names.
LEMMA GridEnd == Grid(Len(Longer), Len(Shorter)) = EditDistance(Column(source + 1), Field(target + 1))
BY DEF Grid, Longer, Shorter, EditDistance

LEMMA ClosenessIsFraction ==
  ASSUME RequestType, NEW i \in 1 .. Len(columns), Column(i) /= <<>>, NEW j \in Candidates
  PROVE  /\ j \in 1 .. Len(fields)
         /\ Closeness(i, j) \in Fractions
         /\ Closeness(i, j)[1] \in Int /\ Closeness(i, j)[2] \in Nat
<1>1. j \in 1 .. Len(fields) /\ Field(j) /= <<>>
  BY RequestFacts DEF Candidates, Candidate
<1> DEFINE a == Len(Column(i))
           b == Len(Field(j))
<1>2. a \in Nat \ {0} /\ b \in Nat \ {0}
  BY <1>1, RequestFacts
<1>3. EditDistance(Column(i), Field(j)) \in Nat
  BY <1>2, DistanceIsLeast DEF EditDistance
<1>4. Max({a, b}) \in Nat \ {0}
  BY <1>2, MaxOfTwo
<1>5. Closeness(i, j) = <<Max({a, b}) - EditDistance(Column(i), Field(j)), Max({a, b})>>
  BY DEF Closeness, Confidence
<1> HIDE DEF a, b
<1> QED
  BY <1>1, <1>3, <1>4, <1>5 DEF Fractions

-----------------------------------------------------------------------------
(* What stays: the request, and with it names, distances and candidates.    *)

LEMMA RequestStays ==
  ASSUME [Next]_vars
  PROVE  UNCHANGED <<columns, fields>>
BY DEF Next, vars, request, StartColumn, SkipColumn, Cancelled, EndColumn, Return, StartField,
       SkipField, Compare, StartRow, FillCell, Terminated

LEMMA NamesStay ==
  ASSUME UNCHANGED <<columns, fields>>
  PROVE  /\ Candidates' = Candidates
         /\ RequestType' <=> RequestType
         /\ \A i : Column(i)' = Column(i) /\ Field(i)' = Field(i) /\ (Candidate(i)' <=> Candidate(i))
         /\ \A i, j : Closeness(i, j)' = Closeness(i, j)
         /\ \A n : Named(n)' = Named(n)
BY DEF Candidates, Candidate, Column, Field, Closeness, Named, RequestType

\* While two names are compared, so are the table's shape and distances.
LEMMA TableStays ==
  ASSUME UNCHANGED <<columns, fields, source, target>>
  PROVE  /\ Shorter' = Shorter /\ Longer' = Longer
         /\ Comparable' <=> Comparable
         /\ \A r, k : Grid(r, k)' = Grid(r, k)
BY DEF Shorter, Longer, Comparable, Candidate, Column, Field, Grid

\* The invariants of a later state, in the names of this one.
LEMMA PlaceLater ==
  ASSUME UNCHANGED <<columns, fields>>
  PROVE  /\ PlaceType' <=>
              /\ pc' \in {"column", "field", "row", "cell", "done", "failed"}
              /\ source' \in 0 .. Len(columns) /\ target' \in 0 .. Len(fields)
              /\ best'.index \in 0 .. Len(fields)
         /\ NamesAreThere' <=>
              /\ pc' \in {"field", "row", "cell"} =>
                   source' < Len(columns) /\ Column(source' + 1) /= <<>>
              /\ pc' \in {"row", "cell"} => target' < Len(fields) /\ Candidate(target' + 1)
         /\ AllColumns' <=> (pc' = "done" => source' = Len(columns))
BY DEF PlaceType, NamesAreThere, AtColumn, AtField, Column, Candidate, Field, AllColumns

LEMMA TableLater ==
  ASSUME UNCHANGED <<columns, fields, source, target>>
  PROVE  /\ BufferType' <=>
              (pc' \in {"row", "cell"} =>
                 /\ row' \in 0 .. Len(Longer) /\ cell' \in 0 .. Len(Shorter)
                 /\ previous' \in [0 .. Len(Shorter) -> 0 .. Len(Longer)]
                 /\ current' \in [0 .. Len(Shorter) -> 0 .. Len(Longer)])
         /\ PlaceInTable' <=>
              /\ pc' = "row" => cell' = 0 /\ row' <= Len(Longer)
              /\ pc' = "cell" => cell' < Len(Shorter) /\ row' < Len(Longer)
         /\ CellsBounded' <=>
              /\ pc' \in {"row", "cell"} => \A k \in 0 .. Len(Shorter) : previous'[k] <= Max({row', k})
              /\ pc' = "cell" => \A k \in 0 .. cell' : current'[k] <= Max({row' + 1, k})
         /\ BuffersAreRows' <=>
              /\ pc' \in {"row", "cell"} => \A k \in 0 .. Len(Shorter) : previous'[k] = Grid(row', k)
              /\ pc' = "cell" => \A k \in 0 .. cell' : current'[k] = Grid(row' + 1, k)
<1>1. BufferType' <=>
        (pc' \in {"row", "cell"} =>
           /\ row' \in 0 .. Len(Longer) /\ cell' \in 0 .. Len(Shorter)
           /\ previous' \in [0 .. Len(Shorter) -> 0 .. Len(Longer)]
           /\ current' \in [0 .. Len(Shorter) -> 0 .. Len(Longer)])
  BY TableStays DEF BufferType, AtField
<1>2. PlaceInTable' <=>
        /\ pc' = "row" => cell' = 0 /\ row' <= Len(Longer)
        /\ pc' = "cell" => cell' < Len(Shorter) /\ row' < Len(Longer)
  BY TableStays DEF PlaceInTable
<1>3. CellsBounded' <=>
        /\ pc' \in {"row", "cell"} => \A k \in 0 .. Len(Shorter) : previous'[k] <= Max({row', k})
        /\ pc' = "cell" => \A k \in 0 .. cell' : current'[k] <= Max({row' + 1, k})
  BY TableStays DEF CellsBounded, AtField
<1>4. BuffersAreRows' <=>
        /\ pc' \in {"row", "cell"} => \A k \in 0 .. Len(Shorter) : previous'[k] = Grid(row', k)
        /\ pc' = "cell" => \A k \in 0 .. cell' : current'[k] = Grid(row' + 1, k)
  BY TableStays DEF BuffersAreRows, AtField, Grid, Column, Field
<1> QED
  BY <1>1, <1>2, <1>3, <1>4

LEMMA BestLater ==
  ASSUME UNCHANGED <<columns, fields>>
  PROVE  BestIsFirstClosest' <=>
           (pc' \in {"field", "row", "cell"} => BestOf(source' + 1, target', best'))
BY DEF BestIsFirstClosest, BestOf, Seen, AtColumn, Candidates, Candidate, FirstClosest, Closeness,
       Column, Field

LEMMA SuggestedLater ==
  ASSUME UNCHANGED <<columns, fields>>
  PROVE  SuggestedSoFar' <=> (pc' /= "failed" => SuggestsFor(suggestions', source'))
BY DEF SuggestedSoFar, SuggestsFor, Suits, Candidates, Candidate, FirstClosest, Closeness, Column,
       Field, Named

-----------------------------------------------------------------------------
(* Steps: the loops.                                                       *)

LEMMA PlaceStep ==
  ASSUME RequestType, PlaceType, NamesAreThere, AllColumns, [Next]_vars
  PROVE  PlaceType' /\ NamesAreThere' /\ AllColumns'
<1> DEFINE Later ==
             /\ pc' \in {"column", "field", "row", "cell", "done", "failed"}
             /\ source' \in 0 .. Len(columns) /\ target' \in 0 .. Len(fields)
             /\ best'.index \in 0 .. Len(fields)
             /\ pc' \in {"field", "row", "cell"} =>
                  source' < Len(columns) /\ Column(source' + 1) /= <<>>
             /\ pc' \in {"row", "cell"} => target' < Len(fields) /\ Candidate(target' + 1)
             /\ pc' = "done" => source' = Len(columns)
<1> SUFFICES Later
  BY PlaceLater, RequestStays
<1>1. Len(columns) \in Nat /\ Len(fields) \in Nat
  BY RequestFacts
<1>2. /\ pc \in {"column", "field", "row", "cell", "done", "failed"}
      /\ source \in 0 .. Len(columns) /\ target \in 0 .. Len(fields)
      /\ best.index \in 0 .. Len(fields)
      /\ pc \in {"field", "row", "cell"} => source < Len(columns) /\ Column(source + 1) /= <<>>
      /\ pc \in {"row", "cell"} => target < Len(fields) /\ Candidate(target + 1)
      /\ pc = "done" => source = Len(columns)
  BY DEF PlaceType, NamesAreThere, AllColumns, AtColumn, AtField
<1>3. CASE StartColumn \/ SkipColumn \/ Cancelled \/ Return
  BY <1>1, <1>2, <1>3 DEF StartColumn, SkipColumn, Cancelled, Return, Goto, NoBest
<1>4. CASE EndColumn
  BY <1>1, <1>2, <1>4 DEF EndColumn, Goto
<1>5. CASE StartField \/ SkipField
  BY <1>1, <1>2, <1>5 DEF StartField, SkipField, Goto
<1>6. CASE Compare
  BY <1>1, <1>2, <1>6 DEF Compare, Goto
<1>7. CASE StartRow
  BY <1>1, <1>2, <1>7 DEF StartRow, Goto
<1>8. CASE FillCell
  <2>1. pc = "cell" /\ pc' \in {"row", "cell"} /\ UNCHANGED <<source, target, best>>
    BY <1>8 DEF FillCell, NextRow, Goto
  <2> QED
    BY <1>2, <2>1
<1>9. CASE Terminated \/ UNCHANGED vars
  BY <1>2, <1>9 DEF Terminated, vars
<1> QED
  BY <1>3, <1>4, <1>5, <1>6, <1>7, <1>8, <1>9 DEF Next

-----------------------------------------------------------------------------
(* Steps: the table.                                                       *)

TableInv == BufferType /\ PlaceInTable /\ CellsBounded /\ BuffersAreRows

LEMMA OutsideTable ==
  ASSUME pc' \notin {"row", "cell"}
  PROVE  TableInv'
BY DEF TableInv, BufferType, PlaceInTable, CellsBounded, BuffersAreRows, AtField

LEMMA TableStarts ==
  ASSUME RequestType, PlaceType, NamesAreThere, StartField
  PROVE  TableInv'
<1>1. /\ pc' = "row" /\ row' = 0 /\ cell' = 0
      /\ previous' = [k \in 0 .. Len(Shorter) |-> k]
      /\ current' = [k \in 0 .. Len(Shorter) |-> 0]
      /\ UNCHANGED <<columns, fields, source, target>>
  BY DEF StartField, Goto, request
<1>2. Comparable
  BY DEF StartField, NamesAreThere, AtColumn, Comparable
<1>3. Len(Shorter) \in Nat /\ Len(Longer) \in Nat /\ Len(Shorter) <= Len(Longer)
  BY <1>2, ComparedNames
<1>4. \A k \in 0 .. Len(Shorter) : Max({0, k}) = k /\ Grid(0, k) = k
  BY <1>3, MaxOfTwo, GridBorder
<1>5. BufferType' /\ PlaceInTable'
  BY <1>1, <1>3, TableLater
<1>6. \A k \in 0 .. Len(Shorter) : previous'[k] <= Max({row', k}) /\ previous'[k] = Grid(row', k)
  BY <1>1, <1>3, <1>4
<1>7. CellsBounded' /\ BuffersAreRows'
  BY <1>1, <1>6, TableLater
<1> QED
  BY <1>5, <1>7 DEF TableInv

LEMMA RowStarts ==
  ASSUME RequestType, PlaceType, NamesAreThere, TableInv, StartRow
  PROVE  TableInv'
<1>1. /\ pc = "row" /\ row < Len(Longer) /\ pc' = "cell"
      /\ current' = [current EXCEPT ![0] = row + 1]
      /\ UNCHANGED <<columns, fields, source, target, row, cell, previous>>
  BY DEF StartRow, Goto, request
<1>2. Comparable
  BY <1>1 DEF NamesAreThere, AtColumn, AtField, Comparable
<1>3. Len(Shorter) \in Nat \ {0} /\ Len(Longer) \in Nat
  BY <1>2, ComparedNames
<1>4. /\ row \in 0 .. Len(Longer) /\ cell = 0
      /\ previous \in [0 .. Len(Shorter) -> 0 .. Len(Longer)]
      /\ current \in [0 .. Len(Shorter) -> 0 .. Len(Longer)]
      /\ \A k \in 0 .. Len(Shorter) : previous[k] <= Max({row, k}) /\ previous[k] = Grid(row, k)
  BY <1>1 DEF TableInv, BufferType, PlaceInTable, CellsBounded, BuffersAreRows, AtField
<1>5. current' \in [0 .. Len(Shorter) -> 0 .. Len(Longer)] /\ current'[0] = row + 1
  BY <1>1, <1>3, <1>4
<1>6. row + 1 <= Max({row + 1, 0}) /\ Grid(row + 1, 0) = row + 1
  BY <1>3, <1>4, MaxOfTwo, GridBorder
<1>7. BufferType' /\ PlaceInTable'
  BY <1>1, <1>3, <1>4, <1>5, TableLater
<1>8. \A k \in 0 .. cell' : k = 0
  BY <1>1, <1>4
<1>9. CellsBounded' /\ BuffersAreRows'
  BY <1>1, <1>4, <1>5, <1>6, <1>8, TableLater
<1> QED
  BY <1>7, <1>9 DEF TableInv

\* The cell that is filled has the distance of its prefixes.
LEMMA CellIsDistance ==
  ASSUME RequestType, PlaceType, NamesAreThere, TableInv, pc = "cell"
  PROVE  /\ CellValue(cell + 1) = Grid(row + 1, cell + 1)
         /\ CellValue(cell + 1) \in Nat
         /\ CellValue(cell + 1) <= Max({row + 1, cell + 1})
<1>1. Comparable
  BY DEF NamesAreThere, AtColumn, AtField, Comparable
<1>2. Len(Shorter) \in Nat \ {0} /\ Len(Longer) \in Nat
  BY <1>1, ComparedNames
<1>3. /\ row \in Nat /\ cell \in Nat /\ cell < Len(Shorter)
      /\ previous \in [0 .. Len(Shorter) -> 0 .. Len(Longer)]
  BY <1>2 DEF TableInv, BufferType, PlaceInTable, AtField
<1>4. cell \in 0 .. Len(Shorter) /\ cell + 1 \in 0 .. Len(Shorter) /\ cell \in 0 .. cell
  BY <1>2, <1>3
<1>5. /\ current[cell] = Grid(row + 1, cell)
      /\ previous[cell + 1] = Grid(row, cell + 1)
      /\ previous[cell] = Grid(row, cell)
      /\ previous[cell] <= Max({row, cell}) /\ previous[cell] \in Nat
  BY <1>2, <1>3, <1>4 DEF TableInv, CellsBounded, BuffersAreRows, AtField
<1> DEFINE cost == IF Shorter[cell + 1] /= Longer[row + 1] THEN 1 ELSE 0
           three == {current[cell] + 1, previous[cell + 1] + 1, previous[cell] + cost}
<1>6. Cost(cell + 1) = cost /\ (cell + 1) - 1 = cell
  BY <1>3 DEF Cost
<1>7. CellValue(cell + 1) = Min(three)
  BY <1>6 DEF CellValue
<1>8. three \subseteq Nat /\ Min(three) = Grid(row + 1, cell + 1)
  BY <1>3, <1>5, GridRecurs
<1>9. previous[cell] + cost \in three /\ cost \in {0, 1}
  OBVIOUS
<1> HIDE DEF three, cost
<1>10. Min(three) \in Nat /\ Min(three) <= previous[cell] + cost
  BY <1>8, <1>9, MinIsLeast
<1>11. Max({row + 1, cell + 1}) = Max({row, cell}) + 1 /\ Max({row, cell}) \in Nat
  BY <1>3, MaxOfTwo
<1>12. Min(three) <= Max({row + 1, cell + 1})
  BY <1>5, <1>9, <1>10, <1>11
<1> QED
  BY <1>7, <1>8, <1>10, <1>12

LEMMA CellFills ==
  ASSUME RequestType, PlaceType, NamesAreThere, TableInv, FillCell
  PROVE  TableInv'
<1> DEFINE filled == [current EXCEPT ![cell + 1] = CellValue(cell + 1)]
<1>1. /\ pc = "cell"
      /\ \/ cell + 1 = Len(Shorter) /\ NextRow(filled)
         \/ /\ cell + 1 < Len(Shorter) /\ current' = filled /\ cell' = cell + 1
            /\ UNCHANGED <<pc, row, previous>>
      /\ UNCHANGED <<columns, fields, source, target>>
  BY DEF FillCell, request
<1>2. Comparable
  BY <1>1 DEF NamesAreThere, AtColumn, AtField, Comparable
<1>3. Len(Shorter) \in Nat \ {0} /\ Len(Longer) \in Nat /\ Len(Shorter) <= Len(Longer)
  BY <1>2, ComparedNames
<1>4. /\ row \in 0 .. Len(Longer) /\ row < Len(Longer) /\ cell \in 0 .. Len(Shorter) /\ cell < Len(Shorter)
      /\ previous \in [0 .. Len(Shorter) -> 0 .. Len(Longer)]
      /\ current \in [0 .. Len(Shorter) -> 0 .. Len(Longer)]
      /\ \A k \in 0 .. Len(Shorter) : previous[k] <= Max({row, k}) /\ previous[k] = Grid(row, k)
      /\ \A k \in 0 .. cell : current[k] <= Max({row + 1, k}) /\ current[k] = Grid(row + 1, k)
  BY <1>1 DEF TableInv, BufferType, PlaceInTable, CellsBounded, BuffersAreRows, AtField
<1>5. /\ CellValue(cell + 1) = Grid(row + 1, cell + 1)
      /\ CellValue(cell + 1) \in Nat
      /\ CellValue(cell + 1) <= Max({row + 1, cell + 1})
  BY <1>1, CellIsDistance
<1>6. CellValue(cell + 1) \in 0 .. Len(Longer)
  <2>1. Max({row + 1, cell + 1}) <= Len(Longer)
    BY <1>3, <1>4, MaxOfTwo
  <2>2. Max({row + 1, cell + 1}) \in Nat
    BY <1>3, <1>4, MaxOfTwo
  <2> QED
    BY <1>3, <1>5, <2>1, <2>2
<1>7. filled \in [0 .. Len(Shorter) -> 0 .. Len(Longer)]
  BY <1>4, <1>6
<1>8. \A k \in 0 .. cell + 1 : filled[k] <= Max({row + 1, k}) /\ filled[k] = Grid(row + 1, k)
  <2>1. SUFFICES ASSUME NEW k \in 0 .. cell + 1
                 PROVE  filled[k] <= Max({row + 1, k}) /\ filled[k] = Grid(row + 1, k)
    OBVIOUS
  <2>2. CASE k = cell + 1
    <3>1. filled[k] = CellValue(cell + 1)
      BY <1>3, <1>4, <2>2
    <3> QED
      BY <1>5, <2>2, <3>1
  <2>3. CASE k /= cell + 1
    <3>1. k \in 0 .. cell /\ filled[k] = current[k]
      BY <1>3, <1>4, <2>3
    <3> QED
      BY <1>4, <3>1
  <2> QED
    BY <2>2, <2>3
<1> HIDE DEF filled
<1>9. CASE cell + 1 = Len(Shorter) /\ NextRow(filled)
  <2>1. previous' = filled /\ current' = previous /\ cell' = 0 /\ row' = row + 1 /\ pc' = "row"
    BY <1>9 DEF NextRow, Goto
  <2>2. BufferType' /\ PlaceInTable'
    BY <1>1, <1>3, <1>4, <1>7, <2>1, TableLater
  <2>3. CellsBounded' /\ BuffersAreRows'
    BY <1>1, <1>8, <1>9, <2>1, TableLater
  <2> QED
    BY <2>2, <2>3 DEF TableInv
<1>10. CASE /\ cell + 1 < Len(Shorter) /\ current' = filled /\ cell' = cell + 1
            /\ UNCHANGED <<pc, row, previous>>
  <2>1. BufferType' /\ PlaceInTable'
    BY <1>1, <1>3, <1>4, <1>7, <1>10, TableLater
  <2>2. CellsBounded' /\ BuffersAreRows'
    BY <1>1, <1>4, <1>8, <1>10, TableLater
  <2> QED
    BY <2>1, <2>2 DEF TableInv
<1> QED
  BY <1>1, <1>9, <1>10

LEMMA TableStep ==
  ASSUME RequestType, PlaceType, NamesAreThere, TableInv, [Next]_vars
  PROVE  TableInv'
<1>1. CASE StartColumn \/ SkipColumn \/ Cancelled \/ EndColumn \/ Return \/ SkipField \/ Compare
  <2>1. pc' \notin {"row", "cell"}
    BY <1>1 DEF StartColumn, SkipColumn, Cancelled, EndColumn, Return, SkipField, Compare, Goto
  <2> QED
    BY <2>1, OutsideTable
<1>2. CASE Terminated \/ UNCHANGED vars
  <2>1. UNCHANGED vars
    BY <1>2 DEF Terminated
  <2>2. UNCHANGED <<columns, fields, source, target, row, cell, previous, current, pc>>
    BY <2>1 DEF vars, request, distance
  <2>3. BufferType' /\ PlaceInTable'
    BY <2>2, TableLater DEF TableInv, BufferType, PlaceInTable, AtField
  <2>4. CellsBounded' /\ BuffersAreRows'
    BY <2>2, TableLater DEF TableInv, CellsBounded, BuffersAreRows, AtField
  <2> QED
    BY <2>3, <2>4 DEF TableInv
<1> QED
  BY <1>1, <1>2, TableStarts, RowStarts, CellFills DEF Next

-----------------------------------------------------------------------------
(* Steps: the best field.                                                  *)

LEMMA SeenGrows ==
  ASSUME RequestType, NEW n \in Nat, n < Len(fields)
  PROVE  Seen(n + 1) = IF Candidate(n + 1) THEN Seen(n) \cup {n + 1} ELSE Seen(n)
<1>1. DOMAIN fields = 1 .. Len(fields) /\ Len(fields) \in Nat
  BY RequestFacts
<1>2. Candidates \subseteq Nat /\ (n + 1 \in Candidates <=> Candidate(n + 1))
  BY <1>1 DEF Candidates
<1>3. \A j \in Candidates : j <= n + 1 <=> j <= n \/ j = n + 1
  BY <1>2
<1>4. Seen(n + 1) = {j \in Candidates : j <= n \/ j = n + 1}
  BY <1>3 DEF Seen
<1> QED
  BY <1>2, <1>4 DEF Seen

\* A field replaces the best one if it is closer, and only then.
LEMMA BestOfMore ==
  ASSUME RequestType, NEW i \in 1 .. Len(columns), Column(i) /= <<>>,
         NEW n \in Nat, n < Len(fields), Candidate(n + 1),
         NEW b, NEW c, BestOf(i, n, b), b.index \in Nat,
         c = IF b.index = 0 \/ Exceeds(Closeness(i, n + 1), b.confidence)
               THEN [index |-> n + 1, confidence |-> Closeness(i, n + 1)] ELSE b
  PROVE  BestOf(i, n + 1, c)
<1>1. Seen(n + 1) = Seen(n) \cup {n + 1} /\ n + 1 \in Candidates
  <2>1. n + 1 \in DOMAIN fields
    BY RequestFacts
  <2> QED
    BY <2>1, SeenGrows DEF Candidates
<1>2. \A j \in Seen(n + 1) : j \in Candidates /\ j \in Nat /\ Closeness(i, j) \in Fractions
  BY <1>1, ClosenessIsFraction DEF Seen
<1>3. \A k \in Seen(n) : k < n + 1 /\ k \in Seen(n + 1)
  BY <1>1, <1>2 DEF Seen
<1> DEFINE new == Closeness(i, n + 1)
<1>4. new \in Fractions /\ ~Exceeds(new, new)
  BY <1>1, <1>2, ExceedsIsStrict
<1>5. CASE b.index = 0
  <2>1. Seen(n + 1) = {n + 1}
    BY <1>1, <1>5 DEF BestOf
  <2>2. c.index = n + 1 /\ c.confidence = new
    BY <1>5
  <2>3. FirstClosest(i, n + 1, Seen(n + 1))
    BY <1>4, <2>1 DEF FirstClosest
  <2> QED
    BY <2>2, <2>3 DEF BestOf
<1>6. CASE b.index /= 0 /\ Exceeds(new, b.confidence)
  <2>1. b.index \in Seen(n) /\ b.confidence = Closeness(i, b.index)
    BY <1>6 DEF BestOf, FirstClosest
  <2>2. \A k \in Seen(n) : ~Exceeds(Closeness(i, k), Closeness(i, b.index))
    BY <1>6 DEF BestOf, FirstClosest
  <2>3. \A k \in Seen(n) : Exceeds(new, Closeness(i, k)) /\ ~Exceeds(Closeness(i, k), new)
    BY <1>2, <1>3, <1>4, <1>6, <2>1, <2>2, ExceedsOrders
  <2>4. FirstClosest(i, n + 1, Seen(n + 1))
    BY <1>1, <1>4, <2>3 DEF FirstClosest
  <2>5. c.index = n + 1 /\ c.confidence = new
    BY <1>6
  <2> QED
    BY <2>4, <2>5 DEF BestOf
<1>7. CASE b.index /= 0 /\ ~Exceeds(new, b.confidence)
  <2>1. c = b
    BY <1>7
  <2>2. FirstClosest(i, b.index, Seen(n)) /\ b.confidence = Closeness(i, b.index)
    BY <1>7 DEF BestOf
  <2>3. ~ (n + 1 < b.index)
    BY <1>3, <2>2 DEF FirstClosest
  <2>4. FirstClosest(i, b.index, Seen(n + 1))
    BY <1>1, <1>7, <2>2, <2>3 DEF FirstClosest
  <2> QED
    BY <1>7, <2>1, <2>2, <2>4 DEF BestOf
<1> QED
  BY <1>5, <1>6, <1>7

\* The distance in the last cell makes the confidence of the field.
LEMMA ComparedCloseness ==
  ASSUME RequestType, PlaceType, NamesAreThere, TableInv, Compare
  PROVE  Confidence(previous[Len(Shorter)], Len(Longer)) = Closeness(source + 1, target + 1)
<1>1. pc = "row" /\ row = Len(Longer)
  BY DEF Compare
<1>2. Comparable
  BY <1>1 DEF NamesAreThere, AtColumn, AtField, Comparable
<1>3. Len(Shorter) \in Nat
  BY <1>2, ComparedNames
<1>4. previous[Len(Shorter)] = Grid(Len(Longer), Len(Shorter))
  BY <1>1, <1>3 DEF TableInv, BuffersAreRows, AtField
<1> QED
  BY <1>2, <1>4, GridEnd, ComparedNames DEF Closeness

LEMMA BestStep ==
  ASSUME RequestType, PlaceType, NamesAreThere, TableInv, BestIsFirstClosest, [Next]_vars
  PROVE  BestIsFirstClosest'
<1>1. UNCHANGED <<columns, fields>>
  BY RequestStays
<1>2. CASE StartColumn
  <2>1. target' = 0 /\ best'.index = 0
    BY <1>2 DEF StartColumn, NoBest
  <2>2. Seen(0) = {}
    BY RequestFacts DEF Seen, Candidates
  <2> QED
    BY <1>1, <2>1, <2>2, BestLater DEF BestOf
<1>3. CASE SkipColumn \/ Cancelled \/ EndColumn \/ Return
  <2>1. pc' \notin {"field", "row", "cell"}
    BY <1>3 DEF SkipColumn, Cancelled, EndColumn, Return, Goto
  <2> QED
    BY <1>1, <2>1, BestLater
<1>4. CASE SkipField
  <2>1. /\ pc = "field" /\ target < Len(fields) /\ ~Candidate(target + 1)
        /\ target' = target + 1 /\ UNCHANGED <<source, best>>
    BY <1>4 DEF SkipField
  <2>2. Seen(target + 1) = Seen(target)
    <3>1. target \in Nat
      BY RequestFacts DEF PlaceType
    <3> QED
      BY <2>1, <3>1, SeenGrows
  <2>3. BestOf(source + 1, target, best)
    BY <2>1 DEF BestIsFirstClosest, AtColumn
  <2>4. BestOf(source + 1, target + 1, best)
    BY <2>2, <2>3 DEF BestOf
  <2> QED
    BY <1>1, <2>1, <2>4, BestLater
<1>5. CASE Compare
  <2>1. Comparable /\ AtColumn
    BY <1>5 DEF Compare, NamesAreThere, AtColumn, AtField, Comparable
  <2>2. /\ best' = IF best.index = 0 \/ Exceeds(Closeness(source + 1, target + 1), best.confidence)
                     THEN [index |-> target + 1, confidence |-> Closeness(source + 1, target + 1)]
                     ELSE best
        /\ target' = target + 1 /\ UNCHANGED source
    BY <1>5, ComparedCloseness DEF Compare, Improves
  <2>3. /\ source + 1 \in 1 .. Len(columns) /\ Column(source + 1) /= <<>>
        /\ target \in Nat /\ target < Len(fields) /\ Candidate(target + 1) /\ best.index \in Nat
    BY <2>1, ComparedNames, RequestFacts DEF Comparable, PlaceType
  <2>4. BestOf(source + 1, target, best)
    BY <2>1 DEF BestIsFirstClosest
  <2>5. BestOf(source + 1, target + 1, best')
    BY <2>2, <2>3, <2>4, BestOfMore
  <2> QED
    BY <1>1, <2>2, <2>5, BestLater
<1>6. CASE StartField \/ StartRow \/ FillCell \/ Terminated \/ UNCHANGED vars
  <2>1. /\ UNCHANGED <<source, target, best>>
        /\ pc' \in {"field", "row", "cell"} => AtColumn
    BY <1>6 DEF StartField, StartRow, FillCell, NextRow, Terminated, vars, Goto, AtColumn
  <2> QED
    BY <1>1, <2>1, BestLater DEF BestIsFirstClosest
<1> QED
  BY <1>2, <1>3, <1>4, <1>5, <1>6 DEF Next

-----------------------------------------------------------------------------
(* Steps: the suggestions.                                                 *)

LEMMA NamedGrows ==
  ASSUME NEW n \in Nat
  PROVE  /\ IsFiniteSet(Named(n)) /\ Cardinality(Named(n)) \in Nat /\ n + 1 \notin Named(n)
         /\ Named(n + 1) = IF Column(n + 1) /= <<>> /\ Candidates /= {}
                             THEN Named(n) \cup {n + 1} ELSE Named(n)
<1>1. IsFiniteSet(1 .. n) /\ Named(n) \in SUBSET (1 .. n)
  BY FS_Interval DEF Named
<1>2. IsFiniteSet(Named(n)) /\ Cardinality(Named(n)) \in Nat
  BY <1>1, FS_Subset, FS_CardinalityType
<1>3. n + 1 \notin Named(n)
  BY <1>1
<1>4. \A i : i \in 1 .. n + 1 <=> i \in 1 .. n \/ i = n + 1
  OBVIOUS
<1>5. Named(n + 1) = IF Column(n + 1) /= <<>> /\ Candidates /= {}
                       THEN Named(n) \cup {n + 1} ELSE Named(n)
  BY <1>4 DEF Named
<1> QED
  BY <1>2, <1>3, <1>5

LEMMA SuggestsMore ==
  ASSUME NEW list \in Seq([source : Nat, target : Nat, confidence : Int \X Nat]),
         NEW n \in Nat, SuggestsFor(list, n), Column(n + 1) /= <<>>, Candidates /= {},
         NEW new \in [source : Nat, target : Nat, confidence : Int \X Nat],
         new.source = n, Suits(new)
  PROVE  SuggestsFor(Append(list, new), n + 1)
<1> DEFINE more == Append(list, new)
<1>1. /\ Len(list) \in Nat /\ DOMAIN list = 1 .. Len(list)
      /\ Len(more) = Len(list) + 1 /\ DOMAIN more = 1 .. Len(list) + 1
      /\ \A m \in 1 .. Len(list) : more[m] = list[m]
      /\ more[Len(list) + 1] = new
  OBVIOUS
<1> HIDE DEF more
<1>2. \A m : m \in DOMAIN more <=> m \in DOMAIN list \/ m = Len(list) + 1
  BY <1>1
<1>3. Named(n + 1) = Named(n) \cup {n + 1} /\ Cardinality(Named(n + 1)) = Cardinality(Named(n)) + 1
  <2>1. Named(n + 1) = Named(n) \cup {n + 1} /\ IsFiniteSet(Named(n)) /\ n + 1 \notin Named(n)
    BY NamedGrows
  <2> QED
    BY <2>1, FS_AddElement
<1>4. {more[m].source + 1 : m \in DOMAIN more} = {list[m].source + 1 : m \in DOMAIN list} \cup {n + 1}
  BY <1>1, <1>2
<1>5. \A m \in DOMAIN more : Suits(more[m])
  BY <1>1, <1>2 DEF SuggestsFor
<1> QED
  BY <1>1, <1>3, <1>4, <1>5 DEF SuggestsFor, more

LEMMA SuggestedStep ==
  ASSUME RequestType, PlaceType, SuggestionsType, NamesAreThere, BestIsFirstClosest,
         SuggestedSoFar, [Next]_vars
  PROVE  SuggestionsType' /\ SuggestedSoFar'
<1>1. UNCHANGED <<columns, fields>>
  BY RequestStays
<1>2. CASE SkipColumn
  <2>1. pc = "column" /\ Column(source + 1) = <<>> /\ source' = source + 1 /\ UNCHANGED suggestions
    BY <1>2 DEF SkipColumn
  <2>2. Named(source + 1) = Named(source)
    <3>1. source \in Nat
      BY RequestFacts DEF PlaceType
    <3> QED
      BY <2>1, <3>1, NamedGrows
  <2>3. SuggestsFor(suggestions, source)
    BY <2>1 DEF SuggestedSoFar
  <2>4. SuggestsFor(suggestions, source + 1)
    BY <2>2, <2>3 DEF SuggestsFor
  <2> QED
    BY <1>1, <2>1, <2>4, SuggestedLater DEF SuggestionsType
<1>3. CASE Cancelled
  BY <1>1, <1>3, SuggestedLater DEF Cancelled, Goto, SuggestionsType
<1>4. CASE EndColumn
  <2>1. /\ pc = "field" /\ target = Len(fields) /\ source' = source + 1
        /\ suggestions' =
             IF best.index = 0 THEN suggestions
             ELSE Append(suggestions, [source |-> source, target |-> fields[best.index].id,
                                       confidence |-> best.confidence])
    BY <1>4 DEF EndColumn
  <2>2. source + 1 \in 1 .. Len(columns) /\ Column(source + 1) /= <<>> /\ source \in Nat
    BY <2>1, RequestFacts DEF NamesAreThere, AtColumn, PlaceType
  <2>3. SuggestsFor(suggestions, source) /\ BestOf(source + 1, target, best)
    BY <2>1 DEF SuggestedSoFar, BestIsFirstClosest, AtColumn
  <2>4. Seen(target) = Candidates
    BY <2>1, RequestFacts DEF Seen, Candidates
  <2>5. CASE best.index = 0
    <3>1. Named(source + 1) = Named(source)
      BY <2>2, <2>3, <2>4, <2>5, NamedGrows DEF BestOf
    <3>2. SuggestsFor(suggestions, source + 1)
      BY <2>3, <3>1 DEF SuggestsFor
    <3> QED
      BY <1>1, <2>1, <2>5, <3>2, SuggestedLater DEF SuggestionsType
  <2>6. CASE best.index /= 0
    <3> DEFINE new == [source |-> source, target |-> fields[best.index].id, confidence |-> best.confidence]
    <3>1. /\ FirstClosest(source + 1, best.index, Candidates)
          /\ best.confidence = Closeness(source + 1, best.index) /\ best.index \in Candidates
      BY <2>3, <2>4, <2>6 DEF BestOf, FirstClosest
    <3>2. best.confidence \in Int \X Nat /\ fields[best.index].id \in Nat
      BY <2>2, <3>1, ClosenessIsFraction, RequestFacts DEF Fractions
    <3>3. new \in [source : Nat, target : Nat, confidence : Int \X Nat]
      BY <2>2, <3>2
    <3>4. /\ new.source = source /\ new.target = fields[best.index].id
          /\ new.confidence = Closeness(source + 1, best.index)
      BY <3>1
    <3> HIDE DEF new
    <3>5. Suits(new)
      BY <3>1, <3>4 DEF Suits
    <3>6. suggestions' = Append(suggestions, new)
      BY <2>1, <2>6 DEF new
    <3>7. SuggestsFor(suggestions', source + 1)
      BY <2>2, <2>3, <3>1, <3>3, <3>4, <3>5, <3>6, SuggestsMore DEF SuggestionsType
    <3>8. SuggestionsType'
      BY <3>3, <3>6 DEF SuggestionsType
    <3> QED
      BY <1>1, <2>1, <3>7, <3>8, SuggestedLater
  <2> QED
    BY <2>5, <2>6
<1>5. CASE \/ StartColumn \/ Return \/ StartField \/ SkipField \/ Compare \/ StartRow \/ FillCell
           \/ Terminated \/ UNCHANGED vars
  <2>1. UNCHANGED <<source, suggestions>> /\ (pc' /= "failed" => pc /= "failed")
    BY <1>5 DEF StartColumn, Return, StartField, SkipField, Compare, StartRow, FillCell, Terminated,
                vars, Goto
  <2> QED
    BY <1>1, <2>1, SuggestedLater DEF SuggestedSoFar, SuggestionsType
<1> QED
  BY <1>2, <1>3, <1>4, <1>5 DEF Next

-----------------------------------------------------------------------------
(* The theorems.                                                           *)

LEMMA InvInit == Init => IInv
<1> SUFFICES ASSUME Init PROVE IInv
  OBVIOUS
<1>1. /\ RequestType /\ pc = "column" /\ source = 0 /\ target = 0
      /\ best.index = 0 /\ suggestions = <<>>
  BY DEF Init, RequestType, NoBest
<1>2. PlaceType /\ BufferType
  BY <1>1, RequestFacts DEF PlaceType, BufferType, AtField
<1>3. SuggestionsType
  BY <1>1 DEF SuggestionsType
<1>4. NamesAreThere /\ PlaceInTable /\ CellsBounded /\ BuffersAreRows /\ BestIsFirstClosest /\ AllColumns
  BY <1>1 DEF NamesAreThere, PlaceInTable, CellsBounded, BuffersAreRows, BestIsFirstClosest,
              AllColumns, AtColumn, AtField
<1>5. Named(0) = {} /\ Cardinality({}) = 0
  BY FS_EmptySet DEF Named
<1>6. DOMAIN suggestions = {} /\ Len(suggestions) = 0
  BY <1>1
<1>7. SuggestedSoFar
  BY <1>1, <1>5, <1>6 DEF SuggestedSoFar, SuggestsFor
<1> QED
  BY <1>1, <1>2, <1>3, <1>4, <1>7, Typed DEF IInv

LEMMA InvStep ==
  ASSUME IInv, [Next]_vars
  PROVE  IInv'
<1>1. RequestType /\ PlaceType /\ TableInv
  BY Typed DEF IInv, TableInv
<1>2. RequestType'
  BY <1>1, RequestStays, NamesStay
<1>3. PlaceType' /\ NamesAreThere' /\ AllColumns'
  BY <1>1, PlaceStep DEF IInv
<1>4. TableInv'
  BY <1>1, TableStep DEF IInv
<1>5. BestIsFirstClosest'
  BY <1>1, BestStep DEF IInv
<1>6. SuggestionsType' /\ SuggestedSoFar'
  BY <1>1, SuggestedStep DEF IInv
<1>7. TypeOK'
  BY <1>2, <1>3, <1>4, Typed, PTL DEF TableInv
<1> QED
  BY <1>3, <1>4, <1>5, <1>6, <1>7 DEF IInv, TableInv

LEMMA Invariance == Spec => []IInv
<1>1. IInv /\ [Next]_vars => IInv'
  BY InvStep
<1> QED
  BY InvInit, <1>1, PTL DEF Spec

\* No index leaves the row buffers, and no cell exceeds the longer name, for
\* any names.
THEOREM FuzzyTypeCorrect == Spec => []TypeOK
<1>1. IInv => TypeOK
  BY DEF IInv
<1> QED
  BY <1>1, Invariance, PTL

\* SuggestResult gives every column that has a name the first of the fields
\* that are closest to it by the edit distance, and nothing to the others,
\* whatever the names and wherever columns and fields stand: the row buffers
\* of LevenshteinDistance lose nothing by changing roles.
THEOREM ClosestIsGiven == Spec => []EachColumnItsClosest
<1>1. ASSUME IInv, pc = "done" PROVE EachColumnItsClosest
  <2> DEFINE named == {i \in DOMAIN columns : Column(i) /= <<>> /\ Candidates /= {}}
             First(i) == CHOOSE j \in Candidates :
                           /\ \A k \in Candidates : ~Exceeds(Closeness(i, k), Closeness(i, j))
                           /\ \A k \in Candidates : k < j => Exceeds(Closeness(i, j), Closeness(i, k))
  <2>1. RequestType /\ source = Len(columns) /\ SuggestsFor(suggestions, source)
    BY <1>1, Typed DEF IInv, SuggestedSoFar, AllColumns
  <2>2. named = Named(source)
    BY <2>1, RequestFacts DEF Named
  <2>3. ASSUME NEW n \in DOMAIN suggestions
        PROVE  LET i == suggestions[n].source + 1 IN
               /\ suggestions[n].target = fields[First(i)].id
               /\ suggestions[n].confidence = Closeness(i, First(i))
    <3> DEFINE i == suggestions[n].source + 1
    <3>1. PICK j \in Candidates :
            /\ FirstClosest(i, j, Candidates)
            /\ suggestions[n].target = fields[j].id /\ suggestions[n].confidence = Closeness(i, j)
      BY <2>1 DEF SuggestsFor, Suits
    <3>2. \A k \in Candidates : FirstClosest(i, k, Candidates) => k = j
      <4>1. Candidates \subseteq Nat
        BY <2>1, RequestFacts DEF Candidates
      <4> QED
        BY <3>1, <4>1 DEF FirstClosest
    <3>3. First(i) = j
      BY <3>1, <3>2 DEF FirstClosest
    <3> QED
      BY <3>1, <3>3
  <2> QED
    BY <1>1, <2>1, <2>2, <2>3 DEF EachColumnItsClosest, SuggestsFor
<1>2. IInv => EachColumnItsClosest
  BY <1>1 DEF EachColumnItsClosest
<1> QED
  BY <1>2, Invariance, PTL

=============================================================================
