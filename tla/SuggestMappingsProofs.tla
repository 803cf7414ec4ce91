------------------------ MODULE SuggestMappingsProofs ------------------------
(***************************************************************************)
(* Proofs about SuggestMappings, for any schema, any replies, any number   *)
(* of columns and any options.                                             *)
(***************************************************************************)
EXTENDS SuggestMappings, FiniteSetTheorems, WellFoundedInduction, TLAPS

USE TargetsAssumption, BoundsAssumption

-----------------------------------------------------------------------------
(* Numbers and sequences.                                                  *)

LEMMA LeastOf ==
  ASSUME NEW S \in SUBSET Nat, S /= {}
  PROVE  \E n \in S : \A m \in S : n <= m
<1>1. PICK n \in S : \A m \in S : ~ (<<m, n>> \in OpToRel(<, Nat))
  BY NatLessThanWellFounded, WFMin
<1>2. \A m \in S : ~ (m < n)
  BY <1>1 DEF OpToRel
<1> QED
  BY <1>2

LEMMA Elements ==
  ASSUME NEW S, NEW s \in Seq(S)
  PROVE  /\ DOMAIN s = 1 .. Len(s) /\ Len(s) \in Nat
         /\ \A i \in 1 .. Len(s) : s[i] \in S
OBVIOUS

-----------------------------------------------------------------------------
(* parseJevResponse: whatever the upstream says, a reading is a field of   *)
(* the schema with a confidence between 0 and 1.                           *)

Readings == [target : Targets, confidence : 0 .. Top]

LEMMA ClampBounds ==
  ASSUME NEW n \in Int
  PROVE  Clamp(n) \in 0 .. Top
BY DEF Clamp

LEMMA ProbabilityReads ==
  ASSUME NEW probs, Numbers(probs)
  PROVE  BestProbability(probs) \subseteq Readings
<1>1. SUFFICES ASSUME NEW t \in DOMAIN probs, Known(t)
               PROVE  Reading(t, probs[t]) \in Readings
  BY DEF BestProbability
<1>2. probs[t] \in Int
  BY DEF Numbers
<1> QED
  BY <1>1, <1>2, ClampBounds DEF Reading, Readings, Known

LEMMA AnswerReads ==
  ASSUME NEW part, Part(part)
  PROVE  ParseAnswer(part) \subseteq Readings
<1>1. Numbers(part.probs) /\ part.confidence \in Int
  BY DEF Part
<1>2. CASE Known(part.choice)
  <2>1. (IF part.choice \in DOMAIN part.probs
           THEN part.probs[part.choice] ELSE part.confidence) \in Int
    BY <1>1 DEF Numbers
  <2> QED
    BY <1>2, <2>1, ClampBounds DEF ParseAnswer, Reading, Readings, Known
<1>3. CASE ~Known(part.choice)
  BY <1>1, <1>3, ProbabilityReads DEF ParseAnswer
<1> QED
  BY <1>2, <1>3

LEMMA DirectReads ==
  ASSUME NEW part, Part(part)
  PROVE  ParseDirect(part) \subseteq Readings
BY ClampBounds DEF Part, ParseDirect, Reading, Readings, Known

LEMMA ReplyReads ==
  ASSUME NEW reply \in Replies
  PROVE  ParseReply(reply) \subseteq Readings
<1> DEFINE readings == <<ParseAnswer(reply.answer), BestProbability(reply.probs),
                         BestProbability(reply.choices), ParseAnswer(reply.nested),
                         ParseDirect(reply.direct)>>
           telling == {i \in DOMAIN readings : readings[i] /= {}}
           first == CHOOSE i \in telling : \A j \in telling : i <= j
<1>1. /\ ParseAnswer(reply.answer) \subseteq Readings /\ ParseAnswer(reply.nested) \subseteq Readings
      /\ BestProbability(reply.probs) \subseteq Readings
      /\ BestProbability(reply.choices) \subseteq Readings
      /\ ParseDirect(reply.direct) \subseteq Readings
  BY RepliesAssumption, AnswerReads, ProbabilityReads, DirectReads
<1>2. DOMAIN readings = 1 .. 5 /\ \A i \in 1 .. 5 : readings[i] \subseteq Readings
  BY <1>1
<1>3. ParseReply(reply) = IF ~reply.usable \/ telling = {} THEN {} ELSE readings[first]
  BY DEF ParseReply
<1> HIDE DEF readings
<1>4. CASE telling /= {}
  <2>1. \E i \in telling : \A j \in telling : i <= j
    BY <1>2, <1>4, LeastOf
  <2>2. first \in 1 .. 5
    BY <1>2, <2>1
  <2> QED
    BY <1>2, <1>3, <2>2
<1> QED
  BY <1>3, <1>4

-----------------------------------------------------------------------------
(* filterSuggestions.                                                      *)

\* The loop of filterSuggestions, unfolded once.
LEMMA KeptUnfolds ==
  ASSUME NEW S, NEW s \in Seq(S)
  PROVE  \A n \in 0 .. Len(s) :
           Kept(s)[n] = IF n = 0 THEN <<>>
                        ELSE IF s[n].confidence >= options.min
                          THEN Append(Kept(s)[n - 1], s[n])
                          ELSE Kept(s)[n - 1]
<1> DEFINE Round(g, n) == IF n = 0 THEN <<>>
                          ELSE IF s[n].confidence >= options.min
                            THEN Append(g[n - 1], s[n])
                            ELSE g[n - 1]
           Computed(m) == \E g : g = [n \in 0 .. m |-> Round(g, n)]
           missing == {m \in 0 .. Len(s) : ~Computed(m)}
<1> HIDE DEF Computed
<1>1. Len(s) \in Nat /\ missing \in SUBSET Nat
  BY Elements
<1>2. missing = {}
  <2>1. SUFFICES ASSUME missing /= {} PROVE FALSE
    OBVIOUS
  <2>2. PICK m \in missing : \A k \in missing : m <= k
    BY <1>1, <2>1, LeastOf
  <2>3. CASE m = 0
    <3> DEFINE g == [n \in 0 .. 0 |-> <<>>]
    <3>1. g = [n \in 0 .. 0 |-> Round(g, n)]
      OBVIOUS
    <3> QED
      BY <2>2, <2>3, <3>1 DEF Computed
  <2>4. CASE m > 0
    <3>1. m \in Nat /\ m - 1 \in 0 .. Len(s) /\ m - 1 \notin missing
      BY <1>1, <2>2, <2>4
    <3>2. PICK h : h = [n \in 0 .. m - 1 |-> Round(h, n)]
      BY <3>1 DEF Computed
    <3> DEFINE g == [n \in 0 .. m |-> IF n = m THEN Round(h, m) ELSE h[n]]
    <3> HIDE DEF Round
    <3>3. ASSUME NEW n \in 0 .. m PROVE g[n] = Round(g, n)
      <4>1. n = 0 \/ g[n - 1] = h[n - 1]
        BY <3>1
      <4>2. Round(g, n) = Round(h, n)
        BY <4>1 DEF Round
      <4>3. CASE n = m
        BY <4>2, <4>3
      <4>4. CASE n /= m
        <5>1. n \in 0 .. m - 1
          BY <3>1, <4>4
        <5>2. h[n] = Round(h, n)
          BY <3>2, <5>1
        <5> QED
          BY <4>2, <4>4, <5>2
      <4> QED
        BY <4>3, <4>4
    <3>4. g = [n \in 0 .. m |-> Round(g, n)]
      BY <3>3
    <3> HIDE DEF g
    <3>5. Computed(m)
      BY <3>4 DEF Computed
    <3> QED
      BY <2>2, <3>5
  <2> QED
    BY <1>1, <2>2, <2>3, <2>4
<1>3. PICK f : f = [n \in 0 .. Len(s) |-> Round(f, n)]
  <2>1. Computed(Len(s))
    BY <1>1, <1>2
  <2> QED
    BY <2>1 DEF Computed
<1>4. Kept(s) = CHOOSE g : g = [n \in 0 .. Len(s) |-> Round(g, n)]
  BY DEF Kept
<1> HIDE DEF Round
<1>5. Kept(s) = [n \in 0 .. Len(s) |-> Round(Kept(s), n)]
  BY <1>3, <1>4
<1>6. ASSUME NEW n \in 0 .. Len(s) PROVE Kept(s)[n] = Round(Kept(s), n)
  BY <1>5
<1> QED
  BY <1>6 DEF Round

\* The suggestions among the first n that reach MinConfidence.
Qualify(s, n) == {m \in 1 .. n : s[m].confidence >= options.min}

LEMMA QualifyCount ==
  ASSUME NEW S, NEW s \in Seq(S), NEW n \in 0 .. Len(s)
  PROVE  IsFiniteSet(Qualify(s, n)) /\ Cardinality(Qualify(s, n)) \in Nat
<1>1. IsFiniteSet(1 .. n)
  BY FS_Interval
<1>2. Qualify(s, n) \in SUBSET (1 .. n)
  BY DEF Qualify
<1> QED
  BY <1>1, <1>2, FS_Subset, FS_CardinalityType

LEMMA QualifyNone ==
  ASSUME NEW s
  PROVE  Cardinality(Qualify(s, 0)) = 0
<1>1. Qualify(s, 0) = {}
  BY DEF Qualify
<1> QED
  BY <1>1, FS_EmptySet

LEMMA QualifyNext ==
  ASSUME NEW S, NEW s \in Seq(S), NEW n \in 1 .. Len(s)
  PROVE  Cardinality(Qualify(s, n)) =
           IF n \in Qualify(s, n) THEN Cardinality(Qualify(s, n - 1)) + 1
                                  ELSE Cardinality(Qualify(s, n - 1))
<1>1. n - 1 \in 0 .. Len(s) /\ n \notin Qualify(s, n - 1)
  BY Elements DEF Qualify
<1>2. CASE n \in Qualify(s, n)
  <2>1. Qualify(s, n) = Qualify(s, n - 1) \cup {n}
    BY <1>2, Elements DEF Qualify
  <2> QED
    BY <1>1, <1>2, <2>1, QualifyCount, FS_AddElement
<1>3. CASE n \notin Qualify(s, n)
  <2>1. Qualify(s, n) = Qualify(s, n - 1)
    BY <1>3, Elements DEF Qualify
  <2> QED
    BY <1>3, <2>1
<1> QED
  BY <1>2, <1>3

LEMMA QualifyGrows ==
  ASSUME NEW S, NEW s \in Seq(S), NEW m \in 0 .. Len(s), NEW n \in 0 .. Len(s), m <= n
  PROVE  Cardinality(Qualify(s, m)) <= Cardinality(Qualify(s, n))
<1>1. Qualify(s, m) \in SUBSET Qualify(s, n)
  BY Elements DEF Qualify
<1> QED
  BY <1>1, QualifyCount, FS_Subset

\* The place of a suggestion that qualifies, counted among those that do.
LEMMA QualifyPlace ==
  ASSUME NEW S, NEW s \in Seq(S), NEW n \in 1 .. Len(s), n \in Qualify(s, n)
  PROVE  /\ Cardinality(Qualify(s, n)) >= 1
         /\ \A m \in 0 .. n - 1 : Cardinality(Qualify(s, m)) < Cardinality(Qualify(s, n))
<1>1. Len(s) \in Nat /\ n - 1 \in 0 .. Len(s)
  BY Elements
<1>2. /\ Cardinality(Qualify(s, n)) = Cardinality(Qualify(s, n - 1)) + 1
      /\ Cardinality(Qualify(s, n - 1)) \in Nat
  BY <1>1, QualifyNext, QualifyCount
<1>3. ASSUME NEW m \in 0 .. n - 1
      PROVE  Cardinality(Qualify(s, m)) < Cardinality(Qualify(s, n))
  <2>1. m \in 0 .. Len(s) /\ m <= n - 1
    BY <1>1
  <2>2. /\ Cardinality(Qualify(s, m)) <= Cardinality(Qualify(s, n - 1))
        /\ Cardinality(Qualify(s, m)) \in Nat
    BY <1>1, <2>1, QualifyGrows, QualifyCount
  <2> QED
    BY <1>2, <2>2
<1> QED
  BY <1>2, <1>3

\* The loop keeps those that qualify, each at its place, and nothing else.
Keeps(s, n, kept) ==
  /\ Len(kept) = Cardinality(Qualify(s, n))
  /\ \A m \in Qualify(s, n) : kept[Cardinality(Qualify(s, m))] = s[m]
  /\ \A k \in 1 .. Len(kept) :
       \E m \in Qualify(s, n) : Cardinality(Qualify(s, m)) = k

LEMMA KeepsNext ==
  ASSUME NEW S, NEW s \in Seq(S), NEW n \in 1 .. Len(s),
         NEW before \in Seq(S), Keeps(s, n - 1, before)
  PROVE  IF n \in Qualify(s, n) THEN Keeps(s, n, Append(before, s[n])) ELSE Keeps(s, n, before)
<1>1. /\ Len(s) \in Nat /\ n - 1 \in 0 .. Len(s) /\ s[n] \in S
      /\ Cardinality(Qualify(s, n - 1)) \in Nat
  BY Elements, QualifyCount
<1>2. CASE n \notin Qualify(s, n)
  <2>1. Qualify(s, n) = Qualify(s, n - 1)
    BY <1>1, <1>2 DEF Qualify
  <2> QED
    BY <1>2, <2>1 DEF Keeps
<1>3. CASE n \in Qualify(s, n)
  <2> DEFINE after == Append(before, s[n])
             c == Cardinality(Qualify(s, n - 1))
  <2>1. /\ Cardinality(Qualify(s, n)) = c + 1 /\ c \in Nat /\ Len(before) = c
    BY <1>1, <1>3, QualifyNext DEF Keeps
  <2>2. /\ Len(after) = c + 1 /\ after[c + 1] = s[n]
        /\ \A k \in 1 .. c : after[k] = before[k]
    BY <1>1, <2>1
  <2>3. \A m \in Qualify(s, n) : m = n \/ m \in Qualify(s, n - 1)
    BY <1>1 DEF Qualify
  <2>4. Qualify(s, n - 1) \subseteq Qualify(s, n)
    BY <1>1 DEF Qualify
  <2> HIDE DEF c, after
  <2>5. ASSUME NEW m \in Qualify(s, n) PROVE after[Cardinality(Qualify(s, m))] = s[m]
    <3>1. CASE m = n
      BY <2>1, <2>2, <3>1
    <3>2. CASE m \in Qualify(s, n - 1)
      <4>1. m \in 1 .. n - 1 /\ m \in Qualify(s, m) /\ m \in 1 .. Len(s) /\ m \in 0 .. Len(s) /\ m <= n - 1
        BY <1>1, <3>2 DEF Qualify
      <4>2. Cardinality(Qualify(s, m)) \in Nat /\ Cardinality(Qualify(s, m)) >= 1
        BY <4>1, QualifyPlace, QualifyCount
      <4>3. Cardinality(Qualify(s, m)) <= c
        BY <1>1, <4>1, QualifyGrows DEF c
      <4>4. before[Cardinality(Qualify(s, m))] = s[m]
        BY <3>2 DEF Keeps
      <4>5. Cardinality(Qualify(s, m)) \in 1 .. c
        BY <2>1, <4>2, <4>3
      <4> QED
        BY <2>2, <4>4, <4>5
    <3> QED
      BY <2>3, <3>1, <3>2
  <2>6. ASSUME NEW k \in 1 .. c + 1
        PROVE  \E m \in Qualify(s, n) : Cardinality(Qualify(s, m)) = k
    <3>1. CASE k = c + 1
      BY <1>3, <2>1, <3>1
    <3>2. CASE k /= c + 1
      <4>1. k \in 1 .. Len(before)
        BY <2>1, <3>2
      <4>2. PICK m \in Qualify(s, n - 1) : Cardinality(Qualify(s, m)) = k
        BY <4>1 DEF Keeps
      <4> QED
        BY <2>4, <4>2
    <3> QED
      BY <3>1, <3>2
  <2>7. Keeps(s, n, after)
    BY <2>1, <2>2, <2>5, <2>6 DEF Keeps
  <2> QED
    BY <1>3, <2>7 DEF after
<1> QED
  BY <1>2, <1>3

LEMMA KeptKeeps ==
  ASSUME NEW S, NEW s \in Seq(S), NEW n \in 0 .. Len(s)
  PROVE  Kept(s)[n] \in Seq(S) /\ Keeps(s, n, Kept(s)[n])
<1> DEFINE wrong == {m \in 0 .. Len(s) : ~ (Kept(s)[m] \in Seq(S) /\ Keeps(s, m, Kept(s)[m]))}
<1>1. SUFFICES wrong = {}
  OBVIOUS
<1>2. Len(s) \in Nat
  BY Elements
<1>3. SUFFICES ASSUME wrong /= {} PROVE FALSE
  OBVIOUS
<1>4. wrong \in SUBSET Nat
  BY <1>2
<1>5. PICK m \in wrong : \A k \in wrong : m <= k
  BY <1>3, <1>4, LeastOf
<1>6. m \in 0 .. Len(s) /\ ~ (Kept(s)[m] \in Seq(S) /\ Keeps(s, m, Kept(s)[m]))
  OBVIOUS
<1>7. CASE m = 0
  <2>1. Kept(s)[0] = <<>>
    BY <1>6, <1>7, KeptUnfolds
  <2>2. <<>> \in Seq(S) /\ Len(<<>>) = 0 /\ Qualify(s, 0) = {}
    BY DEF Qualify
  <2>3. Keeps(s, 0, <<>>)
    BY <2>2, QualifyNone DEF Keeps
  <2> QED
    BY <1>6, <1>7, <2>1, <2>2, <2>3
<1>8. CASE m /= 0
  <2>1. m \in 1 .. Len(s) /\ m - 1 \in 0 .. Len(s) /\ m - 1 \notin wrong
    BY <1>2, <1>5, <1>6, <1>8
  <2>2. Kept(s)[m - 1] \in Seq(S) /\ Keeps(s, m - 1, Kept(s)[m - 1])
    BY <2>1
  <2>3. Kept(s)[m] = IF s[m].confidence >= options.min
                       THEN Append(Kept(s)[m - 1], s[m]) ELSE Kept(s)[m - 1]
    BY <1>6, <1>8, KeptUnfolds
  <2>4. m \in Qualify(s, m) <=> s[m].confidence >= options.min
    BY <2>1 DEF Qualify
  <2>5. s[m] \in S
    BY <2>1, Elements
  <2> HIDE DEF wrong
  <2>6. Kept(s)[m] \in Seq(S)
    BY <2>2, <2>3, <2>5
  <2>7. Keeps(s, m, Kept(s)[m])
    BY <2>1, <2>2, <2>3, <2>4, KeepsNext
  <2> QED
    BY <1>6, <2>6, <2>7
<1> QED
  BY <1>7, <1>8

\* Each suggestion given is one that qualifies, at its place.
FilteredFrom(s, given) ==
  \A k \in 1 .. Len(given) :
    \E m \in Qualify(s, Len(s)) : Cardinality(Qualify(s, m)) = k /\ given[k] = s[m]

\* Each that qualifies is given, unless the limit comes first.
FilterMisses(s, given) ==
  \A m \in Qualify(s, Len(s)) :
    Cardinality(Qualify(s, m)) \in 1 .. Len(given)
      <=> options.limit = 0 \/ Cardinality(Qualify(s, m)) <= options.limit

LEMMA FilterGives ==
  ASSUME NEW S, NEW s \in Seq(S), options.limit \in Nat
  PROVE  Filter(s) \in Seq(S) /\ FilteredFrom(s, Filter(s)) /\ FilterMisses(s, Filter(s))
<1> DEFINE kept == Kept(s)[Len(s)]
           all == Qualify(s, Len(s))
<1>1. Len(s) \in Nat /\ Len(s) \in 0 .. Len(s)
  BY Elements
<1>2. /\ kept \in Seq(S) /\ Len(kept) = Cardinality(all)
      /\ \A m \in all : kept[Cardinality(Qualify(s, m))] = s[m]
      /\ \A k \in 1 .. Len(kept) : \E m \in all : Cardinality(Qualify(s, m)) = k
  BY <1>1, KeptKeeps DEF Keeps
<1>3. Filter(s) = IF options.limit > 0 /\ Len(kept) > options.limit
                    THEN SubSeq(kept, 1, options.limit) ELSE kept
  BY DEF Filter
<1>4. \A m \in all : Cardinality(Qualify(s, m)) \in 1 .. Len(kept)
  <2>1. SUFFICES ASSUME NEW m \in all PROVE Cardinality(Qualify(s, m)) \in 1 .. Len(kept)
    OBVIOUS
  <2>2. m \in 1 .. Len(s) /\ m \in 0 .. Len(s) /\ m <= Len(s) /\ m \in Qualify(s, m)
    BY <1>1 DEF Qualify
  <2>3. /\ Cardinality(Qualify(s, m)) \in Nat /\ Cardinality(Qualify(s, m)) >= 1
        /\ Cardinality(Qualify(s, m)) <= Cardinality(all) /\ Cardinality(all) \in Nat
    BY <1>1, <2>2, QualifyCount, QualifyPlace, QualifyGrows
  <2> HIDE DEF kept, all
  <2> QED
    BY <1>2, <2>3
<1> HIDE DEF kept, all
<1>5. /\ Filter(s) \in Seq(S) /\ Len(Filter(s)) \in 0 .. Len(kept)
      /\ \A k \in 1 .. Len(Filter(s)) : Filter(s)[k] = kept[k]
      /\ Len(Filter(s)) = IF options.limit > 0 /\ Len(kept) > options.limit
                            THEN options.limit ELSE Len(kept)
  <2>1. CASE options.limit > 0 /\ Len(kept) > options.limit
    <3>1. Filter(s) = SubSeq(kept, 1, options.limit)
      BY <1>3, <2>1
    <3> QED
      BY <1>2, <2>1, <3>1
  <2>2. CASE ~ (options.limit > 0 /\ Len(kept) > options.limit)
    <3>1. Filter(s) = kept
      BY <1>3, <2>2
    <3> QED
      BY <1>2, <2>2, <3>1
  <2> QED
    BY <2>1, <2>2
<1>6. FilteredFrom(s, Filter(s))
  <2>1. SUFFICES ASSUME NEW k \in 1 .. Len(Filter(s))
                 PROVE  \E m \in all : Cardinality(Qualify(s, m)) = k /\ Filter(s)[k] = s[m]
    BY DEF FilteredFrom, all
  <2>2. k \in 1 .. Len(kept) /\ Filter(s)[k] = kept[k]
    BY <1>2, <1>5
  <2>3. PICK m \in all : Cardinality(Qualify(s, m)) = k
    BY <1>2, <2>2
  <2> QED
    BY <1>2, <2>2, <2>3
<1>7. FilterMisses(s, Filter(s))
  <2>1. SUFFICES ASSUME NEW m \in all
                 PROVE  Cardinality(Qualify(s, m)) \in 1 .. Len(Filter(s))
                          <=> options.limit = 0 \/ Cardinality(Qualify(s, m)) <= options.limit
    BY DEF FilterMisses, all
  <2>2. Cardinality(Qualify(s, m)) \in 1 .. Len(kept) /\ Len(kept) \in Nat
    BY <1>2, <1>4
  <2> QED
    BY <1>5, <2>2
<1> QED
  BY <1>5, <1>6, <1>7

\* Suggestions come in the order of the columns, one per column at most.
InOrder(s) == \A i, j \in DOMAIN s : i < j => s[i].source < s[j].source

\* What FirstThatQualify says of a list and of what is given of it.
FirstOf(s, given) ==
  LET sources == {given[i].source : i \in DOMAIN given}
  IN /\ \A i, j \in DOMAIN given : i < j => given[i].source < given[j].source
     /\ \A n \in DOMAIN s :
          s[n].source \in sources <=>
            /\ s[n].confidence >= options.min
            /\ \/ options.limit = 0
               \/ Cardinality({m \in 1 .. n : s[m].confidence >= options.min}) <= options.limit

LEMMA FilterGivesTheFirst ==
  ASSUME NEW s \in Seq(Suggestions), columns \in Nat, options.limit \in Nat, InOrder(s)
  PROVE  FirstOf(s, Filter(s))
<1> DEFINE given == Filter(s)
           sources == {given[i].source : i \in DOMAIN given}
           place(m) == Cardinality(Qualify(s, m))
<1>1. given \in Seq(Suggestions) /\ FilteredFrom(s, given) /\ FilterMisses(s, given)
  BY FilterGives
<1>2. /\ DOMAIN s = 1 .. Len(s) /\ Len(s) \in Nat
      /\ \A i \in 1 .. Len(s) : s[i].source \in Int
      /\ DOMAIN given = 1 .. Len(given) /\ Len(given) \in Nat
  <2>1. /\ DOMAIN s = 1 .. Len(s) /\ Len(s) \in Nat
        /\ \A i \in 1 .. Len(s) : s[i] \in Suggestions
    BY Elements
  <2>2. DOMAIN given = 1 .. Len(given) /\ Len(given) \in Nat
    BY <1>1, Elements
  <2>3. \A suggestion \in Suggestions : suggestion.source \in Int
    BY DEF Suggestions
  <2> QED
    BY <2>1, <2>2, <2>3
<1> HIDE DEF given
<1>3. ASSUME NEW i \in DOMAIN given, NEW j \in DOMAIN given, i < j
      PROVE  given[i].source < given[j].source
  <2>1. PICK m \in Qualify(s, Len(s)) : place(m) = i /\ given[i] = s[m]
    BY <1>1, <1>2 DEF FilteredFrom
  <2>2. PICK n \in Qualify(s, Len(s)) : place(n) = j /\ given[j] = s[n]
    BY <1>1, <1>2 DEF FilteredFrom
  <2>3. m \in 1 .. Len(s) /\ n \in 1 .. Len(s) /\ m \in 0 .. Len(s) /\ n \in 0 .. Len(s)
    BY <1>2 DEF Qualify
  <2>4. n <= m => place(n) <= place(m)
    BY <2>3, QualifyGrows
  <2>5. m < n
    BY <1>2, <1>3, <2>1, <2>2, <2>3, <2>4
  <2> QED
    BY <1>2, <2>1, <2>2, <2>3, <2>5 DEF InOrder
<1>4. ASSUME NEW n \in DOMAIN s
      PROVE  s[n].source \in sources <=>
               n \in Qualify(s, n) /\ (options.limit = 0 \/ place(n) <= options.limit)
  <2>1. n \in Qualify(s, n) <=> n \in Qualify(s, Len(s))
    BY <1>2 DEF Qualify
  <2>2. ASSUME s[n].source \in sources
        PROVE  n \in Qualify(s, Len(s)) /\ place(n) \in 1 .. Len(given)
    <3>1. PICK i \in 1 .. Len(given) : s[n].source = given[i].source
      BY <1>2, <2>2
    <3>2. PICK m \in Qualify(s, Len(s)) : place(m) = i /\ given[i] = s[m]
      BY <1>1, <3>1 DEF FilteredFrom
    <3>3. m \in DOMAIN s /\ m \in Int /\ n \in Int
      BY <1>2 DEF Qualify
    <3>4. m = n
      BY <1>2, <3>1, <3>2, <3>3 DEF InOrder
    <3> QED
      BY <3>1, <3>2, <3>4
  <2>3. ASSUME n \in Qualify(s, Len(s)), place(n) \in 1 .. Len(given)
        PROVE  s[n].source \in sources
    <3>1. PICK m \in Qualify(s, Len(s)) :
            place(m) = place(n) /\ given[place(n)] = s[m]
      BY <1>1, <2>3 DEF FilteredFrom
    <3>2. /\ m \in 1 .. Len(s) /\ n \in 1 .. Len(s)
          /\ m \in Qualify(s, m) /\ n \in Qualify(s, n)
      BY <1>2, <2>1, <2>3 DEF Qualify
    <3>3. /\ \A k \in 0 .. m - 1 : place(k) < place(m)
          /\ \A k \in 0 .. n - 1 : place(k) < place(n)
      BY <3>2, QualifyPlace
    <3>4. place(m) \in Nat /\ place(n) \in Nat
      BY <1>2, <3>2, QualifyCount
    <3>5. ~ (m < n) /\ ~ (n < m)
      BY <3>1, <3>2, <3>3, <3>4
    <3>6. m = n
      BY <3>2, <3>5
    <3> QED
      BY <1>2, <2>3, <3>1, <3>6
  <2>4. n \in Qualify(s, Len(s)) =>
          (place(n) \in 1 .. Len(given) <=> options.limit = 0 \/ place(n) <= options.limit)
    BY <1>1 DEF FilterMisses
  <2> QED
    BY <2>1, <2>2, <2>3, <2>4
<1>5. \A n \in DOMAIN s : n \in Qualify(s, n) <=> s[n].confidence >= options.min
  BY <1>2 DEF Qualify
<1> QED
  BY <1>3, <1>4, <1>5 DEF FirstOf, Qualify, given

-----------------------------------------------------------------------------
(* Types.                                                                  *)

\* A step leaves the request as it is, or is no step.
LEMMA RequestStays ==
  ASSUME [Next]_vars
  PROVE  UNCHANGED <<provider, columns, options>>
BY DEF Next, Server, Start, Ask, AskCancelled, ColumnFails, JevDone, FuzzyDone, FuzzyCancelled,
       Respond, Refuse, ColumnAnswered, ColumnUnanswered, Cancel, Terminated, vars, request

\* What the request may have, and what of TypeOK the steps can change.
RequestType ==
  /\ provider \in {"fuzzy", "jev"} /\ columns \in 1 .. MaxColumns
  /\ options \in [min : 0 .. Top, limit : 0 .. MaxColumns]

PlaceType ==
  /\ cancelled \in BOOLEAN
  /\ pc \in {"start", "column", "await", "fuzzy", "respond", "done"}
  /\ model \in {"none", "jev", "fuzzy"}

FoundType == found \in Seq(Suggestions)

ResponseType ==
  /\ response.status \in {0, 200, 502} \cup Refusals
  /\ response.suggestions \in Seq(Suggestions)

\* How far the upstream loop is: one call more than answers while it waits.
Counting ==
  /\ source \in 0 .. columns /\ asked \in 0 .. columns
  /\ pc = "start" => source = 0 /\ asked = 0
  /\ pc = "column" => asked = source
  /\ pc = "await" => source < columns /\ asked = source + 1

LEMMA LimitIsNat ==
  ASSUME RequestType
  PROVE  options.limit \in Nat /\ columns \in Nat
BY DEF RequestType

LEMMA CountingStep ==
  ASSUME RequestType, Counting, [Next]_vars
  PROVE  Counting'
<1>1. columns \in Nat /\ columns' = columns
  BY RequestStays DEF RequestType
<1>2. CASE Start
  BY <1>1, <1>2 DEF Counting, Start
<1>3. CASE Ask
  BY <1>1, <1>3 DEF Counting, Ask
<1>4. CASE AskCancelled \/ ColumnFails \/ JevDone \/ FuzzyDone \/ FuzzyCancelled
  BY <1>1, <1>4 DEF Counting, AskCancelled, ColumnFails, JevDone, FuzzyDone, FuzzyCancelled
<1>5. CASE ColumnAnswered
  BY <1>1, <1>5 DEF Counting, ColumnAnswered
<1>6. CASE Respond \/ Refuse \/ ColumnUnanswered
  BY <1>1, <1>6 DEF Counting, Respond, Refuse, ColumnUnanswered
<1>7. CASE Cancel \/ Terminated \/ UNCHANGED vars
  BY <1>1, <1>7 DEF Counting, Cancel, Terminated, vars
<1> QED
  BY <1>2, <1>3, <1>4, <1>5, <1>6, <1>7 DEF Next, Server

LEMMA PlaceStep ==
  ASSUME PlaceType, [Next]_vars
  PROVE  PlaceType'
BY DEF PlaceType, Next, Server, Start, Ask, AskCancelled, ColumnFails, JevDone, FuzzyDone,
       FuzzyCancelled, Respond, Refuse, ColumnAnswered, ColumnUnanswered, Cancel, Terminated, vars

\* What one column of the upstream or all of fuzzy matching adds is a suggestion.
LEMMA AnsweredIsSuggestion ==
  ASSUME RequestType, FoundType, Counting, ColumnAnswered
  PROVE  \E suggestion \in Suggestions :
           /\ suggestion.source = source /\ suggestion.by = "jev"
           /\ found' = Append(found, suggestion)
<1>1. PICK reply \in Replies :
        \E reading \in ParseReply(reply) :
           found' = Append(found, [source |-> source, by |-> "jev",
                                   target |-> reading.target, confidence |-> reading.confidence])
  BY DEF ColumnAnswered
<1>2. PICK reading \in ParseReply(reply) :
        found' = Append(found, [source |-> source, by |-> "jev",
                                target |-> reading.target, confidence |-> reading.confidence])
  BY <1>1
<1>3. reading \in Readings
  BY <1>2, ReplyReads
<1>4. reading.target \in Targets /\ reading.confidence \in 0 .. Top
  BY <1>3 DEF Readings
<1>5. source \in 0 .. columns - 1
  BY DEF RequestType, Counting, ColumnAnswered
<1> DEFINE suggestion == [source |-> source, by |-> "jev",
                          target |-> reading.target, confidence |-> reading.confidence]
<1>6. suggestion \in Suggestions
  BY <1>4, <1>5 DEF Suggestions
<1> QED
  BY <1>2, <1>6

\* What FuzzyDone finds: in order, all of one strategy.
LEMMA FuzzyFinds ==
  ASSUME RequestType, FuzzyDone
  PROVE  /\ found' \in Seq(Suggestions)
         /\ \A i \in DOMAIN found' : found'[i].by = "fuzzy"
         /\ \A i, j \in DOMAIN found' : i < j => found'[i].source < found'[j].source
<1>1. PICK n \in 0 .. columns :
        \E place \in [1 .. n -> 0 .. columns - 1], target \in [1 .. n -> Targets],
           confidence \in [1 .. n -> 0 .. Top] :
          /\ \A i, j \in 1 .. n : i < j => place[i] < place[j]
          /\ found' = [i \in 1 .. n |-> [source |-> place[i], by |-> "fuzzy",
                                        target |-> target[i], confidence |-> confidence[i]]]
  BY DEF FuzzyDone
<1>2. PICK place \in [1 .. n -> 0 .. columns - 1], target \in [1 .. n -> Targets],
           confidence \in [1 .. n -> 0 .. Top] :
        /\ \A i, j \in 1 .. n : i < j => place[i] < place[j]
        /\ found' = [i \in 1 .. n |-> [source |-> place[i], by |-> "fuzzy",
                                      target |-> target[i], confidence |-> confidence[i]]]
  BY <1>1
<1>3. n \in Nat
  BY <1>1 DEF RequestType
<1>4. \A i \in 1 .. n : [source |-> place[i], by |-> "fuzzy", target |-> target[i],
                         confidence |-> confidence[i]] \in Suggestions
  BY <1>2 DEF Suggestions
<1>5. found' \in [1 .. n -> Suggestions]
  BY <1>2, <1>4
<1>6. found' \in Seq(Suggestions)
  BY <1>3, <1>5
<1>7. DOMAIN found' = 1 .. n
  BY <1>5
<1>8. \A i \in 1 .. n : found'[i].by = "fuzzy" /\ found'[i].source = place[i]
  BY <1>2
<1> QED
  BY <1>2, <1>6, <1>7, <1>8

LEMMA FoundStep ==
  ASSUME RequestType, FoundType, Counting, [Next]_vars
  PROVE  FoundType'
<1>1. Suggestions' = Suggestions
  BY RequestStays DEF Suggestions
<1>2. CASE ColumnAnswered
  <2>1. PICK suggestion \in Suggestions : found' = Append(found, suggestion)
    BY <1>2, AnsweredIsSuggestion
  <2> QED
    BY <1>1, <2>1 DEF FoundType
<1>3. CASE FuzzyDone
  BY <1>1, <1>3, FuzzyFinds DEF FoundType
<1>4. CASE AskCancelled \/ ColumnUnanswered \/ ColumnFails
  <2>1. found' = <<>>
    BY <1>4 DEF AskCancelled, ColumnUnanswered, ColumnFails
  <2> QED
    BY <1>1, <2>1 DEF FoundType
<1>5. CASE \/ Start \/ Ask \/ JevDone \/ FuzzyCancelled \/ Respond \/ Refuse \/ Cancel
           \/ Terminated \/ UNCHANGED vars
  <2>1. found' = found
    BY <1>5 DEF Start, Ask, JevDone, FuzzyCancelled, Respond, Refuse, Cancel, Terminated, vars
  <2> QED
    BY <1>1, <2>1 DEF FoundType
<1> QED
  BY <1>2, <1>3, <1>4, <1>5 DEF Next, Server

LEMMA ResponseStep ==
  ASSUME RequestType, FoundType, ResponseType, [Next]_vars
  PROVE  ResponseType'
<1>1. Suggestions' = Suggestions
  BY RequestStays DEF Suggestions
<1>2. CASE Respond
  <2>1. response' = [status |-> 200, suggestions |-> Filter(found)]
    BY <1>2 DEF Respond
  <2>2. Filter(found) \in Seq(Suggestions)
    BY FilterGives, LimitIsNat DEF FoundType
  <2> QED
    BY <1>1, <2>1, <2>2 DEF ResponseType
<1>3. CASE Refuse \/ FuzzyCancelled
  <2>1. response'.status \in Refusals \cup {502} /\ response'.suggestions = <<>>
    BY <1>3 DEF Refuse, FuzzyCancelled
  <2> QED
    BY <1>1, <2>1 DEF ResponseType, Refusals
<1>4. CASE \/ Start \/ Ask \/ AskCancelled \/ ColumnFails \/ JevDone \/ FuzzyDone
           \/ ColumnAnswered \/ ColumnUnanswered \/ Cancel \/ Terminated \/ UNCHANGED vars
  <2>1. response' = response
    BY <1>4 DEF Start, Ask, AskCancelled, ColumnFails, JevDone, FuzzyDone, ColumnAnswered,
                ColumnUnanswered, Cancel, Terminated, vars
  <2> QED
    BY <1>1, <2>1 DEF ResponseType
<1> QED
  BY <1>2, <1>3, <1>4 DEF Next, Server

LEMMA Typed ==
  TypeOK /\ Counting <=> RequestType /\ PlaceType /\ FoundType /\ ResponseType /\ Counting
BY DEF TypeOK, RequestType, PlaceType, FoundType, ResponseType, Counting

LEMMA InitTyped == Init => TypeOK /\ Counting
<1> SUFFICES ASSUME Init PROVE TypeOK /\ Counting
  OBVIOUS
<1>1. FoundType /\ ResponseType
  BY DEF Init, Pending, FoundType, ResponseType
<1>2. RequestType /\ PlaceType
  BY DEF Init, RequestType, PlaceType
<1>3. Counting
  BY DEF Init, Counting
<1> QED
  BY <1>1, <1>2, <1>3, Typed

LEMMA NextTyped ==
  ASSUME TypeOK, Counting, [Next]_vars
  PROVE  TypeOK' /\ Counting'
<1>1. RequestType /\ PlaceType /\ FoundType /\ ResponseType
  BY Typed
<1>2. RequestType'
  BY <1>1, RequestStays DEF RequestType
<1>3. PlaceType' /\ FoundType' /\ ResponseType' /\ Counting'
  BY <1>1, PlaceStep, FoundStep, ResponseStep, CountingStep
<1> QED
  BY <1>2, <1>3, Typed, PTL

\* Whatever the upstream replies and the client does, every suggestion names a
\* field of the schema with a confidence between 0 and 1, and every other
\* variable of handleSuggest keeps its type.
THEOREM SuggestTypeCorrect == Spec => []TypeOK
<1>1. TypeOK /\ Counting /\ [Next]_vars => TypeOK' /\ Counting'
  BY NextTyped
<1> QED
  BY InitTyped, <1>1, PTL DEF Spec

-----------------------------------------------------------------------------
(* One strategy, in the order of the columns.                              *)

\* While the upstream is asked, there is its suggestion for each column it has
\* answered, and nothing else.
Upstream ==
  pc \in {"start", "column", "await"} =>
    /\ Len(found) = source
    /\ \A i \in DOMAIN found : found[i].source = i - 1 /\ found[i].by = "jev"

\* What a suggester returned is of its strategy alone; the upstream's is whole.
Single ==
  pc = "respond" \/ Answered =>
    /\ \A i \in DOMAIN found : found[i].by = model
    /\ model = "jev" => Len(found) = columns /\ asked = columns

\* The answer is what the filter makes of what the suggester returned.
Filtered == Answered => response.suggestions = Filter(found)

\* The inductive invariant: what a run checks of the answer needs what is true
\* of the list before there is one.
SuggestInv ==
  /\ TypeOK
  /\ Counting
  /\ Upstream
  /\ InOrder(found)
  /\ Single
  /\ Filtered
  /\ FailsOnlyIfCancelled

LEMMA FoundElements ==
  ASSUME FoundType
  PROVE  DOMAIN found = 1 .. Len(found) /\ Len(found) \in Nat
BY DEF FoundType

LEMMA UpstreamStep ==
  ASSUME RequestType, FoundType, Counting, Upstream, [Next]_vars
  PROVE  Upstream'
<1>1. CASE ColumnAnswered
  <2>1. PICK suggestion \in Suggestions :
          /\ suggestion.source = source /\ suggestion.by = "jev"
          /\ found' = Append(found, suggestion)
    BY <1>1, AnsweredIsSuggestion
  <2>2. pc = "await" /\ source' = source + 1 /\ pc' = "column"
    BY <1>1 DEF ColumnAnswered
  <2>3. /\ Len(found) = source
        /\ \A i \in DOMAIN found : found[i].source = i - 1 /\ found[i].by = "jev"
    BY <2>2 DEF Upstream
  <2>4. /\ DOMAIN found' = 1 .. Len(found) + 1 /\ Len(found') = Len(found) + 1
        /\ \A i \in 1 .. Len(found) : found'[i] = found[i]
        /\ found'[Len(found) + 1] = suggestion
    BY <2>1 DEF FoundType
  <2>5. \A i \in 1 .. Len(found) + 1 : i \in 1 .. Len(found) \/ i = Len(found) + 1
    BY FoundElements
  <2>6. \A i \in DOMAIN found' : found'[i].source = i - 1 /\ found'[i].by = "jev"
    BY <2>1, <2>3, <2>4, <2>5, FoundElements
  <2> QED
    BY <2>2, <2>3, <2>4, <2>6 DEF Upstream
<1>2. CASE Ask
  BY <1>2 DEF Upstream, Ask
<1>3. CASE Start
  BY <1>3 DEF Upstream, Start
<1>4. CASE \/ AskCancelled \/ ColumnFails \/ JevDone \/ FuzzyDone \/ FuzzyCancelled \/ Respond
           \/ Refuse \/ ColumnUnanswered
  <2>1. pc' \notin {"start", "column", "await"}
    BY <1>4 DEF AskCancelled, ColumnFails, JevDone, FuzzyDone, FuzzyCancelled, Respond, Refuse,
                ColumnUnanswered
  <2> QED
    BY <2>1 DEF Upstream
<1>5. CASE Cancel \/ Terminated \/ UNCHANGED vars
  BY <1>5 DEF Upstream, Cancel, Terminated, vars
<1> QED
  BY <1>1, <1>2, <1>3, <1>4, <1>5 DEF Next, Server

\* Upstream suggestions are in order because the n-th is for the n-th column.
LEMMA OrderStep ==
  ASSUME RequestType, FoundType, Counting, Upstream, InOrder(found), [Next]_vars
  PROVE  InOrder(found)'
<1>1. CASE ColumnAnswered
  <2>1. Upstream' /\ FoundType'
    BY <1>1, UpstreamStep, FoundStep
  <2>2. pc' = "column"
    BY <1>1 DEF ColumnAnswered
  <2>3. \A i \in DOMAIN found' : found'[i].source = i - 1
    BY <2>1, <2>2 DEF Upstream
  <2>4. \A i \in DOMAIN found' : i \in Int
    BY <2>1 DEF FoundType
  <2> QED
    BY <2>3, <2>4 DEF InOrder
<1>2. CASE FuzzyDone
  BY <1>2, FuzzyFinds DEF InOrder
<1>3. CASE AskCancelled \/ ColumnUnanswered \/ ColumnFails
  <2>1. found' = <<>>
    BY <1>3 DEF AskCancelled, ColumnUnanswered, ColumnFails
  <2> QED
    BY <2>1 DEF InOrder
<1>4. CASE \/ Start \/ Ask \/ JevDone \/ FuzzyCancelled \/ Respond \/ Refuse \/ Cancel
           \/ Terminated \/ UNCHANGED vars
  <2>1. found' = found
    BY <1>4 DEF Start, Ask, JevDone, FuzzyCancelled, Respond, Refuse, Cancel, Terminated, vars
  <2> QED
    BY <2>1 DEF InOrder
<1> QED
  BY <1>1, <1>2, <1>3, <1>4 DEF Next, Server

LEMMA SingleStep ==
  ASSUME RequestType, FoundType, Counting, Upstream, Single, [Next]_vars
  PROVE  Single'
<1>1. columns' = columns
  BY RequestStays
<1>2. CASE JevDone
  <2>1. /\ pc = "column" /\ source = columns /\ model' = "jev"
        /\ found' = found /\ asked' = asked
    BY <1>2 DEF JevDone
  <2>2. asked = columns
    BY <2>1 DEF Counting
  <2>3. Len(found) = columns /\ \A i \in DOMAIN found : found[i].by = "jev"
    BY <2>1 DEF Upstream
  <2> QED
    BY <1>1, <2>1, <2>2, <2>3 DEF Single
<1>3. CASE FuzzyDone
  <2>1. model' = "fuzzy" /\ \A i \in DOMAIN found' : found'[i].by = "fuzzy"
    BY <1>3, FuzzyFinds DEF FuzzyDone
  <2> QED
    BY <2>1 DEF Single
<1>4. CASE Respond
  <2>1. pc = "respond" /\ found' = found /\ model' = model /\ asked' = asked
    BY <1>4 DEF Respond
  <2> QED
    BY <1>1, <2>1 DEF Single
<1>5. CASE Cancel \/ Terminated \/ UNCHANGED vars
  <2>1. UNCHANGED <<pc, found, model, asked, response>>
    BY <1>5 DEF Cancel, Terminated, vars
  <2> QED
    BY <1>1, <2>1 DEF Single, Answered
<1>6. CASE \/ Start \/ Ask \/ AskCancelled \/ ColumnFails \/ ColumnAnswered \/ ColumnUnanswered
  <2>1. pc' \notin {"respond", "done"}
    BY <1>6 DEF Start, Ask, AskCancelled, ColumnFails, ColumnAnswered, ColumnUnanswered
  <2> QED
    BY <2>1 DEF Single, Answered
<1>7. CASE FuzzyCancelled \/ Refuse
  <2>1. pc' = "done" /\ response'.status \in Refusals \cup {502}
    BY <1>7 DEF FuzzyCancelled, Refuse
  <2> QED
    BY <2>1 DEF Single, Answered, Refusals
<1> QED
  BY <1>2, <1>3, <1>4, <1>5, <1>6, <1>7 DEF Next, Server

LEMMA FilteredStep ==
  ASSUME Filtered, [Next]_vars
  PROVE  Filtered'
<1>1. options' = options
  BY RequestStays
<1>2. CASE Respond
  <2>1. found' = found /\ response' = [status |-> 200, suggestions |-> Filter(found)]
    BY <1>2 DEF Respond
  <2>2. Filter(found)' = Filter(found)
    BY <1>1, <2>1 DEF Filter, Kept
  <2> QED
    BY <2>1, <2>2 DEF Filtered
<1>3. CASE Cancel \/ Terminated \/ UNCHANGED vars
  <2>1. UNCHANGED <<pc, found, response>>
    BY <1>3 DEF Cancel, Terminated, vars
  <2>2. Filter(found)' = Filter(found)
    BY <1>1, <2>1 DEF Filter, Kept
  <2> QED
    BY <2>1, <2>2 DEF Filtered, Answered
<1>4. CASE \/ Start \/ Ask \/ AskCancelled \/ ColumnFails \/ ColumnAnswered \/ ColumnUnanswered
           \/ JevDone \/ FuzzyDone
  <2>1. pc' /= "done"
    BY <1>4 DEF Start, Ask, AskCancelled, ColumnFails, ColumnAnswered, ColumnUnanswered, JevDone,
                FuzzyDone
  <2> QED
    BY <2>1 DEF Filtered, Answered
<1>5. CASE FuzzyCancelled \/ Refuse
  <2>1. response'.status \in Refusals \cup {502}
    BY <1>5 DEF FuzzyCancelled, Refuse
  <2> QED
    BY <2>1 DEF Filtered, Answered, Refusals
<1> QED
  BY <1>2, <1>3, <1>4, <1>5 DEF Next, Server

LEMMA FailsStep ==
  ASSUME FailsOnlyIfCancelled, [Next]_vars
  PROVE  FailsOnlyIfCancelled'
<1>1. CASE FuzzyCancelled
  BY <1>1 DEF FuzzyCancelled, FailsOnlyIfCancelled
<1>2. CASE Respond \/ Refuse
  <2>1. response'.status \in Refusals \cup {200}
    BY <1>2 DEF Respond, Refuse
  <2> QED
    BY <2>1 DEF FailsOnlyIfCancelled, Refusals
<1>3. CASE Cancel \/ Terminated \/ UNCHANGED vars
  BY <1>3 DEF Cancel, Terminated, vars, FailsOnlyIfCancelled
<1>4. CASE \/ Start \/ Ask \/ AskCancelled \/ ColumnFails \/ ColumnAnswered \/ ColumnUnanswered
           \/ JevDone \/ FuzzyDone
  <2>1. pc' /= "done"
    BY <1>4 DEF Start, Ask, AskCancelled, ColumnFails, ColumnAnswered, ColumnUnanswered, JevDone,
                FuzzyDone
  <2> QED
    BY <2>1 DEF FailsOnlyIfCancelled
<1> QED
  BY <1>1, <1>2, <1>3, <1>4 DEF Next, Server

LEMMA InitSuggest == Init => SuggestInv
<1> SUFFICES ASSUME Init PROVE SuggestInv
  OBVIOUS
<1>1. found = <<>> /\ source = 0 /\ pc = "start"
  BY DEF Init
<1>2. Upstream /\ InOrder(found)
  BY <1>1 DEF Upstream, InOrder
<1>3. Single /\ Filtered /\ FailsOnlyIfCancelled
  BY <1>1 DEF Single, Filtered, FailsOnlyIfCancelled, Answered
<1> QED
  BY <1>2, <1>3, InitTyped DEF SuggestInv

LEMMA NextSuggest ==
  ASSUME SuggestInv, [Next]_vars
  PROVE  SuggestInv'
<1>1. /\ TypeOK /\ Counting /\ Upstream /\ InOrder(found) /\ Single /\ Filtered
      /\ FailsOnlyIfCancelled
  BY DEF SuggestInv
<1>2. RequestType /\ FoundType
  BY <1>1, Typed
<1>3. TypeOK' /\ Counting'
  BY <1>1, NextTyped
<1>4. Upstream' /\ InOrder(found)'
  BY <1>1, <1>2, UpstreamStep, OrderStep
<1>5. Single' /\ Filtered' /\ FailsOnlyIfCancelled'
  BY <1>1, <1>2, SingleStep, FilteredStep, FailsStep
<1> QED
  BY <1>3, <1>4, <1>5 DEF SuggestInv

LEMMA SuggestInvariant == Spec => []SuggestInv
<1>1. SuggestInv /\ [Next]_vars => SuggestInv'
  BY NextSuggest
<1> QED
  BY InitSuggest, <1>1, PTL DEF Spec

\* Everything the filter gives was found.
LEMMA GivenWasFound ==
  ASSUME SuggestInv, Answered
  PROVE  \A i \in DOMAIN response.suggestions :
           \E m \in DOMAIN found : response.suggestions[i] = found[m]
<1>1. RequestType /\ FoundType /\ response.suggestions = Filter(found)
  BY Typed DEF SuggestInv, Filtered
<1>2. Filter(found) \in Seq(Suggestions) /\ FilteredFrom(found, Filter(found))
  BY <1>1, FilterGives, LimitIsNat DEF FoundType
<1>3. DOMAIN Filter(found) = 1 .. Len(Filter(found)) /\ DOMAIN found = 1 .. Len(found)
  BY <1>1, <1>2, Elements DEF FoundType
<1> QED
  BY <1>1, <1>2, <1>3 DEF FilteredFrom, Qualify

\* An answer never mixes strategies: every suggestion of the answer is of the
\* strategy it names, and "jev" means the upstream placed every column, whatever
\* fails or is cancelled, in whatever column.
THEOREM OneStrategyAnswers == Spec => []OneStrategy
<1>1. SuggestInv => OneStrategy
  <2>1. SUFFICES ASSUME SuggestInv, Answered
                 PROVE  /\ \A i \in DOMAIN response.suggestions :
                             response.suggestions[i].by = model
                        /\ model = "jev" => Len(found) = columns /\ asked = columns
    BY DEF OneStrategy
  <2>2. /\ \A i \in DOMAIN found : found[i].by = model
        /\ model = "jev" => Len(found) = columns /\ asked = columns
    BY <2>1 DEF SuggestInv, Single
  <2> QED
    BY <2>1, <2>2, GivenWasFound
<1> QED
  BY <1>1, SuggestInvariant, PTL

\* The answer is the first suggestions that reach MinConfidence, as many as
\* Limit admits, in the order of the columns, for every MinConfidence and Limit.
THEOREM FirstAreGiven == Spec => []FirstThatQualify
<1>1. SuggestInv => FirstThatQualify
  <2>1. SUFFICES ASSUME SuggestInv, Answered
                 PROVE  FirstOf(found, response.suggestions)
    BY DEF FirstThatQualify, FirstOf
  <2>2. RequestType /\ FoundType /\ InOrder(found) /\ response.suggestions = Filter(found)
    BY <2>1, Typed DEF SuggestInv, Filtered
  <2> QED
    BY <2>2, FilterGivesTheFirst, LimitIsNat DEF FoundType
<1> QED
  BY <1>1, SuggestInvariant, PTL

\* An upstream that is down, slow or confused never makes the request fail:
\* only a client that has gone does.
THEOREM FailureIsTheClients == Spec => []FailsOnlyIfCancelled
<1>1. SuggestInv => FailsOnlyIfCancelled
  BY DEF SuggestInv
<1> QED
  BY <1>1, SuggestInvariant, PTL

=============================================================================
