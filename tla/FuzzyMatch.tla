------------------------------ MODULE FuzzyMatch ------------------------------
(***************************************************************************)
(* FuzzySuggester.SuggestResult of suggest/suggest.go: the loops over      *)
(* columns and fields, NormalizeName, and LevenshteinDistance cell by cell *)
(* with its two row buffers, which change roles after every row.           *)
(*                                                                         *)
(* A name is a sequence of characters.  A confidence is the pair of what   *)
(* remains and the longer length: correctly rounded quotients of small     *)
(* numbers compare as the fractions do.                                    *)
(***************************************************************************)
EXTENDS Integers, Sequences, SequencesExt, FiniteSets, FiniteSetsExt

CONSTANTS
  Alnum,        \* the characters unicode.IsLetter or unicode.IsNumber accepts
  Others,       \* the others
  Lower,        \* strings.ToLower, character by character
  ColumnLists,  \* the columns a request may have
  FieldLists    \* the fields, id and name, a schema may have

ASSUME CharactersAssumption == Alnum \cap Others = {} /\ "_" \in Others
ASSUME LowerAssumption ==
  Lower \in [Alnum \cup Others -> Alnum \cup Others] /\ \A c \in Others : Lower[c] = c

Names == Seq(Alnum \cup Others)

ASSUME ListsAssumption ==
  ColumnLists \subseteq Seq(Names) /\ FieldLists \subseteq Seq([id : Nat, name : Names])

VARIABLES
  columns,     \* the columns of the request
  fields,      \* the fields of the schema
  pc,          \* which loop is at its head
  source,      \* columns done
  target,      \* fields done, of this column
  row,         \* characters of the longer name done
  cell,        \* characters of the shorter name done, of this row
  previous,    \* the row buffers, indices 0 .. Len(Shorter)
  current,
  best,        \* bestIndex (0 for none) and bestConfidence
  suggestions  \* source, target and confidence of each

request  == <<columns, fields>>
distance == <<row, cell, previous, current>>
vars     == <<request, pc, source, target, distance, best, suggestions>>

\* The loop of NormalizeName: what it writes for one character; of a run of
\* other characters one "_", and none at the start.
Write(name, c) ==
  IF Lower[c] \in Alnum THEN Append(name, Lower[c])
  ELSE IF name /= <<>> /\ Last(name) /= "_" THEN Append(name, "_")
  ELSE name

\* Written(value)[n]: what it has written after n characters.
Written(value) ==
  LET written[n \in 0 .. Len(value)] ==
        IF n = 0 THEN <<>> ELSE Write(written[n - 1], value[n])
  IN written

\* There is none at the end either.
NormalizeName(value) ==
  LET written == Written(value)[Len(value)]
  IN IF written /= <<>> /\ Last(written) = "_" THEN Front(written) ELSE written

Column(i) == NormalizeName(columns[i])
Field(i)  == NormalizeName(fields[i].name)

\* The names LevenshteinDistance compares, the shorter one as its columns.
Shorter ==
  IF Len(Column(source + 1)) > Len(Field(target + 1)) THEN Field(target + 1) ELSE Column(source + 1)
Longer ==
  IF Len(Column(source + 1)) > Len(Field(target + 1)) THEN Column(source + 1) ELSE Field(target + 1)

NoBest == [index |-> 0, confidence |-> <<0, 1>>]

Init ==
  /\ columns \in ColumnLists
  /\ fields \in FieldLists
  /\ pc = "column"
  /\ source = 0
  /\ target = 0
  /\ row = 0
  /\ cell = 0
  /\ previous = <<>>
  /\ current = <<>>
  /\ best = NoBest
  /\ suggestions = <<>>

-----------------------------------------------------------------------------
Goto(label) == pc' = label

\* A field is a candidate if it has an id and a name.
Candidate(i) == fields[i].id /= 0 /\ Field(i) /= <<>>

\* fuzzyConfidence
Confidence(d, length) == <<length - d, length>>

Exceeds(p, q) == p[1] * q[2] > q[1] * p[2]

-----------------------------------------------------------------------------
(* Slips: what a plausible mistake would make of a step.  Spec takes none.   *)

\* min3 never returns its last argument: nothing is substituted.
SlipCellValue(k) == Min({current[k - 1] + 1, previous[k] + 1})

\* The first cell of a row is not set: the buffer has it from the row before last.
SlipNextRow(filled) ==
  /\ previous' = [k \in DOMAIN filled |-> IF k = 0 THEN previous[0] ELSE filled[k]]
  /\ current' = previous
  /\ cell' = 0
  /\ row' = row + 1
  /\ Goto("row")

-----------------------------------------------------------------------------
(* LevenshteinDistance.                                                    *)

Cost(k) == IF Shorter[k] /= Longer[row + 1] THEN 1 ELSE 0

\* min3, for the cell after the k-th character of the shorter name.
CellValue(k) == Min({current[k - 1] + 1, previous[k] + 1, previous[k - 1] + Cost(k)})

StartRow ==
  /\ pc = "row" /\ row < Len(Longer)
  /\ current' = [current EXCEPT ![0] = row + 1]
  /\ Goto("cell")
  /\ UNCHANGED <<request, source, target, row, cell, previous, best, suggestions>>

\* previous, current = current, previous
NextRow(filled) ==
  /\ previous' = filled
  /\ current' = previous
  /\ cell' = 0
  /\ row' = row + 1
  /\ Goto("row")

FillCell ==
  /\ pc = "cell"
  /\ LET filled == [current EXCEPT ![cell + 1] = CellValue(cell + 1)] IN
       \/ cell + 1 = Len(Shorter) /\ NextRow(filled)
       \/ /\ cell + 1 < Len(Shorter)
          /\ current' = filled
          /\ cell' = cell + 1
          /\ UNCHANGED <<pc, row, previous>>
  /\ UNCHANGED <<request, source, target, best, suggestions>>

-----------------------------------------------------------------------------
(* SuggestResult.                                                          *)

\* The context is looked at before each column; an error drops everything.
StartColumn ==
  /\ pc = "column" /\ source < Len(columns)
  /\ Column(source + 1) /= <<>>
  /\ target' = 0 /\ best' = NoBest
  /\ Goto("field")
  /\ UNCHANGED <<request, source, distance, suggestions>>

SkipColumn ==
  /\ pc = "column" /\ source < Len(columns)
  /\ Column(source + 1) = <<>>
  /\ source' = source + 1
  /\ UNCHANGED <<request, pc, target, distance, best, suggestions>>

Cancelled ==
  /\ pc = "column" /\ source < Len(columns)
  /\ Goto("failed")
  /\ suggestions' = <<>>
  /\ UNCHANGED <<request, source, target, distance, best>>

StartField ==
  /\ pc = "field" /\ target < Len(fields)
  /\ Candidate(target + 1)
  /\ previous' = [k \in 0 .. Len(Shorter) |-> k]
  /\ current' = [k \in 0 .. Len(Shorter) |-> 0]
  /\ row' = 0 /\ cell' = 0
  /\ Goto("row")
  /\ UNCHANGED <<request, source, target, best, suggestions>>

SkipField ==
  /\ pc = "field" /\ target < Len(fields)
  /\ ~Candidate(target + 1)
  /\ target' = target + 1
  /\ UNCHANGED <<request, pc, source, distance, best, suggestions>>

Improves(d) ==
  best.index = 0 \/ Exceeds(Confidence(d, Len(Longer)), best.confidence)

Compare ==
  /\ pc = "row" /\ row = Len(Longer)
  /\ LET d == previous[Len(Shorter)] IN
       best' = IF Improves(d)
                 THEN [index |-> target + 1, confidence |-> Confidence(d, Len(Longer))]
                 ELSE best
  /\ target' = target + 1
  /\ Goto("field")
  /\ UNCHANGED <<request, source, distance, suggestions>>

EndColumn ==
  /\ pc = "field" /\ target = Len(fields)
  /\ suggestions' =
       IF best.index = 0 THEN suggestions
       ELSE Append(suggestions,
                   [source |-> source, target |-> fields[best.index].id,
                    confidence |-> best.confidence])
  /\ source' = source + 1
  /\ Goto("column")
  /\ UNCHANGED <<request, target, distance, best>>

Return ==
  /\ pc = "column" /\ source = Len(columns)
  /\ Goto("done")
  /\ UNCHANGED <<request, source, target, distance, best, suggestions>>

Terminated == pc \in {"done", "failed"} /\ UNCHANGED vars

Next ==
  \/ StartColumn \/ SkipColumn \/ Cancelled \/ EndColumn \/ Return
  \/ StartField \/ SkipField \/ Compare
  \/ StartRow \/ FillCell
  \/ Terminated

Spec == Init /\ [][Next]_vars

-----------------------------------------------------------------------------
(* The reference: the cheapest alignment of two names.                     *)

\* An alignment pairs characters of the two names without crossing.  Paired
\* characters that differ are substituted, the others deleted or inserted.
Alignments(m, n) ==
  {pairs \in SUBSET ((1 .. m) \X (1 .. n)) :
     \A p, q \in pairs : p /= q => (p[1] < q[1] /\ p[2] < q[2]) \/ (q[1] < p[1] /\ q[2] < p[2])}

AlignmentCost(s, t, m, n, pairs) ==
  m + n - 2 * Cardinality(pairs) + Cardinality({p \in pairs : s[p[1]] /= t[p[2]]})

\* Of the first m characters of s with the first n of t.
PrefixDistance(s, t, m, n) ==
  Min({AlignmentCost(s, t, m, n, pairs) : pairs \in Alignments(m, n)})

EditDistance(s, t) == PrefixDistance(s, t, Len(s), Len(t))

-----------------------------------------------------------------------------
(* Properties.                                                             *)

\* Every variable has its type; the buffers have a cell per prefix, and no
\* index leaves them.
TypeOK ==
  /\ columns \in ColumnLists /\ fields \in FieldLists
  /\ pc \in {"column", "field", "row", "cell", "done", "failed"}
  /\ source \in 0 .. Len(columns)
  /\ target \in 0 .. Len(fields)
  /\ pc \in {"row", "cell"} =>
       /\ row \in 0 .. Len(Longer)
       /\ cell \in 0 .. Len(Shorter)
       /\ previous \in [0 .. Len(Shorter) -> 0 .. Len(Longer)]
       /\ current \in [0 .. Len(Shorter) -> 0 .. Len(Longer)]
  /\ best.index \in 0 .. Len(fields)

\* The candidates for a column, and how close each is.
Candidates == {i \in DOMAIN fields : Candidate(i)}
Closeness(i, j) ==
  LET s == Column(i)
      t == Field(j)
  IN Confidence(EditDistance(s, t), Max({Len(s), Len(t)}))

\* A column that has a name gets the first of the candidates closest to it,
\* with that closeness, wherever column and field stand; others get nothing.
EachColumnItsClosest ==
  pc = "done" =>
    LET named == {i \in DOMAIN columns : Column(i) /= <<>> /\ Candidates /= {}} IN
    /\ {suggestions[n].source + 1 : n \in DOMAIN suggestions} = named
    /\ Len(suggestions) = Cardinality(named)
    /\ \A n \in DOMAIN suggestions :
         LET i == suggestions[n].source + 1
             first == CHOOSE j \in Candidates :
                        /\ \A k \in Candidates : ~Exceeds(Closeness(i, k), Closeness(i, j))
                        /\ \A k \in Candidates : k < j => Exceeds(Closeness(i, j), Closeness(i, k))
         IN /\ suggestions[n].target = fields[first].id
            /\ suggestions[n].confidence = Closeness(i, first)

=============================================================================
