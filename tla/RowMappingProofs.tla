--------------------------- MODULE RowMappingProofs ---------------------------
(***************************************************************************)
(* Proofs about RowMapping, for any names, fields, widths and sheets.      *)
(***************************************************************************)
EXTENDS RowMapping, FiniteSetTheorems, WellFoundedInduction, TLAPS

-----------------------------------------------------------------------------
(* Numbers and sequences.                                                  *)

LEMMA HasLeast ==
  ASSUME NEW S \in SUBSET Nat, S /= {}
  PROVE  \E n \in S : \A m \in S : n <= m
<1>1. PICK n \in S : \A m \in S : ~ (<<m, n>> \in OpToRel(<, Nat))
  BY NatLessThanWellFounded, WFMin
<1>2. \A m \in S : ~ (m < n)
  BY <1>1 DEF OpToRel
<1> QED
  BY <1>2

LEMMA HasGreatest ==
  ASSUME NEW S \in SUBSET Nat, S /= {}, NEW bound \in Nat, \A n \in S : n <= bound
  PROVE  \E n \in S : \A m \in S : m <= n
<1> DEFINE T == {t \in Nat : bound - t \in S}
<1>1. \A n \in S : bound - n \in T
  BY SMT
<1>2. T /= {}
  BY <1>1
<1>3. PICK t \in T : \A u \in T : t <= u
  BY <1>2, HasLeast
<1>4. \A m \in S : m <= bound - t
  BY <1>1, <1>3
<1> QED
  BY <1>4

LEMMA SeqElements ==
  ASSUME NEW S, NEW s \in Seq(S)
  PROVE  /\ DOMAIN s = 1 .. Len(s) /\ Len(s) \in Nat /\ DOMAIN s \in SUBSET Nat
         /\ \A i \in DOMAIN s : s[i] \in S
OBVIOUS

LEMMA SeqOfIsSeq ==
  ASSUME NEW S, NEW n \in Nat, NEW s \in SeqOf(S, n)
  PROVE  s \in Seq(S) /\ Len(s) \in 0 .. n /\ DOMAIN s = 1 .. Len(s)
BY DEF SeqOf

-----------------------------------------------------------------------------
(* ValidateMapping and CompilePlan.                                        *)

\* What the executor may rely on once a mapping was found valid.
Valid(fields, mappings, count) ==
  /\ \A i \in DOMAIN mappings :
       /\ mappings[i].source >= 0 /\ (count >= 0 => mappings[i].source < count)
       /\ \E f \in DOMAIN fields : fields[f].id = mappings[i].target
  /\ \A i, j \in DOMAIN mappings : mappings[i].target = mappings[j].target => i = j
  /\ \A f \in DOMAIN fields :
       fields[f].required => \E i \in DOMAIN mappings : mappings[i].target = fields[f].id

LEMMA MappingFacts ==
  ASSUME NEW mappings \in Seq(Mappings)
  PROVE  /\ DOMAIN mappings = 1 .. Len(mappings) /\ Len(mappings) \in Nat
         /\ \A i \in DOMAIN mappings : mappings[i].source \in Int
<1>1. \A i \in DOMAIN mappings : mappings[i] \in Mappings
  OBVIOUS
<1>2. \A m \in Mappings : m.source \in Int
  BY DEF Mappings
<1> QED
  BY <1>1, <1>2

LEMMA ValidationFinds ==
  ASSUME NEW fields, NEW mappings \in Seq(Mappings), NEW count \in Int,
         ValidateMapping(fields, mappings, count) = "none"
  PROVE  Valid(fields, mappings, count)
<1> DEFINE wrong == {i \in DOMAIN mappings : MappingError(fields, mappings, count, i) /= "none"}
<1>1. wrong = {}
  <2> SUFFICES ASSUME wrong /= {}
               PROVE  FALSE
    OBVIOUS
  <2>1. \E i \in wrong : \A j \in wrong : i <= j
    <3>1. wrong \in SUBSET Nat
      BY MappingFacts
    <3> HIDE DEF wrong
    <3> QED
      BY <3>1, HasLeast
  <2> DEFINE first == CHOOSE i \in wrong : \A j \in wrong : i <= j
  <2>2. first \in wrong
    BY <2>1
  <2>3. MappingError(fields, mappings, count, first) /= "none"
    BY <2>2
  <2> QED
    BY <2>3 DEF ValidateMapping
<1>2. \A i \in DOMAIN mappings : MappingError(fields, mappings, count, i) = "none"
  BY <1>1
<1>3. \A i \in DOMAIN mappings :
        /\ mappings[i].source >= 0 /\ (count >= 0 => mappings[i].source < count)
        /\ \E f \in DOMAIN fields : fields[f].id = mappings[i].target
        /\ \A j \in 1 .. i - 1 : mappings[j].target /= mappings[i].target
  <2> TAKE i \in DOMAIN mappings
  <2>1. mappings[i].source \in Int
    BY MappingFacts
  <2> QED
    BY <1>2, <2>1 DEF MappingError
<1>4. \A i, j \in DOMAIN mappings : mappings[i].target = mappings[j].target => i = j
  <2> TAKE i, j \in DOMAIN mappings
  <2>1. i = j \/ i \in 1 .. j - 1 \/ j \in 1 .. i - 1
    OBVIOUS
  <2> QED
    BY <1>3, <2>1
<1>5. \A f \in DOMAIN fields :
        fields[f].required => \E i \in DOMAIN mappings : mappings[i].target = fields[f].id
  BY <1>1 DEF ValidateMapping
<1> QED
  BY <1>3, <1>4, <1>5 DEF Valid

LEMMA SchemaFacts ==
  ASSUME NEW fields \in Schemas
  PROVE  /\ fields \in Seq(Fields) /\ fields /= <<>> /\ DOMAIN fields = 1 .. Len(fields)
         /\ \A i, j \in DOMAIN fields : fields[i].id = fields[j].id => i = j
BY SeqOfIsSeq, BoundsAssumption DEF Schemas

\* Each operation has the slot of its mapping's target, and no two have one.
Compiled(fields, mappings, ops) ==
  /\ DOMAIN ops = DOMAIN mappings
  /\ \A i \in DOMAIN ops :
       /\ ops[i].source = mappings[i].source /\ ops[i].source \in Nat
       /\ ops[i].slot \in DOMAIN fields
       /\ fields[ops[i].slot].id = mappings[i].target
  /\ \A i, j \in DOMAIN ops : ops[i].slot = ops[j].slot => i = j

LEMMA CompilationFits ==
  ASSUME NEW fields \in Schemas, NEW mappings \in Seq(Mappings), NEW count \in Int,
         Valid(fields, mappings, count)
  PROVE  /\ Compiled(fields, mappings, CompilePlan(fields, mappings))
         /\ CompilePlan(fields, mappings) \in Seq([source : Nat, slot : DOMAIN fields])
<1> DEFINE ops == CompilePlan(fields, mappings)
<1>1. DOMAIN ops = 1 .. Len(mappings) /\ DOMAIN mappings = 1 .. Len(mappings)
  BY DEF CompilePlan
<1>2. ASSUME NEW i \in DOMAIN mappings
      PROVE  /\ ops[i] = [source |-> mappings[i].source, slot |-> ops[i].slot]
             /\ ops[i].source = mappings[i].source /\ ops[i].source \in Nat
             /\ ops[i].slot \in DOMAIN fields
             /\ fields[ops[i].slot].id = mappings[i].target
  <2> DEFINE slot == CHOOSE f \in DOMAIN fields : fields[f].id = mappings[i].target
  <2>1. slot \in DOMAIN fields /\ fields[slot].id = mappings[i].target
    BY DEF Valid
  <2>2. ops[i] = [source |-> mappings[i].source, slot |-> slot]
    BY DEF CompilePlan, Operation
  <2>3. mappings[i].source \in Nat
    BY MappingFacts DEF Valid
  <2> HIDE DEF slot, ops
  <2> QED
    BY <2>1, <2>2, <2>3
<1>3. \A i, j \in DOMAIN ops : ops[i].slot = ops[j].slot => i = j
  BY <1>1, <1>2 DEF Valid
<1>4. ops \in Seq([source : Nat, slot : DOMAIN fields])
  <2>1. ops = [i \in 1 .. Len(mappings) |-> ops[i]]
    BY <1>1 DEF CompilePlan
  <2>2. ASSUME NEW i \in 1 .. Len(mappings)
        PROVE  ops[i] \in [source : Nat, slot : DOMAIN fields]
    BY <1>1, <1>2
  <2>3. Len(mappings) \in Nat
    OBVIOUS
  <2> HIDE DEF ops
  <2> QED
    BY <2>1, <2>2, <2>3
<1> QED
  BY <1>1, <1>2, <1>3, <1>4 DEF Compiled

-----------------------------------------------------------------------------
(* The cells of a row.                                                     *)

\* A cell has a place in the file, unless it is empty.
Cells == {cell \in [pos : Nat, kind : Kinds] : cell.kind /= "empty" => cell.pos /= 0}

LEMMA BlankIsCell == Blank \in Cells
BY DEF Blank, Cells, Kinds

\* The last column of a name.
LEMMA LastExists ==
  ASSUME NEW header \in Seq(Names), NEW name \in {header[i] : i \in DOMAIN header}
  PROVE  \E i \in DOMAIN header :
           header[i] = name /\ \A j \in DOMAIN header : header[j] = name => j <= i
<1> DEFINE same == {i \in DOMAIN header : header[i] = name}
<1>1. same \in SUBSET Nat /\ same /= {} /\ Len(header) \in Nat
  OBVIOUS
<1>2. \A i \in same : i <= Len(header)
  OBVIOUS
<1>3. \E i \in same : \A j \in same : j <= i
  <2> HIDE DEF same
  <2> QED
    BY <1>1, <1>2, HasGreatest
<1> QED
  BY <1>3

LEMMA RowValuesAreCells ==
  ASSUME NEW header \in Seq(Names), NEW cells \in Seq(Kinds)
  PROVE  RowValues(header, cells) \in [{header[i] : i \in DOMAIN header} -> Cells]
<1> DEFINE names == {header[i] : i \in DOMAIN header}
<1> DEFINE last(name) ==
      CHOOSE i \in DOMAIN header :
        header[i] = name /\ \A j \in DOMAIN header : header[j] = name => j <= i
<1> DEFINE cell(name) ==
      IF last(name) <= Len(cells) THEN [pos |-> last(name), kind |-> cells[last(name)]] ELSE Blank
<1>1. RowValues(header, cells) = [name \in names |-> cell(name)]
  BY DEF RowValues
<1>2. ASSUME NEW name \in names
      PROVE  cell(name) \in Cells
  <2>1. last(name) \in DOMAIN header
    BY LastExists
  <2>2. last(name) \in Nat /\ last(name) >= 1
    BY <2>1
  <2> HIDE DEF last
  <2>3. CASE last(name) <= Len(cells)
    <3>1. cells[last(name)] \in Kinds
      BY <2>2, <2>3
    <3> QED
      BY <2>2, <2>3, <3>1 DEF Cells
  <2> QED
    BY <2>3, BlankIsCell
<1> HIDE DEF names, cell
<1> QED
  BY <1>1, <1>2 DEF names

LEMMA CellSequence ==
  ASSUME NEW n \in Nat, NEW source, source = [i \in 1 .. n |-> source[i]],
         \A i \in 1 .. n : source[i] \in Cells
  PROVE  source \in Seq(Cells)
OBVIOUS

LEMMA ByIndexIsCells ==
  ASSUME NEW values, DOMAIN values \in SUBSET Names, values \in [DOMAIN values -> Cells],
         \A name \in DOMAIN values : SourceKey[name] /= -1,
         NEW source \in ByIndex(values)
  PROVE  source \in Seq(Cells)
<1> DEFINE spelt == {SourceKey[name] : name \in DOMAIN values}
<1> DEFINE widths == {k + 1 : k \in {k \in spelt : \A j \in spelt : j <= k}}
           chosen == {c \in [spelt -> DOMAIN values] : \A k \in spelt : SourceKey[c[k]] = k}
           cellsOf(width, c) ==
             [i \in 1 .. width |-> IF i - 1 \in spelt THEN values[c[i - 1]] ELSE Blank]
<1>1. ByIndex(values) = UNION {{cellsOf(width, c) : c \in chosen} : width \in widths}
  BY DEF ByIndex
<1>2. PICK width \in widths, c \in [spelt -> DOMAIN values] : source = cellsOf(width, c)
  <2> HIDE DEF spelt, widths, cellsOf
  <2> QED
    BY <1>1
<1>3. width \in Nat
  <2>1. \A k \in spelt : k \in Nat
    BY SourceKeyAssumption
  <2> HIDE DEF spelt
  <2> QED
    BY <2>1
<1> HIDE DEF spelt, widths
<1>4. \A i \in 1 .. width : source[i] \in Cells
  BY <1>2, <1>3, BlankIsCell
<1>5. source = [i \in 1 .. width |-> source[i]]
  BY <1>2
<1> QED
  BY <1>3, <1>4, <1>5, CellSequence

LEMMA ByNameIsCells ==
  ASSUME NEW values, DOMAIN values \in SUBSET Names, values \in [DOMAIN values -> Cells],
         NEW source \in ByName(values)
  PROVE  source \in Seq(Cells)
<1> DEFINE count == Cardinality(DOMAIN values)
<1>1. count \in Nat
  BY NamesAssumption, FS_Subset, FS_CardinalityType
<1>2. PICK order \in [1 .. count -> DOMAIN values] :
        source = [i \in 1 .. count |-> values[order[i]]]
  BY DEF ByName
<1> HIDE DEF count
<1>3. \A i \in 1 .. count : source[i] \in Cells
  BY <1>2
<1>4. source = [i \in 1 .. count |-> source[i]]
  BY <1>2
<1> QED
  BY <1>1, <1>3, <1>4, CellSequence

LEMMA SourceValuesAreCells ==
  ASSUME NEW values, DOMAIN values \in SUBSET Names, values \in [DOMAIN values -> Cells],
         NEW source \in SourceValues(values)
  PROVE  source \in Seq(Cells)
<1>1. CASE source = <<>>
  BY <1>1
<1>2. CASE /\ \A name \in DOMAIN values : SourceKey[name] /= -1
           /\ source \in ByIndex(values)
  BY <1>2, ByIndexIsCells
<1>3. CASE source \in ByName(values)
  BY <1>3, ByNameIsCells
<1> QED
  BY <1>1, <1>2, <1>3 DEF SourceValues

LEMMA SourceIsCells ==
  ASSUME NEW header \in Seq(Names), NEW cells \in Seq(Kinds), NEW cols \in Seq(Names),
         NEW source \in SourceValuesWithColumns(RowValues(header, cells), cols)
  PROVE  source \in Seq(Cells)
<1> DEFINE names == {header[i] : i \in DOMAIN header}
           values == RowValues(header, cells)
<1>1. \A i \in DOMAIN header : header[i] \in Names
  OBVIOUS
<1>2. values \in [names -> Cells] /\ names \in SUBSET Names
  BY <1>1, RowValuesAreCells
<1>3. CASE source \in SourceValues(values)
  <2> HIDE DEF names, values
  <2> QED
    BY <1>2, <1>3, SourceValuesAreCells
<1>4. CASE source = [i \in DOMAIN cols |->
                       IF cols[i] \in DOMAIN values THEN values[cols[i]] ELSE Blank]
  <2>1. Len(cols) \in Nat /\ DOMAIN cols = 1 .. Len(cols)
    OBVIOUS
  <2> HIDE DEF names, values
  <2>2. \A i \in 1 .. Len(cols) : source[i] \in Cells
    BY <1>2, <1>4, <2>1, BlankIsCell
  <2>3. source = [i \in 1 .. Len(cols) |-> source[i]]
    BY <1>4, <2>1
  <2> QED
    BY <2>1, <2>2, <2>3, CellSequence
<1> QED
  BY <1>3, <1>4 DEF SourceValuesWithColumns

\* If the columns are the header and no name is repeated, the i-th cell is the
\* one in the i-th column.
LEMMA AlignedCells ==
  ASSUME NEW cols \in Seq(Names), cols /= <<>>, IsInjective(cols), NEW cells \in Seq(Kinds),
         NEW source \in SourceValuesWithColumns(RowValues(cols, cells), cols)
  PROVE  /\ DOMAIN source = DOMAIN cols
         /\ \A i \in DOMAIN cols :
              source[i] = IF i <= Len(cells) THEN [pos |-> i, kind |-> cells[i]] ELSE Blank
<1> DEFINE values == RowValues(cols, cells)
<1>1. DOMAIN values = {cols[j] : j \in DOMAIN cols}
  BY DEF RowValues
<1>2. ASSUME NEW i \in DOMAIN cols
      PROVE  values[cols[i]] = IF i <= Len(cells) THEN [pos |-> i, kind |-> cells[i]] ELSE Blank
  <2>1. (CHOOSE k \in DOMAIN cols :
           cols[k] = cols[i] /\ \A j \in DOMAIN cols : cols[j] = cols[i] => j <= k) = i
    BY DEF IsInjective
  <2> QED
    BY <2>1 DEF RowValues
<1>3. source = [i \in DOMAIN cols |->
                  IF cols[i] \in DOMAIN values THEN values[cols[i]] ELSE Blank]
  <2>1. \E i \in DOMAIN cols : cols[i] \in DOMAIN values
    <3>1. 1 \in DOMAIN cols
      OBVIOUS
    <3> QED
      BY <1>1, <3>1
  <2> HIDE DEF values
  <2> QED
    BY <2>1 DEF SourceValuesWithColumns, values
<1> HIDE DEF values
<1> QED
  BY <1>1, <1>2, <1>3

-----------------------------------------------------------------------------
(* Execute.                                                                *)

\* An accepted row passed every operation.
LEMMA AcceptedHasNoError ==
  ASSUME NEW fields, NEW ops, NEW source, DOMAIN ops \in SUBSET Nat,
         Execute(fields, ops, source).code = "none",
         NEW k \in DOMAIN ops
  PROVE  OpError(fields, ops[k], source) = "none"
<1> DEFINE failed == {i \in DOMAIN ops : OpError(fields, ops[i], source) /= "none"}
<1> SUFFICES ASSUME k \in failed
             PROVE  FALSE
  OBVIOUS
<1>1. \E i \in failed : \A j \in failed : i <= j
  <2>1. failed \in SUBSET Nat /\ failed /= {}
    OBVIOUS
  <2> HIDE DEF failed
  <2> QED
    BY <2>1, HasLeast
<1> DEFINE first == CHOOSE i \in failed : \A j \in failed : i <= j
<1>2. first \in failed
  BY <1>1
<1>3. OpError(fields, ops[first], source) /= "none"
  BY <1>2
<1>4. Execute(fields, ops, source).code = OpError(fields, ops[first], source)
  BY DEF Execute
<1> QED
  BY <1>3, <1>4

LEMMA AcceptedRecord ==
  ASSUME NEW fields, NEW ops, NEW source, DOMAIN ops \in SUBSET Nat,
         Execute(fields, ops, source).code = "none"
  PROVE  Execute(fields, ops, source).record =
           [slot \in DOMAIN fields |-> SlotValue(ops, source, slot)]
<1>1. {i \in DOMAIN ops : OpError(fields, ops[i], source) /= "none"} = {}
  BY AcceptedHasNoError
<1> QED
  BY <1>1 DEF Execute

\* The value in a slot is that of the operation for it.
LEMMA SlotHasItsCell ==
  ASSUME NEW fields, NEW ops, NEW source, DOMAIN ops \in SUBSET Nat,
         \A i, j \in DOMAIN ops : ops[i].slot = ops[j].slot => i = j,
         Execute(fields, ops, source).code = "none",
         NEW i \in DOMAIN ops, ops[i].slot \in DOMAIN fields
  PROVE  Execute(fields, ops, source).record[ops[i].slot] = Value(source[ops[i].source + 1])
<1>1. (CHOOSE j \in DOMAIN ops : ops[j].slot = ops[i].slot) = i
  OBVIOUS
<1>2. SlotValue(ops, source, ops[i].slot) = Value(source[ops[i].source + 1])
  BY <1>1 DEF SlotValue
<1>3. Execute(fields, ops, source).record = [slot \in DOMAIN fields |-> SlotValue(ops, source, slot)]
  BY AcceptedRecord
<1> QED
  BY <1>2, <1>3

\* An operation that found no error has a cell, and its value.
LEMMA OperationHasCell ==
  ASSUME NEW fields, NEW op \in [source : Nat, slot : DOMAIN fields], NEW source \in Seq(Cells),
         OpError(fields, op, source) = "none"
  PROVE  LET cell == source[op.source + 1] IN
           /\ op.source + 1 \in DOMAIN source /\ cell \in Cells
           /\ fields[op.slot].required => cell.kind /= "empty"
           /\ cell.kind = "bad" => fields[op.slot].type = "string"
           /\ Value(cell) \in Nat
           /\ cell.kind /= "empty" => Value(cell) = cell.pos /\ Value(cell) /= 0
<1>1. op.source < Len(source) /\ op.source \in Nat /\ Len(source) \in Nat
  BY DEF OpError
<1>2. op.source + 1 \in DOMAIN source /\ source[op.source + 1] \in Cells
  BY <1>1
<1>3. ASSUME NEW cell \in Cells
      PROVE  Value(cell) \in Nat /\ (cell.kind /= "empty" => Value(cell) = cell.pos /\ Value(cell) /= 0)
  BY DEF Cells, Value
<1>4. /\ fields[op.slot].required => source[op.source + 1].kind /= "empty"
      /\ source[op.source + 1].kind = "bad" => fields[op.slot].type = "string"
  BY <1>1 DEF OpError
<1> QED
  BY <1>2, <1>3, <1>4

LEMMA ExecuteIsTyped ==
  ASSUME NEW fields, NEW n \in Nat, DOMAIN fields = 1 .. n,
         NEW ops \in Seq([source : Nat, slot : DOMAIN fields]), NEW source \in Seq(Cells)
  PROVE  /\ Execute(fields, ops, source).code \in Codes \ {"pending"}
         /\ Execute(fields, ops, source).record \in Seq(Nat)
         /\ Execute(fields, ops, source).code = "none" =>
              Len(Execute(fields, ops, source).record) = n
<1> DEFINE e == Execute(fields, ops, source)
<1>1. \A op : OpError(fields, op, source) \in Codes \ {"pending"}
  BY DEF OpError, Codes
<1>2. \/ e.record = <<>> /\ e.code \in Codes \ {"pending"}
      \/ e.code = "none"
  BY <1>1, Zenon DEF Execute
<1>3. ASSUME e.code = "none"
      PROVE  e.code \in Codes \ {"pending"} /\ e.record \in Seq(Nat) /\ Len(e.record) = n
  <2> DOMAIN ops \in SUBSET Nat
    OBVIOUS
  <2>1. \A i \in DOMAIN ops : OpError(fields, ops[i], source) = "none"
    BY <1>3, AcceptedHasNoError
  <2>2. e.record = [slot \in DOMAIN fields |-> SlotValue(ops, source, slot)]
    BY <1>3, AcceptedRecord
  <2>3. \A i \in DOMAIN ops : ops[i] \in [source : Nat, slot : DOMAIN fields]
    BY SeqElements
  <2>4. \A slot : SlotValue(ops, source, slot) \in Nat
    <3> TAKE slot
    <3>1. CASE \E i \in DOMAIN ops : ops[i].slot = slot
      <4> DEFINE first == CHOOSE i \in DOMAIN ops : ops[i].slot = slot
      <4>1. first \in DOMAIN ops
        BY <3>1
      <4>2. ops[first] \in [source : Nat, slot : DOMAIN fields]
        BY <2>3, <4>1
      <4>3. OpError(fields, ops[first], source) = "none"
        BY <2>1, <4>1
      <4>4. Value(source[ops[first].source + 1]) \in Nat
        <5> HIDE DEF first
        <5> QED
          BY <4>2, <4>3, OperationHasCell
      <4> QED
        BY <3>1, <4>4 DEF SlotValue
    <3>2. CASE ~ \E i \in DOMAIN ops : ops[i].slot = slot
      BY <3>2 DEF SlotValue
    <3> QED
      BY <3>1, <3>2
  <2>5. e.record = [slot \in 1 .. n |-> SlotValue(ops, source, slot)]
    BY <2>2
  <2> QED
    BY <1>3, <2>4, <2>5 DEF Codes
<1>4. <<>> \in Seq(Nat) /\ "none" \in Codes
  BY DEF Codes
<1> QED
  <2> HIDE DEF e
  <2>1. e.code \in Codes \ {"pending"} /\ e.record \in Seq(Nat)
    BY <1>2, <1>3, <1>4
  <2> QED
    BY <2>1, <1>3 DEF e

-----------------------------------------------------------------------------
(* The inductive invariant.                                                *)

Count == IF columns = <<>> THEN -1 ELSE Len(columns)

\* What the request and the deployment bring.
Given ==
  /\ seekable \in BOOLEAN /\ schema \in Schemas
  /\ request \in [sheet : AskedSheets, mappings : Seq(Mappings)]
  /\ pc \in {"open", "compile", "rows", "failed"}

\* The columns are the header of the sheet the request names; the first sheet
\* is opened.
HeadersKnown ==
  /\ headers \in Seq(Headers) /\ opened \in 0 .. Len(headers) /\ columns \in Seq(Names)
  /\ pc = "open" => columns = <<>>
  /\ pc \in {"compile", "rows"} => opened = 1
  /\ columns /= <<>> => request.sheet \in 0 .. Len(headers) - 1 /\ columns = headers[request.sheet + 1]

\* Rows are read with a plan compiled from a valid mapping.
PlanFits ==
  IF pc = "rows"
    THEN Valid(schema, request.mappings, Count) /\ plan = CompilePlan(schema, request.mappings)
    ELSE plan = <<>>

\* What the last row became is what the plan makes of its cells.
OutcomeFits ==
  IF outcome = Pending THEN row = <<>>
  ELSE /\ pc = "rows" /\ row \in Seq(Kinds)
       /\ \E source \in SourceValuesWithColumns(RowValues(headers[1], row), columns) :
            outcome = Execute(schema, plan, source)

IInv == Given /\ HeadersKnown /\ PlanFits /\ OutcomeFits

LEMMA CountIsInt == IInv => Count \in Int
BY DEF IInv, HeadersKnown, Count

LEMMA PlanIsTyped ==
  ASSUME IInv
  PROVE  plan \in Seq([source : Nat, slot : DOMAIN schema])
<1>1. CASE pc = "rows"
  BY <1>1, CountIsInt, CompilationFits DEF IInv, Given, PlanFits
<1>2. CASE pc /= "rows"
  BY <1>2 DEF IInv, PlanFits
<1> QED
  BY <1>1, <1>2

LEMMA InitEstablishes == Init => IInv
<1> SUFFICES ASSUME Init
             PROVE  IInv
  OBVIOUS
<1>1. request \in [sheet : AskedSheets, mappings : Seq(Mappings)]
  <2>1. SeqOf(Mappings, MaxWidth) \subseteq Seq(Mappings)
    BY SeqOfIsSeq, BoundsAssumption
  <2>2. request \in [sheet : AskedSheets, mappings : SeqOf(Mappings, MaxWidth)]
    BY DEF Init
  <2> QED
    BY <2>1, <2>2
<1> QED
  BY <1>1 DEF Init, IInv, Given, HeadersKnown, PlanFits, OutcomeFits

LEMMA HeaderIsNames == Headers \subseteq Seq(Names) \ {<<>>}
BY SeqOfIsSeq, BoundsAssumption DEF Headers

LEMMA OpenKeeps ==
  ASSUME IInv, Open
  PROVE  IInv'
<1>1. /\ pc = "open" /\ pc' \in {"compile", "failed"}
      /\ UNCHANGED <<seekable, schema, request, plan, row, outcome>>
  BY DEF Open, Fail
<1>2. headers' \in Seq(Headers) /\ headers' /= <<>> /\ Len(headers') \in Nat
  <2>1. headers' \in SeqOf(Headers, MaxSheets) /\ headers' /= <<>>
    BY DEF Open
  <2> QED
    BY <2>1, SeqOfIsSeq, BoundsAssumption
<1>3. opened' = 1 /\ opened' \in 0 .. Len(headers')
  BY <1>2 DEF Open
<1>4. CASE UNCHANGED columns
  BY <1>1, <1>2, <1>3, <1>4 DEF IInv, Given, HeadersKnown, PlanFits, OutcomeFits
<1>5. CASE /\ request.sheet \in 0 .. Len(headers') - 1
           /\ columns' = headers'[request.sheet + 1]
  <2>1. columns' \in Headers
    BY <1>2, <1>5
  <2> QED
    BY <1>1, <1>2, <1>3, <1>5, <2>1, HeaderIsNames DEF IInv, Given, HeadersKnown, PlanFits, OutcomeFits
<1> QED
  BY <1>4, <1>5 DEF Open

LEMMA CompileKeeps ==
  ASSUME IInv, Compile
  PROVE  IInv'
<1>1. /\ pc = "compile" /\ pc' \in {"rows", "failed"}
      /\ UNCHANGED <<seekable, schema, request, headers, opened, columns, row, outcome>>
  BY DEF Compile, Fail
<1>2. Count \in Int /\ Count' = Count
  BY <1>1 DEF IInv, HeadersKnown, Count
<1>3. PlanFits'
  <2>1. CASE Fail
    BY <1>1, <2>1 DEF Fail, IInv, PlanFits
  <2>2. CASE /\ ValidateMapping(schema, request.mappings, Count) = "none"
             /\ plan' = CompilePlan(schema, request.mappings)
             /\ pc' = "rows"
    <3>1. Valid(schema, request.mappings, Count)
      BY <1>2, <2>2, ValidationFinds DEF IInv, Given
    <3> QED
      BY <1>1, <1>2, <2>2, <3>1 DEF PlanFits
  <2> QED
    BY <2>1, <2>2 DEF Compile, Count
<1> QED
  BY <1>1, <1>3 DEF IInv, Given, HeadersKnown, PlanFits, OutcomeFits

LEMMA RowKeeps ==
  ASSUME IInv, Row
  PROVE  IInv'
<1>1. /\ pc = "rows" /\ opened = 1
      /\ UNCHANGED <<seekable, schema, request, headers, opened, columns, plan, pc>>
  BY DEF Row, IInv, HeadersKnown
<1>2. row' \in Seq(Kinds)
  BY SeqOfIsSeq, BoundsAssumption DEF Row, Rows
<1>3. PICK source \in SourceValuesWithColumns(RowValues(headers[1], row'), columns) :
        outcome' = Execute(schema, plan, source)
  BY <1>1 DEF Row
<1>4. outcome' /= Pending
  <2>1. headers[1] \in Seq(Names)
    BY <1>1, HeaderIsNames DEF IInv, HeadersKnown
  <2>2. source \in Seq(Cells)
    BY <1>2, <2>1, SourceIsCells DEF IInv, HeadersKnown
  <2>3. plan \in Seq([source : Nat, slot : DOMAIN schema])
    BY <1>1, PlanIsTyped
  <2>4. DOMAIN schema = 1 .. Len(schema) /\ Len(schema) \in Nat
    BY SchemaFacts DEF IInv, Given
  <2>5. outcome'.code /= "pending"
    BY <1>3, <2>2, <2>3, <2>4, ExecuteIsTyped
  <2> QED
    BY <2>5 DEF Pending
<1> QED
  BY <1>1, <1>2, <1>3, <1>4 DEF IInv, Given, HeadersKnown, PlanFits, OutcomeFits, Count

LEMMA HandledKeeps ==
  ASSUME IInv, Handled
  PROVE  IInv'
BY DEF Handled, IInv, Given, HeadersKnown, PlanFits, OutcomeFits, Count

LEMMA Invariance == Spec => []IInv
<1>1. IInv /\ [Next]_vars => IInv'
  <2> SUFFICES ASSUME IInv, [Next]_vars
               PROVE  IInv'
    OBVIOUS
  <2>1. CASE UNCHANGED vars
    BY <2>1 DEF vars, IInv, Given, HeadersKnown, PlanFits, OutcomeFits, Count
  <2> QED
    BY <2>1, OpenKeeps, CompileKeeps, RowKeeps, HandledKeeps DEF Next, Failed
<1> QED
  BY <1>1, InitEstablishes, PTL DEF Spec

-----------------------------------------------------------------------------
(* The theorems.                                                           *)

\* What the last row became, with what the lemmas need to know of it.
LEMMA OutcomeFacts ==
  ASSUME IInv, outcome /= Pending
  PROVE  /\ pc = "rows" /\ plan \in Seq([source : Nat, slot : DOMAIN schema])
         /\ headers[1] \in Seq(Names) /\ row \in Seq(Kinds) /\ opened = 1
         /\ Valid(schema, request.mappings, Count) /\ Compiled(schema, request.mappings, plan)
         /\ \E source \in SourceValuesWithColumns(RowValues(headers[1], row), columns) :
              source \in Seq(Cells) /\ outcome = Execute(schema, plan, source)
<1>1. pc = "rows" /\ opened = 1 /\ row \in Seq(Kinds)
  BY DEF IInv, HeadersKnown, OutcomeFits
<1>2. headers[1] \in Seq(Names)
  BY <1>1, HeaderIsNames DEF IInv, HeadersKnown
<1>3. Valid(schema, request.mappings, Count) /\ plan = CompilePlan(schema, request.mappings)
  BY <1>1 DEF IInv, PlanFits
<1>4. Compiled(schema, request.mappings, plan)
  BY <1>3, CountIsInt, CompilationFits DEF IInv, Given
<1>5. PICK source \in SourceValuesWithColumns(RowValues(headers[1], row), columns) :
        outcome = Execute(schema, plan, source)
  BY DEF IInv, OutcomeFits
<1>6. source \in Seq(Cells)
  BY <1>1, <1>2, SourceIsCells DEF IInv, HeadersKnown
<1> QED
  BY <1>1, <1>2, <1>3, <1>4, <1>5, <1>6, PlanIsTyped

\* Every variable has its type.
THEOREM TypeCorrect == Spec => []TypeOK
<1>1. IInv => TypeOK
  <2> SUFFICES ASSUME IInv
               PROVE  TypeOK
    OBVIOUS
  <2>1. outcome.code \in Codes /\ outcome.record \in Seq(Nat) /\ row \in Seq(Kinds)
    <3>1. CASE outcome = Pending
      BY <3>1 DEF IInv, OutcomeFits, Pending, Codes
    <3>2. CASE outcome /= Pending
      <4>1. DOMAIN schema = 1 .. Len(schema) /\ Len(schema) \in Nat
        BY SchemaFacts DEF IInv, Given
      <4> QED
        BY <3>2, <4>1, OutcomeFacts, ExecuteIsTyped
    <3> QED
      BY <3>1, <3>2
  <2> QED
    BY <2>1, PlanIsTyped DEF TypeOK, IInv, Given, HeadersKnown
<1> QED
  BY <1>1, Invariance, PTL

\* Execute never hands the processor a record whose required slot is nil,
\* whatever the row, the mapping and the headers.
THEOREM RequiredIsThere == Spec => []RequiredNeverNil
<1>1. IInv => RequiredNeverNil
  <2> SUFFICES ASSUME IInv, Accepted
               PROVE  /\ Len(outcome.record) = Len(schema)
                      /\ \A slot \in DOMAIN schema :
                           schema[slot].required => outcome.record[slot] /= 0
    BY DEF RequiredNeverNil
  <2>1. outcome /= Pending /\ outcome.code = "none"
    BY DEF Accepted, Pending
  <2>2. PICK source \in Seq(Cells) : outcome = Execute(schema, plan, source)
    BY <2>1, OutcomeFacts
  <2>3. DOMAIN schema = 1 .. Len(schema) /\ Len(schema) \in Nat
    BY SchemaFacts DEF IInv, Given
  <2>4. plan \in Seq([source : Nat, slot : DOMAIN schema]) /\ DOMAIN plan \in SUBSET Nat
    BY PlanIsTyped
  <2>5. Len(outcome.record) = Len(schema)
    BY <2>1, <2>2, <2>3, <2>4, ExecuteIsTyped
  <2>6. ASSUME NEW slot \in DOMAIN schema, schema[slot].required
        PROVE  outcome.record[slot] /= 0
    <3>1. PICK i \in DOMAIN request.mappings : request.mappings[i].target = schema[slot].id
      BY <2>1, <2>6, OutcomeFacts DEF Valid
    <3>2. Compiled(schema, request.mappings, plan)
      BY <2>1, OutcomeFacts
    <3>3. /\ i \in DOMAIN plan /\ plan[i].slot \in DOMAIN schema
          /\ schema[plan[i].slot].id = schema[slot].id
      BY <3>1, <3>2 DEF Compiled
    <3>4. plan[i].slot = slot
      BY <3>3, SchemaFacts DEF IInv, Given
    <3>5. plan[i] \in [source : Nat, slot : DOMAIN schema]
      BY <2>4, <3>3, SeqElements
    <3>6. Execute(schema, plan, source).code = "none" /\ outcome.record = Execute(schema, plan, source).record
      BY <2>1, <2>2
    <3>7. \A j, k \in DOMAIN plan : plan[j].slot = plan[k].slot => j = k
      BY <3>2 DEF Compiled
    <3>8. outcome.record[slot] = Value(source[plan[i].source + 1])
      BY <2>4, <3>3, <3>4, <3>6, <3>7, SlotHasItsCell
    <3>9. OpError(schema, plan[i], source) = "none"
      BY <2>4, <3>3, <3>6, AcceptedHasNoError
    <3> QED
      BY <2>6, <3>4, <3>5, <3>8, <3>9, OperationHasCell
  <2> QED
    BY <2>5, <2>6
<1> QED
  BY <1>1, Invariance, PTL

\* The cells a row gives the plan, if the client saw the columns they are in.
LEMMA AlignedRow ==
  ASSUME IInv, outcome /= Pending, Aligned
  PROVE  \E source \in Seq(Cells) :
           /\ outcome = Execute(schema, plan, source)
           /\ \A i \in DOMAIN request.mappings :
                LET at == request.mappings[i].source + 1 IN
                  /\ at \in 1 .. Len(source) /\ source[at].kind = CellOf(i)
                  /\ Value(source[at]) = IF CellOf(i) = "empty" THEN 0 ELSE at
<1>1. columns = headers[1] /\ columns \in Seq(Names) /\ columns /= <<>> /\ IsInjective(columns)
  BY DEF Aligned, IInv, HeadersKnown
<1>2. PICK source \in SourceValuesWithColumns(RowValues(columns, row), columns) :
        source \in Seq(Cells) /\ outcome = Execute(schema, plan, source)
  BY <1>1, OutcomeFacts
<1>3. row \in Seq(Kinds)
  BY OutcomeFacts
<1>4. /\ DOMAIN source = DOMAIN columns
      /\ \A i \in DOMAIN columns :
           source[i] = IF i <= Len(row) THEN [pos |-> i, kind |-> row[i]] ELSE Blank
  BY <1>1, <1>2, <1>3, AlignedCells
<1>5. ASSUME NEW i \in DOMAIN request.mappings
      PROVE  LET at == request.mappings[i].source + 1 IN
               /\ at \in 1 .. Len(source) /\ source[at].kind = CellOf(i)
               /\ Value(source[at]) = IF CellOf(i) = "empty" THEN 0 ELSE at
  <2> DEFINE at == request.mappings[i].source + 1
  <2>1. request.mappings[i].source \in Int /\ Len(columns) \in Nat
    BY <1>1, MappingFacts DEF IInv, Given
  <2>2. request.mappings[i].source >= 0 /\ request.mappings[i].source < Len(columns)
    BY <1>1, <2>1, OutcomeFacts DEF Valid, Count
  <2>3. at \in DOMAIN columns /\ at \in Nat /\ at /= 0
    BY <1>1, <2>1, <2>2
  <2>4. at \in 1 .. Len(source)
    BY <1>2, <1>4, <2>3
  <2>5. source[at].kind = CellOf(i)
    BY <1>4, <2>3 DEF CellOf, Blank
  <2>6. CellOf(i) /= "empty" => source[at].pos = at
    BY <1>4, <2>3 DEF CellOf
  <2> HIDE DEF at
  <2>7. Value(source[at]) = IF CellOf(i) = "empty" THEN 0 ELSE at
    BY <2>5, <2>6 DEF Value
  <2> QED
    BY <2>4, <2>5, <2>7 DEF at
<1> QED
  BY <1>2, <1>5

\* An accepted record has in each slot the cell of the column that the mapping
\* of its target names, whatever the header, if the client saw that header.
THEOREM CellsAreTheColumns == Spec => []CellsComeFromTheirColumn
<1>1. IInv => CellsComeFromTheirColumn
  <2> SUFFICES ASSUME IInv, Accepted, Aligned, NEW slot \in DOMAIN schema
               PROVE  \/ \E i \in DOMAIN request.mappings :
                           /\ request.mappings[i].target = schema[slot].id
                           /\ outcome.record[slot] =
                                IF CellOf(i) = "empty" THEN 0 ELSE request.mappings[i].source + 1
                      \/ /\ \A i \in DOMAIN request.mappings :
                              request.mappings[i].target /= schema[slot].id
                         /\ outcome.record[slot] = 0
    BY DEF CellsComeFromTheirColumn
  <2>1. outcome /= Pending /\ outcome.code = "none"
    BY DEF Accepted, Pending
  <2>2. PICK source \in Seq(Cells) :
          /\ outcome = Execute(schema, plan, source)
          /\ \A i \in DOMAIN request.mappings :
               LET at == request.mappings[i].source + 1 IN
                 /\ at \in 1 .. Len(source) /\ source[at].kind = CellOf(i)
                 /\ Value(source[at]) = IF CellOf(i) = "empty" THEN 0 ELSE at
    BY <2>1, AlignedRow
  <2>3. Compiled(schema, request.mappings, plan) /\ DOMAIN plan \in SUBSET Nat
    BY <2>1, OutcomeFacts, SeqElements
  <2>4. \A i, j \in DOMAIN schema : schema[i].id = schema[j].id => i = j
    BY SchemaFacts DEF IInv, Given
  <2>5. Execute(schema, plan, source).code = "none" /\ outcome.record = Execute(schema, plan, source).record
    BY <2>1, <2>2
  <2>6. CASE \E i \in DOMAIN request.mappings : request.mappings[i].target = schema[slot].id
    <3>1. PICK i \in DOMAIN request.mappings : request.mappings[i].target = schema[slot].id
      BY <2>6
    <3>2. i \in DOMAIN plan /\ plan[i].slot = slot /\ plan[i].source = request.mappings[i].source
      BY <2>3, <2>4, <3>1 DEF Compiled
    <3>3. \A j, k \in DOMAIN plan : plan[j].slot = plan[k].slot => j = k
      BY <2>3 DEF Compiled
    <3>4. outcome.record[slot] = Value(source[plan[i].source + 1])
      BY <2>3, <2>5, <3>2, <3>3, SlotHasItsCell
    <3>5. Value(source[request.mappings[i].source + 1]) =
            IF CellOf(i) = "empty" THEN 0 ELSE request.mappings[i].source + 1
      BY <2>2
    <3> QED
      BY <3>1, <3>2, <3>4, <3>5
  <2>7. CASE \A i \in DOMAIN request.mappings : request.mappings[i].target /= schema[slot].id
    <3>1. \A i \in DOMAIN plan : plan[i].slot /= slot
      BY <2>3, <2>7 DEF Compiled
    <3>2. SlotValue(plan, source, slot) = 0
      BY <3>1 DEF SlotValue
    <3>3. outcome.record = [s \in DOMAIN schema |-> SlotValue(plan, source, s)]
      BY <2>3, <2>5, AcceptedRecord
    <3> QED
      BY <2>7, <3>2, <3>3
  <2> QED
    BY <2>6, <2>7
<1> QED
  BY <1>1, Invariance, PTL

\* The converse of OperationHasCell: what makes an operation succeed.
LEMMA OperationSucceeds ==
  ASSUME NEW fields, NEW op \in [source : Nat, slot : DOMAIN fields], NEW source \in Seq(Cells),
         op.source + 1 \in 1 .. Len(source),
         source[op.source + 1].kind = "empty" => ~fields[op.slot].required,
         source[op.source + 1].kind = "bad" => fields[op.slot].type = "string"
  PROVE  OpError(fields, op, source) = "none"
<1>1. ~ (op.source >= Len(source))
  OBVIOUS
<1> QED
  BY <1>1 DEF OpError

\* A row fails exactly if a cell its mapping means is empty under a required
\* target or does not convert, whatever the lengths of the row and the header.
THEOREM VerdictIsTheCells == Spec => []RowVerdict
<1>1. IInv => RowVerdict
  <2> DEFINE Fits(i, slot) == /\ CellOf(i) = "empty" => ~schema[slot].required
                              /\ CellOf(i) = "bad" => schema[slot].type = "string"
             AllFit == \A i \in DOMAIN request.mappings, slot \in DOMAIN schema :
                         request.mappings[i].target = schema[slot].id => Fits(i, slot)
  <2> SUFFICES ASSUME IInv, outcome.code /= "pending", Aligned
               PROVE  Accepted <=> AllFit
    BY DEF RowVerdict
  <2>1. outcome /= Pending
    BY DEF Pending
  <2>2. PICK source \in Seq(Cells) :
          /\ outcome = Execute(schema, plan, source)
          /\ \A i \in DOMAIN request.mappings :
               LET at == request.mappings[i].source + 1 IN
                 /\ at \in 1 .. Len(source) /\ source[at].kind = CellOf(i)
                 /\ Value(source[at]) = IF CellOf(i) = "empty" THEN 0 ELSE at
    BY <2>1, AlignedRow
  <2>3. plan \in Seq([source : Nat, slot : DOMAIN schema])
    BY PlanIsTyped
  <2>4. DOMAIN plan \in SUBSET Nat /\ DOMAIN plan = DOMAIN request.mappings
    BY <2>1, <2>3, SeqElements, OutcomeFacts DEF Compiled
  <2>5. \A i, j \in DOMAIN schema : schema[i].id = schema[j].id => i = j
    BY SchemaFacts DEF IInv, Given
  <2>6. ASSUME NEW i \in DOMAIN plan
        PROVE  /\ plan[i] \in [source : Nat, slot : DOMAIN schema]
               /\ plan[i].source + 1 \in 1 .. Len(source)
               /\ source[plan[i].source + 1].kind = CellOf(i)
               /\ \A slot \in DOMAIN schema :
                    request.mappings[i].target = schema[slot].id <=> slot = plan[i].slot
    <3>1. plan[i] \in [source : Nat, slot : DOMAIN schema]
      BY <2>3, SeqElements
    <3>2. /\ plan[i].source = request.mappings[i].source
          /\ schema[plan[i].slot].id = request.mappings[i].target
      BY <2>1, OutcomeFacts DEF Compiled
    <3> QED
      BY <2>2, <2>4, <2>5, <3>1, <3>2
  <2>7. ASSUME Accepted
        PROVE  AllFit
    <3> SUFFICES ASSUME NEW i \in DOMAIN request.mappings, NEW slot \in DOMAIN schema,
                        request.mappings[i].target = schema[slot].id
                 PROVE  Fits(i, slot)
      OBVIOUS
    <3>1. Execute(schema, plan, source).code = "none"
      BY <2>2, <2>7 DEF Accepted
    <3>2. OpError(schema, plan[i], source) = "none"
      BY <2>4, <3>1, AcceptedHasNoError
    <3>3. /\ plan[i] \in [source : Nat, slot : DOMAIN schema]
          /\ source[plan[i].source + 1].kind = CellOf(i) /\ slot = plan[i].slot
      BY <2>4, <2>6
    <3> QED
      BY <3>2, <3>3, OperationHasCell
  <2>8. ASSUME AllFit
        PROVE  Accepted
    <3>1. ASSUME NEW i \in DOMAIN plan
          PROVE  OpError(schema, plan[i], source) = "none"
      <4>1. plan[i] \in [source : Nat, slot : DOMAIN schema]
        BY <2>6
      <4>2. request.mappings[i].target = schema[plan[i].slot].id
        BY <2>6, <4>1
      <4>3. Fits(i, plan[i].slot)
        BY <2>4, <2>8, <4>1, <4>2
      <4> QED
        BY <2>6, <4>1, <4>3, OperationSucceeds
    <3>2. {i \in DOMAIN plan : OpError(schema, plan[i], source) /= "none"} = {}
      BY <3>1
    <3>3. Execute(schema, plan, source).code = "none"
      BY <3>2 DEF Execute
    <3> QED
      BY <2>2, <3>3 DEF Accepted
  <2> QED
    BY <2>7, <2>8
<1> QED
  BY <1>1, Invariance, PTL

=============================================================================
