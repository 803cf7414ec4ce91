------------------------------ MODULE RowMapping ------------------------------
(***************************************************************************)
(* How a row of a source becomes a record: the header and the row maps of  *)
(* the source adapters (source/csv/csv.go, source/xlsx/xlsx.go),           *)
(* columnsFromSource, openRows and sourceValues of executor/executor.go,   *)
(* ValidateMapping (validation.go), CompilePlan and Execute (plan.go).     *)
(*                                                                         *)
(* A header name is a number, and byte order the order of numbers.  A cell *)
(* is known by where it is in the file and by its kind: "empty", "good"    *)
(* (any target type accepts it) or "bad" (only a string target does).      *)
(* Row after row, `outcome' is what Execute made of the last one.          *)
(***************************************************************************)
EXTENDS Integers, Sequences, SequencesExt, FiniteSets

CONSTANTS
  Names,         \* header names, a finite set of numbers
  SourceKey,     \* parseSourceKey: the index a name spells, or -1
  FieldIds,      \* the ids of target fields
  MaxWidth,      \* bound: columns of a sheet, and fields, and mappings
  MaxSheets,     \* bound: sheets of a workbook that have a header
  AskedSheets    \* the sheet indices a request may name

ASSUME NamesAssumption == Names \subseteq Nat /\ IsFiniteSet(Names)
ASSUME SourceKeyAssumption == SourceKey \in [Names -> Nat \cup {-1}]
ASSUME FieldIdsAssumption == FieldIds \subseteq Nat \ {0}
ASSUME BoundsAssumption == MaxWidth \in Nat /\ MaxSheets \in Nat
ASSUME AskedSheetsAssumption == AskedSheets \subseteq Int

VARIABLES
  seekable,  \* FileStore.Open returned an io.ReadSeeker
  schema,    \* the fields of the schema, in order
  request,   \* sheet and mappings of the ImportRequest
  headers,   \* the header of each sheet that has one
  opened,    \* which of them openRows opened
  columns,   \* what columnsFromSource returned
  plan,      \* the compiled operations
  pc,        \* where Import is
  row,       \* the last row read
  outcome    \* its record and the code of its error

vars == <<seekable, schema, request, headers, opened, columns, plan, pc, row, outcome>>

Kinds == {"empty", "good", "bad"}
Types == {"string", "integer"}   \* integer stands for every type that parses

Fields   == [id : FieldIds, type : Types, required : BOOLEAN]
Mappings == [source : -1 .. MaxWidth, target : FieldIds \cup {0}]

\* The registry admits no schema without fields or with an id twice.
Schemas ==
  {s \in SeqOf(Fields, MaxWidth) :
     s /= <<>> /\ \A i, j \in DOMAIN s : s[i].id = s[j].id => i = j}

Headers == SeqOf(Names, MaxWidth) \ {<<>>}

\* A row may be shorter or longer than the header.
Rows == SeqOf(Kinds, MaxWidth + 1)

Pending == [code |-> "pending", record |-> <<>>]

Init ==
  /\ seekable \in BOOLEAN
  /\ schema \in Schemas
  /\ request \in [sheet : AskedSheets, mappings : SeqOf(Mappings, MaxWidth)]
  /\ headers = <<>>
  /\ opened = 0
  /\ columns = <<>>
  /\ plan = <<>>
  /\ pc = "open"
  /\ row = <<>>
  /\ outcome = Pending

-----------------------------------------------------------------------------
(* The adapters and the executor's view of a row.                          *)

Blank == [pos |-> 0, kind |-> "empty"]

\* rowValues of the adapters: name -> cell.  Of two columns of one name the
\* last is kept; a column the row does not reach is empty, and a cell beyond
\* the header is dropped.
RowValues(header, cells) ==
  [name \in {header[i] : i \in DOMAIN header} |->
     LET last == CHOOSE i \in DOMAIN header :
                   header[i] = name /\ \A j \in DOMAIN header : header[j] = name => j <= i
     IN IF last <= Len(cells) THEN [pos |-> last, kind |-> cells[last]] ELSE Blank]

\* sourceValues, with names that all spell an index: cells have their index,
\* and a Go map decides between two that spell one.  (There is one width.)
ByIndex(values) ==
  LET spelt  == {SourceKey[name] : name \in DOMAIN values}
      widths == {k + 1 : k \in {k \in spelt : \A j \in spelt : j <= k}}
      chosen == {c \in [spelt -> DOMAIN values] : \A k \in spelt : SourceKey[c[k]] = k}
  IN UNION {{[i \in 1 .. width |-> IF i - 1 \in spelt THEN values[c[i - 1]] ELSE Blank] :
               c \in chosen} : width \in widths}

\* With others, the names order the cells.  (There is one such order.)
ByName(values) ==
  LET count  == Cardinality(DOMAIN values)
      sorted == {o \in [1 .. count -> DOMAIN values] : \A i, j \in 1 .. count : i < j => o[i] < o[j]}
  IN {[i \in 1 .. count |-> values[order[i]]] : order \in sorted}

SourceValues(values) ==
  IF DOMAIN values = {} THEN {<<>>}
  ELSE IF \A name \in DOMAIN values : SourceKey[name] /= -1 THEN ByIndex(values)
  ELSE ByName(values)

\* sourceValuesWithColumns: the columns order the cells, unless the row has
\* none of them.
SourceValuesWithColumns(values, cols) ==
  IF cols /= <<>> /\ (\E i \in DOMAIN cols : cols[i] \in DOMAIN values)
    THEN {[i \in DOMAIN cols |->
             IF cols[i] \in DOMAIN values THEN values[cols[i]] ELSE Blank]}
    ELSE SourceValues(values)

-----------------------------------------------------------------------------
(* Slips: what a plausible mistake would make of a definition.             *)

\* No upper bound on a source index.
SlipMappingErrorUnbounded(fields, mappings, count, i) ==
  LET m == mappings[i] IN
  IF m.source < 0 THEN "invalid_source_index"
  ELSE IF \A f \in DOMAIN fields : fields[f].id /= m.target THEN "unknown_target"
  ELSE IF \E j \in 1 .. i - 1 : mappings[j].target = m.target THEN "duplicate_target"
  ELSE "none"

\* The slot of an operation is its place in the mapping.
SlipOperationInOrder(fields, mappings, i) ==
  [source |-> mappings[i].source, slot |-> i]

\* Slots count from zero.
SlipOperationFromZero(fields, mappings, i) ==
  [source |-> mappings[i].source,
   slot |-> (CHOOSE f \in DOMAIN fields : fields[f].id = mappings[i].target) - 1]

\* An empty value is skipped whether the target is required or not.
SlipOpErrorLenient(fields, op, source) ==
  IF op.source >= Len(source) THEN "invalid_source_index"
  ELSE IF source[op.source + 1].kind = "bad" /\ fields[op.slot].type /= "string"
    THEN "invalid_value"
  ELSE "none"

-----------------------------------------------------------------------------
(* ValidateMapping and CompilePlan.                                        *)

\* The code the loop over the mappings returns at the i-th, or "none".
MappingError(fields, mappings, count, i) ==
  LET m == mappings[i] IN
  IF m.source < 0 \/ (count >= 0 /\ m.source >= count) THEN "invalid_source_index"
  ELSE IF \A f \in DOMAIN fields : fields[f].id /= m.target THEN "unknown_target"
  ELSE IF \E j \in 1 .. i - 1 : mappings[j].target = m.target THEN "duplicate_target"
  ELSE "none"

\* The loop stops at the first error; then every required field is looked up.
ValidateMapping(fields, mappings, count) ==
  LET wrong == {i \in DOMAIN mappings : MappingError(fields, mappings, count, i) /= "none"}
  IN IF wrong /= {}
       THEN MappingError(fields, mappings, count,
                         CHOOSE i \in wrong : \A j \in wrong : i <= j)
     ELSE IF \E f \in DOMAIN fields :
               /\ fields[f].required
               /\ \A i \in DOMAIN mappings : mappings[i].target /= fields[f].id
       THEN "required_target_missing"
     ELSE "none"

Operation(fields, mappings, i) ==
  [source |-> mappings[i].source,
   slot   |-> CHOOSE f \in DOMAIN fields : fields[f].id = mappings[i].target]

CompilePlan(fields, mappings) ==
  [i \in DOMAIN mappings |-> Operation(fields, mappings, i)]

-----------------------------------------------------------------------------
(* ExecutionPlan.Execute and Convert.                                      *)

OpError(fields, op, source) ==
  IF op.source >= Len(source) THEN "invalid_source_index"
  ELSE IF source[op.source + 1].kind = "empty" /\ fields[op.slot].required
    THEN "required_value_missing"
  ELSE IF source[op.source + 1].kind = "bad" /\ fields[op.slot].type /= "string"
    THEN "invalid_value"
  ELSE "none"

\* A converted value is the cell it comes from; an empty one stays nil.
Value(cell) == IF cell.kind = "empty" THEN 0 ELSE cell.pos

\* What the operation for a slot puts there; nil without one.
SlotValue(ops, source, slot) ==
  IF \E i \in DOMAIN ops : ops[i].slot = slot
    THEN LET op == ops[CHOOSE i \in DOMAIN ops : ops[i].slot = slot]
         IN Value(source[op.source + 1])
    ELSE 0

Execute(fields, ops, source) ==
  LET failed == {i \in DOMAIN ops : OpError(fields, ops[i], source) /= "none"} IN
  IF failed /= {}
    THEN [code |-> OpError(fields, ops[CHOOSE i \in failed : \A j \in failed : i <= j], source),
          record |-> <<>>]
    ELSE [code |-> "none", record |-> [slot \in DOMAIN fields |-> SlotValue(ops, source, slot)]]

-----------------------------------------------------------------------------
(* The import: open and analyze, compile, then row after row.              *)

Fail == pc' = "failed" /\ UNCHANGED <<seekable, schema, request, plan, row, outcome>>

\* Analyze lists the sheets that have a header; a reader that cannot seek is
\* not analyzed.  openRows opens the first of them: neither adapter has the
\* OpenSheet it looks for.
Open ==
  /\ pc = "open"
  /\ headers' \in SeqOf(Headers, MaxSheets) \ {<<>>}
  /\ opened' = 1
  /\ \/ request.sheet < 0 /\ Fail /\ UNCHANGED columns
     \/ /\ request.sheet >= 0 /\ ~seekable
        /\ pc' = "compile"
        /\ UNCHANGED <<seekable, schema, request, columns, plan, row, outcome>>
     \/ /\ seekable /\ request.sheet >= Len(headers')
        /\ Fail /\ UNCHANGED columns
     \/ /\ seekable /\ request.sheet \in 0 .. Len(headers') - 1
        /\ columns' = headers'[request.sheet + 1]
        /\ pc' = "compile"
        /\ UNCHANGED <<seekable, schema, request, plan, row, outcome>>

\* The number of columns is passed only if it is known.
Compile ==
  /\ pc = "compile"
  /\ UNCHANGED <<headers, opened, columns>>
  /\ LET count == IF columns = <<>> THEN -1 ELSE Len(columns)
     IN \/ /\ ValidateMapping(schema, request.mappings, count) /= "none"
           /\ Fail
        \/ /\ ValidateMapping(schema, request.mappings, count) = "none"
           /\ plan' = CompilePlan(schema, request.mappings)
           /\ pc' = "rows"
           /\ UNCHANGED <<seekable, schema, request, row, outcome>>

\* rowReader.Next, sourceValuesWithColumns and plan.Execute.
Row ==
  /\ pc = "rows" /\ outcome = Pending
  /\ row' \in Rows
  /\ \E source \in SourceValuesWithColumns(RowValues(headers[opened], row'), columns) :
       outcome' = Execute(schema, plan, source)
  /\ UNCHANGED <<seekable, schema, request, headers, opened, columns, plan, pc>>

\* The processor has the record, or the result the error.
Handled ==
  /\ pc = "rows" /\ outcome /= Pending
  /\ row' = <<>> /\ outcome' = Pending
  /\ UNCHANGED <<seekable, schema, request, headers, opened, columns, plan, pc>>

Failed == pc = "failed" /\ UNCHANGED vars

Next == Open \/ Compile \/ Row \/ Handled \/ Failed

Spec == Init /\ [][Next]_vars

-----------------------------------------------------------------------------
(* Properties.                                                             *)

Codes == {"pending", "none", "invalid_source_index", "required_value_missing", "invalid_value"}

\* Every variable has its type; an operation addresses a slot of the schema.
TypeOK ==
  /\ seekable \in BOOLEAN
  /\ schema \in Schemas
  /\ request \in [sheet : AskedSheets, mappings : Seq(Mappings)]
  /\ headers \in Seq(Headers)
  /\ opened \in 0 .. Len(headers)
  /\ columns \in Seq(Names)
  /\ plan \in Seq([source : Nat, slot : DOMAIN schema])
  /\ pc \in {"open", "compile", "rows", "failed"}
  /\ row \in Seq(Kinds)
  /\ outcome.code \in Codes
  /\ outcome.record \in Seq(Nat)

Accepted == outcome.code = "none"

\* A record that reaches the processor has a value in every required slot,
\* whatever the row, the mapping and the headers.
RequiredNeverNil ==
  Accepted =>
    /\ Len(outcome.record) = Len(schema)
    /\ \A slot \in DOMAIN schema : schema[slot].required => outcome.record[slot] /= 0

\* What makes the columns the client saw and the cells of a row agree: the
\* file was analyzed, its first sheet was asked for, and no name is repeated.
Aligned == columns /= <<>> /\ request.sheet = 0 /\ IsInjective(columns)

\* The cell of the last row that the i-th mapping means.
CellOf(i) ==
  LET at == request.mappings[i].source + 1
  IN IF at <= Len(row) THEN row[at] ELSE "empty"

\* "FieldMapping maps one source column index to one stable target field ID"
\* (mapper/mapping.go:11): the slot of the target has the cell in that column,
\* or nil if that is empty; a slot no mapping names is nil.
CellsComeFromTheirColumn ==
  Accepted /\ Aligned =>
    \A slot \in DOMAIN schema :
      \/ \E i \in DOMAIN request.mappings :
           /\ request.mappings[i].target = schema[slot].id
           /\ outcome.record[slot] =
                IF CellOf(i) = "empty" THEN 0 ELSE request.mappings[i].source + 1
      \/ /\ \A i \in DOMAIN request.mappings : request.mappings[i].target /= schema[slot].id
         /\ outcome.record[slot] = 0

\* A row fails exactly if a cell its mapping means is empty under a required
\* target or does not convert: never because the row is short.
RowVerdict ==
  outcome.code /= "pending" /\ Aligned =>
    (Accepted <=>
       \A i \in DOMAIN request.mappings, slot \in DOMAIN schema :
         request.mappings[i].target = schema[slot].id =>
           /\ CellOf(i) = "empty" => ~schema[slot].required
           /\ CellOf(i) = "bad" => schema[slot].type = "string")

\* A value that reaches a record is from the sheet the request names, when the
\* file was analyzed and that sheet was found in it.
SheetHonoured ==
  Accepted /\ columns /= <<>> /\ (\E slot \in DOMAIN schema : outcome.record[slot] /= 0)
    => opened = request.sheet + 1

=============================================================================
