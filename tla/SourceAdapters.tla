---------------------------- MODULE SourceAdapters ----------------------------
(***************************************************************************)
(* The two source adapters, source/csv/csv.go and source/xlsx/xlsx.go: how *)
(* each finds the header of a table, what Analyze reports of it, and where *)
(* the reader that Open returns starts.                                    *)
(*                                                                         *)
(* A file is a sequence of sheets and a sheet a sequence of rows: "blank", *)
(* "broken" (it cannot be read), or a row with values, "good" or "bad" for *)
(* the plan it will meet.  A CSV file has one sheet.  Rows are numbered    *)
(* from 1, blank ones and the header included.                             *)
(***************************************************************************)
EXTENDS Naturals, Sequences, SequencesExt

CONSTANT SampleLimit  \* source.DefaultSampleLimit

ASSUME SampleLimitAssumption == SampleLimit \in Nat

\* Opening or analyzing gives an error, or a value.
NoHeader   == [error |-> "no_header"]
Unreadable == [error |-> "unreadable"]
HasValue(row) == row \in {"good", "bad"}

\* The first row that stops the search for a header; 0 if there is none.
HeaderRow(sheet) == SelectInSeq(sheet, LAMBDA row : row /= "blank")

\* A reader is past a row of a sheet; Next returns the rows that follow, and
\* numbers them from the number of rows it has counted.
Reader(sheet, row, counted) ==
  [error |-> "none", sheet |-> sheet, row |-> row, counted |-> counted]

\* SheetAnalysis: the rows under the header, and the numbers of the samples.
Summary(numbers) ==
  [rows    |-> Len(numbers),
   samples |-> SubSeq(numbers, 1, IF Len(numbers) < SampleLimit THEN Len(numbers) ELSE SampleLimit)]

\* The sheets that have a header, each with its summary, in the order of the file.
Analysis(sheets) == [error |-> "none", sheets |-> sheets]

-----------------------------------------------------------------------------
(* CSV.                                                                    *)

CsvOpen(file) ==
  LET header == HeaderRow(file[1]) IN
    IF header = 0 THEN NoHeader
    ELSE IF ~HasValue(file[1][header]) THEN Unreadable
    ELSE Reader(1, header, header)

\* Analyze is Open, then Next up to the end; Next numbers what it returns.
CsvAnalyze(file) ==
  LET reader == CsvOpen(file) IN
    IF reader.error /= "none" THEN reader
    ELSE IF \E i \in reader.row + 1 .. Len(file[1]) : file[1][i] = "broken" THEN Unreadable
    ELSE Analysis([s \in {1} |->
           Summary([i \in 1 .. Len(file[1]) - reader.row |-> reader.counted + i])])

-----------------------------------------------------------------------------
(* XLSX.                                                                   *)

\* openSheet takes the first sheet that has a header.
XlsxOpen(file) ==
  LET s == SelectInSeq(file, LAMBDA sheet : HeaderRow(sheet) /= 0) IN
    IF s = 0 THEN NoHeader
    ELSE IF ~HasValue(file[s][HeaderRow(file[s])]) THEN Unreadable
    ELSE Reader(s, HeaderRow(file[s]), HeaderRow(file[s]))

\* analyzeSheet: one pass, in which the first row with values is the header.
XlsxAnalyzeSheet(sheet) ==
  LET header == SelectInSeq(sheet, HasValue)
  IN Summary([i \in 1 .. Len(sheet) - header |-> header + i])

\* Sheets without a header are left out; any row may fail the whole analysis.
XlsxAnalyze(file) ==
  LET hasHeader(s) == \E i \in 1 .. Len(file[s]) : HasValue(file[s][i])
      sheets == {s \in 1 .. Len(file) : hasHeader(s)}
  IN IF \E s \in 1 .. Len(file) : Contains(file[s], "broken") THEN Unreadable
     ELSE IF sheets = {} THEN NoHeader
     ELSE Analysis([s \in sheets |-> XlsxAnalyzeSheet(file[s])])

-----------------------------------------------------------------------------
Open(format, file)    == IF format = "csv" THEN CsvOpen(file) ELSE XlsxOpen(file)
Analyze(format, file) == IF format = "csv" THEN CsvAnalyze(file) ELSE XlsxAnalyze(file)

=============================================================================
