------------------------------ MODULE ImportRun ------------------------------
(***************************************************************************)
(* One call of Executor.Import, executor/executor.go lines 108-240: the    *)
(* row loop with its processor, its lifecycle hooks, and a context that    *)
(* may be cancelled at any moment (the HTTP client hangs up).              *)
(*                                                                         *)
(* The source is a sequence of row kinds: a "good" row converts under the  *)
(* plan, a "bad" one does not, a "broken" one cannot be read.  The         *)
(* processor is the caller's code: it takes its time and may refuse a row. *)
(***************************************************************************)
EXTENDS Integers, Sequences, FiniteSets

CONSTANTS
  MaxRows,   \* bound: rows in a source
  MaxErrors  \* executor.MaxErrors, 1000 in the code

ASSUME MaxRowsAssumption == MaxRows \in Nat
ASSUME MaxErrorsAssumption == MaxErrors \in Nat

RowKinds == {"good", "bad", "broken"}

VARIABLES
  rows,       \* the source, fixed by the request
  failFast,   \* ImportRequest.FailFast, fixed
  hooks,      \* which of "begin" and "end" the processor implements, fixed
  cancelled,  \* ctx.Err() is not nil
  pc,         \* where Import is
  next,       \* how many rows rowReader.Next has returned
  result,     \* the ImportResult: counters, and row numbers of Errors
  delivered,  \* row numbers given to processor.Process, in order
  accepted,   \* the row numbers whose Process returned nil ...
  refused,    \* ... and those whose Process returned an error
  ended,      \* the results EndImport was given
  late,       \* how many rows were given after the cancellation
  error       \* what Import returned besides result

request == <<rows, failFast, hooks>>
outside == <<delivered, accepted, refused, ended, late>>
vars    == <<request, cancelled, pc, next, result, outside, error>>

Labels == {"setup", "begin", "loop", "read", "deliver", "process", "finish", "end", "done"}
Errors == {"none", "setup", "begin", "context", "read", "end"}

Zero == [processed |-> 0, succeeded |-> 0, failed |-> 0, errors |-> <<>>]

Init ==
  /\ rows \in UNION {[1 .. n -> RowKinds] : n \in 0 .. MaxRows}
  /\ failFast \in BOOLEAN
  /\ hooks \in SUBSET {"begin", "end"}
  /\ cancelled = FALSE
  /\ pc = "setup"
  /\ next = 0
  /\ result = Zero
  /\ delivered = <<>>
  /\ accepted = {}
  /\ refused = {}
  /\ ended = <<>>
  /\ late = 0
  /\ error = "none"

-----------------------------------------------------------------------------
Return(err) == pc' = "done" /\ error' = err

Goto(label) == pc' = label /\ UNCHANGED error

\* Slips of appendError: no limit; the last errors instead of the first.
SlipAppendAll(errors, row) == Append(errors, row)
SlipAppendLatest(errors, row) ==
  IF Len(errors) < MaxErrors THEN Append(errors, row) ELSE Append(Tail(errors), row)

\* appendError, lines 255-259: details are kept up to a limit.
AppendError(errors, row) == IF Len(errors) < MaxErrors THEN Append(errors, row) ELSE errors

\* A row is rejected: by the plan, or by the processor.
Reject(counted) ==
  /\ result' = [counted EXCEPT !.failed = @ + 1, !.errors = AppendError(@, next')]
  /\ Goto(IF failFast THEN "finish" ELSE "loop")

-----------------------------------------------------------------------------
(* Slips: what a plausible mistake would make of a step.  Spec takes none.   *)

\* The context is checked before the loop only.
SlipLoopUnchecked ==
  /\ pc = "loop"
  /\ Goto("read")
  /\ UNCHANGED <<request, cancelled, next, result, outside>>

\* A row is counted as it is delivered, and again when it is accepted.
SlipDeliverCounts ==
  /\ pc = "deliver"
  /\ delivered' = Append(delivered, next)
  /\ late' = IF cancelled THEN late + 1 ELSE late
  /\ result' = [result EXCEPT !.succeeded = @ + 1]
  /\ Goto("process")
  /\ UNCHANGED <<request, cancelled, next, accepted, refused, ended>>

\* A refused row does not look at FailFast.
SlipRefuseContinues ==
  /\ pc = "process" /\ ~cancelled
  /\ refused' = refused \cup {next}
  /\ result' = [result EXCEPT !.failed = @ + 1, !.errors = AppendError(@, next)]
  /\ Goto("loop")
  /\ UNCHANGED <<request, cancelled, next, delivered, accepted, ended, late>>

-----------------------------------------------------------------------------
(* The call.                                                               *)

\* Checks, Registry.Get, Files.Open, Analyze, openRows, CompilePlan: any of
\* them may return an error, with an empty result.  MapperApi has them one by
\* one; a cancellation may come after the last of them has looked.
Setup ==
  /\ pc = "setup"
  /\ Goto("begin") \/ Return("setup")
  /\ UNCHANGED <<request, cancelled, next, result, outside>>

Begin ==
  /\ pc = "begin"
  /\ \/ Goto("loop")
     \/ "begin" \in hooks /\ Return("begin")
  /\ UNCHANGED <<request, cancelled, next, result, outside>>

\* The head of the loop.
LoopHead ==
  /\ pc = "loop"
  /\ IF cancelled THEN Return("context") ELSE Goto("read")
  /\ UNCHANGED <<request, cancelled, next, result, outside>>

\* rowReader.Next, then plan.Execute on the row.  The readers of both adapters
\* look at the context before they read.
Read ==
  /\ pc = "read"
  /\ \/ cancelled /\ Return("read") /\ UNCHANGED <<next, result>>
     \/ next = Len(rows) /\ Goto("finish") /\ UNCHANGED <<next, result>>
     \/ /\ next < Len(rows) /\ rows[next + 1] = "broken"
        /\ Return("read") /\ UNCHANGED <<next, result>>
     \/ /\ next < Len(rows) /\ rows[next + 1] /= "broken"
        /\ next' = next + 1
        /\ LET counted == [result EXCEPT !.processed = @ + 1] IN
             IF rows[next'] = "bad" THEN Reject(counted)
                                    ELSE result' = counted /\ Goto("deliver")
  /\ UNCHANGED <<request, cancelled, outside>>

\* processor.Process is called ...
Deliver ==
  /\ pc = "deliver"
  /\ delivered' = Append(delivered, next)
  /\ late' = IF cancelled THEN late + 1 ELSE late
  /\ Goto("process")
  /\ UNCHANGED <<request, cancelled, next, result, accepted, refused, ended>>

\* ... and returns nil ...
Accept ==
  /\ pc = "process"
  /\ accepted' = accepted \cup {next}
  /\ result' = [result EXCEPT !.succeeded = @ + 1]
  /\ Goto("loop")
  /\ UNCHANGED <<request, cancelled, next, delivered, refused, ended, late>>

\* ... or an error, which a cancelled context turns into its own.
Refuse ==
  /\ pc = "process"
  /\ refused' = refused \cup {next}
  /\ UNCHANGED next
  /\ IF cancelled THEN Return("context") /\ UNCHANGED result ELSE Reject(result)
  /\ UNCHANGED <<request, cancelled, delivered, accepted, ended, late>>

Finish ==
  /\ pc = "finish"
  /\ IF cancelled THEN Return("context")
     ELSE IF "end" \in hooks THEN Goto("end") ELSE Return("none")
  /\ UNCHANGED <<request, cancelled, next, result, outside>>

End ==
  /\ pc = "end"
  /\ ended' = Append(ended, result)
  /\ Return("none") \/ Return("end")
  /\ UNCHANGED <<request, cancelled, next, result, delivered, accepted, refused, late>>

Cancel ==
  /\ pc /= "done" /\ ~cancelled
  /\ cancelled' = TRUE
  /\ UNCHANGED <<request, pc, next, result, outside, error>>

Terminated == pc = "done" /\ UNCHANGED vars

Import == Setup \/ Begin \/ LoopHead \/ Read \/ Deliver \/ Accept \/ Refuse \/ Finish \/ End

Next == Import \/ Cancel \/ Terminated

Spec == Init /\ [][Next]_vars

-----------------------------------------------------------------------------
(* Properties.                                                             *)

Results == [processed : Nat, succeeded : Nat, failed : Nat, errors : Seq(Nat)]

\* Every variable has its type; details never exceed their limit.
TypeOK ==
  /\ rows \in Seq(RowKinds)
  /\ failFast \in BOOLEAN
  /\ hooks \subseteq {"begin", "end"}
  /\ cancelled \in BOOLEAN
  /\ pc \in Labels
  /\ next \in 0 .. Len(rows)
  /\ result \in Results
  /\ Len(result.errors) <= MaxErrors
  /\ delivered \in Seq(Nat)
  /\ accepted \subseteq 1 .. next
  /\ refused \subseteq 1 .. next
  /\ ended \in Seq(Results)
  /\ late \in Nat
  /\ error \in Errors

Done == pc = "done"

\* The rows that failed: under the plan, or in the processor.
Rejected == {i \in 1 .. next : rows[i] = "bad"} \cup refused

\* A nil error means the whole source was imported, every row counted once,
\* as succeeded exactly if the processor accepted it; or, under FailFast, that
\* everything before the first failed row was.  EndImport was then called once
\* with this result; on any other way out but its own error it was not.
NilMeansAllRows ==
  /\ Done /\ error = "none" =>
       /\ result.succeeded = Cardinality(accepted)
       /\ result.failed = Cardinality(Rejected)
       /\ result.succeeded + result.failed = next
       /\ IF failFast /\ Rejected /= {} THEN Rejected = {next} ELSE next = Len(rows)
       /\ ended = IF "end" \in hooks THEN <<result>> ELSE <<>>
  /\ Done /\ error \notin {"none", "end"} => ended = <<>>

\* Whatever is returned, each row read is counted once, an accepted row as
\* succeeded and a rejected one as failed, with one exception that the formula
\* names: the row whose Process fails under a cancelled context, lines 217-219,
\* is processed and neither.  There is at most one, it is the last row read,
\* and the import then fails with the context's error.  The next property is
\* what the documentation says of that row.
CountersAreHonest ==
  LET inHand == IF pc \in {"deliver", "process"} THEN 1 ELSE 0 IN
  /\ result.processed = next
  /\ result.succeeded = Cardinality(accepted)
  /\ next = Cardinality(accepted) + Cardinality(Rejected) + inHand
  /\ \/ result.failed = Cardinality(Rejected)
     \/ /\ Done /\ error = "context" /\ next \in refused
        /\ result.failed = Cardinality(Rejected) - 1

\* mapper/import.go:32 says that the "counters cover every row", and line 51
\* that an ImportResult "contains full counters": once Import has returned,
\* every row it processed has succeeded or failed.  The code leaves out the row
\* refused under a cancelled context, and this is violated.
CountersCoverEveryRow ==
  Done => result.succeeded + result.failed = result.processed

\* The retained details are those of the first rejected rows, in order.
FirstErrorsKept ==
  LET errors == result.errors IN
  /\ \A i, j \in DOMAIN errors : i < j => errors[i] < errors[j]
  /\ \A i \in DOMAIN errors : errors[i] \in Rejected
  /\ \A n \in Rejected :
       \/ \E i \in DOMAIN errors : errors[i] = n
       \/ Len(errors) = MaxErrors /\ \A i \in DOMAIN errors : errors[i] < n
       \/ Done /\ error = "context" /\ n = next

\* A cancelled import gives its processor at most one more row.
AtMostOneLateRow == late <= 1

=============================================================================
