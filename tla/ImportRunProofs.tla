---------------------------- MODULE ImportRunProofs ----------------------------
(***************************************************************************)
(* Proofs about ImportRun, for sources and error limits of any size.       *)
(***************************************************************************)
EXTENDS ImportRun, FiniteSetTheorems, TLAPS

USE MaxRowsAssumption, MaxErrorsAssumption

-----------------------------------------------------------------------------
(* The inductive invariant.                                                *)

InHand == IF pc \in {"deliver", "process"} THEN {next} ELSE {}

\* Every row that was read is accepted, rejected, or on its way to one of
\* these, and nothing else is.
EachRowOnce ==
  /\ accepted \cup Rejected \cup InHand = 1 .. next
  /\ accepted \cap Rejected = {}
  /\ InHand \cap (accepted \cup Rejected) = {}
  /\ IsFiniteSet(accepted) /\ IsFiniteSet(Rejected)

\* Under FailFast the first rejected row is the last one read.
StopsAtFirst ==
  failFast /\ Rejected /= {} => Rejected = {next} /\ pc \in {"finish", "end", "done"}

\* The loop ends well at the end of the source, or at a row that stops it.
WholeSource ==
  pc \in {"finish", "end"} \/ (Done /\ error = "none") =>
    next = Len(rows) \/ (failFast /\ Rejected /= {})

\* EndImport is called last, if the processor has it.
EndsLast ==
  /\ ~Done => ended = <<>>
  /\ pc = "end" => "end" \in hooks
  /\ Done /\ error = "none" => ended = IF "end" \in hooks THEN <<result>> ELSE <<>>
  /\ Done /\ error \notin {"none", "end"} => ended = <<>>

\* After a late row the loop is not entered again.
LateIsLast == late = 0 \/ (late = 1 /\ cancelled /\ pc \notin {"read", "deliver"})

IInv ==
  /\ TypeOK /\ EachRowOnce /\ CountersAreHonest /\ FirstErrorsKept
  /\ StopsAtFirst /\ WholeSource /\ EndsLast /\ LateIsLast

-----------------------------------------------------------------------------
(* Types.                                                                  *)

LEMMA RecordTypes ==
  ASSUME NEW S, NEW kept \in S,
         NEW r \in [processed : Nat, succeeded : Nat, failed : Nat, errors : S]
  PROVE  /\ [r EXCEPT !.processed = @ + 1] \in [processed : Nat, succeeded : Nat, failed : Nat, errors : S]
         /\ [r EXCEPT !.succeeded = @ + 1] \in [processed : Nat, succeeded : Nat, failed : Nat, errors : S]
         /\ [r EXCEPT !.failed = @ + 1, !.errors = kept]
              \in [processed : Nat, succeeded : Nat, failed : Nat, errors : S]
         /\ r.processed \in Nat /\ r.succeeded \in Nat /\ r.failed \in Nat /\ r.errors \in S
<1>1. r.processed \in Nat /\ r.succeeded \in Nat /\ r.failed \in Nat /\ r.errors \in S
  OBVIOUS
<1>2. [r EXCEPT !.processed = @ + 1] \in [processed : Nat, succeeded : Nat, failed : Nat, errors : S]
  OBVIOUS
<1>3. [r EXCEPT !.succeeded = @ + 1] \in [processed : Nat, succeeded : Nat, failed : Nat, errors : S]
  OBVIOUS
<1>4. [r EXCEPT !.failed = @ + 1] \in [processed : Nat, succeeded : Nat, failed : Nat, errors : S]
  OBVIOUS
<1>5. \A q \in [processed : Nat, succeeded : Nat, failed : Nat, errors : S] :
        [q EXCEPT !.errors = kept] \in [processed : Nat, succeeded : Nat, failed : Nat, errors : S]
  OBVIOUS
<1>6. [[r EXCEPT !.failed = @ + 1] EXCEPT !.errors = kept]
        \in [processed : Nat, succeeded : Nat, failed : Nat, errors : S]
  BY <1>4, <1>5, Zenon
<1> QED
  BY <1>1, <1>2, <1>3, <1>6, Zenon

LEMMA ResultTypes ==
  ASSUME NEW r \in Results
  PROVE  /\ r.processed \in Nat /\ r.succeeded \in Nat
         /\ r.failed \in Nat /\ r.errors \in Seq(Nat)
  BY RecordTypes DEF Results

\* What the updates of the code do to each field.
LEMMA ResultFields ==
  ASSUME NEW S, NEW kept \in S,
         NEW r \in [processed : Nat, succeeded : Nat, failed : Nat, errors : S]
  PROVE  LET read     == [r EXCEPT !.processed = @ + 1]
             accept   == [r EXCEPT !.succeeded = @ + 1]
             rejected == [r EXCEPT !.failed = @ + 1, !.errors = kept]
         IN /\ read.processed = r.processed + 1 /\ read.succeeded = r.succeeded
            /\ read.failed = r.failed /\ read.errors = r.errors
            /\ accept.processed = r.processed /\ accept.succeeded = r.succeeded + 1
            /\ accept.failed = r.failed /\ accept.errors = r.errors
            /\ rejected.processed = r.processed /\ rejected.succeeded = r.succeeded
            /\ rejected.failed = r.failed + 1 /\ rejected.errors = kept
  OBVIOUS

CountRow(r) == [r EXCEPT !.processed = @ + 1]

LEMMA ReadUpdate ==
  ASSUME NEW r \in Results
  PROVE  /\ CountRow(r) \in Results /\ CountRow(r).processed = r.processed + 1
         /\ CountRow(r).succeeded = r.succeeded /\ CountRow(r).failed = r.failed
         /\ CountRow(r).errors = r.errors
  BY RecordTypes, ResultFields DEF Results, CountRow

LEMMA AcceptUpdate ==
  ASSUME NEW r \in Results, NEW q, q = [r EXCEPT !.succeeded = @ + 1]
  PROVE  /\ q \in Results /\ q.processed = r.processed
         /\ q.succeeded = r.succeeded + 1 /\ q.failed = r.failed /\ q.errors = r.errors
  BY RecordTypes, ResultFields DEF Results

Rejecting(r, kept) == [r EXCEPT !.failed = @ + 1, !.errors = kept]

LEMMA RejectUpdate ==
  ASSUME NEW r \in Results, NEW kept \in Seq(Nat)
  PROVE  /\ Rejecting(r, kept) \in Results /\ Rejecting(r, kept).processed = r.processed
         /\ Rejecting(r, kept).succeeded = r.succeeded
         /\ Rejecting(r, kept).failed = r.failed + 1
         /\ Rejecting(r, kept).errors = kept
  BY RecordTypes, ResultFields DEF Results, Rejecting

LEMMA InitTypes == Init => TypeOK
<1> SUFFICES ASSUME Init PROVE TypeOK
  OBVIOUS
<1>1. rows \in Seq(RowKinds)
  BY DEF Init
<1>2. result \in Results /\ Len(result.errors) <= MaxErrors
  BY DEF Init, Zero, Results
<1>3. ended \in Seq(Results) /\ delivered \in Seq(Nat)
  BY DEF Init
<1>4. next \in 0 .. Len(rows)
  BY <1>1 DEF Init
<1>5. accepted \subseteq 1 .. next /\ refused \subseteq 1 .. next
  BY DEF Init
<1> QED
  BY <1>1, <1>2, <1>3, <1>4, <1>5 DEF Init, TypeOK, Labels, Errors

LEMMA RowFacts ==
  ASSUME TypeOK
  PROVE  /\ next \in Nat /\ Len(rows) \in Nat
         /\ \A i \in 1 .. Len(rows) : rows[i] \in RowKinds
         /\ result \in Results
  BY DEF TypeOK

LEMMA RowInHand ==
  ASSUME EachRowOnce, pc \in {"deliver", "process"}
  PROVE  next \in 1 .. next /\ next \notin accepted /\ next \notin Rejected
  BY DEF EachRowOnce, InHand

LEMMA AppendErrorType ==
  ASSUME NEW errors \in Seq(Nat), NEW row \in Nat, Len(errors) <= MaxErrors
  PROVE  AppendError(errors, row) \in Seq(Nat) /\ Len(AppendError(errors, row)) <= MaxErrors
  BY DEF AppendError

LEMMA AppendFacts ==
  ASSUME NEW s \in Seq(Nat), NEW e \in Nat
  PROVE  /\ DOMAIN Append(s, e) = DOMAIN s \cup {Len(s) + 1}
         /\ Append(s, e)[Len(s) + 1] = e
         /\ \A i \in DOMAIN s : Append(s, e)[i] = s[i] /\ i \in Nat /\ i < Len(s) + 1
<1>1. DOMAIN Append(s, e) = 1 .. Len(s) + 1 /\ DOMAIN s = 1 .. Len(s) /\ Len(s) \in Nat
  OBVIOUS
<1>2. Append(s, e)[Len(s) + 1] = e
  OBVIOUS
<1>3. \A i \in 1 .. Len(s) : Append(s, e)[i] = s[i] /\ i \in Nat /\ i < Len(s) + 1
  OBVIOUS
<1> QED
  BY <1>1, <1>2, <1>3

LEMMA RejectTypes ==
  ASSUME NEW counted \in Results,
         Len(counted.errors) <= MaxErrors, next' \in Nat, Reject(counted), error \in Errors
  PROVE  /\ result' \in Results /\ Len(result'.errors) <= MaxErrors
         /\ pc' \in Labels /\ error' \in Errors
         /\ result'.processed = counted.processed /\ result'.succeeded = counted.succeeded
         /\ result'.failed = counted.failed + 1
         /\ result'.errors = AppendError(counted.errors, next')
<1> DEFINE kept == AppendError(counted.errors, next')
<1>1. kept \in Seq(Nat) /\ Len(kept) <= MaxErrors
  BY AppendErrorType, ResultTypes
<1>2. result' = Rejecting(counted, kept)
  BY Zenon DEF Reject, Rejecting
<1> HIDE DEF kept
<1>3. /\ result' \in Results /\ result'.errors = kept
      /\ result'.processed = counted.processed /\ result'.succeeded = counted.succeeded
      /\ result'.failed = counted.failed + 1
  BY <1>1, <1>2, RejectUpdate
<1>4. pc' \in {"finish", "loop"} /\ error' = error
  BY DEF Reject, Goto
<1> QED
  BY <1>1, <1>3, <1>4 DEF Labels, kept

LEMMA TypeStep ==
  ASSUME TypeOK, EachRowOnce, [Next]_vars
  PROVE  TypeOK'
<1> USE RowFacts
<1>1. CASE Setup \/ Begin \/ LoopHead \/ Finish
  BY <1>1 DEF Setup, Begin, LoopHead, Finish, Goto, Return, TypeOK, request, outside, Labels, Errors
<1>2. CASE Read
  <2>1. CASE UNCHANGED <<next, result>>
    BY <1>2, <2>1 DEF Read, Goto, Return, TypeOK, request, outside, Labels, Errors
  <2>2. CASE /\ next < Len(rows) /\ rows[next + 1] /= "broken"
             /\ next' = next + 1
    <3> DEFINE counted == CountRow(result)
    <3>1. counted \in Results /\ counted.errors = result.errors
      BY ReadUpdate
    <3>2. Reject(counted) \/ (result' = counted /\ Goto("deliver"))
      BY <1>2, <2>2 DEF Read, CountRow
    <3>3. next' \in Nat /\ error \in Errors
      BY <2>2 DEF TypeOK
    <3> HIDE DEF counted
    <3>4. /\ result' \in Results /\ Len(result'.errors) <= MaxErrors
          /\ pc' \in Labels /\ error' \in Errors
      <4>1. CASE Reject(counted)
        BY <4>1, <3>1, <3>3, RejectTypes DEF TypeOK
      <4>2. CASE result' = counted /\ Goto("deliver")
        BY <4>2, <3>1, <3>3 DEF Goto, Labels, TypeOK
      <4> QED
        BY <3>2, <4>1, <4>2
    <3>5. accepted \subseteq 1 .. next' /\ refused \subseteq 1 .. next' /\ next' \in 0 .. Len(rows)
      BY <2>2 DEF TypeOK
    <3> QED
      BY <3>4, <3>5, <1>2 DEF Read, TypeOK, request, outside
  <2> QED
    BY <1>2, <2>1, <2>2 DEF Read
<1>3. CASE Deliver
  BY <1>3 DEF Deliver, Goto, TypeOK, request, Labels
<1>4. CASE Accept
  <2>1. result' \in Results /\ result'.errors = result.errors
    BY <1>4, AcceptUpdate DEF Accept
  <2>2. accepted' \subseteq 1 .. next
    BY <1>4, RowInHand DEF Accept, TypeOK
  <2> QED
    BY <1>4, <2>1, <2>2 DEF Accept, Goto, TypeOK, request, Labels
<1>5. CASE Refuse
  <2>1. /\ result' \in Results /\ Len(result'.errors) <= MaxErrors
        /\ pc' \in Labels /\ error' \in Errors
    <3>1. CASE cancelled
      BY <1>5, <3>1 DEF Refuse, Return, TypeOK, Labels, Errors
    <3>2. CASE ~cancelled
      BY <1>5, <3>2, RejectTypes DEF Refuse, TypeOK
    <3> QED
      BY <3>1, <3>2
  <2>2. refused' \subseteq 1 .. next
    BY <1>5, RowInHand DEF Refuse, TypeOK
  <2> QED
    BY <1>5, <2>1, <2>2 DEF Refuse, TypeOK, request
<1>6. CASE End
  BY <1>6 DEF End, Return, TypeOK, request, Labels, Errors
<1>7. CASE Cancel
  BY <1>7 DEF Cancel, TypeOK, request, outside
<1>8. CASE UNCHANGED vars
  BY <1>8 DEF vars, request, outside, TypeOK
<1> QED
  BY <1>1, <1>2, <1>3, <1>4, <1>5, <1>6, <1>7, <1>8 DEF Next, Import, Terminated

-----------------------------------------------------------------------------
(* Steps that handle no row.                                               *)

\* What was read and what came of it stays, and nothing comes into or leaves
\* the processor's hands.
Quiet ==
  /\ UNCHANGED <<rows, failFast, next, result, accepted, refused>>
  /\ pc' \in {"deliver", "process"} <=> pc \in {"deliver", "process"}

LEMMA QuietStep ==
  ASSUME EachRowOnce, CountersAreHonest, FirstErrorsKept, Quiet, ~Done
  PROVE  EachRowOnce' /\ CountersAreHonest' /\ FirstErrorsKept'
<1>1. Rejected' = Rejected /\ InHand' = InHand
  BY DEF Quiet, Rejected, InHand
<1>2. EachRowOnce'
  BY <1>1 DEF EachRowOnce, Quiet
<1>3. CountersAreHonest'
  BY <1>1 DEF CountersAreHonest, Quiet, Done
<1>4. FirstErrorsKept'
  BY <1>1 DEF FirstErrorsKept, Quiet, Done
<1> QED
  BY <1>2, <1>3, <1>4

LEMMA QuietActions ==
  ASSUME Setup \/ Begin \/ LoopHead \/ Deliver \/ Finish \/ End \/ Cancel
  PROVE  Quiet /\ ~Done
  BY DEF Setup, Begin, LoopHead, Deliver, Finish, End, Cancel, Goto, Return,
         Quiet, Done, request, outside

-----------------------------------------------------------------------------
(* Steps that handle one.                                                  *)

\* The row next' is rejected: it was in hand, or is read by this step.
LEMMA RejectStep ==
  ASSUME IInv, ~Done,
         NEW counted \in Results, Reject(counted), UNCHANGED <<rows, failFast, accepted>>,
         next' \in Nat, next' \notin accepted, next' \notin Rejected,
         1 .. next' = accepted \cup Rejected \cup {next'},
         Rejected' = Rejected \cup {next'},
         next' = Cardinality(accepted) + Cardinality(Rejected) + 1,
         counted.processed = next', counted.succeeded = result.succeeded,
         counted.failed = result.failed, counted.errors = result.errors
  PROVE  EachRowOnce' /\ CountersAreHonest' /\ FirstErrorsKept'
<1> DEFINE kept == AppendError(result.errors, next')
<1>1. result.errors \in Seq(Nat) /\ Len(result.errors) <= MaxErrors
  BY ResultTypes DEF IInv, TypeOK
<1>2. kept \in Seq(Nat)
  BY <1>1, AppendErrorType
<1>3. /\ result'.processed = next' /\ result'.succeeded = result.succeeded
      /\ result'.failed = result.failed + 1 /\ result'.errors = kept
  BY <1>1, RejectTypes DEF IInv, TypeOK
<1>4. pc' \in {"finish", "loop"}
  BY DEF Reject, Goto
<1>5. EachRowOnce'
  <2>1. InHand' = {}
    BY <1>4 DEF InHand
  <2>2. IsFiniteSet(Rejected \cup {next'})
    BY FS_AddElement DEF IInv, EachRowOnce
  <2> QED
    BY <2>1, <2>2 DEF IInv, EachRowOnce
<1>6. CountersAreHonest'
  <2>1. Cardinality(Rejected \cup {next'}) = Cardinality(Rejected) + 1
    BY FS_AddElement DEF IInv, EachRowOnce
  <2>2. result.succeeded = Cardinality(accepted) /\ result.failed = Cardinality(Rejected)
    BY DEF IInv, CountersAreHonest, Done
  <2>3. Cardinality(accepted) \in Nat /\ Cardinality(Rejected) \in Nat
    BY FS_CardinalityType DEF IInv, EachRowOnce
  <2> QED
    BY <1>3, <1>4, <2>1, <2>2, <2>3 DEF IInv, CountersAreHonest, Done
<1>7. FirstErrorsKept'
  <2>1. \A n \in Rejected : n \in Nat /\ n < next'
    BY DEF IInv
  <2>2. \A i \in DOMAIN result.errors : result.errors[i] \in Nat /\ result.errors[i] < next'
    BY <1>1, <2>1 DEF IInv, FirstErrorsKept
  <2>3. CASE Len(result.errors) < MaxErrors
    <3>1. result'.errors = Append(result.errors, next')
      BY <1>3, <2>3 DEF AppendError
    <3>2. /\ DOMAIN result'.errors = DOMAIN result.errors \cup {Len(result.errors) + 1}
          /\ result'.errors[Len(result.errors) + 1] = next'
          /\ \A i \in DOMAIN result.errors :
               result'.errors[i] = result.errors[i] /\ i \in Nat /\ i < Len(result.errors) + 1
      BY <1>1, <3>1, AppendFacts
    <3>3. Len(result.errors) \in Nat
      BY <1>1
    <3>4. \A n \in Rejected : \E i \in DOMAIN result.errors : result.errors[i] = n
      <4>1. FirstErrorsKept /\ MaxErrors \in Nat /\ Len(result.errors) /= MaxErrors
        BY <2>3, <3>3 DEF IInv
      <4> QED
        BY <4>1, Zenon DEF FirstErrorsKept
    <3>5. \A n \in Rejected' : \E i \in DOMAIN result'.errors : result'.errors[i] = n
      BY <3>2, <3>4
    <3>6. \A i \in DOMAIN result'.errors : result'.errors[i] \in Rejected'
      BY <3>2 DEF IInv, FirstErrorsKept
    <3>7. \A i, j \in DOMAIN result'.errors : i < j => result'.errors[i] < result'.errors[j]
      BY <3>2, <3>3, <2>2 DEF IInv, FirstErrorsKept
    <3> QED
      BY <3>5, <3>6, <3>7 DEF FirstErrorsKept
  <2>4. CASE Len(result.errors) >= MaxErrors
    <3>1. result'.errors = result.errors /\ Len(result.errors) = MaxErrors
      BY <1>1, <1>3, <2>4 DEF AppendError
    <3> QED
      BY <1>4, <2>1, <2>2, <3>1 DEF IInv, FirstErrorsKept, Done
  <2> QED
    BY <1>1, <2>3, <2>4
<1> QED
  BY <1>5, <1>6, <1>7

\* Read takes a row, or leaves the counters alone.
LEMMA ReadStep ==
  ASSUME IInv, Read
  PROVE  EachRowOnce' /\ CountersAreHonest' /\ FirstErrorsKept'
<1>1. ~Done /\ InHand = {} /\ next \in Nat /\ UNCHANGED <<rows, failFast, accepted, refused>>
  BY RowFacts DEF IInv, Read, Done, InHand, request, outside
<1>2. CASE UNCHANGED <<next, result>>
  <2>1. Quiet
    BY <1>1, <1>2 DEF Read, Goto, Return, Quiet
  <2> QED
    BY <1>1, <2>1, QuietStep DEF IInv
<1>3. CASE /\ next < Len(rows) /\ rows[next + 1] /= "broken"
           /\ next' = next + 1
  <2> DEFINE counted == CountRow(result)
  <2>1. /\ counted \in Results /\ counted.processed = result.processed + 1
        /\ counted.succeeded = result.succeeded /\ counted.failed = result.failed
        /\ counted.errors = result.errors
    BY RowFacts, ReadUpdate DEF IInv
  <2>2. IF rows[next'] = "bad" THEN Reject(counted) ELSE result' = counted /\ Goto("deliver")
    BY <1>1, <1>3 DEF Read, CountRow
  <2> HIDE DEF counted
  <2>3. Cardinality(accepted) \in Nat /\ Cardinality(Rejected) \in Nat
    BY FS_CardinalityType DEF IInv, EachRowOnce
  <2>4. /\ result.processed = next /\ next = Cardinality(accepted) + Cardinality(Rejected)
        /\ result.succeeded = Cardinality(accepted) /\ result.failed = Cardinality(Rejected)
    <3>1. CountersAreHonest /\ pc = "read"
      BY DEF IInv, Read
    <3> QED
      BY <1>1, <2>3, <3>1 DEF CountersAreHonest
  <2>5. /\ accepted \cup Rejected = 1 .. next
        /\ 1 .. next' = accepted \cup Rejected \cup {next'}
        /\ next' \in Nat /\ next' \notin accepted /\ next' \notin Rejected
    <3>1. accepted \cup Rejected = 1 .. next
      BY <1>1 DEF IInv, EachRowOnce
    <3>2. 1 .. next' = (1 .. next) \cup {next'} /\ next' \in Nat /\ next' \notin 1 .. next
      BY <1>1, <1>3
    <3> QED
      BY <3>1, <3>2
  <2>6. CASE rows[next'] = "bad"
    <3>1. Rejected' = Rejected \cup {next'}
      BY <1>1, <1>3, <2>6 DEF Rejected
    <3>2. next' = Cardinality(accepted) + Cardinality(Rejected) + 1 /\ counted.processed = next'
      BY <1>1, <1>3, <2>1, <2>4
    <3> QED
      BY <1>1, <2>1, <2>2, <2>5, <2>6, <3>1, <3>2, RejectStep
  <2>7. CASE rows[next'] /= "bad"
    <3>1. Rejected' = Rejected
      BY <1>1, <1>3, <2>7 DEF Rejected
    <3>2. InHand' = {next'} /\ pc' = "deliver" /\ result' = counted
      BY <2>2, <2>7 DEF InHand, Goto
    <3>3. EachRowOnce'
      BY <1>1, <2>5, <3>1, <3>2 DEF IInv, EachRowOnce
    <3>4. CountersAreHonest'
      BY <1>1, <1>3, <2>1, <2>4, <2>3, <3>1, <3>2 DEF CountersAreHonest
    <3>5. FirstErrorsKept'
      <4>1. FirstErrorsKept
        BY DEF IInv
      <4> QED
        BY <1>1, <2>1, <3>1, <3>2, <4>1 DEF FirstErrorsKept, Done
    <3> QED
      BY <3>3, <3>4, <3>5
  <2> QED
    BY <2>6, <2>7
<1> QED
  BY <1>2, <1>3 DEF Read

\* Accept counts the row in hand as succeeded.
LEMMA AcceptStep ==
  ASSUME IInv, Accept
  PROVE  EachRowOnce' /\ CountersAreHonest' /\ FirstErrorsKept'
<1>1. next \in 1 .. next /\ next \notin accepted /\ next \notin Rejected /\ InHand = {next}
  BY RowInHand DEF IInv, Accept, InHand
<1>2. Rejected' = Rejected /\ InHand' = {} /\ ~Done /\ ~Done' /\ UNCHANGED next
  BY DEF Accept, Rejected, InHand, Goto, Done, request
<1>3. accepted' = accepted \cup {next}
  BY DEF Accept
<1>4. IsFiniteSet(accepted') /\ Cardinality(accepted') = Cardinality(accepted) + 1
  BY <1>1, <1>3, FS_AddElement DEF IInv, EachRowOnce
<1>5. /\ result'.processed = result.processed /\ result'.succeeded = result.succeeded + 1
      /\ result'.failed = result.failed /\ result'.errors = result.errors
  BY RowFacts, AcceptUpdate DEF IInv, Accept
<1>6. EachRowOnce'
  BY <1>1, <1>2, <1>3, <1>4 DEF IInv, EachRowOnce
<1>7. CountersAreHonest'
  <2>1. Cardinality(accepted) \in Nat /\ Cardinality(Rejected) \in Nat
    BY FS_CardinalityType DEF IInv, EachRowOnce
  <2>2. CountersAreHonest /\ pc = "process" /\ pc' = "loop"
    BY DEF IInv, Accept, Goto
  <2> QED
    BY <1>2, <1>4, <1>5, <2>1, <2>2 DEF CountersAreHonest
<1>8. FirstErrorsKept'
  <2>1. FirstErrorsKept
    BY DEF IInv
  <2> QED
    BY <1>2, <1>5, <2>1 DEF FirstErrorsKept
<1> QED
  BY <1>6, <1>7, <1>8

\* Refuse counts it as failed, unless the context is done.
LEMMA RefuseStep ==
  ASSUME IInv, Refuse
  PROVE  EachRowOnce' /\ CountersAreHonest' /\ FirstErrorsKept'
<1>1. /\ next \in 1 .. next /\ next \notin accepted /\ next \notin Rejected /\ InHand = {next}
      /\ next \in Nat
  BY RowInHand, RowFacts DEF IInv, Refuse, InHand
<1>2. /\ Rejected' = Rejected \cup {next} /\ ~Done
      /\ UNCHANGED <<rows, failFast, next, accepted>> /\ refused' = refused \cup {next}
  BY DEF Refuse, Rejected, Done, request
<1>3. IsFiniteSet(Rejected') /\ Cardinality(Rejected') = Cardinality(Rejected) + 1
  BY <1>1, <1>2, FS_AddElement DEF IInv, EachRowOnce
<1>4. Cardinality(accepted) \in Nat /\ Cardinality(Rejected) \in Nat
  BY FS_CardinalityType DEF IInv, EachRowOnce
<1>5. /\ result.processed = next /\ result.succeeded = Cardinality(accepted)
      /\ result.failed = Cardinality(Rejected)
      /\ next = Cardinality(accepted) + Cardinality(Rejected) + 1
  <2>1. CountersAreHonest /\ pc = "process"
    BY DEF IInv, Refuse
  <2> QED
    BY <1>2, <2>1 DEF CountersAreHonest
<1>6. CASE cancelled
  <2>1. Done' /\ error' = "context" /\ result' = result /\ pc' = "done"
    BY <1>6 DEF Refuse, Return, Done
  <2>2. EachRowOnce'
    BY <1>1, <1>2, <1>3, <2>1 DEF IInv, EachRowOnce, InHand
  <2>3. CountersAreHonest'
    BY <1>2, <1>3, <1>4, <1>5, <2>1 DEF CountersAreHonest
  <2>4. FirstErrorsKept'
    <3>1. FirstErrorsKept
      BY DEF IInv
    <3> QED
      BY <1>2, <2>1, <3>1 DEF FirstErrorsKept
  <2> QED
    BY <2>2, <2>3, <2>4
<1>7. CASE ~cancelled
  <2>1. Reject(result) /\ result \in Results
    BY <1>7, RowFacts DEF Refuse, IInv
  <2>2. 1 .. next' = accepted \cup Rejected \cup {next'}
    BY <1>1, <1>2 DEF IInv, EachRowOnce
  <2> QED
    BY <1>1, <1>2, <1>5, <2>1, <2>2, RejectStep
<1> QED
  BY <1>6, <1>7

-----------------------------------------------------------------------------
(* The ways out of the loop.                                               *)

\* What Read does to the rejected rows, and where it goes.
LEMMA ReadExits ==
  ASSUME TypeOK, Read
  PROVE  \/ Rejected' = Rejected /\ pc' = "done" /\ error' = "read" /\ UNCHANGED next
         \/ Rejected' = Rejected /\ pc' = "finish" /\ next' = Len(rows) /\ UNCHANGED next
         \/ Rejected' = Rejected /\ pc' = "deliver"
         \/ /\ Rejected' = Rejected \cup {next'}
            /\ pc' = IF failFast THEN "finish" ELSE "loop"
<1>1. next \in Nat /\ UNCHANGED <<rows, refused>>
  BY RowFacts DEF Read, request, outside
<1>2. CASE UNCHANGED <<next, result>>
  <2>1. Rejected' = Rejected
    BY <1>1, <1>2 DEF Rejected
  <2> QED
    BY <1>1, <1>2, <2>1 DEF Read, Return, Goto
<1>3. CASE /\ next < Len(rows) /\ rows[next + 1] /= "broken" /\ next' = next + 1
           /\ pc' = IF rows[next'] = "bad" THEN IF failFast THEN "finish" ELSE "loop" ELSE "deliver"
  <2>1. CASE rows[next'] = "bad"
    <3>1. Rejected' = Rejected \cup {next'}
      BY <1>1, <1>3, <2>1 DEF Rejected
    <3> QED
      BY <1>3, <2>1, <3>1
  <2>2. CASE rows[next'] /= "bad"
    <3>1. Rejected' = Rejected
      BY <1>1, <1>3, <2>2 DEF Rejected
    <3> QED
      BY <1>3, <2>2, <3>1
  <2> QED
    BY <2>1, <2>2
<1> QED
  BY <1>2, <1>3 DEF Read, Reject, Goto

LEMMA RefuseExits ==
  ASSUME Refuse
  PROVE  /\ Rejected' = Rejected \cup {next} /\ UNCHANGED <<next, failFast, rows>>
         /\ \/ pc' = "done" /\ error' = "context"
            \/ pc' = IF failFast THEN "finish" ELSE "loop"
  BY DEF Refuse, Rejected, Reject, Return, Goto, request

LEMMA StopsStep ==
  ASSUME IInv, Import \/ Cancel
  PROVE  StopsAtFirst'
<1>1. StopsAtFirst /\ TypeOK
  BY DEF IInv
<1>2. CASE Setup \/ Begin \/ LoopHead \/ Deliver \/ Finish \/ End \/ Cancel
  <2>1. Rejected' = Rejected /\ UNCHANGED <<next, failFast>>
    BY <1>2, QuietActions DEF Quiet, Rejected
  <2> QED
    BY <1>1, <1>2, <2>1 DEF StopsAtFirst, Setup, Begin, LoopHead, Deliver, Finish, End, Cancel, Goto, Return
<1>3. CASE Read
  <2>1. (failFast => Rejected = {}) /\ failFast' = failFast
    BY <1>1, <1>3 DEF StopsAtFirst, Read, request
  <2> QED
    BY <1>1, <1>3, <2>1, ReadExits DEF StopsAtFirst
<1>4. CASE Accept
  <2>1. (failFast => Rejected = {}) /\ failFast' = failFast /\ Rejected' = Rejected
    BY <1>1, <1>4 DEF StopsAtFirst, Accept, Rejected, request
  <2> QED
    BY <2>1 DEF StopsAtFirst
<1>5. CASE Refuse
  <2>1. failFast => Rejected = {}
    BY <1>1, <1>5 DEF StopsAtFirst, Refuse
  <2> QED
    BY <1>5, <2>1, RefuseExits DEF StopsAtFirst
<1> QED
  BY <1>2, <1>3, <1>4, <1>5 DEF Import

LEMMA WholeSourceStep ==
  ASSUME IInv, Import \/ Cancel
  PROVE  WholeSource'
<1>1. WholeSource /\ TypeOK
  BY DEF IInv
<1>2. CASE Setup \/ Begin \/ LoopHead \/ Deliver \/ Finish \/ End \/ Cancel
  <2>1. Rejected' = Rejected /\ UNCHANGED <<rows, next, failFast>>
    BY <1>2, QuietActions DEF Quiet, Rejected
  <2> QED
    BY <1>1, <1>2, <2>1 DEF WholeSource, Setup, Begin, LoopHead, Deliver, Finish, End, Cancel, Goto, Return, Done
<1>3. CASE Read
  <2>1. UNCHANGED <<failFast, rows>>
    BY <1>3 DEF Read, request
  <2> QED
    BY <1>1, <1>3, <2>1, ReadExits DEF WholeSource, Done
<1>4. CASE Accept
  BY <1>4 DEF WholeSource, Accept, Goto, Done
<1>5. CASE Refuse
  BY <1>5, RefuseExits DEF WholeSource, Done
<1> QED
  BY <1>2, <1>3, <1>4, <1>5 DEF Import

LEMMA EndsLastStep ==
  ASSUME IInv, Import \/ Cancel
  PROVE  EndsLast'
<1>1. EndsLast
  BY DEF IInv
<1>2. CASE End
  <2>1. ended = <<>> /\ "end" \in hooks /\ Append(ended, result) = <<result>>
    BY <1>1, <1>2 DEF EndsLast, End, Done
  <2> QED
    BY <1>2, <2>1 DEF EndsLast, End, Return, Done, request
<1>3. CASE Finish
  BY <1>1, <1>3 DEF EndsLast, Finish, Return, Goto, Done, request, outside
<1>4. CASE Setup \/ Begin \/ LoopHead \/ Deliver \/ Cancel
  BY <1>1, <1>4 DEF EndsLast, Setup, Begin, LoopHead, Deliver, Cancel, Return, Goto, Done, request, outside
<1>5. CASE Read \/ Accept \/ Refuse
  <2>1. ended = <<>> /\ ended' = ended /\ pc' /= "end" /\ (pc' = "done" => error' /= "none")
    BY <1>1, <1>5 DEF EndsLast, Read, Accept, Refuse, Reject, Return, Goto, Done, outside
  <2> QED
    BY <2>1 DEF EndsLast, Done
<1> QED
  BY <1>2, <1>3, <1>4, <1>5 DEF Import

LEMMA LateStep ==
  ASSUME IInv, Import \/ Cancel
  PROVE  LateIsLast'
<1>1. LateIsLast
  BY DEF IInv
<1>2. CASE Deliver
  BY <1>1, <1>2 DEF LateIsLast, Deliver, Goto
<1>3. CASE Read
  BY <1>1, <1>3 DEF LateIsLast, Read, outside
<1>4. CASE Setup \/ Begin \/ LoopHead \/ Accept \/ Refuse \/ Finish \/ End \/ Cancel
  BY <1>1, <1>4 DEF LateIsLast, Setup, Begin, LoopHead, Accept, Refuse, Reject, Finish, End, Cancel,
                    Goto, Return, outside
<1> QED
  BY <1>2, <1>3, <1>4 DEF Import

-----------------------------------------------------------------------------
(* The theorems.                                                           *)

LEMMA InitInv == Init => IInv
<1> SUFFICES ASSUME Init PROVE IInv
  OBVIOUS
<1>1. TypeOK
  BY InitTypes
<1>2. Rejected = {} /\ InHand = {} /\ accepted = {} /\ next = 0
  BY DEF Init, Rejected, InHand
<1>3. IsFiniteSet({}) /\ Cardinality({}) = 0
  BY FS_EmptySet
<1>4. EachRowOnce
  BY <1>2, <1>3 DEF EachRowOnce
<1>5. CountersAreHonest
  BY <1>2, <1>3 DEF CountersAreHonest, Init, Zero
<1>6. FirstErrorsKept
  BY <1>2 DEF FirstErrorsKept, Init, Zero
<1>7. StopsAtFirst /\ WholeSource /\ EndsLast /\ LateIsLast
  BY <1>2 DEF StopsAtFirst, WholeSource, EndsLast, LateIsLast, Init, Done
<1> QED
  BY <1>1, <1>4, <1>5, <1>6, <1>7 DEF IInv

LEMMA NextInv == IInv /\ [Next]_vars => IInv'
<1> SUFFICES ASSUME IInv, [Next]_vars PROVE IInv'
  OBVIOUS
<1>1. TypeOK'
  BY TypeStep DEF IInv
<1>2. CASE Import \/ Cancel
  <2>1. EachRowOnce' /\ CountersAreHonest' /\ FirstErrorsKept'
    <3>1. CASE Setup \/ Begin \/ LoopHead \/ Deliver \/ Finish \/ End \/ Cancel
      BY <3>1, QuietActions, QuietStep DEF IInv
    <3> QED
      BY <1>2, <3>1, ReadStep, AcceptStep, RefuseStep DEF Import
  <2> QED
    BY <1>1, <1>2, <2>1, StopsStep, WholeSourceStep, EndsLastStep, LateStep DEF IInv
<1>3. CASE UNCHANGED vars
  <2>1. Rejected' = Rejected /\ InHand' = InHand
    BY <1>3 DEF vars, request, outside, Rejected, InHand
  <2>2. EachRowOnce' /\ CountersAreHonest' /\ FirstErrorsKept'
    BY <1>3, <2>1 DEF vars, request, outside, IInv, EachRowOnce, CountersAreHonest, FirstErrorsKept, Done
  <2>3. StopsAtFirst' /\ WholeSource' /\ EndsLast' /\ LateIsLast'
    BY <1>3, <2>1 DEF vars, request, outside, IInv, StopsAtFirst, WholeSource, EndsLast, LateIsLast, Done
  <2> QED
    BY <1>1, <2>2, <2>3 DEF IInv
<1> QED
  BY <1>2, <1>3 DEF Next, Terminated

LEMMA Invariance == Spec => []IInv
  BY InitInv, NextInv, PTL DEF Spec

\* Every variable has its type, and the details of failed rows (appendError)
\* never exceed their limit.
THEOREM TypeCorrect == Spec => []TypeOK
<1>1. IInv => TypeOK
  BY DEF IInv
<1> QED
  BY <1>1, Invariance, PTL

\* The counters Import returns count each row it read once, whichever way it
\* returns, with the exception that CountersAreHonest names: the row refused
\* under a cancelled context, processed and neither succeeded nor failed.
THEOREM CountersHonest == Spec => []CountersAreHonest
<1>1. IInv => CountersAreHonest
  BY DEF IInv
<1> QED
  BY <1>1, Invariance, PTL

\* "Counters cover every row", mapper/import.go:32, holds of every import but
\* one that fails with the context's error, which may lack its last row.
THEOREM CountersCover ==
  Spec => [](/\ error /= "context" => CountersCoverEveryRow
             /\ Done => result.succeeded + result.failed \in {result.processed, result.processed - 1})
<1>1. ASSUME IInv, Done
      PROVE  /\ error /= "context" => result.succeeded + result.failed = result.processed
             /\ result.succeeded + result.failed \in {result.processed, result.processed - 1}
  <2>1. TypeOK /\ CountersAreHonest /\ pc \notin {"deliver", "process"}
    BY <1>1 DEF IInv, Done
  <2>2. result.processed \in Nat /\ result.succeeded \in Nat /\ result.failed \in Nat
    BY <2>1 DEF TypeOK, Results
  <2>3. Cardinality(accepted) = result.succeeded
    BY <2>1 DEF CountersAreHonest
  <2>4. result.processed = Cardinality(accepted) + Cardinality(Rejected) + 0
    BY <2>1 DEF CountersAreHonest
  <2>5. Cardinality(Rejected) \in Nat
    BY <1>1, FS_CardinalityType DEF IInv, EachRowOnce
  <2>6. \/ result.failed = Cardinality(Rejected)
        \/ error = "context" /\ result.failed = Cardinality(Rejected) - 1
    BY <2>1 DEF CountersAreHonest
  <2>7. error /= "context" => result.succeeded + result.failed = result.processed
    BY <2>2, <2>3, <2>4, <2>5, <2>6
  <2>8. \/ result.succeeded + result.failed = result.processed
        \/ result.succeeded + result.failed = result.processed - 1
    BY <2>2, <2>3, <2>4, <2>5, <2>6
  <2> QED
    BY <2>7, <2>8
<1>2. IInv => /\ error /= "context" => CountersCoverEveryRow
              /\ Done => result.succeeded + result.failed
                            \in {result.processed, result.processed - 1}
  BY <1>1 DEF CountersCoverEveryRow
<1> QED
  BY <1>2, Invariance, PTL

\* The details that are kept are those of the first rejected rows, in order.
THEOREM FirstErrorsStay == Spec => []FirstErrorsKept
<1>1. IInv => FirstErrorsKept
  BY DEF IInv
<1> QED
  BY <1>1, Invariance, PTL

\* A cancelled import gives its processor at most one more row.
THEOREM OneLateRow == Spec => []AtMostOneLateRow
<1>1. IInv => AtMostOneLateRow
  BY DEF IInv, LateIsLast, AtMostOneLateRow
<1> QED
  BY <1>1, Invariance, PTL

\* A nil error means that the whole source was imported, or under FailFast
\* everything up to the first failed row, and EndImport got this result.
THEOREM NilIsComplete == Spec => []NilMeansAllRows
<1>1. IInv => NilMeansAllRows
  <2> SUFFICES ASSUME IInv PROVE NilMeansAllRows
    OBVIOUS
  <2>1. ASSUME Done, error = "none"
        PROVE  /\ result.succeeded = Cardinality(accepted) /\ result.failed = Cardinality(Rejected)
               /\ result.succeeded + result.failed = next
    <3>1. CountersAreHonest /\ pc \notin {"deliver", "process"} /\ error /= "context"
      BY <2>1 DEF IInv, Done
    <3>2. Cardinality(accepted) \in Nat /\ Cardinality(Rejected) \in Nat
      BY FS_CardinalityType DEF IInv, EachRowOnce
    <3> QED
      BY <3>1, <3>2 DEF CountersAreHonest
  <2>2. ASSUME Done, error = "none"
        PROVE  IF failFast /\ Rejected /= {} THEN Rejected = {next} ELSE next = Len(rows)
    BY <2>2 DEF IInv, StopsAtFirst, WholeSource
  <2>3. EndsLast
    BY DEF IInv
  <2> QED
    BY <2>1, <2>2, <2>3 DEF NilMeansAllRows, EndsLast
<1> QED
  BY <1>1, Invariance, PTL

=============================================================================
