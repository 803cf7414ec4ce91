--------------------------- MODULE TusHandlerProofs ---------------------------
(***************************************************************************)
(* Proofs about TusHandler, for any sets of requests, uploads and files,   *)
(* any bound on lengths, any faults and any client.  Three parts: where    *)
(* the requests and the uploads are; that TusHandler implements            *)
(* ResumableUpload, each step of a goroutine being a step of one upload or *)
(* one that neither a client nor the store can see; and what happens to    *)
(* the bytes, which for a client that waits and a disk that works is more. *)
(***************************************************************************)
EXTENDS TusHandler, FiniteSetTheorems, TLAPS

USE MaxLengthAssumption, FaultsAssumption, ClientsAssumption, OwnershipAssumption,
    NoneAssumption

-----------------------------------------------------------------------------
(* Types.                                                                  *)

\* A goroutine about to write a block has a block to write.
WriterHasByte == \A r \in Requests : pc[r] = "write" => io[r].n < io[r].size

\* A goroutine inside a handler addresses an upload.
AddressesUpload ==
  \A r \in Requests : pc[r] \notin {"idle", "done"} => req[r].id \in Uploads

ReqType == [Requests -> [op : Methods, id : Uploads \cup {None}]]

IOType  == [Requests -> [base : Nat, room : Int, size : Nat, n : Nat]]

RequestsOK ==
  /\ pc \in [Requests -> Labels]
  /\ req \in ReqType
  /\ io \in IOType
  /\ \A r \in Requests : io[r].n <= io[r].size
  /\ ans \in [Requests -> [code : Nat, file : FileIds \cup {None}]]
  /\ WriterHasByte
  /\ AddressesUpload

StateOK ==
  /\ up \in BOOLEAN
  /\ live \subseteq Uploads
  /\ session \in [Uploads -> [length : Nat, offset : Nat]]
  /\ completed \in [Uploads -> FileIds \cup {None}]
  /\ staged \in [Uploads -> Seq(Nat)]
  /\ onDisk \in [Uploads -> BOOLEAN]
  /\ stored \in [FileIds -> [from : Uploads \cup {None}, content : Seq(Nat)]]

Typing == StateOK /\ RequestsOK

\* The request a goroutine serves is set, if at all, for that goroutine only.
ReqStep(r) ==
  /\ req' \in ReqType
  /\ \A q \in Requests \ {r} : req'[q] = req[q]

LEMMA ReqUnchanged ==
  ASSUME RequestsOK, NEW r \in Requests, req' = req
  PROVE  ReqStep(r) /\ req'[r] = req[r]
BY DEF RequestsOK, ReqStep

LEMMA ReqArrives ==
  ASSUME RequestsOK, NEW r \in Requests, NEW op \in Methods, NEW u \in Uploads,
         Arrive(r, op, u)
  PROVE  ReqStep(r) /\ req'[r].id = u
BY DEF RequestsOK, ReqStep, ReqType, Arrive

\* The ways a goroutine moves keep the request-local variables well-typed.
LEMMA GotoOK ==
  ASSUME RequestsOK, NEW r \in Requests, NEW l \in Labels, ReqStep(r),
         Goto(r, l), io' = io, ans' = ans,
         l = "write" => io[r].n < io[r].size,
         l \notin {"idle", "done"} => req'[r].id \in Uploads
  PROVE  RequestsOK'
BY DEF RequestsOK, ReqStep, Goto, WriterHasByte, AddressesUpload

LEMMA AnswerOK ==
  ASSUME RequestsOK, NEW r \in Requests, ReqStep(r),
         NEW code \in Nat, NEW file \in FileIds \cup {None}, Answer(r, code, file)
  PROVE  RequestsOK'
<1> USE DEF RequestsOK, ReqStep, Answer, Goto, Prepare
<1>e. io' = [io EXCEPT ![r] = NoIO]
  BY DEF EndIO
<1>1. pc' \in [Requests -> Labels]
  BY DEF Labels
<1>2. io' \in IOType /\ \A q \in Requests : io'[q].n <= io'[q].size
  BY <1>e DEF NoIO, IOType
<1>3. ans' \in [Requests -> [code : Nat, file : FileIds \cup {None}]]
  OBVIOUS
<1>4. WriterHasByte' /\ AddressesUpload'
  BY DEF WriterHasByte, AddressesUpload, EndIO, NoIO, IOType
<1> QED
  BY <1>1, <1>2, <1>3, <1>4

LEMMA PrepareOK ==
  ASSUME RequestsOK, NEW r \in Requests, NEW l \in Labels, ReqStep(r),
         NEW code \in Nat, NEW file \in FileIds \cup {None},
         Goto(r, l), l /= "write", req'[r].id \in Uploads,
         Prepare(r, code, file), io' = io \/ EndIO(r)
  PROVE  RequestsOK'
<1> USE DEF RequestsOK, ReqStep, Goto, Prepare
<1>1. pc' \in [Requests -> Labels]
  OBVIOUS
<1>2. io' \in IOType /\ \A q \in Requests : io'[q].n <= io'[q].size
  <2>1. CASE io' = io
    BY <2>1
  <2>2. CASE EndIO(r)
    BY <2>2 DEF EndIO, NoIO, IOType
  <2> QED
    BY <2>1, <2>2
<1>3. ans' \in [Requests -> [code : Nat, file : FileIds \cup {None}]]
  OBVIOUS
<1>4. WriterHasByte' /\ AddressesUpload'
  BY DEF WriterHasByte, AddressesUpload, EndIO, NoIO, IOType
<1> QED
  BY <1>1, <1>2, <1>3, <1>4

LEMMA ResetOK ==
  ASSUME RequestsOK, NEW r \in Requests, NEW l \in Labels, ReqStep(r),
         Goto(r, l), l /= "write", req'[r].id \in Uploads,
         EndIO(r), ans' = ans
  PROVE  RequestsOK'
<1> USE DEF RequestsOK, ReqStep, Goto
<1>1. pc' \in [Requests -> Labels]
  OBVIOUS
<1>2. io' \in IOType /\ \A q \in Requests : io'[q].n <= io'[q].size
  BY DEF NoIO, IOType, EndIO
<1>3. WriterHasByte' /\ AddressesUpload'
  BY DEF WriterHasByte, AddressesUpload, EndIO, NoIO, IOType
<1> QED
  BY <1>1, <1>2, <1>3

LEMMA StartAppendOK ==
  ASSUME RequestsOK, NEW r \in Requests, ReqStep(r), req'[r].id \in Uploads,
         NEW u, NEW base \in Nat, NEW room \in Int, StartAppend(r, u, base, room),
         ans' = ans
  PROVE  RequestsOK'
<1> USE DEF RequestsOK, ReqStep, Goto
<1>1. PICK k \in Chunks(u, room) :
         io' = [io EXCEPT ![r] = [base |-> base, room |-> room, size |-> k, n |-> 0]]
  BY DEF StartAppend
<1>2. k \in Nat
  BY DEF Chunks
<1>3. pc' = [pc EXCEPT ![r] = "append"]
  BY DEF StartAppend
<1>4. pc' \in [Requests -> Labels] /\ io' \in IOType
         /\ \A q \in Requests : io'[q].n <= io'[q].size
  BY <1>1, <1>2, <1>3 DEF Labels, IOType
<1>5. WriterHasByte' /\ AddressesUpload'
  BY <1>1, <1>2, <1>3 DEF WriterHasByte, AddressesUpload
<1> QED
  BY <1>4, <1>5

LEMMA AppendFailedOK ==
  ASSUME RequestsOK, NEW r \in Requests, req' = req, req[r].id \in Uploads,
         NEW code \in Nat, AppendFailed(r, code)
  PROVE  RequestsOK'
<1>1. ReqStep(r) /\ req'[r] = req[r]
  BY ReqUnchanged
<1>2. CASE req[r].op = "POST"
  <2>1. Goto(r, "abort") /\ Prepare(r, 400, None) /\ EndIO(r)
    BY <1>2 DEF AppendFailed
  <2>2. "abort" \in Labels /\ None \in FileIds \cup {None} /\ req'[r].id \in Uploads
    BY DEF Labels
  <2> QED
    BY <1>1, <2>1, <2>2, PrepareOK
<1>3. CASE req[r].op /= "POST"
  BY <1>1, <1>3, AnswerOK DEF AppendFailed
<1> QED
  BY <1>2, <1>3

LEMMA TypingInit == Init => Typing
<1> SUFFICES ASSUME Init PROVE Typing
  OBVIOUS
<1>1. StateOK
  BY DEF Init, StateOK, NoFile
<1>2. RequestsOK
  BY DEF Init, RequestsOK, ReqType, WriterHasByte, AddressesUpload, NoReq, NoIO, IOType,
         NoAnswer, Labels, Methods
<1> QED
  BY <1>1, <1>2 DEF Typing

LEMMA RegisterOK ==
  ASSUME Typing, NEW r \in Requests, NEW u \in Uploads, NEW length \in 0 .. MaxLength,
         Register(r, u, length)
  PROVE  StateOK' /\ ReqStep(r) /\ req'[r].id = u
<1>1. StateOK'
  BY DEF Typing, StateOK, Register
<1>2. ReqStep(r) /\ req'[r].id = u
  BY ReqArrives DEF Typing, Register, Methods
<1> QED
  BY <1>1, <1>2

LEMMA TypingStep == Typing /\ [Next]_vars => Typing'
<1> SUFFICES ASSUME Typing, [Next]_vars PROVE Typing'
  OBVIOUS
<1> USE DEF Typing
<1>lab. Labels = {"idle", "append", "copy", "write", "credit", "abort", "result",
                  "finish", "open", "save", "publish", "cleanup", "missing", "done"}
  BY DEF Labels
<1>id. \A r \in Requests : pc[r] \notin {"idle", "done"} => req[r].id \in Uploads
  BY DEF RequestsOK, AddressesUpload
<1>1. ASSUME NEW r \in Requests, NEW u \in Uploads, NEW length \in 0 .. MaxLength,
             CreateEmpty(r, u, length) PROVE Typing'
  <2>1. StateOK' /\ ReqStep(r) /\ req'[r].id = u
    BY <1>1, RegisterOK DEF CreateEmpty
  <2>2. \/ Goto(r, "finish") /\ io' = io /\ ans' = ans
        \/ Answer(r, 201, None)
    BY <1>1 DEF CreateEmpty
  <2>3. RequestsOK'
    BY <1>lab, <2>1, <2>2, GotoOK, AnswerOK
  <2> QED
    BY <2>1, <2>3
<1>2. ASSUME NEW r \in Requests, NEW u \in Uploads, NEW length \in 0 .. MaxLength,
             CreateWrongType(r, u, length) PROVE Typing'
  <2>1. StateOK' /\ ReqStep(r) /\ req'[r].id = u
    BY <1>2, RegisterOK DEF CreateWrongType
  <2>2. Goto(r, "abort") /\ Prepare(r, 415, None) /\ io' = io
    BY <1>2 DEF CreateWrongType
  <2>3. RequestsOK'
    BY <1>lab, <2>1, <2>2, PrepareOK
  <2> QED
    BY <2>1, <2>3
<1>3. ASSUME NEW r \in Requests, NEW u \in Uploads, NEW length \in 0 .. MaxLength,
             CreateWithContent(r, u, length) PROVE Typing'
  <2>1. StateOK' /\ ReqStep(r) /\ req'[r].id = u
    BY <1>3, RegisterOK DEF CreateWithContent
  <2>2. StartAppend(r, u, 0, length) /\ ans' = ans
    BY <1>3 DEF CreateWithContent
  <2>3. RequestsOK'
    BY <2>1, <2>2, StartAppendOK
  <2> QED
    BY <2>1, <2>3
<1>4. ASSUME NEW r \in Requests, NEW u \in Uploads, PatchAccept(r, u) PROVE Typing'
  <2>1. StateOK'
    BY <1>4 DEF PatchAccept, StateOK, table, disk
  <2>2. ReqStep(r) /\ req'[r].id = u
    BY <1>4, ReqArrives DEF PatchAccept, Methods
  <2>3. session[u].offset \in Nat /\ session[u].length - session[u].offset \in Int
    BY DEF StateOK
  <2>4. RequestsOK'
    BY <1>4, <2>2, <2>3, StartAppendOK DEF PatchAccept
  <2> QED
    BY <2>1, <2>4
<1>5. ASSUME NEW r \in Requests, NEW u \in Uploads, PatchConflict(r, u) PROVE Typing'
  <2>1. StateOK'
    BY <1>5 DEF PatchConflict, StateOK, table, disk
  <2>2. ReqStep(r)
    BY <1>5, ReqArrives DEF PatchConflict, Methods
  <2>3. RequestsOK'
    BY <1>5, <2>2, AnswerOK DEF PatchConflict
  <2> QED
    BY <2>1, <2>3
<1>6. ASSUME NEW r \in Requests, NEW u \in Uploads, PatchNotLive(r, u) PROVE Typing'
  <2>1. StateOK'
    BY <1>6 DEF PatchNotLive, StateOK, table, disk
  <2>2. ReqStep(r) /\ req'[r].id = u
    BY <1>6, ReqArrives DEF PatchNotLive, Methods
  <2>3. RequestsOK'
    BY <1>6, <1>lab, <2>2, GotoOK DEF PatchNotLive
  <2> QED
    BY <2>1, <2>3
<1>7. ASSUME NEW r \in Requests, NEW u \in Uploads, Status(r, u) PROVE Typing'
  <2>1. StateOK'
    BY <1>7 DEF Status, StateOK, table, disk
  <2>2. ReqStep(r) /\ HeadCode(u) \in Nat /\ completed[u] \in FileIds \cup {None}
    BY <1>7, ReqArrives DEF Status, Methods, HeadCode, StateOK
  <2>3. RequestsOK'
    BY <1>7, <2>2, AnswerOK DEF Status
  <2> QED
    BY <2>1, <2>3
<1>8. ASSUME NEW r \in Requests, NEW u \in Uploads, Terminate(r, u) PROVE Typing'
  <2>1. StateOK'
    BY <1>8 DEF Terminate, StateOK, table, disk
  <2>2. ReqStep(r)
    BY <1>8, ReqArrives DEF Terminate, Methods
  <2>3. RequestsOK'
    BY <1>8, <2>2, AnswerOK DEF Terminate
  <2> QED
    BY <2>1, <2>3
<1>9. ASSUME NEW r \in Requests, Refuse(r) PROVE Typing'
  <2>1. StateOK'
    BY <1>9 DEF Refuse, StateOK, table, disk
  <2>2. ReqStep(r) /\ req'[r] = req[r] /\ req' = req
    BY <1>9, ReqUnchanged DEF Refuse
  <2>3. Answer(r, 400, None)
    BY <1>9 DEF Refuse
  <2>9. RequestsOK'
    BY <2>2, <2>3, AnswerOK
  <2> QED
    BY <2>1, <2>9
<1>10. ASSUME NEW r \in Requests, Abort(r) PROVE Typing'
  <2>1. StateOK'
    BY <1>10 DEF Abort, StateOK, table, disk
  <2>2. ReqStep(r) /\ req'[r] = req[r] /\ req' = req
    BY <1>10, ReqUnchanged DEF Abort
  <2>3. req[r].id \in Uploads
    BY <1>10, <1>id DEF Abort, At
  <2>4. Goto(r, "done") /\ io' = io /\ ans' = ans
    BY <1>10 DEF Abort
  <2>9. RequestsOK'
    BY <1>lab, <2>2, <2>3, <2>4, GotoOK
  <2> QED
    BY <2>1, <2>9
<1>11. ASSUME NEW r \in Requests, PatchMissing(r) PROVE Typing'
  <2>1. StateOK'
    BY <1>11 DEF PatchMissing, StateOK, table, disk
  <2>2. ReqStep(r) /\ req'[r] = req[r] /\ req' = req
    BY <1>11, ReqUnchanged DEF PatchMissing
  <2>3. req[r].id \in Uploads
    BY <1>11, <1>id DEF PatchMissing, At
  <2>4. Answer(r, 404, None) \/ Answer(r, 400, None)
    BY <1>11 DEF PatchMissing
  <2>9. RequestsOK'
    BY <1>lab, <2>2, <2>3, <2>4, AnswerOK
  <2> QED
    BY <2>1, <2>9
<1>12. ASSUME NEW r \in Requests, PatchResult(r) PROVE Typing'
  <2>1. StateOK'
    BY <1>12 DEF PatchResult, StateOK, table, disk
  <2>2. ReqStep(r) /\ req'[r] = req[r] /\ req' = req
    BY <1>12, ReqUnchanged DEF PatchResult
  <2>3. req[r].id \in Uploads
    BY <1>12, <1>id DEF PatchResult, At
  <2>4. \/ Answer(r, 404, None)
        \/ Goto(r, "finish") /\ io' = io /\ ans' = ans
        \/ Answer(r, 204, None)
    BY <1>12 DEF PatchResult
  <2>9. RequestsOK'
    BY <1>lab, <2>2, <2>3, <2>4, GotoOK, AnswerOK
  <2> QED
    BY <2>1, <2>9
<1>13. ASSUME NEW r \in Requests, AppendLookup(r) PROVE Typing'
  <2>1. StateOK'
    BY <1>13 DEF AppendLookup, StateOK, table, disk
  <2>2. ReqStep(r) /\ req'[r] = req[r] /\ req' = req
    BY <1>13, ReqUnchanged DEF AppendLookup
  <2>3. req[r].id \in Uploads
    BY <1>13, <1>id DEF AppendLookup, At
  <2>4. \/ Goto(r, "copy") /\ io' = io /\ ans' = ans
        \/ AppendFailed(r, 400)
    BY <1>13 DEF AppendLookup
  <2>9. RequestsOK'
    BY <1>lab, <2>2, <2>3, <2>4, GotoOK, AppendFailedOK
  <2> QED
    BY <2>1, <2>9
<1>14. ASSUME NEW r \in Requests, CopyRead(r) PROVE Typing'
  <2>1. StateOK'
    BY <1>14 DEF CopyRead, StateOK, table, disk
  <2>2. ReqStep(r) /\ req'[r] = req[r] /\ req' = req
    BY <1>14, ReqUnchanged DEF CopyRead
  <2>3. req[r].id \in Uploads
    BY <1>14, <1>id DEF CopyRead, At
  <2>4. \/ Goto(r, "write") /\ io' = io /\ ans' = ans /\ io[r].n < io[r].size
        \/ AppendFailed(r, 400)
    BY <1>14 DEF CopyRead
  <2>9. RequestsOK'
    BY <1>lab, <2>2, <2>3, <2>4, GotoOK, AppendFailedOK
  <2> QED
    BY <2>1, <2>9
<1>15. ASSUME NEW r \in Requests, CopyCut(r) PROVE Typing'
  <2>1. StateOK'
    BY <1>15 DEF CopyCut, StateOK, table, disk
  <2>2. ReqStep(r) /\ req'[r] = req[r] /\ req' = req
    BY <1>15, ReqUnchanged DEF CopyCut
  <2>3. req[r].id \in Uploads
    BY <1>15, <1>id DEF CopyCut, At
  <2>4. AppendFailed(r, 400)
    BY <1>15 DEF CopyCut
  <2>9. RequestsOK'
    BY <1>lab, <2>2, <2>3, <2>4, AppendFailedOK
  <2> QED
    BY <2>1, <2>9
<1>16. ASSUME NEW r \in Requests, CopyEnd(r) PROVE Typing'
  <2>1. StateOK'
    BY <1>16 DEF CopyEnd, StateOK, table, disk
  <2>2. ReqStep(r) /\ req'[r] = req[r] /\ req' = req
    BY <1>16, ReqUnchanged DEF CopyEnd
  <2>3. req[r].id \in Uploads
    BY <1>16, <1>id DEF CopyEnd, At
  <2>4. \/ AppendFailed(r, 413)
        \/ AppendFailed(r, 400)
        \/ Goto(r, "credit") /\ io' = io /\ ans' = ans
    BY <1>16 DEF CopyEnd
  <2>9. RequestsOK'
    BY <1>lab, <2>2, <2>3, <2>4, GotoOK, AppendFailedOK
  <2> QED
    BY <2>1, <2>9
<1>17. ASSUME NEW r \in Requests, FinishClaim(r) PROVE Typing'
  <2>1. StateOK'
    BY <1>17 DEF FinishClaim, StateOK, table, disk
  <2>2. ReqStep(r) /\ req'[r] = req[r] /\ req' = req
    BY <1>17, ReqUnchanged DEF FinishClaim
  <2>3. req[r].id \in Uploads
    BY <1>17, <1>id DEF FinishClaim, At
  <2>5. DoneCode(r) \in Nat /\ completed[req[r].id] \in FileIds \cup {None}
    BY <2>3 DEF DoneCode, StateOK
  <2>4. \/ Answer(r, 500, None)
        \/ Answer(r, DoneCode(r), completed[req[r].id])
        \/ Goto(r, "open") /\ io' = io /\ ans' = ans
    BY <1>17, <2>5 DEF FinishClaim
  <2>9. RequestsOK'
    BY <1>lab, <2>2, <2>3, <2>4, <2>5, GotoOK, AnswerOK
  <2> QED
    BY <2>1, <2>9
<1>18. ASSUME NEW r \in Requests, FinishOpen(r) PROVE Typing'
  <2>1. StateOK'
    BY <1>18 DEF FinishOpen, StateOK, table, disk
  <2>2. ReqStep(r) /\ req'[r] = req[r] /\ req' = req
    BY <1>18, ReqUnchanged DEF FinishOpen
  <2>3. req[r].id \in Uploads
    BY <1>18, <1>id DEF FinishOpen, At
  <2>4. \/ Goto(r, "save") /\ io' = io /\ ans' = ans
        \/ Answer(r, 500, None)
    BY <1>18 DEF FinishOpen
  <2>9. RequestsOK'
    BY <1>lab, <2>2, <2>3, <2>4, GotoOK, AnswerOK
  <2> QED
    BY <2>1, <2>9
<1>19. ASSUME NEW r \in Requests, FinishPublish(r) PROVE Typing'
  <2>1. StateOK'
    BY <1>19, <1>id DEF FinishPublish, StateOK, At, RequestsOK, disk
  <2>2. ReqStep(r) /\ req'[r] = req[r] /\ req' = req
    BY <1>19, ReqUnchanged DEF FinishPublish
  <2>3. req[r].id \in Uploads
    BY <1>19, <1>id DEF FinishPublish, At
  <2>4. Goto(r, "cleanup") /\ io' = io /\ ans' = ans
    BY <1>19 DEF FinishPublish
  <2>9. RequestsOK'
    BY <1>lab, <2>2, <2>3, <2>4, GotoOK
  <2> QED
    BY <2>1, <2>9
<1>20. ASSUME NEW r \in Requests, FinishCleanup(r) PROVE Typing'
  <2>1. StateOK'
    BY <1>20 DEF FinishCleanup, StateOK, table, disk
  <2>2. ReqStep(r) /\ req'[r] = req[r] /\ req' = req
    BY <1>20, ReqUnchanged DEF FinishCleanup
  <2>3. req[r].id \in Uploads
    BY <1>20, <1>id DEF FinishCleanup, At
  <2>4. Goto(r, "done") /\ io' = io /\ ans' = ans
    BY <1>20 DEF FinishCleanup
  <2>9. RequestsOK'
    BY <1>lab, <2>2, <2>3, <2>4, GotoOK
  <2> QED
    BY <2>1, <2>9
<1>21. ASSUME NEW r \in Requests, FinishSave(r) PROVE Typing'
  <2>1. req[r].id \in Uploads /\ DoneCode(r) \in Nat
    BY <1>21, <1>id DEF FinishSave, At, DoneCode
  <2>2. ReqStep(r) /\ req'[r] = req[r]
    BY <1>21, ReqUnchanged DEF FinishSave
  <2>3. CASE \E f \in FileIds :
               /\ stored' = [stored EXCEPT ![f] = [from |-> req[r].id, content |-> staged[req[r].id]]]
               /\ Goto(r, "publish") /\ Prepare(r, DoneCode(r), f)
    <3>1. StateOK'
      BY <1>21, <2>1, <2>3 DEF FinishSave, StateOK, table
    <3>2. RequestsOK'
      BY <1>21, <1>lab, <2>1, <2>2, <2>3, PrepareOK DEF FinishSave
    <3> QED
      BY <3>1, <3>2
  <2>4. CASE Goto(r, "cleanup") /\ Prepare(r, 500, None) /\ stored' = stored
    <3>1. StateOK'
      BY <1>21, <2>4 DEF FinishSave, StateOK, table
    <3>2. RequestsOK'
      BY <1>21, <1>lab, <2>1, <2>2, <2>4, PrepareOK DEF FinishSave
    <3> QED
      BY <3>1, <3>2
  <2> QED
    BY <1>21, <2>3, <2>4 DEF FinishSave
<1>22. ASSUME NEW r \in Requests, CopyWrite(r) PROVE Typing'
  <2> DEFINE u == req[r].id
  <2>1. u \in Uploads /\ io[r].n < io[r].size
    BY <1>22, <1>id DEF CopyWrite, At, RequestsOK, WriterHasByte
  <2>2. io[r].base + io[r].n + 1 \in Nat
    BY DEF RequestsOK, IOType
  <2>3. staged' \in [Uploads -> Seq(Nat)]
    BY <1>22, <2>1, <2>2 DEF CopyWrite, StateOK
  <2>4. StateOK'
    BY <1>22, <2>3 DEF CopyWrite, StateOK, table
  <2>5. io' = [io EXCEPT ![r].n = @ + 1]
    BY <1>22 DEF CopyWrite
  <2>6. io' \in IOType /\ \A q \in Requests : io'[q].n <= io'[q].size
    BY <2>1, <2>5 DEF RequestsOK, IOType
  <2>7. /\ pc' = [pc EXCEPT ![r] = "copy"] /\ req' = req /\ ans' = ans
    BY <1>22 DEF CopyWrite, Goto
  <2>8. RequestsOK'
    BY <1>22, <1>lab, <2>1, <2>6, <2>7 DEF RequestsOK, WriterHasByte, AddressesUpload, CopyWrite
  <2> QED
    BY <2>4, <2>8
<1>23. ASSUME NEW r \in Requests, Credit(r) PROVE Typing'
  <2> DEFINE u == req[r].id
  <2>u. u \in Uploads
    BY <1>23, <1>id DEF Credit, At
  <2>n. io[r].n \in Nat
    BY DEF RequestsOK, IOType
  <2>1. u \in Uploads /\ session[u].offset + io[r].n \in Nat
    BY <2>u, <2>n DEF StateOK
  <2>s. session' = [session EXCEPT ![u].offset = @ + io[r].n]
    BY <1>23 DEF Credit
  <2>t. session \in [Uploads -> [length : Nat, offset : Nat]]
    BY DEF StateOK
  <2>2. session' \in [Uploads -> [length : Nat, offset : Nat]]
    <3> HIDE DEF u, Typing
    <3>1. session'[u] = [length |-> session[u].length, offset |-> session[u].offset + io[r].n]
      BY <2>1, <2>s, <2>t
    <3> QED
      BY <2>1, <2>s, <2>t, <3>1
  <2>3. StateOK'
    BY <1>23, <2>2 DEF Credit, StateOK, disk
  <2>4. ReqStep(r) /\ req'[r] = req[r]
    BY <1>23, ReqUnchanged DEF Credit
  <2>5. \/ \E l \in {"result", "finish"} :
             Goto(r, l) /\ EndIO(r) /\ ans' = ans
        \/ Answer(r, 201, None)
    BY <1>23 DEF Credit
  <2>6. RequestsOK'
    BY <1>lab, <2>1, <2>4, <2>5, ResetOK, AnswerOK
  <2> QED
    BY <2>3, <2>6
<1>24. ASSUME NEW r \in Requests, NEW q \in Requests, FatalMapRace(r, q) PROVE Typing'
  BY <1>24 DEF FatalMapRace, StateOK, RequestsOK, WriterHasByte, AddressesUpload, table, disk
<1>25. CASE Close
  BY <1>25 DEF Close, StateOK, RequestsOK, WriterHasByte, AddressesUpload
<1>26. CASE UNCHANGED vars
  BY <1>26 DEF vars, StateOK, RequestsOK, WriterHasByte, AddressesUpload, table, disk
<1> QED
  BY <1>1, <1>2, <1>3, <1>4, <1>5, <1>6, <1>7, <1>8, <1>9, <1>10, <1>11, <1>12, <1>13, <1>14, <1>15, <1>16, <1>17, <1>18, <1>19, <1>20, <1>21, <1>22, <1>23, <1>24, <1>25, <1>26 DEF Next, Step, ClientStep, Terminated

\* The type invariant holds in every reachable state.
THEOREM TypeCorrect == Spec => []TypeOK
<1>1. Typing => TypeOK
  BY DEF Typing, StateOK, RequestsOK, ReqType, IOType, TypeOK
<1> QED
  BY TypingInit, TypingStep, <1>1, PTL DEF Spec

-----------------------------------------------------------------------------
(* Who may hand an upload to the FileWriter.                               *)

\* Where a goroutine has taken its upload out of the table to store it.
Claiming == {"open", "save", "publish", "cleanup"}

Unsaved(u) == completed[u] = None /\ \A f \in FileIds : stored[f].from /= u

IdleIsBlank == \A r \in Requests : pc[r] = "idle" => req[r] = NoReq

\* A request addresses only an upload some POST has created.
AddressedIsCreated ==
  \A r \in Requests : req[r].id \in Uploads => ~Fresh(req[r].id)

FreshIsUntouched == \A u \in Uploads : Fresh(u) => u \notin live /\ Unsaved(u)

LiveIsUnsaved == \A u \in live : Unsaved(u)

OneClaimer ==
  \A r, q \in Requests :
    pc[r] \in Claiming /\ pc[q] \in Claiming /\ req[r].id = req[q].id => r = q

ClaimedIsNotLive == \A r \in Requests : pc[r] \in Claiming => req[r].id \notin live

ClaimedIsUnsaved ==
  \A r \in Requests : pc[r] \in {"open", "save"} => Unsaved(req[r].id)

PublishedIsSaved ==
  \A r \in Requests :
    pc[r] = "publish" =>
      /\ completed[req[r].id] = None
      /\ ans[r].file \in FileIds /\ stored[ans[r].file].from = req[r].id

CompletedIsSaved ==
  \A u \in Uploads :
    completed[u] /= None => stored[completed[u]].from = u

\* A response names no file before finish has one, and only a published one.
ResponseIsPublished ==
  \A r \in Requests :
    pc[r] /= "publish" /\ ans[r].file /= None =>
      /\ pc[r] \in {"cleanup", "done"}
      /\ req[r].id \in Uploads /\ completed[req[r].id] = ans[r].file

Claims ==
  /\ IdleIsBlank /\ AddressedIsCreated /\ FreshIsUntouched
  /\ LiveIsUnsaved /\ OneClaimer /\ ClaimedIsNotLive /\ ClaimedIsUnsaved
  /\ PublishedIsSaved /\ CompletedIsSaved /\ ResponseIsPublished
  /\ SavedAtMostOnce

IInv == Typing /\ Claims

\* What a step of goroutine r leaves alone.
Alone(r) ==
  /\ \A q \in Requests \ {r} : pc'[q] = pc[q] /\ ans'[q] = ans[q] /\ req'[q] = req[q]
  /\ req'[r] = req[r] \/ pc[r] = "idle"

\* Only a goroutine that was idle, serving nothing, can get a POST.
LEMMA FreshMono ==
  ASSUME IdleIsBlank, NEW r \in Requests, Alone(r), NEW u \in Uploads, Fresh(u)'
  PROVE  Fresh(u)
BY DEF IdleIsBlank, Alone, Fresh, NoReq

\* A step that neither starts nor continues a claim.
LEMMA OutsideStep ==
  ASSUME IInv, NEW r \in Requests, Alone(r),
         live' \subseteq live, completed' = completed, stored' = stored,
         pc[r] \notin Claiming, pc'[r] \notin Claiming \cup {"idle"},
         req'[r].id \in Uploads => ~Fresh(req'[r].id),
         ans'[r].file /= None =>
           /\ pc'[r] = "done" /\ req'[r].id \in Uploads
           /\ completed[req'[r].id] = ans'[r].file
  PROVE  Claims'
<1> USE DEF IInv, Claims, Claiming
<1>id. \A q \in Requests : pc[q] \notin {"idle", "done"} => req[q].id \in Uploads
  BY DEF Typing, RequestsOK, AddressesUpload
<1>ty. live \subseteq Uploads /\ pc \in [Requests -> Labels] /\ completed \in [Uploads -> FileIds \cup {None}]
  BY DEF Typing, StateOK, RequestsOK
<1>o. \A q \in Requests \ {r} : pc'[q] = pc[q] /\ ans'[q] = ans[q] /\ req'[q] = req[q]
  BY DEF Alone
<1>f. ASSUME NEW v \in Uploads, Fresh(v)' PROVE Fresh(v)
  BY <1>f, FreshMono
<1>u. ASSUME NEW v PROVE Unsaved(v)' <=> Unsaved(v)
  BY DEF Unsaved
<1>1. IdleIsBlank'
  BY <1>o DEF IdleIsBlank
<1>2. AddressedIsCreated'
  BY <1>o, <1>f DEF AddressedIsCreated
<1>3. FreshIsUntouched'
  BY <1>f, <1>u, <1>ty DEF FreshIsUntouched
<1>4. LiveIsUnsaved'
  BY <1>u, <1>ty DEF LiveIsUnsaved
<1>5. OneClaimer'
  BY <1>o DEF OneClaimer
<1>6. ClaimedIsNotLive'
  BY <1>o, <1>id DEF ClaimedIsNotLive
<1>7. ClaimedIsUnsaved'
  BY <1>o, <1>u DEF ClaimedIsUnsaved
<1>8. PublishedIsSaved'
  BY <1>o DEF PublishedIsSaved
<1>9. CompletedIsSaved'
  BY <1>o DEF CompletedIsSaved
<1>10. ResponseIsPublished'
  BY <1>o, <1>id DEF ResponseIsPublished
<1>11. SavedAtMostOnce'
  BY <1>o DEF SavedAtMostOnce
<1> QED
  BY <1>1, <1>2, <1>3, <1>4, <1>5, <1>6, <1>7, <1>8, <1>9, <1>10, <1>11

\* create puts a fresh upload into the table.
LEMMA RegisterStep ==
  ASSUME IInv, NEW r \in Requests, Alone(r), NEW u \in Uploads, Fresh(u),
         live' = live \cup {u}, completed' = completed, stored' = stored,
         pc[r] = "idle", pc'[r] \notin Claiming \cup {"idle"},
         req'[r] = [op |-> "POST", id |-> u], ans'[r].file = None
  PROVE  Claims'
<1> USE DEF IInv, Claims, Claiming
<1>id. \A q \in Requests : pc[q] \notin {"idle", "done"} => req[q].id \in Uploads
  BY DEF Typing, RequestsOK, AddressesUpload
<1>ty. live \subseteq Uploads /\ pc \in [Requests -> Labels] /\ completed \in [Uploads -> FileIds \cup {None}]
  BY DEF Typing, StateOK, RequestsOK
<1>o. \A q \in Requests \ {r} : pc'[q] = pc[q] /\ ans'[q] = ans[q] /\ req'[q] = req[q]
  BY DEF Alone
<1>f. ASSUME NEW v \in Uploads, Fresh(v)' PROVE Fresh(v)
  BY <1>f, FreshMono
<1>u. ASSUME NEW v PROVE Unsaved(v)' <=> Unsaved(v)
  BY DEF Unsaved
<1>n. ~Fresh(u)'
  BY DEF Fresh
<1>c. \A q \in Requests : pc[q] \in Claiming => req[q].id /= u
  BY <1>id DEF AddressedIsCreated
<1>1. IdleIsBlank'
  BY <1>o DEF IdleIsBlank
<1>2. AddressedIsCreated'
  BY <1>f, <1>n, <1>o DEF AddressedIsCreated
<1>3. FreshIsUntouched'
  BY <1>f, <1>n, <1>u DEF FreshIsUntouched
<1>4. LiveIsUnsaved'
  BY <1>u DEF LiveIsUnsaved, FreshIsUntouched
<1>5. OneClaimer'
  BY <1>o DEF OneClaimer
<1>6. ClaimedIsNotLive'
  BY <1>o, <1>c DEF ClaimedIsNotLive
<1>7. ClaimedIsUnsaved'
  BY <1>o, <1>u DEF ClaimedIsUnsaved
<1>8. PublishedIsSaved'
  BY <1>o DEF PublishedIsSaved
<1>9. CompletedIsSaved'
  BY <1>o DEF CompletedIsSaved
<1>10. ResponseIsPublished'
  BY <1>o, <1>id DEF ResponseIsPublished
<1>11. SavedAtMostOnce'
  BY <1>o DEF SavedAtMostOnce
<1> QED
  BY <1>1, <1>2, <1>3, <1>4, <1>5, <1>6, <1>7, <1>8, <1>9, <1>10, <1>11

\* finish takes a live upload out of the table.
LEMMA ClaimStep ==
  ASSUME IInv, NEW r \in Requests, Alone(r), req'[r] = req[r], req[r].id \in live,
         live' = live \ {req[r].id}, completed' = completed, stored' = stored,
         pc[r] = "finish", pc'[r] = "open", ans'[r] = ans[r]
  PROVE  Claims'
<1> USE DEF IInv, Claims, Claiming
<1>id. \A q \in Requests : pc[q] \notin {"idle", "done"} => req[q].id \in Uploads
  BY DEF Typing, RequestsOK, AddressesUpload
<1>ty. live \subseteq Uploads /\ pc \in [Requests -> Labels] /\ completed \in [Uploads -> FileIds \cup {None}]
  BY DEF Typing, StateOK, RequestsOK
<1>o. \A q \in Requests \ {r} : pc'[q] = pc[q] /\ ans'[q] = ans[q] /\ req'[q] = req[q]
  BY DEF Alone
<1>f. ASSUME NEW v \in Uploads, Fresh(v)' PROVE Fresh(v)
  BY <1>f, FreshMono
<1>u. ASSUME NEW v PROVE Unsaved(v)' <=> Unsaved(v)
  BY DEF Unsaved
<1>c. \A q \in Requests \ {r} : pc[q] \in Claiming => req[q].id /= req[r].id
  BY DEF ClaimedIsNotLive
<1>l. Unsaved(req[r].id)
  BY DEF LiveIsUnsaved
<1>1. IdleIsBlank'
  BY <1>o DEF IdleIsBlank
<1>2. AddressedIsCreated'
  BY <1>o, <1>f DEF AddressedIsCreated
<1>3. FreshIsUntouched'
  BY <1>f, <1>u, <1>ty DEF FreshIsUntouched
<1>4. LiveIsUnsaved'
  BY <1>u, <1>ty DEF LiveIsUnsaved
<1>5. OneClaimer'
  BY <1>o, <1>c DEF OneClaimer
<1>6. ClaimedIsNotLive'
  BY <1>o, <1>id DEF ClaimedIsNotLive
<1>7. ClaimedIsUnsaved'
  BY <1>o, <1>u, <1>l DEF ClaimedIsUnsaved
<1>8. PublishedIsSaved'
  BY <1>o DEF PublishedIsSaved
<1>9. CompletedIsSaved'
  BY <1>o DEF CompletedIsSaved
<1>10. ResponseIsPublished'
  BY <1>o, <1>id DEF ResponseIsPublished
<1>11. SavedAtMostOnce'
  BY <1>o DEF SavedAtMostOnce
<1> QED
  BY <1>1, <1>2, <1>3, <1>4, <1>5, <1>6, <1>7, <1>8, <1>9, <1>10, <1>11

\* A claimer opens the file, gives up, or returns.
LEMMA ClaimerMoves ==
  ASSUME IInv, NEW r \in Requests, Alone(r), req'[r] = req[r],
         live' = live, completed' = completed, stored' = stored,
         pc[r] \in Claiming, pc'[r] \in {"save", "cleanup", "done"},
         pc'[r] = "save" => pc[r] = "open",
         ans'[r].file /= None => pc[r] = "cleanup" /\ pc'[r] = "done" /\ ans'[r] = ans[r]
  PROVE  Claims'
<1> USE DEF IInv, Claims, Claiming
<1>id. \A q \in Requests : pc[q] \notin {"idle", "done"} => req[q].id \in Uploads
  BY DEF Typing, RequestsOK, AddressesUpload
<1>ty. live \subseteq Uploads /\ pc \in [Requests -> Labels] /\ completed \in [Uploads -> FileIds \cup {None}]
  BY DEF Typing, StateOK, RequestsOK
<1>o. \A q \in Requests \ {r} : pc'[q] = pc[q] /\ ans'[q] = ans[q] /\ req'[q] = req[q]
  BY DEF Alone
<1>f. ASSUME NEW v \in Uploads, Fresh(v)' PROVE Fresh(v)
  BY <1>f, FreshMono
<1>u. ASSUME NEW v PROVE Unsaved(v)' <=> Unsaved(v)
  BY DEF Unsaved
<1>1. IdleIsBlank'
  BY <1>o DEF IdleIsBlank
<1>2. AddressedIsCreated'
  BY <1>o, <1>f DEF AddressedIsCreated
<1>3. FreshIsUntouched'
  BY <1>f, <1>u, <1>ty DEF FreshIsUntouched
<1>4. LiveIsUnsaved'
  BY <1>u, <1>ty DEF LiveIsUnsaved
<1>5. OneClaimer'
  BY <1>o DEF OneClaimer
<1>6. ClaimedIsNotLive'
  BY <1>o, <1>id DEF ClaimedIsNotLive
<1>7. ClaimedIsUnsaved'
  BY <1>o, <1>u DEF ClaimedIsUnsaved
<1>8. PublishedIsSaved'
  BY <1>o DEF PublishedIsSaved
<1>9. CompletedIsSaved'
  BY <1>o DEF CompletedIsSaved
<1>10. ResponseIsPublished'
  BY <1>o, <1>id DEF ResponseIsPublished
<1>11. SavedAtMostOnce'
  BY <1>o DEF SavedAtMostOnce
<1> QED
  BY <1>1, <1>2, <1>3, <1>4, <1>5, <1>6, <1>7, <1>8, <1>9, <1>10, <1>11

\* The FileWriter stores a claimed upload under a new id.
LEMMA SaveStep ==
  ASSUME IInv, NEW r \in Requests, Alone(r), req'[r] = req[r],
         live' = live, completed' = completed,
         NEW f \in FileIds, stored[f].from = None, stored'[f].from = req[r].id,
         \A g \in FileIds \ {f} : stored'[g] = stored[g],
         pc[r] = "save", pc'[r] = "publish", ans'[r].file = f
  PROVE  Claims'
<1> USE DEF IInv, Claims, Claiming
<1>id. \A q \in Requests : pc[q] \notin {"idle", "done"} => req[q].id \in Uploads
  BY DEF Typing, RequestsOK, AddressesUpload
<1>ty. live \subseteq Uploads /\ pc \in [Requests -> Labels] /\ completed \in [Uploads -> FileIds \cup {None}]
  BY DEF Typing, StateOK, RequestsOK
<1>o. \A q \in Requests \ {r} : pc'[q] = pc[q] /\ ans'[q] = ans[q] /\ req'[q] = req[q]
  BY DEF Alone
<1>f. ASSUME NEW v \in Uploads, Fresh(v)' PROVE Fresh(v)
  BY <1>f, FreshMono
<1>s. Unsaved(req[r].id) /\ req[r].id \in Uploads /\ req[r].id \notin live
  BY <1>id DEF ClaimedIsUnsaved, ClaimedIsNotLive
<1>u. ASSUME NEW v, v /= req[r].id, Unsaved(v) PROVE Unsaved(v)'
  BY <1>u DEF Unsaved
<1>c. \A q \in Requests \ {r} : pc[q] \in Claiming => req[q].id /= req[r].id
  BY DEF OneClaimer
<1>n. ~Fresh(req[r].id)
  BY <1>s DEF AddressedIsCreated
<1>g. \A v \in Uploads : completed[v] /= f
  BY DEF CompletedIsSaved
<1>1. IdleIsBlank'
  BY <1>o DEF IdleIsBlank
<1>2. AddressedIsCreated'
  BY <1>o, <1>f DEF AddressedIsCreated
<1>3. FreshIsUntouched'
  BY <1>f, <1>u, <1>n DEF FreshIsUntouched
<1>4. LiveIsUnsaved'
  BY <1>u, <1>s, <1>ty DEF LiveIsUnsaved
<1>5. OneClaimer'
  BY <1>o DEF OneClaimer
<1>6. ClaimedIsNotLive'
  BY <1>o, <1>s DEF ClaimedIsNotLive
<1>7. ClaimedIsUnsaved'
  BY <1>o, <1>u, <1>c DEF ClaimedIsUnsaved
<1>8. PublishedIsSaved'
  BY <1>o, <1>s, <1>id DEF PublishedIsSaved, Unsaved
<1>9. CompletedIsSaved'
  BY <1>g, <1>ty DEF CompletedIsSaved
<1>10. ResponseIsPublished'
  BY <1>o DEF ResponseIsPublished
<1>11. SavedAtMostOnce'
  BY <1>s DEF SavedAtMostOnce, Unsaved
<1> QED
  BY <1>1, <1>2, <1>3, <1>4, <1>5, <1>6, <1>7, <1>8, <1>9, <1>10, <1>11

\* finish records the file id of a claimed upload.
LEMMA PublishStep ==
  ASSUME IInv, NEW r \in Requests, Alone(r), req'[r] = req[r],
         live' = live, completed' = [completed EXCEPT ![req[r].id] = ans[r].file],
         stored' = stored, ans'[r] = ans[r],
         pc[r] = "publish", pc'[r] = "cleanup"
  PROVE  Claims'
<1> USE DEF IInv, Claims, Claiming
<1>id. \A q \in Requests : pc[q] \notin {"idle", "done"} => req[q].id \in Uploads
  BY DEF Typing, RequestsOK, AddressesUpload
<1>ty. live \subseteq Uploads /\ pc \in [Requests -> Labels] /\ completed \in [Uploads -> FileIds \cup {None}]
  BY DEF Typing, StateOK, RequestsOK
<1>o. \A q \in Requests \ {r} : pc'[q] = pc[q] /\ ans'[q] = ans[q] /\ req'[q] = req[q]
  BY DEF Alone
<1>f. ASSUME NEW v \in Uploads, Fresh(v)' PROVE Fresh(v)
  BY <1>f, FreshMono
<1>s. req[r].id \in Uploads /\ req[r].id \notin live
  BY <1>id DEF ClaimedIsNotLive
<1>p. /\ completed[req[r].id] = None /\ ans[r].file \in FileIds
      /\ stored[ans[r].file].from = req[r].id
  BY DEF PublishedIsSaved
<1>v. \A v \in Uploads : completed'[v] = IF v = req[r].id THEN ans[r].file ELSE completed[v]
  BY <1>ty
<1>u. ASSUME NEW v \in Uploads, v /= req[r].id, Unsaved(v) PROVE Unsaved(v)'
  BY <1>u, <1>v DEF Unsaved
<1>c. \A q \in Requests \ {r} : pc[q] \in Claiming => req[q].id /= req[r].id
  BY DEF OneClaimer
<1>n. ~Fresh(req[r].id)
  BY <1>s DEF AddressedIsCreated
<1>1. IdleIsBlank'
  BY <1>o DEF IdleIsBlank
<1>2. AddressedIsCreated'
  BY <1>o, <1>f DEF AddressedIsCreated
<1>3. FreshIsUntouched'
  BY <1>f, <1>u, <1>n DEF FreshIsUntouched
<1>4. LiveIsUnsaved'
  BY <1>u, <1>s, <1>ty DEF LiveIsUnsaved
<1>5. OneClaimer'
  BY <1>o DEF OneClaimer
<1>6. ClaimedIsNotLive'
  BY <1>o, <1>s DEF ClaimedIsNotLive
<1>7. ClaimedIsUnsaved'
  BY <1>o, <1>u, <1>c, <1>id DEF ClaimedIsUnsaved
<1>8. PublishedIsSaved'
  BY <1>o, <1>v, <1>c, <1>id DEF PublishedIsSaved
<1>9. CompletedIsSaved'
  BY <1>v, <1>p DEF CompletedIsSaved
<1>10. ResponseIsPublished'
  BY <1>o, <1>v, <1>p, <1>s DEF ResponseIsPublished
<1>11. SavedAtMostOnce'
  BY <1>o DEF SavedAtMostOnce
<1> QED
  BY <1>1, <1>2, <1>3, <1>4, <1>5, <1>6, <1>7, <1>8, <1>9, <1>10, <1>11

\* Close, the death of the process, and stuttering: at most, live shrinks.
LEMMA IdleStep ==
  ASSUME IInv, live' \subseteq live, UNCHANGED <<completed, stored, pc, req, ans>>
  PROVE  Claims'
<1> USE DEF IInv, Claims
<1>1. IdleIsBlank' /\ AddressedIsCreated' /\ OneClaimer'
  BY DEF IdleIsBlank, AddressedIsCreated, OneClaimer, Fresh
<1>2. FreshIsUntouched' /\ LiveIsUnsaved' /\ ClaimedIsNotLive' /\ ClaimedIsUnsaved'
  BY DEF FreshIsUntouched, LiveIsUnsaved, ClaimedIsNotLive, ClaimedIsUnsaved, Fresh, Unsaved
<1>3. PublishedIsSaved' /\ CompletedIsSaved' /\ ResponseIsPublished' /\ SavedAtMostOnce'
  BY DEF PublishedIsSaved, CompletedIsSaved, ResponseIsPublished, SavedAtMostOnce
<1> QED
  BY <1>1, <1>2, <1>3

\* How the moves change a goroutine's pc and response, and no other's.
LEMMA GotoMoves ==
  ASSUME RequestsOK, NEW r \in Requests, NEW l, Goto(r, l), ans' = ans
  PROVE  /\ pc'[r] = l /\ ans'[r] = ans[r]
         /\ \A q \in Requests \ {r} : pc'[q] = pc[q] /\ ans'[q] = ans[q]
BY DEF RequestsOK, Goto

LEMMA PrepareMoves ==
  ASSUME RequestsOK, NEW r \in Requests, NEW l, NEW code, NEW file,
         Goto(r, l), Prepare(r, code, file)
  PROVE  /\ pc'[r] = l /\ ans'[r].file = file
         /\ \A q \in Requests \ {r} : pc'[q] = pc[q] /\ ans'[q] = ans[q]
BY DEF RequestsOK, Goto, Prepare

LEMMA AnswerMoves ==
  ASSUME RequestsOK, NEW r \in Requests, NEW code, NEW file, Answer(r, code, file)
  PROVE  /\ pc'[r] = "done" /\ ans'[r].file = file
         /\ \A q \in Requests \ {r} : pc'[q] = pc[q] /\ ans'[q] = ans[q]
BY PrepareMoves DEF Answer

\* Labels at which a goroutine is inside a handler and claims nothing.
Local == {"append", "copy", "write", "credit", "abort", "result", "finish", "missing"}

\* A step between two such labels, or to an answer that names no file.
LEMMA LocalStep ==
  ASSUME IInv, NEW r \in Requests, pc[r] \in Local, req' = req,
         live' \subseteq live, completed' = completed, stored' = stored,
         \/ \E l \in Local \cup {"done"} : Goto(r, l) /\ ans' = ans
         \/ \E code : Answer(r, code, None)
         \/ \E code : AppendFailed(r, code)
  PROVE  Claims'
<1> USE DEF IInv, Typing
<1>1. req[r].id \in Uploads /\ ~Fresh(req[r].id)
  BY DEF Local, RequestsOK, AddressesUpload, Claims, AddressedIsCreated
<1>2. ans[r].file = None
  BY DEF Local, Claims, ResponseIsPublished
<1>3. /\ pc'[r] \in Local \cup {"done"} /\ ans'[r].file = None
      /\ \A q \in Requests \ {r} : pc'[q] = pc[q] /\ ans'[q] = ans[q]
  <2>1. CASE \E l \in Local \cup {"done"} : Goto(r, l) /\ ans' = ans
    BY <1>2, <2>1, GotoMoves
  <2>2. CASE \E code : Answer(r, code, None)
    BY <2>2, AnswerMoves
  <2>3. CASE \E code : AppendFailed(r, code)
    <3>1. PICK code : AppendFailed(r, code)
      BY <2>3
    <3>2. \/ Goto(r, "abort") /\ Prepare(r, 400, None)
          \/ Answer(r, code, None)
      BY <3>1 DEF AppendFailed
    <3>3. "abort" \in Local
      BY DEF Local
    <3> QED
      BY <3>2, <3>3, PrepareMoves, AnswerMoves
  <2> QED
    BY <2>1, <2>2, <2>3
<1>4. Alone(r)
  BY <1>3 DEF Alone
<1>5. pc[r] \notin Claiming /\ pc'[r] \notin Claiming \cup {"idle"}
  BY <1>3 DEF Local, Claiming
<1> QED
  BY <1>1, <1>3, <1>4, <1>5, OutsideStep

\* A request for a known upload arrives.
LEMMA ArrivalStep ==
  ASSUME IInv, NEW r \in Requests, NEW u \in Uploads, NEW op \in Methods,
         Addressable(r, u), Arrive(r, op, u),
         live' \subseteq live, completed' = completed, stored' = stored,
         \/ \E l \in Local : Goto(r, l) /\ ans' = ans
         \/ \E code : Answer(r, code, None)
         \/ \E code : Answer(r, code, completed[u])
  PROVE  Claims'
<1> USE DEF IInv, Typing
<1>1. pc[r] = "idle" /\ ~Fresh(u)
  BY DEF Addressable, At, Located, Fresh
<1>2. ReqStep(r) /\ req'[r].id = u
  BY ReqArrives
<1>3. ans[r].file = None
  BY <1>1 DEF Claims, ResponseIsPublished
<1>4. /\ pc'[r] \in Local \cup {"done"}
      /\ ans'[r].file /= None => (pc'[r] = "done" /\ ans'[r].file = completed[u])
      /\ \A q \in Requests \ {r} : pc'[q] = pc[q] /\ ans'[q] = ans[q]
  <2>1. CASE \E l \in Local : Goto(r, l) /\ ans' = ans
    <3>1. PICK l \in Local : Goto(r, l) /\ ans' = ans
      BY <2>1
    <3> QED
      BY <1>3, <3>1, GotoMoves
  <2>2. CASE \E code : Answer(r, code, None)
    <3>1. PICK code : Answer(r, code, None)
      BY <2>2
    <3> QED
      BY <3>1, AnswerMoves
  <2>3. CASE \E code : Answer(r, code, completed[u])
    BY <2>3, AnswerMoves
  <2> QED
    BY <2>1, <2>2, <2>3
<1>5. Alone(r)
  BY <1>1, <1>2, <1>4 DEF Alone, ReqStep
<1>6. pc[r] \notin Claiming /\ pc'[r] \notin Claiming \cup {"idle"}
  BY <1>1, <1>4 DEF Local, Claiming
<1> QED
  BY <1>1, <1>2, <1>4, <1>5, <1>6, OutsideStep

\* create: the request arrives with a fresh upload.
LEMMA CreationStep ==
  ASSUME IInv, NEW r \in Requests, NEW u \in Uploads, NEW length, Register(r, u, length),
         \/ \E l \in Local : Goto(r, l) /\ ans' = ans
         \/ \E code : Answer(r, code, None)
         \/ \E code : Goto(r, "abort") /\ Prepare(r, code, None)
  PROVE  Claims'
<1> USE DEF IInv, Typing
<1>1. /\ pc[r] = "idle" /\ Fresh(u) /\ live' = live \cup {u}
      /\ completed' = completed /\ stored' = stored
  BY DEF Register, At
<1>2. req' = [req EXCEPT ![r] = [op |-> "POST", id |-> u]]
  BY DEF Register, Arrive
<1>3. /\ req'[r] = [op |-> "POST", id |-> u]
      /\ \A q \in Requests \ {r} : req'[q] = req[q]
  BY <1>2 DEF RequestsOK, ReqType
<1>4. ans[r].file = None
  BY <1>1 DEF Claims, ResponseIsPublished
<1>5. /\ pc'[r] \in Local \cup {"done"} /\ ans'[r].file = None
      /\ \A q \in Requests \ {r} : pc'[q] = pc[q] /\ ans'[q] = ans[q]
  <2>1. CASE \E l \in Local : Goto(r, l) /\ ans' = ans
    <3>1. PICK l \in Local : Goto(r, l) /\ ans' = ans
      BY <2>1
    <3> QED
      BY <1>4, <3>1, GotoMoves
  <2>2. CASE \E code : Answer(r, code, None)
    BY <2>2, AnswerMoves
  <2>3. CASE \E code : Goto(r, "abort") /\ Prepare(r, code, None)
    BY <2>3, PrepareMoves DEF Local
  <2> QED
    BY <2>1, <2>2, <2>3
<1>6. Alone(r)
  BY <1>1, <1>3, <1>5 DEF Alone
<1>7. pc'[r] \notin Claiming \cup {"idle"}
  BY <1>5 DEF Local, Claiming
<1> QED
  BY <1>1, <1>3, <1>5, <1>6, <1>7, RegisterStep

LEMMA ClaimsStep == IInv /\ [Next]_vars => Claims'
<1> SUFFICES ASSUME IInv, [Next]_vars PROVE Claims'
  OBVIOUS
<1> USE DEF IInv, Typing
<1>lab. Local = {"append", "copy", "write", "credit", "abort", "result", "finish", "missing"}
  BY DEF Local
<1>met. {"POST", "PATCH", "HEAD", "DELETE"} \subseteq Methods
  BY DEF Methods
<1>1. ASSUME NEW r \in Requests, NEW u \in Uploads, NEW length \in 0 .. MaxLength,
             CreateEmpty(r, u, length) PROVE Claims'
  BY <1>1, <1>lab, CreationStep DEF CreateEmpty
<1>2. ASSUME NEW r \in Requests, NEW u \in Uploads, NEW length \in 0 .. MaxLength,
             CreateWrongType(r, u, length) PROVE Claims'
  BY <1>2, <1>lab, CreationStep DEF CreateWrongType
<1>3. ASSUME NEW r \in Requests, NEW u \in Uploads, NEW length \in 0 .. MaxLength,
             CreateWithContent(r, u, length) PROVE Claims'
  <2>1. Register(r, u, length) /\ Goto(r, "append") /\ ans' = ans
    BY <1>3 DEF CreateWithContent, StartAppend
  <2> QED
    BY <2>1, <1>lab, CreationStep
<1>4. ASSUME NEW r \in Requests, NEW u \in Uploads, PatchAccept(r, u) PROVE Claims'
  <2>1. Addressable(r, u) /\ Arrive(r, "PATCH", u) /\ Goto(r, "append") /\ ans' = ans
    BY <1>4 DEF PatchAccept, StartAppend
  <2>2. live' \subseteq live /\ completed' = completed /\ stored' = stored
    BY <1>4 DEF PatchAccept, table, disk
  <2> QED
    BY <2>1, <2>2, <1>lab, <1>met, ArrivalStep
<1>5. ASSUME NEW r \in Requests, NEW u \in Uploads, PatchConflict(r, u) PROVE Claims'
  <2>1. Addressable(r, u) /\ Arrive(r, "PATCH", u) /\ Answer(r, 409, None)
    BY <1>5 DEF PatchConflict
  <2>2. live' \subseteq live /\ completed' = completed /\ stored' = stored
    BY <1>5 DEF PatchConflict, table, disk
  <2> QED
    BY <2>1, <2>2, <1>lab, <1>met, ArrivalStep
<1>6. ASSUME NEW r \in Requests, NEW u \in Uploads, PatchNotLive(r, u) PROVE Claims'
  <2>1. Addressable(r, u) /\ Arrive(r, "PATCH", u) /\ Goto(r, "missing") /\ ans' = ans
    BY <1>6 DEF PatchNotLive
  <2>2. live' \subseteq live /\ completed' = completed /\ stored' = stored
    BY <1>6 DEF PatchNotLive, table, disk
  <2> QED
    BY <2>1, <2>2, <1>lab, <1>met, ArrivalStep
<1>7. ASSUME NEW r \in Requests, NEW u \in Uploads, Status(r, u) PROVE Claims'
  <2>1. Addressable(r, u) /\ Arrive(r, "HEAD", u) /\ Answer(r, HeadCode(u), completed[u])
    BY <1>7 DEF Status
  <2>2. live' \subseteq live /\ completed' = completed /\ stored' = stored
    BY <1>7 DEF Status, table, disk
  <2> QED
    BY <2>1, <2>2, <1>lab, <1>met, ArrivalStep
<1>8. ASSUME NEW r \in Requests, NEW u \in Uploads, Terminate(r, u) PROVE Claims'
  <2>1. Addressable(r, u) /\ Arrive(r, "DELETE", u) /\ Answer(r, 204, None)
    BY <1>8 DEF Terminate
  <2>2. live' \subseteq live /\ completed' = completed /\ stored' = stored
    BY <1>8 DEF Terminate, table, disk
  <2> QED
    BY <2>1, <2>2, <1>lab, <1>met, ArrivalStep
<1>9. ASSUME NEW r \in Requests, Refuse(r) PROVE Claims'
  <2>1. pc[r] = "idle" /\ Answer(r, 400, None) /\ req' = req
    BY <1>9 DEF Refuse, At
  <2>2. live' = live /\ completed' = completed /\ stored' = stored
    BY <1>9 DEF Refuse, table, disk
  <2>3. /\ pc'[r] = "done" /\ ans'[r].file = None
        /\ \A q \in Requests \ {r} : pc'[q] = pc[q] /\ ans'[q] = ans[q]
    BY <2>1, AnswerMoves
  <2>4. Alone(r) /\ req'[r].id \notin Uploads
    BY <2>1, <2>3 DEF Alone, Claims, IdleIsBlank, NoReq
  <2> QED
    BY <2>1, <2>2, <2>3, <2>4, OutsideStep DEF Claiming
<1>10. ASSUME NEW r \in Requests, Abort(r) PROVE Claims'
  <2>1. pc[r] = "abort" /\ req' = req
    BY <1>10 DEF Abort, At
  <2>2. live' \subseteq live /\ completed' = completed /\ stored' = stored
    BY <1>10 DEF Abort, table, disk
  <2>3. Goto(r, "done") /\ ans' = ans
    BY <1>10 DEF Abort
  <2> QED
    BY <2>1, <2>2, <2>3, <1>lab, LocalStep
<1>11. ASSUME NEW r \in Requests, PatchMissing(r) PROVE Claims'
  <2>1. pc[r] = "missing" /\ req' = req
    BY <1>11 DEF PatchMissing, At
  <2>2. live' \subseteq live /\ completed' = completed /\ stored' = stored
    BY <1>11 DEF PatchMissing, table, disk
  <2>3. Answer(r, IF completed[req[r].id] = None THEN 404 ELSE 400, None)
    BY <1>11 DEF PatchMissing
  <2> QED
    BY <2>1, <2>2, <2>3, <1>lab, LocalStep
<1>12. ASSUME NEW r \in Requests, PatchResult(r) PROVE Claims'
  <2>1. pc[r] = "result" /\ req' = req
    BY <1>12 DEF PatchResult, At
  <2>2. live' \subseteq live /\ completed' = completed /\ stored' = stored
    BY <1>12 DEF PatchResult, table, disk
  <2>3. \/ Answer(r, 404, None)
        \/ Goto(r, "finish") /\ ans' = ans
        \/ Answer(r, 204, None)
    BY <1>12 DEF PatchResult
  <2> QED
    BY <2>1, <2>2, <2>3, <1>lab, LocalStep
<1>13. ASSUME NEW r \in Requests, AppendLookup(r) PROVE Claims'
  <2>1. pc[r] = "append" /\ req' = req
    BY <1>13 DEF AppendLookup, At
  <2>2. live' \subseteq live /\ completed' = completed /\ stored' = stored
    BY <1>13 DEF AppendLookup, table, disk
  <2>3. \/ Goto(r, "copy") /\ ans' = ans
        \/ AppendFailed(r, 400)
    BY <1>13 DEF AppendLookup
  <2> QED
    BY <2>1, <2>2, <2>3, <1>lab, LocalStep
<1>14. ASSUME NEW r \in Requests, CopyRead(r) PROVE Claims'
  <2>1. pc[r] = "copy" /\ req' = req
    BY <1>14 DEF CopyRead, At
  <2>2. live' \subseteq live /\ completed' = completed /\ stored' = stored
    BY <1>14 DEF CopyRead, table, disk
  <2>3. \/ Goto(r, "write") /\ ans' = ans
        \/ AppendFailed(r, 400)
    BY <1>14 DEF CopyRead
  <2> QED
    BY <2>1, <2>2, <2>3, <1>lab, LocalStep
<1>15. ASSUME NEW r \in Requests, CopyWrite(r) PROVE Claims'
  <2>1. pc[r] = "write" /\ req' = req
    BY <1>15 DEF CopyWrite, At
  <2>2. live' \subseteq live /\ completed' = completed /\ stored' = stored
    BY <1>15 DEF CopyWrite, table, disk
  <2>3. Goto(r, "copy") /\ ans' = ans
    BY <1>15 DEF CopyWrite
  <2> QED
    BY <2>1, <2>2, <2>3, <1>lab, LocalStep
<1>16. ASSUME NEW r \in Requests, CopyCut(r) PROVE Claims'
  <2>1. pc[r] = "copy" /\ req' = req
    BY <1>16 DEF CopyCut, At
  <2>2. live' \subseteq live /\ completed' = completed /\ stored' = stored
    BY <1>16 DEF CopyCut, table, disk
  <2>3. AppendFailed(r, 400)
    BY <1>16 DEF CopyCut
  <2> QED
    BY <2>1, <2>2, <2>3, <1>lab, LocalStep
<1>17. ASSUME NEW r \in Requests, CopyEnd(r) PROVE Claims'
  <2>1. pc[r] = "copy" /\ req' = req
    BY <1>17 DEF CopyEnd, At
  <2>2. live' \subseteq live /\ completed' = completed /\ stored' = stored
    BY <1>17 DEF CopyEnd, table, disk
  <2>3. \/ AppendFailed(r, 413)
        \/ AppendFailed(r, 400)
        \/ Goto(r, "credit") /\ ans' = ans
    BY <1>17 DEF CopyEnd
  <2> QED
    BY <2>1, <2>2, <2>3, <1>lab, LocalStep
<1>18. ASSUME NEW r \in Requests, Credit(r) PROVE Claims'
  <2>1. pc[r] = "credit" /\ req' = req
    BY <1>18 DEF Credit, At
  <2>2. live' \subseteq live /\ completed' = completed /\ stored' = stored
    BY <1>18 DEF Credit, table, disk
  <2>3. \/ Goto(r, "result") /\ ans' = ans
        \/ Goto(r, "finish") /\ ans' = ans
        \/ Answer(r, 201, None)
    BY <1>18 DEF Credit
  <2> QED
    BY <2>1, <2>2, <2>3, <1>lab, LocalStep
<1>19. ASSUME NEW r \in Requests, FinishClaim(r) PROVE Claims'
  <2> DEFINE u == req[r].id
  <2>1. pc[r] = "finish" /\ req' = req /\ completed' = completed /\ stored' = stored
    BY <1>19 DEF FinishClaim, At, disk
  <2>2. u \in Uploads
    BY <2>1 DEF RequestsOK, AddressesUpload
  <2>3. CASE Answer(r, 500, None) /\ live' = live
    BY <2>1, <2>3, <1>lab, LocalStep
  <2>4. CASE Answer(r, DoneCode(r), completed[u]) /\ live' = live
    <3>1. /\ pc'[r] = "done" /\ ans'[r].file = completed[u]
          /\ \A q \in Requests \ {r} : pc'[q] = pc[q] /\ ans'[q] = ans[q]
      BY <2>4, AnswerMoves
    <3>2. Alone(r) /\ ~Fresh(req'[r].id)
      BY <2>1, <2>2, <3>1 DEF Alone, Claims, AddressedIsCreated
    <3> QED
      BY <2>1, <2>2, <2>4, <3>1, <3>2, OutsideStep DEF Claiming
  <2>5. CASE u \in live /\ live' = live \ {u} /\ Goto(r, "open") /\ ans' = ans
    <3>1. /\ pc'[r] = "open" /\ ans'[r] = ans[r]
          /\ \A q \in Requests \ {r} : pc'[q] = pc[q] /\ ans'[q] = ans[q]
      BY <2>5, GotoMoves
    <3>2. Alone(r)
      BY <2>1, <3>1 DEF Alone
    <3> QED
      BY <2>1, <2>5, <3>1, <3>2, ClaimStep
  <2> QED
    BY <1>19, <2>3, <2>4, <2>5 DEF FinishClaim
<1>20. ASSUME NEW r \in Requests, FinishOpen(r) PROVE Claims'
  <2>1. /\ pc[r] = "open" /\ req' = req
        /\ live' = live /\ completed' = completed /\ stored' = stored
    BY <1>20 DEF FinishOpen, At, table, disk
  <2>2. ans[r].file = None
    BY <2>1 DEF Claims, ResponseIsPublished
  <2>3. \/ Goto(r, "save") /\ ans' = ans
        \/ Answer(r, 500, None)
    BY <1>20 DEF FinishOpen
  <2>4. /\ pc'[r] \in {"save", "done"} /\ ans'[r].file = None
        /\ \A q \in Requests \ {r} : pc'[q] = pc[q] /\ ans'[q] = ans[q]
    BY <2>2, <2>3, GotoMoves, AnswerMoves
  <2>5. Alone(r) /\ pc[r] \in Claiming
    BY <2>1, <2>4 DEF Alone, Claiming
  <2> QED
    BY <2>1, <2>4, <2>5, ClaimerMoves
<1>21. ASSUME NEW r \in Requests, FinishSave(r) PROVE Claims'
  <2>1. /\ pc[r] = "save" /\ req' = req
        /\ live' = live /\ completed' = completed
    BY <1>21 DEF FinishSave, At, table
  <2>2. CASE \E f \in FileIds :
               /\ stored[f] = NoFile
               /\ stored' = [stored EXCEPT ![f] = [from |-> req[r].id, content |-> staged[req[r].id]]]
               /\ Goto(r, "publish") /\ Prepare(r, DoneCode(r), f)
    <3>1. PICK f \in FileIds :
            /\ stored[f] = NoFile
            /\ stored' = [stored EXCEPT ![f] = [from |-> req[r].id, content |-> staged[req[r].id]]]
            /\ Goto(r, "publish") /\ Prepare(r, DoneCode(r), f)
      BY <2>2
    <3>2. /\ stored[f].from = None /\ stored'[f].from = req[r].id
          /\ \A g \in FileIds \ {f} : stored'[g] = stored[g]
      BY <3>1 DEF NoFile, StateOK
    <3>3. /\ pc'[r] = "publish" /\ ans'[r].file = f
          /\ \A q \in Requests \ {r} : pc'[q] = pc[q] /\ ans'[q] = ans[q]
      BY <3>1, PrepareMoves
    <3>4. Alone(r)
      BY <2>1, <3>3 DEF Alone
    <3> QED
      BY <2>1, <3>2, <3>3, <3>4, SaveStep
  <2>3. CASE Goto(r, "cleanup") /\ Prepare(r, 500, None) /\ stored' = stored
    <3>1. /\ pc'[r] = "cleanup" /\ ans'[r].file = None
          /\ \A q \in Requests \ {r} : pc'[q] = pc[q] /\ ans'[q] = ans[q]
      BY <2>3, PrepareMoves
    <3>2. Alone(r) /\ pc[r] \in Claiming
      BY <2>1, <3>1 DEF Alone, Claiming
    <3> QED
      BY <2>1, <2>3, <3>1, <3>2, ClaimerMoves
  <2> QED
    BY <1>21, <2>2, <2>3 DEF FinishSave
<1>22. ASSUME NEW r \in Requests, FinishPublish(r) PROVE Claims'
  <2>1. /\ pc[r] = "publish" /\ req' = req /\ live' = live /\ stored' = stored
        /\ completed' = [completed EXCEPT ![req[r].id] = ans[r].file]
        /\ Goto(r, "cleanup") /\ ans' = ans
    BY <1>22 DEF FinishPublish, At, disk
  <2>2. /\ pc'[r] = "cleanup" /\ ans'[r] = ans[r]
        /\ \A q \in Requests \ {r} : pc'[q] = pc[q] /\ ans'[q] = ans[q]
    BY <2>1, GotoMoves
  <2>3. Alone(r)
    BY <2>1, <2>2 DEF Alone
  <2> QED
    BY <2>1, <2>2, <2>3, PublishStep
<1>23. ASSUME NEW r \in Requests, FinishCleanup(r) PROVE Claims'
  <2>1. /\ pc[r] = "cleanup" /\ req' = req
        /\ live' = live /\ completed' = completed /\ stored' = stored
        /\ Goto(r, "done") /\ ans' = ans
    BY <1>23 DEF FinishCleanup, At, table
  <2>2. /\ pc'[r] = "done" /\ ans'[r] = ans[r]
        /\ \A q \in Requests \ {r} : pc'[q] = pc[q] /\ ans'[q] = ans[q]
    BY <2>1, GotoMoves
  <2>3. Alone(r) /\ pc[r] \in Claiming
    BY <2>1, <2>2 DEF Alone, Claiming
  <2> QED
    BY <2>1, <2>2, <2>3, ClaimerMoves
<1>24. CASE UNCHANGED <<completed, stored, pc, req, ans>> /\ live' \subseteq live
  BY <1>24, IdleStep
<1> QED
  BY <1>1, <1>2, <1>3, <1>4, <1>5, <1>6, <1>7, <1>8, <1>9, <1>10, <1>11, <1>12, <1>13, <1>14, <1>15, <1>16, <1>17, <1>18, <1>19, <1>20, <1>21, <1>22, <1>23, <1>24
     DEF Next, Step, ClientStep, Terminated, Close, FatalMapRace, vars, table, disk

LEMMA ClaimsInit == Init => Claims
<1> SUFFICES ASSUME Init PROVE Claims
  OBVIOUS
<1>1. IdleIsBlank /\ AddressedIsCreated /\ FreshIsUntouched /\ LiveIsUnsaved
  BY DEF Init, IdleIsBlank, AddressedIsCreated, FreshIsUntouched, LiveIsUnsaved, Unsaved,
         NoReq, NoFile, Fresh
<1>2. OneClaimer /\ ClaimedIsNotLive /\ ClaimedIsUnsaved /\ PublishedIsSaved
  BY DEF Init, OneClaimer, ClaimedIsNotLive, ClaimedIsUnsaved, PublishedIsSaved, Claiming
<1>3. CompletedIsSaved /\ ResponseIsPublished /\ SavedAtMostOnce
  BY DEF Init, CompletedIsSaved, ResponseIsPublished, SavedAtMostOnce, NoAnswer, NoFile
<1> QED
  BY <1>1, <1>2, <1>3 DEF Claims

LEMMA IInvariant == Spec => []IInv
<1>1. Init => IInv
  BY TypingInit, ClaimsInit DEF IInv
<1>2. IInv /\ [Next]_vars => IInv'
  BY TypingStep, ClaimsStep DEF IInv
<1> QED
  BY <1>1, <1>2, PTL DEF Spec

\* finish hands an upload to the FileWriter at most once, however many
\* requests see it complete.
THEOREM SavedOnce == Spec => []SavedAtMostOnce
<1>1. IInv => SavedAtMostOnce
  BY DEF IInv, Claims
<1> QED
  BY IInvariant, <1>1, PTL

\* A file id in a response is the one FileID reports, and it is stored.
THEOREM AnswersAreStored == Spec => []AnsweredFileIsStored
<1>1. IInv => AnsweredFileIsStored
  BY DEF IInv, Claims, AnsweredFileIsStored, ResponseIsPublished, CompletedIsSaved
<1> QED
  BY IInvariant, <1>1, PTL

\* One step's worth of RetiredForGood.
Retires ==
  \A u \in Uploads :
    /\ ~Fresh(u) /\ u \notin live => u \notin live'
    /\ completed[u] /= None => completed'[u] = completed[u]

LEMMA RetiresStep == IInv /\ [Next]_vars => Retires
<1> SUFFICES ASSUME IInv, [Next]_vars PROVE Retires
  OBVIOUS
<1>1. CASE live' \subseteq live /\ completed' = completed
  BY <1>1 DEF Retires
<1>2. ASSUME NEW r \in Requests, NEW v \in Uploads, NEW length \in 0 .. MaxLength,
             Register(r, v, length)
      PROVE  Retires
  BY <1>2 DEF Register, Retires
<1>3. ASSUME NEW r \in Requests, FinishPublish(r) PROVE Retires
  <2>1. pc[r] = "publish" /\ live' = live
    BY <1>3 DEF FinishPublish, At
  <2>2. completed[req[r].id] = None
    BY <2>1 DEF IInv, Claims, PublishedIsSaved
  <2>3. ASSUME NEW u \in Uploads, completed[u] /= None PROVE completed'[u] = completed[u]
    BY <1>3, <2>2, <2>3 DEF FinishPublish, IInv, Typing, StateOK
  <2> QED
    BY <2>1, <2>3 DEF Retires
<1>4. ASSUME NEW r \in Requests, Step(r), ~FinishPublish(r)
      PROVE  live' \subseteq live /\ completed' = completed
  BY <1>4 DEF Step, Abort, PatchMissing, PatchResult, AppendLookup, CopyWrite, Credit,
              FinishClaim, FinishOpen, FinishSave, FinishCleanup, table
<1>5. ASSUME NEW r \in Requests, ClientStep(r)
      PROVE  \/ live' \subseteq live /\ completed' = completed
             \/ \E v \in Uploads, length \in 0 .. MaxLength : Register(r, v, length)
  BY <1>5 DEF ClientStep, CreateEmpty, CreateWrongType, CreateWithContent, PatchAccept,
              PatchConflict, PatchNotLive, Status, Terminate, Refuse, CopyRead, CopyCut,
              CopyEnd, table
<1>6. CASE UNCHANGED vars \/ Close \/ \E r, q \in Requests : FatalMapRace(r, q)
  BY <1>1, <1>6 DEF vars, Close, FatalMapRace, table
<1> QED
  BY <1>1, <1>2, <1>3, <1>4, <1>5, <1>6 DEF Next, Terminated

\* An upload out of the table stays out, and its file id never changes.
THEOREM RetiresForGood == Spec => RetiredForGood
<1>1. IInv /\ [Next]_vars => [Retires]_vars
  BY RetiresStep
<1>2. Spec => [][Retires]_vars
  BY IInvariant, <1>1, PTL DEF Spec
<1> QED
  BY <1>2 DEF RetiredForGood, Retires

-----------------------------------------------------------------------------
(* Nothing is left in the staging directory.                               *)

\* A staging file belongs to a live upload or to one being handed over.
FileIsHeld ==
  \A u \in Uploads :
    onDisk[u] => \/ u \in live
                 \/ \E r \in Requests : pc[r] \in Claiming /\ req[r].id = u

\* The other goroutines stay where they are.
OthersStay(r) == \A q \in Requests \ {r} : pc'[q] = pc[q] /\ req'[q] = req[q]

LEMMA GoroutineStep ==
  ASSUME Typing, NEW r \in Requests, Step(r) \/ ClientStep(r)
  PROVE  OthersStay(r)
<1> USE DEF Typing, RequestsOK, ReqType, OthersStay
<1>g. ASSUME NEW l, Goto(r, l) PROVE \A q \in Requests \ {r} : pc'[q] = pc[q]
  BY <1>g DEF Goto
<1>a. ASSUME NEW code, NEW file, Answer(r, code, file)
      PROVE  \A q \in Requests \ {r} : pc'[q] = pc[q]
  BY <1>a, <1>g DEF Answer
<1>f. ASSUME NEW code, AppendFailed(r, code)
      PROVE  \A q \in Requests \ {r} : pc'[q] = pc[q]
  BY <1>f, <1>g, <1>a DEF AppendFailed
<1>s. ASSUME NEW u, NEW base, NEW room, StartAppend(r, u, base, room)
      PROVE  \A q \in Requests \ {r} : pc'[q] = pc[q]
  BY <1>s, <1>g DEF StartAppend
<1>v. ASSUME NEW op, NEW u, Arrive(r, op, u)
      PROVE  \A q \in Requests \ {r} : req'[q] = req[q]
  BY <1>v DEF Arrive
<1>1. CASE Step(r)
  <2>1. req' = req
    BY <1>1 DEF Step, Abort, PatchMissing, PatchResult, AppendLookup, CopyWrite, Credit,
                FinishClaim, FinishOpen, FinishSave, FinishPublish, FinishCleanup
  <2>2. \A q \in Requests \ {r} : pc'[q] = pc[q]
    BY <1>1, <1>g, <1>a, <1>f
       DEF Step, Abort, PatchMissing, PatchResult, AppendLookup, CopyWrite, Credit,
           FinishClaim, FinishOpen, FinishSave, FinishPublish, FinishCleanup
  <2> QED
    BY <2>1, <2>2
<1>2. CASE ClientStep(r)
  <2>1. \A q \in Requests \ {r} : req'[q] = req[q]
    BY <1>2, <1>v DEF ClientStep, CreateEmpty, CreateWrongType, CreateWithContent, Register,
       PatchAccept, PatchConflict, PatchNotLive, Status, Terminate, Refuse, CopyRead, CopyCut,
       CopyEnd
  <2>2. \A q \in Requests \ {r} : pc'[q] = pc[q]
    BY <1>2, <1>g, <1>a, <1>f, <1>s
       DEF ClientStep, CreateEmpty, CreateWrongType, CreateWithContent, PatchAccept,
           PatchConflict, PatchNotLive, Status, Terminate, Refuse, CopyRead, CopyCut, CopyEnd
  <2> QED
    BY <2>1, <2>2
<1> QED
  BY <1>1, <1>2

\* A goroutine that claims nothing keeps every file held: it removes a file
\* with the entry, or leaves both.
LEMMA HeldByOthers ==
  ASSUME FileIsHeld, NEW r \in Requests, OthersStay(r), pc[r] \notin Claiming,
         \A u \in Uploads : onDisk'[u] => u \in live' \/ (onDisk[u] /\ u \notin live)
  PROVE  FileIsHeld'
<1>1. SUFFICES ASSUME NEW u \in Uploads, onDisk'[u], u \notin live'
               PROVE  \E q \in Requests : pc'[q] \in Claiming /\ req'[q].id = u
  BY DEF FileIsHeld
<1>2. PICK q \in Requests : pc[q] \in Claiming /\ req[q].id = u
  BY <1>1 DEF FileIsHeld
<1> QED
  BY <1>2 DEF OthersStay

\* A claimer keeps its file held, or has seen it removed.
LEMMA HeldByClaimer ==
  ASSUME FileIsHeld, NEW r \in Requests, OthersStay(r), req' = req, live' = live,
         \A u \in Uploads : onDisk'[u] => onDisk[u],
         pc'[r] \in Claiming \/ ~onDisk'[req[r].id]
  PROVE  FileIsHeld'
<1>1. SUFFICES ASSUME NEW u \in Uploads, onDisk'[u], u \notin live'
               PROVE  \E q \in Requests : pc'[q] \in Claiming /\ req'[q].id = u
  BY DEF FileIsHeld
<1>2. PICK q \in Requests : pc[q] \in Claiming /\ req[q].id = u
  BY <1>1 DEF FileIsHeld
<1> QED
  BY <1>1, <1>2 DEF OthersStay

LEMMA HeldStep ==
  ASSUME "open" \notin Faults, Typing, FileIsHeld, [Next]_vars
  PROVE  FileIsHeld'
<1> USE DEF Typing
<1>typ. onDisk \in [Uploads -> BOOLEAN] /\ pc \in [Requests -> Labels]
  BY DEF StateOK, RequestsOK
<1>id. \A r \in Requests : pc[r] \notin {"idle", "done"} => req[r].id \in Uploads
  BY DEF RequestsOK, AddressesUpload
<1>1. ASSUME NEW r \in Requests, NEW u \in Uploads, NEW length, Register(r, u, length),
             OthersStay(r)
      PROVE  FileIsHeld'
  BY <1>1, <1>typ, HeldByOthers DEF Register, At, Claiming
<1>2. ASSUME NEW r \in Requests, OthersStay(r), pc[r] \notin Claiming,
             onDisk' = onDisk, live' = live
      PROVE  FileIsHeld'
  BY <1>2, HeldByOthers
<1>3. ASSUME NEW r \in Requests, NEW u \in Uploads, OthersStay(r), pc[r] \notin Claiming,
             live' = live \ {u}, onDisk' = [onDisk EXCEPT ![u] = @ /\ u \notin live]
      PROVE  FileIsHeld'
  BY <1>3, <1>typ, HeldByOthers
<1>4. ASSUME NEW r \in Requests, OthersStay(r), Step(r) PROVE FileIsHeld'
  <2> DEFINE u == req[r].id
  <2>1. CASE Abort(r)
    BY <1>3, <1>4, <1>id, <2>1 DEF Abort, At, Claiming
  <2>2. CASE PatchMissing(r) \/ PatchResult(r) \/ AppendLookup(r) \/ CopyWrite(r) \/ Credit(r)
    BY <1>2, <1>4, <2>2 DEF PatchMissing, PatchResult, AppendLookup, CopyWrite, Credit, At,
       Claiming, table, disk
  <2>3. CASE FinishClaim(r)
    <3>1. pc[r] = "finish" /\ onDisk' = onDisk /\ u \in Uploads /\ req' = req
      BY <1>id, <2>3 DEF FinishClaim, At, disk
    <3>2. CASE live' = live
      BY <1>2, <1>4, <3>1, <3>2 DEF Claiming
    <3>3. CASE live' = live \ {u} /\ Goto(r, "open")
      <4>1. pc'[r] \in Claiming
        BY <1>typ, <3>3 DEF Goto, Claiming
      <4>2. SUFFICES ASSUME NEW v \in Uploads, onDisk[v], v \notin live', v /= u
                     PROVE  \E q \in Requests : pc'[q] \in Claiming /\ req'[q].id = v
        BY <3>1, <4>1 DEF FileIsHeld
      <4>3. PICK q \in Requests : pc[q] \in Claiming /\ req[q].id = v
        BY <3>3, <4>2 DEF FileIsHeld
      <4> QED
        BY <1>4, <4>2, <4>3 DEF OthersStay
    <3> QED
      BY <2>3, <3>2, <3>3 DEF FinishClaim
  <2>4. CASE FinishOpen(r)
    <3>1. req' = req /\ live' = live /\ onDisk' = onDisk
      BY <2>4 DEF FinishOpen, table, disk
    <3>2. Goto(r, "save") \/ ~onDisk[u]
      BY <2>4 DEF FinishOpen
    <3>3. pc'[r] \in Claiming \/ ~onDisk'[u]
      BY <1>typ, <3>1, <3>2 DEF Goto, Claiming
    <3> QED
      BY <1>4, <3>1, <3>3, HeldByClaimer
  <2>5. CASE FinishSave(r)
    <3>1. req' = req /\ live' = live /\ onDisk' = onDisk
      BY <2>5 DEF FinishSave, table
    <3>2. Goto(r, "publish") \/ Goto(r, "cleanup")
      BY <2>5 DEF FinishSave
    <3>3. pc'[r] \in Claiming
      BY <1>typ, <3>2 DEF Goto, Claiming
    <3> QED
      BY <1>4, <3>1, <3>3, HeldByClaimer
  <2>6. CASE FinishPublish(r)
    <3>1. req' = req /\ live' = live /\ onDisk' = onDisk /\ Goto(r, "cleanup")
      BY <2>6 DEF FinishPublish, disk
    <3>2. pc'[r] \in Claiming
      BY <1>typ, <3>1 DEF Goto, Claiming
    <3> QED
      BY <1>4, <3>1, <3>2, HeldByClaimer
  <2>7. CASE FinishCleanup(r)
    <3>1. /\ req' = req /\ live' = live /\ u \in Uploads
          /\ onDisk' = [onDisk EXCEPT ![u] = FALSE]
      BY <1>id, <2>7 DEF FinishCleanup, At, table
    <3> QED
      BY <1>4, <1>typ, <3>1, HeldByClaimer
  <2> QED
    BY <1>4, <2>1, <2>2, <2>3, <2>4, <2>5, <2>6, <2>7 DEF Step
<1>5. ASSUME NEW r \in Requests, OthersStay(r), ClientStep(r) PROVE FileIsHeld'
  <2>1. \/ \E u \in Uploads, length \in 0 .. MaxLength : Register(r, u, length)
        \/ /\ pc[r] \notin Claiming /\ onDisk' = onDisk /\ live' = live
        \/ \E u \in Uploads : Terminate(r, u)
    BY <1>5 DEF ClientStep, CreateEmpty, CreateWrongType, CreateWithContent, PatchAccept,
       PatchConflict, PatchNotLive, Status, Refuse, CopyRead, CopyCut, CopyEnd,
       Addressable, At, Claiming, table, disk
  <2>2. ASSUME NEW u \in Uploads, Terminate(r, u) PROVE FileIsHeld'
    BY <1>3, <1>5, <2>2 DEF Terminate, Addressable, At, Claiming
  <2> QED
    BY <1>1, <1>2, <1>5, <2>1, <2>2
<1>6. CASE Close
  <2>1. /\ \A u \in Uploads : onDisk'[u] => onDisk[u] /\ u \notin live
        /\ UNCHANGED <<pc, req>>
    BY <1>6 DEF Close
  <2> QED
    BY <2>1 DEF FileIsHeld
<1>7. CASE UNCHANGED <<onDisk, live, pc, req>>
  BY <1>7 DEF FileIsHeld
<1> QED
  BY <1>4, <1>5, <1>6, <1>7, GoroutineStep
     DEF Next, FatalMapRace, Terminated, vars, table, disk

\* When no request is in flight, only live uploads have a staging file: given
\* that a file just written can be opened again.
THEOREM NothingLeftBehind ==
  ASSUME "open" \notin Faults
  PROVE  Spec => []StagingReclaimed
<1>1. Init => Typing /\ FileIsHeld
  BY TypingInit DEF Init, FileIsHeld
<1>2. Typing /\ FileIsHeld /\ [Next]_vars => (Typing /\ FileIsHeld)'
  BY TypingStep, HeldStep
<1>3. Typing /\ FileIsHeld => StagingReclaimed
  BY DEF Typing, RequestsOK, FileIsHeld, StagingReclaimed, Quiet, Claiming
<1> QED
  BY <1>1, <1>2, <1>3, PTL DEF Spec

-----------------------------------------------------------------------------
(* What a step of one goroutine leaves as it was.                          *)

\* A goroutine that neither creates nor hands over, nor answers with a file.
Silent(r) ==
  /\ Alone(r)
  /\ req'[r] = req[r] \/ req'[r].op /= "POST"
  /\ pc[r] \notin {"open", "save", "done"} /\ pc'[r] \notin {"open", "save"}
  /\ pc'[r] = "done" => ans'[r].file = None

FreshStays == \A u \in Uploads : Fresh(u)' <=> Fresh(u)

HandedStays == \A u \in Uploads : HandedOver(u)' <=> HandedOver(u)

LEMMA NoCreation ==
  ASSUME IInv, NEW r \in Requests, Alone(r), req'[r] = req[r] \/ req'[r].op /= "POST"
  PROVE  FreshStays
BY DEF IInv, Claims, IdleIsBlank, NoReq, Alone, Fresh, FreshStays

LEMMA SameClaim ==
  ASSUME NEW r \in Requests, Alone(r),
         \A u \in Uploads : (pc'[r] \in {"open", "save"} /\ req'[r].id = u)
                              <=> (pc[r] \in {"open", "save"} /\ req[r].id = u)
  PROVE  HandedStays
BY DEF Alone, HandedOver, HandedStays

LEMMA NothingTold ==
  ASSUME NEW r \in Requests, Alone(r), pc[r] /= "done",
         pc'[r] = "done" => ans'[r].file = None
  PROVE  Told' = Told
BY DEF Alone, Told

LEMMA OneTold ==
  ASSUME NEW r \in Requests, Alone(r), pc[r] /= "done",
         pc'[r] = "done", ans'[r].file /= None
  PROVE  Told' = Told \cup {<<req'[r].id, ans'[r].file>>}
<1>1. ASSUME NEW t \in Told' PROVE t \in Told \cup {<<req'[r].id, ans'[r].file>>}
  BY DEF Alone, Told
<1>2. ASSUME NEW t \in Told PROVE t \in Told'
  BY DEF Alone, Told
<1>3. <<req'[r].id, ans'[r].file>> \in Told'
  BY DEF Told
<1> QED
  BY <1>1, <1>2, <1>3

LEMMA SilentStays ==
  ASSUME IInv, NEW r \in Requests, Silent(r)
  PROVE  FreshStays /\ HandedStays /\ Told' = Told
BY NoCreation, SameClaim, NothingTold DEF Silent

-----------------------------------------------------------------------------
(* How a step shows.                                                       *)

Shows == [Promise!Next]_(Promise!vars)

\* Facts about the uploads of a reachable state.
LEMMA LiveUploads ==
  ASSUME IInv, NEW u \in live
  PROVE  u \in Uploads /\ ~Fresh(u) /\ ~HandedOver(u) /\ Life(u) = "receiving"
         /\ \A f \in FileIds : stored[f].from /= u
BY DEF IInv, Typing, StateOK, Claims, FreshIsUntouched, LiveIsUnsaved, Unsaved,
   ClaimedIsNotLive, Claiming, HandedOver, Life

\* The goroutine that hands an upload over is the only one.
LEMMA HandedUploads ==
  ASSUME IInv, NEW r \in Requests, pc[r] \in {"open", "save"}
  PROVE  /\ req[r].id \in Uploads /\ ~Fresh(req[r].id) /\ req[r].id \notin live
         /\ \A f \in FileIds : stored[f].from /= req[r].id
         /\ Life(req[r].id) = "finishing"
         /\ \A q \in Requests \ {r} : pc[q] \in {"open", "save"} => req[q].id /= req[r].id
<1>1. req[r].id \in Uploads /\ ~Fresh(req[r].id) /\ req[r].id \notin live
  BY DEF IInv, Typing, RequestsOK, AddressesUpload, Claims, AddressedIsCreated,
     ClaimedIsNotLive, Claiming
<1>2. \A f \in FileIds : stored[f].from /= req[r].id
  BY DEF IInv, Claims, ClaimedIsUnsaved, Unsaved
<1>3. \A q \in Requests \ {r} : pc[q] \in {"open", "save"} => req[q].id /= req[r].id
  BY DEF IInv, Claims, OneClaimer, Claiming
<1> QED
  BY <1>1, <1>2, <1>3 DEF Life, HandedOver

\* At most, uploads are dropped.
LEMMA DropShows ==
  ASSUME IInv, live' \subseteq live, session' = session, stored' = stored,
         FreshStays, HandedStays, Told' = Told
  PROVE  Shows
<1> DEFINE dropped == live \ live'
<1>1. dropped \in SUBSET Uploads
  BY DEF IInv, Typing, StateOK
<1>2. \A u \in dropped : Life(u) = "receiving"
  BY LiveUploads
<1>3. ASSUME NEW u \in Uploads
      PROVE  Life(u)' = IF u \in dropped THEN "gone" ELSE Life(u)
  <2>1. CASE u \in dropped
    BY <2>1, LiveUploads DEF Life, FreshStays, HandedStays
  <2>2. CASE u \notin dropped
    BY <2>2 DEF Life, FreshStays, HandedStays
  <2> QED
    BY <2>1, <2>2
<1>4. \A u \in Uploads : Offset(u)' = IF u \in dropped THEN 0 ELSE Offset(u)
  BY DEF Offset
<1>5. Promise!Drop(dropped)
  BY <1>1, <1>2, <1>3, <1>4 DEF Promise!Drop
<1> QED
  BY <1>1, <1>5 DEF Shows, Promise!Next

LEMMA SilentShows ==
  ASSUME IInv, NEW r \in Requests, Silent(r),
         live' \subseteq live, session' = session, stored' = stored
  PROVE  Shows
BY SilentStays, DropShows

\* An answer names the file made from the upload.
LEMMA TellShows ==
  ASSUME IInv, NEW r \in Requests, Alone(r), req'[r] = req[r] \/ req'[r].op /= "POST",
         pc[r] \notin {"open", "save", "done"}, pc'[r] = "done",
         live' = live, session' = session, stored' = stored,
         req'[r].id \in Uploads, ans'[r].file \in FileIds \cup {None},
         ans'[r].file /= None => completed[req'[r].id] = ans'[r].file
  PROVE  Shows
<1>1. CASE ans'[r].file = None
  BY <1>1, SilentShows DEF Silent
<1>2. CASE ans'[r].file /= None
  <2> DEFINE u == req'[r].id
             f == ans'[r].file
  <2>1. f \in FileIds /\ stored[f].from = u
    BY <1>2 DEF IInv, Claims, CompletedIsSaved
  <2>2. FreshStays /\ HandedStays /\ Told' = Told \cup {<<u, f>>}
    BY <1>2, NoCreation, SameClaim, OneTold
  <2>3. \A v \in Uploads : Life(v)' = Life(v) /\ Offset(v)' = Offset(v)
    BY <2>2 DEF Life, Offset, FreshStays, HandedStays
  <2>4. Promise!Tell(u, f)
    BY <2>1, <2>2, <2>3 DEF Promise!Tell
  <2> QED
    BY <2>1, <2>4 DEF Shows, Promise!Next
<1> QED
  BY <1>1, <1>2

-----------------------------------------------------------------------------
(* The steps that show.                                                    *)

\* create: the upload starts to receive.
LEMMA CreateShows ==
  ASSUME IInv, IInv', NEW r \in Requests, NEW u \in Uploads, NEW length \in Nat,
         Register(r, u, length), Alone(r),
         pc'[r] \notin {"open", "save"}, pc'[r] = "done" => ans'[r].file = None
  PROVE  Shows
<1>1. pc[r] = "idle" /\ req[r] = NoReq /\ Fresh(u)
  BY DEF Register, At, IInv, Claims, IdleIsBlank
<1>2. /\ req'[r] = [op |-> "POST", id |-> u] /\ live' = live \cup {u} /\ stored' = stored
      /\ session' = [session EXCEPT ![u] = [length |-> length, offset |-> 0]]
  BY DEF Register, Arrive, IInv, Typing, RequestsOK, ReqType
<1>3. ASSUME NEW v \in Uploads PROVE Fresh(v)' <=> Fresh(v) /\ v /= u
  BY <1>1, <1>2 DEF Fresh, Alone, NoReq
<1>4. HandedStays /\ Told' = Told
  BY <1>1, SameClaim, NothingTold
<1>5. \A v \in Uploads : Life(v)' = IF v = u THEN "receiving" ELSE Life(v)
  BY <1>1, <1>2, <1>3, <1>4 DEF Life, HandedStays
<1>6. \A v \in Uploads : Offset(v)' = Offset(v)
  BY <1>1, <1>2 DEF Offset, IInv, Typing, StateOK, Claims, FreshIsUntouched
<1>7. \A v \in Uploads : session'[v].length = IF v = u THEN session'[u].length ELSE session[v].length
  BY <1>2 DEF IInv, Typing, StateOK
<1>8. Life(u) = "absent"
  BY <1>1 DEF Life
<1>9. Promise!Create(u)
  BY <1>2, <1>4, <1>5, <1>6, <1>7, <1>8 DEF Promise!Create
<1> QED
  BY <1>9 DEF Shows, Promise!Next

\* append has credited the bytes it wrote.
LEMMA CreditShows ==
  ASSUME IInv, NEW r \in Requests, Credit(r), Silent(r), NEW u \in Uploads, u = req[r].id
  PROVE  Shows
<1>1. io[r].n \in Nat
  BY DEF IInv, Typing, RequestsOK, IOType
<1>2. /\ session' = [session EXCEPT ![u].offset = @ + io[r].n]
      /\ live' = live /\ stored' = stored
  BY DEF Credit, disk
<1>3. session \in [Uploads -> [length : Nat, offset : Nat]]
  BY DEF IInv, Typing, StateOK
<1>4. FreshStays /\ HandedStays /\ Told' = Told
  BY SilentStays
<1>5. \A v \in Uploads : Life(v)' = Life(v)
  BY <1>2, <1>4 DEF Life, FreshStays, HandedStays
<1>6. \A v \in Uploads : session'[v].length = session[v].length
  BY <1>2, <1>3
<1>7. \A v \in Uploads : v /= u => Offset(v)' = Offset(v)
  BY <1>2, <1>3 DEF Offset
<1>8. CASE u \in live
  <2>1. Offset(u)' >= Offset(u)
    BY <1>1, <1>2, <1>3, <1>8 DEF Offset
  <2>2. Life(u) = "receiving"
    BY <1>8, LiveUploads
  <2>3. Promise!Receive(u)
    BY <1>1, <1>2, <1>4, <1>5, <1>6, <1>7, <2>1, <2>2 DEF Promise!Receive
  <2> QED
    BY <1>1, <2>3 DEF Shows, Promise!Next
<1>9. CASE u \notin live
  <2>1. \A v \in Uploads : Offset(v)' = Offset(v)
    BY <1>2, <1>7, <1>9 DEF Offset
  <2>2. UNCHANGED Promise!vars
    BY <1>2, <1>4, <1>5, <1>6, <2>1 DEF Promise!vars
  <2> QED
    BY <2>2 DEF Shows
<1> QED
  BY <1>8, <1>9

\* finish takes the upload out of the table.
LEMMA ClaimShows ==
  ASSUME IInv, NEW r \in Requests, Alone(r), req' = req,
         req[r].id \in live, session[req[r].id].offset = session[req[r].id].length,
         live' = live \ {req[r].id}, session' = session, stored' = stored,
         pc[r] = "finish", pc'[r] = "open"
  PROVE  Shows
<1> DEFINE u == req[r].id
<1>1. u \in Uploads /\ ~Fresh(u) /\ Life(u) = "receiving" /\ \A f \in FileIds : stored[f].from /= u
  BY LiveUploads
<1>2. FreshStays /\ Told' = Told
  BY NoCreation, NothingTold
<1>3. HandedOver(u)'
  BY DEF HandedOver
<1>4. ASSUME NEW v \in Uploads, v /= u PROVE HandedOver(v)' <=> HandedOver(v)
  BY <1>4 DEF HandedOver, Alone
<1>5. \A v \in Uploads : Life(v)' = IF v = u THEN "finishing" ELSE Life(v)
  BY <1>1, <1>2, <1>3, <1>4 DEF Life, FreshStays
<1>6. \A v \in Uploads : Offset(v)' = IF v = u THEN 0 ELSE Offset(v)
  BY DEF Offset
<1>7. Offset(u) = session[u].length
  BY DEF Offset
<1>8. Promise!Finish(u)
  BY <1>1, <1>2, <1>5, <1>6, <1>7 DEF Promise!Finish
<1> QED
  BY <1>1, <1>8 DEF Shows, Promise!Next

\* Handing over ends without a file.
LEMMA FailShows ==
  ASSUME IInv, NEW r \in Requests, Alone(r), req' = req,
         pc[r] \in {"open", "save"}, pc'[r] \notin {"open", "save"},
         pc'[r] = "done" => ans'[r].file = None,
         live' = live, session' = session, stored' = stored
  PROVE  Shows
<1> DEFINE u == req[r].id
<1>1. /\ u \in Uploads /\ ~Fresh(u) /\ u \notin live /\ Life(u) = "finishing"
      /\ \A f \in FileIds : stored[f].from /= u
      /\ \A q \in Requests \ {r} : pc[q] \in {"open", "save"} => req[q].id /= u
  BY HandedUploads
<1>2. FreshStays /\ Told' = Told
  BY NoCreation, NothingTold
<1>3. ~HandedOver(u)'
  BY <1>1 DEF HandedOver, Alone
<1>4. ASSUME NEW v \in Uploads, v /= u PROVE HandedOver(v)' <=> HandedOver(v)
  BY <1>4 DEF HandedOver, Alone
<1>5. \A v \in Uploads : Life(v)' = IF v = u THEN "gone" ELSE Life(v)
  BY <1>1, <1>2, <1>3, <1>4 DEF Life, FreshStays
<1>6. \A v \in Uploads : Offset(v)' = Offset(v)
  BY DEF Offset
<1>7. Promise!Fail(u)
  BY <1>1, <1>2, <1>5, <1>6 DEF Promise!Fail
<1> QED
  BY <1>1, <1>7 DEF Shows, Promise!Next

\* Save has made a file from the upload.
LEMMA CompleteShows ==
  ASSUME IInv, NEW r \in Requests, Alone(r), req' = req, NEW f \in FileIds, NEW content,
         pc[r] = "save", pc'[r] = "publish", stored[f] = NoFile,
         stored' = [stored EXCEPT ![f] = [from |-> req[r].id, content |-> content]],
         live' = live, session' = session
  PROVE  Shows
<1> DEFINE u == req[r].id
<1>1. /\ u \in Uploads /\ ~Fresh(u) /\ u \notin live /\ Life(u) = "finishing"
      /\ \A q \in Requests \ {r} : pc[q] \in {"open", "save"} => req[q].id /= u
  BY HandedUploads
<1>2. FreshStays /\ Told' = Told
  BY NoCreation, NothingTold
<1>3. ASSUME NEW v \in Uploads, v /= u PROVE HandedOver(v)' <=> HandedOver(v)
  BY <1>3 DEF HandedOver, Alone
<1>4. \A g \in FileIds : stored'[g].from = IF g = f THEN u ELSE stored[g].from
  BY DEF IInv, Typing, StateOK
<1>5. stored[f].from = None
  BY DEF NoFile
<1>6. \A v \in Uploads : Life(v)' = IF v = u THEN "done" ELSE Life(v)
  BY <1>1, <1>2, <1>3, <1>4, <1>5 DEF Life, FreshStays
<1>7. \A v \in Uploads : Offset(v)' = Offset(v)
  BY DEF Offset
<1>8. Promise!Complete(u, f)
  BY <1>1, <1>2, <1>4, <1>5, <1>6, <1>7 DEF Promise!Complete
<1> QED
  BY <1>1, <1>8 DEF Shows, Promise!Next

-----------------------------------------------------------------------------
(* Every step shows as a step of ResumableUpload, or as none.              *)

\* A goroutine moves no other's answer.
LEMMA AnswersStay ==
  ASSUME RequestsOK, NEW r \in Requests, Step(r) \/ ClientStep(r)
  PROVE  \A q \in Requests \ {r} : ans'[q] = ans[q]
<1>p. ASSUME NEW code, NEW file, Prepare(r, code, file)
      PROVE  \A q \in Requests \ {r} : ans'[q] = ans[q]
  BY <1>p DEF Prepare, RequestsOK
<1>a. ASSUME NEW code, NEW file, Answer(r, code, file)
      PROVE  \A q \in Requests \ {r} : ans'[q] = ans[q]
  BY <1>a, <1>p DEF Answer
<1>f. ASSUME NEW code, AppendFailed(r, code)
      PROVE  \A q \in Requests \ {r} : ans'[q] = ans[q]
  BY <1>f, <1>p, <1>a DEF AppendFailed
<1>1. CASE Step(r)
  BY <1>1, <1>p, <1>a, <1>f
     DEF Step, Abort, PatchMissing, PatchResult, AppendLookup, CopyWrite, Credit,
         FinishClaim, FinishOpen, FinishSave, FinishPublish, FinishCleanup
<1>2. CASE ClientStep(r)
  BY <1>2, <1>p, <1>a, <1>f
     DEF ClientStep, CreateEmpty, CreateWrongType, CreateWithContent, PatchAccept,
         PatchConflict, PatchNotLive, Status, Terminate, Refuse, CopyRead, CopyCut, CopyEnd
<1> QED
  BY <1>1, <1>2

\* A move to a label of the loops, or to an answer without a file.
Quietly(r) ==
  \/ \E l \in Local \cup {"cleanup"} : Goto(r, l) /\ ans' = ans
  \/ \E code : Goto(r, "abort") /\ Prepare(r, code, None)
  \/ \E code : Answer(r, code, None)
  \/ \E code : AppendFailed(r, code)

LEMMA QuietMoves ==
  ASSUME RequestsOK, NEW r \in Requests, Quietly(r)
  PROVE  pc'[r] \notin {"open", "save"} /\ (pc'[r] = "done" => ans'[r].file = None)
<1>1. CASE \E l \in Local \cup {"cleanup"} : Goto(r, l) /\ ans' = ans
  BY <1>1, GotoMoves DEF Local
<1>2. CASE \E code : Goto(r, "abort") /\ Prepare(r, code, None)
  BY <1>2, PrepareMoves
<1>3. CASE \E code : Answer(r, code, None)
  BY <1>3, AnswerMoves
<1>4. ASSUME NEW code, AppendFailed(r, code)
      PROVE  (Goto(r, "abort") /\ Prepare(r, 400, None)) \/ Answer(r, code, None)
  BY <1>4 DEF AppendFailed
<1>5. CASE \E code : AppendFailed(r, code)
  BY <1>4, <1>5, PrepareMoves, AnswerMoves
<1> QED
  BY <1>1, <1>2, <1>3, <1>5 DEF Quietly

LEMMA GoroutineShows ==
  ASSUME IInv, IInv', NEW r \in Requests, Step(r)
  PROVE  Shows
<1> DEFINE u == req[r].id
<1>1. RequestsOK /\ req' = req
  BY DEF IInv, Typing, Step, Abort, PatchMissing, PatchResult, AppendLookup, CopyWrite, Credit,
     FinishClaim, FinishOpen, FinishSave, FinishPublish, FinishCleanup
<1>2. Alone(r)
  BY <1>1, GoroutineStep, AnswersStay DEF IInv, OthersStay, Alone
<1>3. pc[r] \notin {"idle", "done"} => u \in Uploads
  BY <1>1 DEF RequestsOK, AddressesUpload
<1>4. ASSUME pc[r] \notin {"open", "save", "done"}, Quietly(r) PROVE Silent(r)
  BY <1>1, <1>2, <1>4, QuietMoves DEF Silent
<1>loc. {"copy", "result", "finish"} \subseteq Local
  BY DEF Local
<1>5. CASE Abort(r)
  <2>1. pc[r] = "abort" /\ Goto(r, "done") /\ ans' = ans
    BY <1>5 DEF Abort, At
  <2>2. pc'[r] = "done" /\ ans'[r].file = None
    BY <1>1, <2>1, GotoMoves DEF IInv, Claims, ResponseIsPublished
  <2> QED
    BY <1>1, <1>2, <1>5, <2>1, <2>2, SilentShows DEF Abort, Silent
<1>6. CASE PatchMissing(r) \/ PatchResult(r) \/ AppendLookup(r) \/ CopyWrite(r)
  <2>1. pc[r] \notin {"open", "save", "done"} /\ Quietly(r)
    BY <1>6, <1>loc DEF PatchMissing, PatchResult, AppendLookup, CopyWrite, At, Quietly
  <2>2. live' = live /\ session' = session /\ stored' = stored
    BY <1>6 DEF PatchMissing, PatchResult, AppendLookup, CopyWrite, table, disk
  <2> QED
    BY <1>4, <2>1, <2>2, SilentShows
<1>7. CASE Credit(r)
  <2>1. pc[r] = "credit" /\ Quietly(r)
    BY <1>7, <1>loc DEF Credit, At, Quietly
  <2> QED
    BY <1>3, <1>4, <1>7, <2>1, CreditShows
<1>8. CASE FinishClaim(r)
  <2>1. /\ pc[r] = "finish" /\ u \in Uploads /\ session' = session /\ stored' = stored
    BY <1>3, <1>8 DEF FinishClaim, At, disk
  <2>2. CASE live' = live /\ \E code : Answer(r, code, None)
    BY <1>4, <2>1, <2>2, SilentShows DEF Quietly
  <2>3. CASE live' = live /\ Answer(r, DoneCode(r), completed[u])
    <3>1. pc'[r] = "done" /\ ans'[r].file = completed[u]
      BY <1>1, <2>3, AnswerMoves
    <3>2. completed[u] \in FileIds \cup {None}
      BY <2>1 DEF IInv, Typing, StateOK
    <3> QED
      BY <1>1, <1>2, <2>1, <2>3, <3>1, <3>2, TellShows
  <2>4. CASE /\ u \in live /\ session[u].offset = session[u].length
             /\ live' = live \ {u} /\ Goto(r, "open") /\ ans' = ans
    <3>1. pc'[r] = "open"
      BY <1>1, <2>4, GotoMoves
    <3> QED
      BY <1>1, <1>2, <2>1, <2>4, <3>1, ClaimShows
  <2> QED
    BY <1>8, <2>2, <2>3, <2>4 DEF FinishClaim
<1>9. CASE FinishOpen(r)
  <2>1. pc[r] = "open" /\ live' = live /\ session' = session /\ stored' = stored
    BY <1>9 DEF FinishOpen, At, table, disk
  <2>2. CASE Goto(r, "save") /\ ans' = ans
    <3>1. pc'[r] = "save"
      BY <1>1, <2>2, GotoMoves
    <3>2. FreshStays /\ HandedStays /\ Told' = Told
      BY <1>1, <1>2, <2>1, <3>1, NoCreation, SameClaim, NothingTold
    <3> QED
      BY <2>1, <3>2, DropShows
  <2>3. CASE Answer(r, 500, None)
    <3>1. pc'[r] = "done" /\ ans'[r].file = None
      BY <1>1, <2>3, AnswerMoves
    <3> QED
      BY <1>1, <1>2, <2>1, <3>1, FailShows
  <2> QED
    BY <1>9, <2>2, <2>3 DEF FinishOpen
<1>10. CASE FinishSave(r)
  <2>1. pc[r] = "save" /\ live' = live /\ session' = session
    BY <1>10 DEF FinishSave, At, table
  <2>2. ASSUME NEW f \in FileIds, stored[f] = NoFile,
               stored' = [stored EXCEPT ![f] = [from |-> u, content |-> staged[u]]],
               Goto(r, "publish")
        PROVE  Shows
    <3>1. pc'[r] = "publish"
      BY <1>1, <2>2 DEF RequestsOK, Goto
    <3> QED
      BY <1>1, <1>2, <2>1, <2>2, <3>1, CompleteShows
  <2>3. CASE Goto(r, "cleanup") /\ stored' = stored
    <3>1. pc'[r] = "cleanup"
      BY <1>1, <2>3 DEF RequestsOK, Goto
    <3> QED
      BY <1>1, <1>2, <2>1, <2>3, <3>1, FailShows
  <2> QED
    BY <1>10, <2>2, <2>3 DEF FinishSave
<1>11. CASE FinishPublish(r)
  <2>1. /\ pc[r] = "publish" /\ Goto(r, "cleanup") /\ ans' = ans
        /\ live' = live /\ session' = session /\ stored' = stored
    BY <1>11 DEF FinishPublish, At, disk
  <2> QED
    BY <1>4, <2>1, SilentShows DEF Quietly
<1>12. CASE FinishCleanup(r)
  <2>1. /\ pc[r] = "cleanup" /\ Goto(r, "done") /\ ans' = ans /\ completed' = completed
        /\ live' = live /\ session' = session /\ stored' = stored
    BY <1>12 DEF FinishCleanup, At, table
  <2>2. pc'[r] = "done" /\ ans'[r] = ans[r] /\ u \in Uploads
    BY <1>1, <1>3, <2>1, GotoMoves
  <2>3. /\ ans[r].file \in FileIds \cup {None}
        /\ ans[r].file /= None => completed[u] = ans[r].file
    BY <1>1, <2>1 DEF RequestsOK, IInv, Claims, ResponseIsPublished
  <2> QED
    BY <1>1, <1>2, <2>1, <2>2, <2>3, TellShows
<1> QED
  BY <1>5, <1>6, <1>7, <1>8, <1>9, <1>10, <1>11, <1>12 DEF Step

LEMMA ClientShows ==
  ASSUME IInv, IInv', NEW r \in Requests, ClientStep(r)
  PROVE  Shows
<1>1. RequestsOK
  BY DEF IInv, Typing
<1>met. {"PATCH", "HEAD", "DELETE"} \subseteq Methods
  BY DEF Methods
<1>loc. {"append", "copy", "write", "credit", "missing", "finish", "abort"} \subseteq Local
  BY DEF Local
<1>2. ASSUME NEW u \in Uploads, NEW length \in 0 .. MaxLength, Register(r, u, length), Quietly(r)
      PROVE  Shows
  <2>1. pc[r] = "idle"
    BY <1>2 DEF Register, At
  <2>2. Alone(r)
    BY <2>1, GoroutineStep, AnswersStay, <1>1 DEF IInv, OthersStay, Alone
  <2> QED
    BY <1>1, <1>2, <2>2, QuietMoves, CreateShows
<1>3. ASSUME NEW u \in Uploads, NEW op \in {"PATCH", "HEAD", "DELETE"}, Addressable(r, u),
             Arrive(r, op, u)
      PROVE  pc[r] = "idle" /\ req'[r].op /= "POST" /\ req'[r].id = u /\ Alone(r)
  <2>1. pc[r] = "idle" /\ ReqStep(r) /\ req'[r] = [op |-> op, id |-> u]
    BY <1>1, <1>3, <1>met, ReqArrives DEF Addressable, At, Arrive, RequestsOK, ReqType
  <2> QED
    BY <2>1, GoroutineStep, AnswersStay, <1>1 DEF IInv, OthersStay, Alone
<1>4. ASSUME NEW u \in Uploads, NEW op \in {"PATCH", "HEAD", "DELETE"}, Addressable(r, u),
             Arrive(r, op, u), Quietly(r),
             live' \subseteq live, session' = session, stored' = stored
      PROVE  Shows
  BY <1>1, <1>3, <1>4, QuietMoves, SilentShows DEF Silent
<1>5. ASSUME NEW u \in Uploads, NEW length \in 0 .. MaxLength,
             \/ CreateEmpty(r, u, length) \/ CreateWrongType(r, u, length)
             \/ CreateWithContent(r, u, length)
      PROVE  Shows
  <2>1. Register(r, u, length) /\ Quietly(r)
    BY <1>5, <1>loc DEF CreateEmpty, CreateWrongType, CreateWithContent, StartAppend, Quietly
  <2> QED
    BY <1>2, <2>1
<1>6. ASSUME NEW u \in Uploads, PatchAccept(r, u) \/ PatchConflict(r, u) \/ PatchNotLive(r, u)
      PROVE  Shows
  <2>1. Addressable(r, u) /\ Arrive(r, "PATCH", u) /\ Quietly(r)
    BY <1>6, <1>loc DEF PatchAccept, PatchConflict, PatchNotLive, StartAppend, Quietly
  <2>2. live' = live /\ session' = session /\ stored' = stored
    BY <1>6 DEF PatchAccept, PatchConflict, PatchNotLive, table, disk
  <2> QED
    BY <1>4, <2>1, <2>2
<1>7. ASSUME NEW u \in Uploads, Terminate(r, u) PROVE Shows
  BY <1>4, <1>7 DEF Terminate, Quietly
<1>8. ASSUME NEW u \in Uploads, Status(r, u) PROVE Shows
  <2>1. /\ Addressable(r, u) /\ Arrive(r, "HEAD", u) /\ Answer(r, HeadCode(u), completed[u])
        /\ live' = live /\ session' = session /\ stored' = stored
    BY <1>8 DEF Status, table, disk
  <2>2. pc'[r] = "done" /\ ans'[r].file = completed[u]
    BY <1>1, <2>1, AnswerMoves
  <2>3. completed[u] \in FileIds \cup {None}
    BY DEF IInv, Typing, StateOK
  <2> QED
    BY <1>3, <2>1, <2>2, <2>3, TellShows
<1>9. CASE Refuse(r) \/ CopyRead(r) \/ CopyCut(r) \/ CopyEnd(r)
  <2>1. pc[r] \in {"idle", "copy"} /\ req' = req /\ Quietly(r)
    BY <1>9, <1>loc DEF Refuse, CopyRead, CopyCut, CopyEnd, At, Quietly
  <2>2. Alone(r)
    BY <2>1, GoroutineStep, AnswersStay, <1>1 DEF IInv, OthersStay, Alone
  <2>3. live' = live /\ session' = session /\ stored' = stored
    BY <1>9 DEF Refuse, CopyRead, CopyCut, CopyEnd, table, disk
  <2> QED
    BY <1>1, <2>1, <2>2, <2>3, QuietMoves, SilentShows DEF Silent
<1> QED
  BY <1>5, <1>6, <1>7, <1>8, <1>9 DEF ClientStep

LEMMA StepShows == IInv /\ IInv' /\ [Next]_vars => Shows
<1> SUFFICES ASSUME IInv, IInv', [Next]_vars PROVE Shows
  OBVIOUS
<1>1. CASE Close \/ UNCHANGED vars \/ \E r, q \in Requests : FatalMapRace(r, q)
  <2>1. live' \subseteq live /\ UNCHANGED <<session, stored, pc, req, ans>>
    BY <1>1 DEF Close, FatalMapRace, vars, table, disk
  <2>2. FreshStays /\ HandedStays /\ Told' = Told
    BY <2>1 DEF FreshStays, HandedStays, Fresh, HandedOver, Told
  <2> QED
    BY <2>1, <2>2, DropShows
<1> QED
  BY <1>1, GoroutineShows, ClientShows DEF Next, Terminated

LEMMA StartShows == Init => Promise!Init
<1> SUFFICES ASSUME Init PROVE Promise!Init
  OBVIOUS
<1>1. \A u \in Uploads : Life(u) = "absent" /\ Offset(u) = 0
  BY DEF Init, Life, Fresh, NoReq, Offset
<1>2. Told = {}
  BY DEF Init, Told
<1>3. \A f \in FileIds : stored[f].from = None
  BY DEF Init, NoFile
<1> QED
  BY <1>1, <1>2, <1>3 DEF Init, Promise!Init

\* The handler implements ResumableUpload: an upload is taken out of the table
\* with all its bytes or dropped, handed over by one goroutine and once, and no
\* interleaving of requests, no failure and no Close brings it back or tells a
\* client of another file.
THEOREM UploadsAreAtomic == Spec => ImplementsUpload
<1>1. Init => Promise!Init
  BY StartShows
<1>2. IInv /\ IInv' /\ [Next]_vars => [Promise!Next]_(Promise!vars)
  BY StepShows DEF Shows
<1> QED
  BY <1>1, <1>2, IInvariant, PTL DEF Spec, ImplementsUpload, Promise!Spec

-----------------------------------------------------------------------------
(* The bytes.  Three inductive invariants, each over the one above: what   *)
(* is credited is staged, with any client and any fault; the offset stays  *)
(* within the length, with a client that has one request in flight per     *)
(* upload; the file is the client's data, if moreover no body is cut short *)
(* or sent too long and no Sync fails.                                     *)

(* What one goroutine does to the bytes.                                   *)

\* Where append has looked its session up and not credited it yet.
Copying == {"copy", "write", "credit"}

Appending == {"append"} \cup Copying

\* A goroutine that is about to write, or writes, goes on with its own chunk.
GoesOn(r) ==
  pc'[r] \in Appending =>
    /\ pc[r] \in Appending /\ pc'[r] \in Copying
    /\ io'[r] = io[r] /\ req'[r] = req[r]
    /\ pc'[r] = "credit" => io[r].n = io[r].size /\ io[r].n <= io[r].room

\* It gives its chunk up because of a fault, or once the upload has gone.
GivesUp(r) ==
  pc[r] \in Appending /\ pc'[r] \notin Appending =>
    \/ req[r].id \notin live'
    \/ io[r].n > io[r].room
    \/ req[r].id \notin Steady

\* A step that leaves every byte, and every count of bytes, where it is.
Leaves(r) ==
  /\ UNCHANGED <<session, staged, stored>>
  /\ live' \subseteq live
  /\ pc'[r] \notin {"idle", "open"}
  /\ pc'[r] = "save" => pc[r] = "open" /\ req'[r] = req[r]
  /\ GoesOn(r) /\ GivesUp(r)
  /\ pc[r] = "idle" => req'[r] = req[r] \/ \E u \in Uploads : Addressable(r, u) /\ req'[r].id = u
  /\ pc[r] /= "idle" => req'[r] = req[r]

\* create: an empty upload, and perhaps a chunk to append to it.
Begins(r, u, length) ==
  /\ Register(r, u, length)
  /\ pc'[r] \in {"append", "abort", "finish", "done"}
  /\ pc'[r] = "append" =>
       \E k \in Chunks(u, length) :
         io'[r] = [base |-> 0, room |-> length, size |-> k, n |-> 0]

\* finish: the critical section that takes a complete upload.
Takes(r) ==
  /\ pc[r] = "finish" /\ req[r].id \in live
  /\ session[req[r].id].offset = session[req[r].id].length
  /\ pc'[r] = "open" /\ req' = req
  /\ live' = live \ {req[r].id}
  /\ UNCHANGED <<session, staged, stored>>

\* finish: the FileWriter holds a copy of the staging file.
Stores(r) ==
  /\ pc[r] = "save" /\ pc'[r] = "publish"
  /\ \E f \in FileIds :
       stored' = [stored EXCEPT ![f] = [from |-> req[r].id, content |-> staged[req[r].id]]]
  /\ UNCHANGED <<req, live, session, staged>>

\* append: s.offset += n.
Credits(r) ==
  /\ pc[r] = "credit" /\ pc'[r] \in {"result", "finish", "done"}
  /\ session' = [session EXCEPT ![req[r].id].offset = @ + io[r].n]
  /\ UNCHANGED <<req, live, staged, stored>>

\* The other goroutines keep their place, their request and their chunk.
ElseStill(r) ==
  \A q \in Requests \ {r} : pc'[q] = pc[q] /\ req'[q] = req[q] /\ io'[q] = io[q]

LEMMA ChunksElsewhere ==
  ASSUME Typing, NEW r \in Requests, Step(r) \/ ClientStep(r)
  PROVE  ElseStill(r)
<1> USE DEF Typing, RequestsOK, IOType
<1>e. ASSUME EndIO(r) PROVE \A q \in Requests \ {r} : io'[q] = io[q]
  BY <1>e DEF EndIO
<1>a. ASSUME NEW code, NEW file, Answer(r, code, file)
      PROVE  \A q \in Requests \ {r} : io'[q] = io[q]
  BY <1>a, <1>e DEF Answer
<1>f. ASSUME NEW code, AppendFailed(r, code)
      PROVE  \A q \in Requests \ {r} : io'[q] = io[q]
  BY <1>f, <1>e, <1>a DEF AppendFailed
<1>s. ASSUME NEW u, NEW base, NEW room, StartAppend(r, u, base, room)
      PROVE  \A q \in Requests \ {r} : io'[q] = io[q]
  BY <1>s DEF StartAppend
<1>w. ASSUME CopyWrite(r) PROVE \A q \in Requests \ {r} : io'[q] = io[q]
  BY <1>w DEF CopyWrite
<1>1. CASE Step(r)
  BY <1>1, <1>a, <1>e, <1>f, <1>w, GoroutineStep
     DEF Step, Abort, PatchMissing, PatchResult, AppendLookup, Credit, FinishClaim,
         FinishOpen, FinishSave, FinishPublish, FinishCleanup, ElseStill, OthersStay
<1>2. CASE ClientStep(r)
  BY <1>2, <1>a, <1>f, <1>s, GoroutineStep
     DEF ClientStep, CreateEmpty, CreateWrongType, CreateWithContent, PatchAccept,
         PatchConflict, PatchNotLive, Status, Terminate, Refuse, CopyRead, CopyCut,
         CopyEnd, ElseStill, OthersStay
<1> QED
  BY <1>1, <1>2

\* A step of the handler other than the above: r moves to l.
LEMMA LeavesAt ==
  ASSUME Typing, NEW r \in Requests, NEW l, Goto(r, l), req' = req,
         UNCHANGED <<session, staged, stored>>, live' \subseteq live,
         pc[r] \notin Appending \cup {"idle"}, l \notin Appending \cup {"idle", "open"},
         l = "save" => pc[r] = "open"
  PROVE  Leaves(r)
BY DEF Typing, RequestsOK, Goto, Leaves, GoesOn, GivesUp

\* append fails: with a reason to.
LEMMA FailsAt ==
  ASSUME Typing, NEW r \in Requests, NEW code, AppendFailed(r, code), req' = req,
         UNCHANGED <<session, staged, stored, live>>, pc[r] \in Appending,
         \/ req[r].id \notin live
         \/ io[r].n > io[r].room
         \/ req[r].id \notin Steady
  PROVE  Leaves(r)
<1>1. Goto(r, "abort") \/ Goto(r, "done")
  BY DEF AppendFailed, Answer
<1>2. pc'[r] \in {"abort", "done"}
  BY <1>1 DEF Goto, Typing, RequestsOK
<1> QED
  BY <1>2 DEF Leaves, GoesOn, GivesUp, Appending, Copying

\* append goes on to its next block, or to the credit.
LEMMA GoesOnAt ==
  ASSUME Typing, NEW r \in Requests, NEW l \in Copying, Goto(r, l), req' = req, io' = io,
         UNCHANGED <<session, staged, stored, live>>, pc[r] \in Appending,
         l = "credit" => io[r].n = io[r].size /\ io[r].n <= io[r].room
  PROVE  Leaves(r)
<1>1. pc'[r] = l
  BY DEF Goto, Typing, RequestsOK
<1> QED
  BY <1>1 DEF Leaves, GoesOn, GivesUp, Appending, Copying

LEMMA GoroutineEffect ==
  ASSUME Typing, NEW r \in Requests, Step(r)
  PROVE  Leaves(r) \/ CopyWrite(r) \/ Credits(r) \/ Takes(r) \/ Stores(r)
<1> USE DEF Appending, Copying
<1>p. pc \in [Requests -> Labels]
  BY DEF Typing, RequestsOK
<1>1. CASE Abort(r)
  <2>1. Goto(r, "done") /\ req' = req /\ live' \subseteq live /\ pc[r] = "abort"
    BY <1>1 DEF Abort, At
  <2> QED
    BY <1>1, <2>1, LeavesAt DEF Abort
<1>2. CASE PatchMissing(r)
  <2>1. Goto(r, "done") /\ pc[r] = "missing"
    BY <1>2 DEF PatchMissing, At, Answer
  <2> QED
    BY <1>2, <2>1, LeavesAt DEF PatchMissing, table, disk
<1>3. CASE PatchResult(r)
  <2>1. (Goto(r, "done") \/ Goto(r, "finish")) /\ pc[r] = "result"
    BY <1>3 DEF PatchResult, At, Answer
  <2> QED
    BY <1>3, <2>1, LeavesAt DEF PatchResult, table, disk
<1>4. CASE AppendLookup(r)
  <2>1. pc[r] = "append" /\ req' = req /\ UNCHANGED <<session, staged, stored, live>>
    BY <1>4 DEF AppendLookup, At, table, disk
  <2>2. CASE Goto(r, "copy") /\ io' = io
    BY <2>1, <2>2, GoesOnAt
  <2>3. CASE req[r].id \notin live /\ AppendFailed(r, 400)
    BY <2>1, <2>3, FailsAt
  <2> QED
    BY <1>4, <2>2, <2>3 DEF AppendLookup
<1>5. CASE Credit(r)
  <2>1. pc[r] = "credit" /\ (Goto(r, "done") \/ Goto(r, "finish") \/ Goto(r, "result"))
    BY <1>5 DEF Credit, At, Answer
  <2>2. pc'[r] \in {"result", "finish", "done"}
    BY <1>p, <2>1 DEF Goto
  <2>3. Credits(r)
    BY <1>5, <2>1, <2>2 DEF Credit, Credits, disk
  <2> QED
    BY <2>3
<1>6. CASE FinishClaim(r)
  <2>1. pc[r] = "finish" /\ req' = req /\ UNCHANGED <<session, staged, stored>>
    BY <1>6 DEF FinishClaim, At, disk
  <2>2. CASE Goto(r, "done") /\ live' = live
    BY <2>1, <2>2, LeavesAt
  <2>3. CASE /\ req[r].id \in live /\ session[req[r].id].offset = session[req[r].id].length
             /\ live' = live \ {req[r].id} /\ Goto(r, "open")
    BY <1>p, <2>1, <2>3 DEF Takes, Goto
  <2> QED
    BY <1>6, <2>2, <2>3 DEF FinishClaim, Answer
<1>7. CASE FinishOpen(r)
  <2>1. pc[r] = "open" /\ (Goto(r, "save") \/ Goto(r, "done"))
    BY <1>7 DEF FinishOpen, At, Answer
  <2> QED
    BY <1>7, <2>1, LeavesAt DEF FinishOpen, table, disk
<1>8. CASE FinishSave(r)
  <2>1. pc[r] = "save" /\ req' = req /\ UNCHANGED <<session, staged, live>>
    BY <1>8 DEF FinishSave, At, table
  <2>2. CASE Goto(r, "cleanup") /\ stored' = stored
    BY <2>1, <2>2, LeavesAt
  <2>3. CASE \E f \in FileIds :
               /\ stored' = [stored EXCEPT ![f] = [from |-> req[r].id, content |-> staged[req[r].id]]]
               /\ Goto(r, "publish")
    BY <1>p, <2>1, <2>3 DEF Stores, Goto
  <2> QED
    BY <1>8, <2>2, <2>3 DEF FinishSave
<1>9. CASE FinishPublish(r)
  <2>1. Goto(r, "cleanup") /\ pc[r] = "publish"
    BY <1>9 DEF FinishPublish, At
  <2> QED
    BY <1>9, <2>1, LeavesAt DEF FinishPublish, disk
<1>10. CASE FinishCleanup(r)
  <2>1. Goto(r, "done") /\ pc[r] = "cleanup"
    BY <1>10 DEF FinishCleanup, At
  <2> QED
    BY <1>10, <2>1, LeavesAt DEF FinishCleanup, table
<1> QED
  BY <1>1, <1>2, <1>3, <1>4, <1>5, <1>6, <1>7, <1>8, <1>9, <1>10 DEF Step

\* A request arrives and appends nothing.
LEMMA ArrivesAt ==
  ASSUME Typing, NEW r \in Requests, NEW u \in Uploads, NEW op \in Methods, NEW l,
         Addressable(r, u), Arrive(r, op, u), Goto(r, l), l \in {"done", "missing"},
         UNCHANGED <<session, staged, stored>>, live' \subseteq live
  PROVE  Leaves(r)
<1>1. pc[r] = "idle"
  BY DEF Addressable, At
<1>2. pc'[r] = l
  BY DEF Goto, Typing, RequestsOK
<1>3. req'[r].id = u
  BY ReqArrives DEF Typing
<1> QED
  BY <1>1, <1>2, <1>3 DEF Leaves, GoesOn, GivesUp, Appending, Copying

LEMMA ClientEffect ==
  ASSUME Typing, NEW r \in Requests, ClientStep(r)
  PROVE  \/ Leaves(r)
         \/ \E u \in Uploads, length \in 0 .. MaxLength : Begins(r, u, length)
         \/ \E u \in Uploads : PatchAccept(r, u)
<1> USE DEF Appending, Copying
<1>p. pc \in [Requests -> Labels] /\ io \in IOType
  BY DEF Typing, RequestsOK
<1>m. {"PATCH", "HEAD", "DELETE"} \subseteq Methods
  BY DEF Methods
<1>1. ASSUME NEW u \in Uploads, NEW length \in 0 .. MaxLength,
             CreateEmpty(r, u, length) \/ CreateWrongType(r, u, length)
      PROVE  Begins(r, u, length)
  <2>1. Goto(r, "finish") \/ Goto(r, "done") \/ Goto(r, "abort")
    BY <1>1 DEF CreateEmpty, CreateWrongType, Answer
  <2>2. pc'[r] \in {"finish", "done", "abort"}
    BY <1>p, <2>1 DEF Goto
  <2> QED
    BY <1>1, <2>2 DEF CreateEmpty, CreateWrongType, Begins
<1>2. ASSUME NEW u \in Uploads, NEW length \in 0 .. MaxLength,
             CreateWithContent(r, u, length)
      PROVE  Begins(r, u, length)
  <2>1. StartAppend(r, u, 0, length) /\ Register(r, u, length)
    BY <1>2 DEF CreateWithContent
  <2>2. pc'[r] = "append"
    BY <1>p, <2>1 DEF StartAppend, Goto
  <2>3. \E k \in Chunks(u, length) :
          io'[r] = [base |-> 0, room |-> length, size |-> k, n |-> 0]
    BY <1>p, <2>1 DEF StartAppend, IOType
  <2> QED
    BY <2>1, <2>2, <2>3 DEF Begins
<1>3. ASSUME NEW u \in Uploads,
             PatchConflict(r, u) \/ PatchNotLive(r, u) \/ Status(r, u) \/ Terminate(r, u)
      PROVE  Leaves(r)
  <2>1. /\ Addressable(r, u) /\ \E op \in Methods : Arrive(r, op, u)
        /\ Goto(r, "done") \/ Goto(r, "missing")
    BY <1>3, <1>m DEF PatchConflict, PatchNotLive, Status, Terminate, Answer
  <2>2. UNCHANGED <<session, staged, stored>> /\ live' \subseteq live
    BY <1>3 DEF PatchConflict, PatchNotLive, Status, Terminate, table, disk
  <2> QED
    BY <2>1, <2>2, ArrivesAt
<1>4. CASE Refuse(r)
  <2>1. Goto(r, "done") /\ pc[r] = "idle" /\ req' = req
    BY <1>4 DEF Refuse, At, Answer
  <2>2. pc'[r] = "done"
    BY <1>p, <2>1 DEF Goto
  <2> QED
    BY <1>4, <2>1, <2>2 DEF Refuse, Leaves, GoesOn, GivesUp, table, disk
<1>5. CASE CopyRead(r) \/ CopyCut(r) \/ CopyEnd(r)
  <2>1. pc[r] = "copy" /\ req' = req /\ UNCHANGED <<session, staged, stored, live>>
    BY <1>5 DEF CopyRead, CopyCut, CopyEnd, At, table, disk
  <2>2. CASE Goto(r, "write") /\ io' = io
    BY <2>1, <2>2, GoesOnAt
  <2>3. CASE io[r].n = io[r].size /\ io[r].n <= io[r].room /\ Goto(r, "credit") /\ io' = io
    BY <2>1, <2>3, GoesOnAt
  <2>4. CASE \E code : /\ AppendFailed(r, code)
                       /\ \/ req[r].id \notin live
                          \/ io[r].n > io[r].room
                          \/ req[r].id \notin Steady
    BY <2>1, <2>4, FailsAt
  <2> QED
    BY <1>5, <2>2, <2>3, <2>4 DEF CopyRead, CopyCut, CopyEnd, MayFail
<1> QED
  BY <1>1, <1>2, <1>3, <1>4, <1>5 DEF ClientStep

\* Every step is one of these, by one goroutine, or touches neither bytes nor
\* goroutines.
Effect(r) ==
  /\ ElseStill(r) /\ pc[r] /= "done"
  /\ \/ Leaves(r)
     \/ \E u \in Uploads, length \in 0 .. MaxLength : Begins(r, u, length)
     \/ \E u \in Uploads : PatchAccept(r, u)
     \/ CopyWrite(r) \/ Credits(r) \/ Takes(r) \/ Stores(r)

Outside ==
  /\ UNCHANGED <<session, staged, stored, pc, req, io>>
  /\ live' \subseteq live

LEMMA EveryEffect ==
  ASSUME Typing, [Next]_vars
  PROVE  Outside \/ \E r \in Requests : Effect(r)
<1>1. ASSUME NEW r \in Requests, Step(r) \/ ClientStep(r) PROVE Effect(r)
  <2>1. pc[r] /= "done"
    BY <1>1 DEF Step, Abort, PatchMissing, PatchResult, AppendLookup, CopyWrite, Credit,
       FinishClaim, FinishOpen, FinishSave, FinishPublish, FinishCleanup, ClientStep,
       CreateEmpty, CreateWrongType, CreateWithContent, Register, PatchAccept,
       PatchConflict, PatchNotLive, Status, Terminate, Addressable, Refuse, CopyRead,
       CopyCut, CopyEnd, At
  <2> QED
    BY <1>1, <2>1, ChunksElsewhere, GoroutineEffect, ClientEffect DEF Effect
<1>2. CASE Close \/ UNCHANGED vars \/ \E r, q \in Requests : FatalMapRace(r, q)
  BY <1>2 DEF Close, FatalMapRace, vars, table, disk, Outside
<1> QED
  BY <1>1, <1>2 DEF Next, Terminated

-----------------------------------------------------------------------------
(* What is credited is staged: any client, any fault.                      *)

Appenders(u) == {r \in Requests : pc[r] \in Copying /\ req[r].id = u}

\* The bytes of u that are written and not yet credited, each named by its
\* writer and its place in the writer's chunk: their number is the sum over
\* all appends in flight.
Uncredited(u) == UNION {{r} \X (1 .. io[r].n) : r \in Appenders(u)}

\* An append that has not found its session has written nothing.
NotYetWritten == \A r \in Requests : pc[r] = "append" => io[r].n = 0

\* The file holds what is credited and, besides, what is still to credit.
Covered ==
  \A u \in Uploads :
    /\ IsFiniteSet(Uncredited(u))
    /\ session[u].offset + Cardinality(Uncredited(u)) <= Len(staged[u])

\* An upload being handed over is complete; a late credit only adds to it.
ClaimedIsComplete ==
  \A r \in Requests :
    pc[r] \in {"open", "save"} => session[req[r].id].offset >= session[req[r].id].length

BytesInv == NotYetWritten /\ Covered /\ ClaimedIsComplete /\ NeverTruncated

LEMMA InUncredited ==
  ASSUME NEW u
  PROVE  \A b : b \in Uncredited(u) <=> \E r \in Appenders(u) : b \in {r} \X (1 .. io[r].n)
BY DEF Uncredited

\* A step adds no uncredited byte unless a chunk in flight grows.
LEMMA NothingAdded ==
  ASSUME \A q \in Requests :
           pc'[q] \in Copying =>
             /\ req'[q] = req[q]
             /\ (io'[q] = io[q] /\ pc[q] \in Copying) \/ io'[q].n = 0
  PROVE  \A u : Uncredited(u)' \subseteq Uncredited(u)
<1> SUFFICES ASSUME NEW u, NEW b \in Uncredited(u)' PROVE b \in Uncredited(u)
  OBVIOUS
<1>1. PICK r \in Appenders(u)' : b \in {r} \X (1 .. io'[r].n)
  BY DEF Uncredited
<1>2. io'[r].n /= 0
  BY <1>1
<1>3. r \in Appenders(u) /\ io'[r] = io[r]
  BY <1>1, <1>2 DEF Appenders
<1> QED
  BY <1>1, <1>3 DEF Uncredited

\* The file does not shrink and no offset grows.
LEMMA CoveredKept ==
  ASSUME Typing, Typing', Covered,
         \A u : Uncredited(u)' \subseteq Uncredited(u),
         \A u \in Uploads : /\ session'[u].offset <= session[u].offset
                            /\ Len(staged[u]) <= Len(staged'[u])
  PROVE  Covered'
<1> SUFFICES ASSUME NEW u \in Uploads
             PROVE  /\ IsFiniteSet(Uncredited(u)')
                    /\ session'[u].offset + Cardinality(Uncredited(u)') <= Len(staged'[u])
  BY DEF Covered
<1>1. IsFiniteSet(Uncredited(u)) /\ Uncredited(u)' \in SUBSET Uncredited(u)
  BY DEF Covered
<1>2. /\ IsFiniteSet(Uncredited(u)') /\ Cardinality(Uncredited(u)') <= Cardinality(Uncredited(u))
      /\ Cardinality(Uncredited(u)) \in Nat /\ Cardinality(Uncredited(u)') \in Nat
  BY <1>1, FS_Subset, FS_CardinalityType
<1>3. session[u].offset + Cardinality(Uncredited(u)) <= Len(staged[u])
  BY DEF Covered
<1>4. /\ session[u].offset \in Nat /\ session'[u].offset \in Nat
      /\ Len(staged[u]) \in Nat /\ Len(staged'[u]) \in Nat
  BY DEF Typing, StateOK
<1>5. session'[u].offset <= session[u].offset /\ Len(staged[u]) <= Len(staged'[u])
  OBVIOUS
<1>6. \A a, b, c, d, l, m \in Nat : a + c <= l /\ b <= a /\ d <= c /\ l <= m => b + d <= m
  OBVIOUS
<1> HIDE DEF Uncredited
<1>7. session'[u].offset + Cardinality(Uncredited(u)') <= Len(staged'[u])
  BY <1>2, <1>3, <1>4, <1>5, <1>6
<1> QED
  BY <1>2, <1>7

\* A block reaches the file: one more byte there, one more to credit.
LEMMA CoveredWrite ==
  ASSUME Typing, Covered, NEW r \in Requests, CopyWrite(r), ElseStill(r)
  PROVE  Covered'
<1> DEFINE v == req[r].id
           n == io[r].n
<1>t. /\ pc \in [Requests -> Labels] /\ io \in IOType /\ staged \in [Uploads -> Seq(Nat)]
      /\ session \in [Uploads -> [length : Nat, offset : Nat]]
  BY DEF Typing, RequestsOK, StateOK
<1>1. /\ pc[r] = "write" /\ pc'[r] = "copy" /\ req' = req /\ session' = session
      /\ staged' = [staged EXCEPT ![v] = Append(@, io[r].base + io[r].n + 1)]
      /\ io'[r].n = n + 1
  BY <1>t DEF CopyWrite, At, Goto, table, IOType
<1>2. v \in Uploads /\ n \in Nat /\ io[r].base \in Nat
  BY <1>1, <1>t DEF Typing, RequestsOK, AddressesUpload, IOType
<1>3. \A u : Appenders(u)' = Appenders(u)
  BY <1>1 DEF Appenders, ElseStill, Copying
<1>4. \A q \in Requests \ {r} : io'[q] = io[q]
  BY DEF ElseStill
<1>5. ASSUME NEW u \in Uploads, u /= v
      PROVE  Uncredited(u)' = Uncredited(u) /\ staged'[u] = staged[u]
  <2>1. r \notin Appenders(u)
    BY <1>5 DEF Appenders
  <2>2. Appenders(u) \subseteq Requests
    BY DEF Appenders
  <2>3. \A q \in Appenders(u) : io'[q] = io[q]
    BY <1>4, <2>1, <2>2
  <2>4. {{q} \X (1 .. io'[q].n) : q \in Appenders(u)} = {{q} \X (1 .. io[q].n) : q \in Appenders(u)}
    BY <2>3
  <2> QED
    BY <1>1, <1>2, <1>3, <1>5, <1>t, <2>4 DEF Uncredited
<1>6. Uncredited(v)' = Uncredited(v) \cup {<<r, n + 1>>} /\ <<r, n + 1>> \notin Uncredited(v)
  <2>1. r \in Appenders(v) /\ Appenders(v) \subseteq Requests
    BY <1>1 DEF Appenders, Copying
  <2>2. ASSUME NEW b \in Uncredited(v)' PROVE b \in Uncredited(v) \cup {<<r, n + 1>>}
    <3>1. PICK q \in Appenders(v) : b \in {q} \X (1 .. io'[q].n)
      BY <1>1, <1>3, <2>2 DEF Uncredited
    <3>2. CASE q = r
      <4>1. b \in {r} \X (1 .. n) \/ b = <<r, n + 1>>
        BY <1>1, <1>2, <3>1, <3>2
      <4> QED
        BY <2>1, <4>1 DEF Uncredited
    <3>3. CASE q /= r
      BY <1>4, <2>1, <3>1, <3>3 DEF Uncredited
    <3> QED
      BY <3>2, <3>3
  <2>3. ASSUME NEW b \in Uncredited(v) PROVE b \in Uncredited(v)'
    <3>1. PICK q \in Appenders(v) : b \in {q} \X (1 .. io[q].n)
      BY <2>3 DEF Uncredited
    <3>2. b \in {q} \X (1 .. io'[q].n)
      BY <1>1, <1>2, <1>4, <2>1, <3>1
    <3> QED
      BY <1>1, <1>3, <3>2 DEF Uncredited
  <2>4. <<r, n + 1>> \in Uncredited(v)'
    <3>1. <<r, n + 1>> \in {r} \X (1 .. io'[r].n)
      BY <1>1, <1>2
    <3> QED
      BY <1>1, <1>3, <2>1, <3>1 DEF Uncredited
  <2>5. <<r, n + 1>> \notin Uncredited(v)
    <3>1. ASSUME NEW q \in Appenders(v), <<r, n + 1>> \in {q} \X (1 .. io[q].n) PROVE FALSE
      BY <1>2, <3>1
    <3> QED
      BY <3>1 DEF Uncredited
  <2> QED
    BY <2>2, <2>3, <2>4, <2>5
<1>7. SUFFICES ASSUME NEW u \in Uploads
               PROVE  /\ IsFiniteSet(Uncredited(u)')
                      /\ session'[u].offset + Cardinality(Uncredited(u)') <= Len(staged'[u])
  BY DEF Covered
<1>8. /\ IsFiniteSet(Uncredited(u)) /\ session[u].offset \in Nat
      /\ session[u].offset + Cardinality(Uncredited(u)) <= Len(staged[u])
  BY <1>t DEF Covered
<1>9. CASE u /= v
  BY <1>1, <1>5, <1>8, <1>9
<1>10. CASE u = v
  <2>1. /\ IsFiniteSet(Uncredited(v)') /\ Cardinality(Uncredited(v)') = Cardinality(Uncredited(v)) + 1
        /\ Cardinality(Uncredited(v)) \in Nat
    BY <1>6, <1>8, <1>10, FS_AddElement, FS_CardinalityType
  <2>2. Len(staged'[v]) = Len(staged[v]) + 1 /\ Len(staged[v]) \in Nat
    BY <1>1, <1>2, <1>t
  <2> QED
    BY <1>1, <1>8, <1>10, <2>1, <2>2
<1> QED
  BY <1>9, <1>10

\* s.offset += n: what the credit adds to the offset it takes from the bytes
\* to credit.
LEMMA CoveredCredit ==
  ASSUME Typing, Typing', Covered, NEW r \in Requests, Credits(r), ElseStill(r)
  PROVE  Covered'
<1> DEFINE v == req[r].id
           n == io[r].n
           own == {r} \X (1 .. n)
<1>t. /\ io \in IOType /\ session \in [Uploads -> [length : Nat, offset : Nat]]
      /\ staged \in [Uploads -> Seq(Nat)]
  BY DEF Typing, RequestsOK, StateOK
<1>1. /\ pc[r] = "credit" /\ pc'[r] \notin Copying
      /\ session' = [session EXCEPT ![v].offset = @ + n]
      /\ req' = req /\ staged' = staged
  BY DEF Credits, Copying
<1>2. v \in Uploads /\ n \in Nat
  BY <1>1, <1>t DEF Typing, RequestsOK, AddressesUpload, IOType
<1>3. \A u : Uncredited(u)' \subseteq Uncredited(u)
  BY <1>1, NothingAdded DEF ElseStill
<1>4. own \subseteq Uncredited(v)
  <2>1. r \in Appenders(v)
    BY <1>1 DEF Appenders, Copying
  <2> QED
    BY <2>1 DEF Uncredited
<1>5. Uncredited(v)' \cap own = {}
  <2>1. SUFFICES ASSUME NEW b \in Uncredited(v)' PROVE b \notin own
    OBVIOUS
  <2>2. PICK q \in Appenders(v)' : b \in {q} \X (1 .. io'[q].n)
    BY <1>1, <2>1 DEF Uncredited
  <2>3. q /= r
    BY <1>1, <2>2 DEF Appenders
  <2> QED
    BY <2>2, <2>3
<1>6. IsFiniteSet(own) /\ Cardinality(own) = n
  <2>1. IsFiniteSet({r}) /\ Cardinality({r}) = 1
    BY FS_Singleton
  <2>2. IsFiniteSet(1 .. n) /\ Cardinality(1 .. n) = n
    <3>1. /\ IsFiniteSet(1 .. n)
          /\ Cardinality(1 .. n) = IF 1 > n THEN 0 ELSE n - 1 + 1
      BY <1>2, FS_Interval
    <3> QED
      BY <1>2, <3>1
  <2>3. IsFiniteSet(own) /\ Cardinality(own) = Cardinality({r}) * Cardinality(1 .. n)
    BY <2>1, <2>2, FS_Product
  <2> QED
    BY <1>2, <2>1, <2>2, <2>3
<1> HIDE DEF own
<1>7. SUFFICES ASSUME NEW u \in Uploads
               PROVE  /\ IsFiniteSet(Uncredited(u)')
                      /\ session'[u].offset + Cardinality(Uncredited(u)') <= Len(staged'[u])
  BY DEF Covered
<1>8. /\ IsFiniteSet(Uncredited(u)) /\ session[u].offset \in Nat /\ Len(staged[u]) \in Nat
      /\ session[u].offset + Cardinality(Uncredited(u)) <= Len(staged[u])
  BY <1>t DEF Covered
<1>9. /\ IsFiniteSet(Uncredited(u)') /\ Cardinality(Uncredited(u)') <= Cardinality(Uncredited(u))
      /\ Cardinality(Uncredited(u)) \in Nat /\ Cardinality(Uncredited(u)') \in Nat
  BY <1>3, <1>8, FS_Subset, FS_CardinalityType
<1>10. CASE u /= v
  <2>1. session'[u] = session[u] /\ staged'[u] = staged[u]
    BY <1>1, <1>10, <1>t
  <2>2. \A a, c, d, l \in Nat : a + c <= l /\ d <= c => a + d <= l
    OBVIOUS
  <2>3. session'[u].offset + Cardinality(Uncredited(u)') <= Len(staged'[u])
    BY <1>8, <1>9, <2>1, <2>2
  <2> QED
    BY <1>9, <2>3
<1>11. CASE u = v
  <2>1. session'[u].offset = session[u].offset + n /\ staged'[u] = staged[u]
    BY <1>1, <1>2, <1>11, <1>t
  <2>2. Uncredited(u)' \in SUBSET (Uncredited(u) \ own)
    BY <1>1, <1>3, <1>5, <1>11
  <2>3. /\ IsFiniteSet(Uncredited(u) \ own)
        /\ Cardinality(Uncredited(u) \ own) = Cardinality(Uncredited(u)) - Cardinality(Uncredited(u) \cap own)
    BY <1>8, FS_Difference
  <2>4. Uncredited(u) \cap own = own
    BY <1>4, <1>11
  <2>5. Cardinality(Uncredited(u)') <= Cardinality(Uncredited(u)) - n
    <3>1. Cardinality(Uncredited(u)') <= Cardinality(Uncredited(u) \ own)
      BY <2>2, <2>3, FS_Subset
    <3> QED
      BY <1>6, <2>3, <2>4, <3>1
  <2>6. \A a, c, d, l, m \in Nat : a + c <= l /\ d <= c - m => (a + m) + d <= l
    OBVIOUS
  <2>7. session'[u].offset + Cardinality(Uncredited(u)') <= Len(staged'[u])
    BY <1>2, <1>8, <1>9, <2>1, <2>5, <2>6
  <2> QED
    BY <1>9, <2>7
<1> QED
  BY <1>10, <1>11

LEMMA CoveredStep ==
  ASSUME Typing, Typing', NotYetWritten, Covered, NEW r \in Requests, Effect(r)
  PROVE  Covered'
<1>t. session \in [Uploads -> [length : Nat, offset : Nat]] /\ staged \in [Uploads -> Seq(Nat)]
  BY DEF Typing, StateOK
<1>e. ElseStill(r)
  BY DEF Effect
<1>1. CASE Leaves(r)
  <2>1. \A u : Uncredited(u)' \subseteq Uncredited(u)
    <3>1. /\ pc'[r] \in Copying => req'[r] = req[r] /\ io'[r] = io[r]
          /\ pc'[r] \in Copying /\ pc[r] \notin Copying => io'[r].n = 0
      BY <1>1 DEF Leaves, GoesOn, NotYetWritten, Appending
    <3> QED
      BY <1>e, <3>1, NothingAdded DEF ElseStill
  <2>2. session' = session /\ staged' = staged
    BY <1>1 DEF Leaves
  <2>3. \A u \in Uploads : /\ session'[u].offset <= session[u].offset
                           /\ Len(staged[u]) <= Len(staged'[u])
    BY <1>t, <2>2
  <2> QED
    BY <2>1, <2>3, CoveredKept
<1>2. ASSUME NEW v \in Uploads, NEW length \in 0 .. MaxLength, Begins(r, v, length)
      PROVE  Covered'
  <2>1. \A u : Uncredited(u)' \subseteq Uncredited(u)
    BY <1>2, <1>e, NothingAdded DEF Begins, ElseStill, Copying
  <2>2. session' = [session EXCEPT ![v] = [length |-> length, offset |-> 0]] /\ staged' = staged
    BY <1>2 DEF Begins, Register
  <2>3. \A u \in Uploads : /\ session'[u].offset <= session[u].offset
                           /\ Len(staged[u]) <= Len(staged'[u])
    BY <1>t, <2>2
  <2> QED
    BY <2>1, <2>3, CoveredKept
<1>3. ASSUME NEW v \in Uploads, PatchAccept(r, v) PROVE Covered'
  <2>1. pc'[r] = "append" /\ session' = session /\ staged' = staged
    BY <1>3 DEF PatchAccept, StartAppend, Goto, table, disk, Typing, RequestsOK
  <2>2. \A u : Uncredited(u)' \subseteq Uncredited(u)
    BY <1>e, <2>1, NothingAdded DEF ElseStill, Copying
  <2>3. \A u \in Uploads : /\ session'[u].offset <= session[u].offset
                           /\ Len(staged[u]) <= Len(staged'[u])
    BY <1>t, <2>1
  <2> QED
    BY <2>2, <2>3, CoveredKept
<1>4. CASE CopyWrite(r)
  BY <1>4, <1>e, CoveredWrite
<1>5. CASE Credits(r)
  BY <1>5, <1>e, CoveredCredit
<1>6. CASE Takes(r) \/ Stores(r)
  <2>1. pc'[r] \notin Copying /\ session' = session /\ staged' = staged
    BY <1>6 DEF Takes, Stores, Copying
  <2>2. \A u : Uncredited(u)' \subseteq Uncredited(u)
    BY <1>e, <2>1, NothingAdded DEF ElseStill
  <2>3. \A u \in Uploads : /\ session'[u].offset <= session[u].offset
                           /\ Len(staged[u]) <= Len(staged'[u])
    BY <1>t, <2>1
  <2> QED
    BY <2>2, <2>3, CoveredKept
<1> QED
  BY <1>1, <1>2, <1>3, <1>4, <1>5, <1>6 DEF Effect

\* The rest of the invariant.
LEMMA CompleteStep ==
  ASSUME IInv, Typing', BytesInv, NEW r \in Requests, Effect(r)
  PROVE  NotYetWritten' /\ ClaimedIsComplete' /\ NeverTruncated'
<1>t. /\ session \in [Uploads -> [length : Nat, offset : Nat]]
      /\ staged \in [Uploads -> Seq(Nat)] /\ pc \in [Requests -> Labels] /\ io \in IOType
      /\ stored \in [FileIds -> [from : Uploads \cup {None}, content : Seq(Nat)]]
  BY DEF IInv, Typing, StateOK, RequestsOK
<1>e. \A q \in Requests \ {r} : pc'[q] = pc[q] /\ req'[q] = req[q] /\ io'[q] = io[q]
  BY DEF Effect, ElseStill
<1>id. \A q \in Requests : pc[q] \notin {"idle", "done"} => req[q].id \in Uploads
  BY DEF IInv, Typing, RequestsOK, AddressesUpload
<1>i. NotYetWritten /\ Covered /\ ClaimedIsComplete /\ NeverTruncated
  BY DEF BytesInv
<1>1. CASE Leaves(r)
  BY <1>1, <1>e, <1>i
     DEF Leaves, GoesOn, Appending, Copying, NotYetWritten, ClaimedIsComplete, NeverTruncated
<1>2. ASSUME NEW u \in Uploads, NEW length \in 0 .. MaxLength, Begins(r, u, length)
      PROVE  NotYetWritten' /\ ClaimedIsComplete' /\ NeverTruncated'
  <2>1. /\ pc'[r] \notin {"open", "save"} /\ stored' = stored
        /\ pc'[r] = "append" => io'[r].n = 0
        /\ \A v \in Uploads \ {u} : session'[v] = session[v]
    <3>1. ASSUME pc'[r] = "append" PROVE io'[r].n = 0
      <4>1. PICK k \in Chunks(u, length) :
              io'[r] = [base |-> 0, room |-> length, size |-> k, n |-> 0]
        BY <1>2, <3>1 DEF Begins
      <4> QED
        BY <4>1
    <3>2. session' = [session EXCEPT ![u] = [length |-> length, offset |-> 0]]
      BY <1>2 DEF Begins, Register
    <3>3. pc'[r] \notin {"open", "save"} /\ stored' = stored
      BY <1>2 DEF Begins, Register
    <3> QED
      BY <1>t, <3>1, <3>2, <3>3
  <2>2. Fresh(u)
    BY <1>2 DEF Begins, Register
  <2>3. \A q \in Requests : req[q].id /= u
    BY <2>2 DEF IInv, Claims, AddressedIsCreated
  <2>4. \A f \in FileIds : stored[f].from /= u
    BY <2>2 DEF IInv, Claims, FreshIsUntouched, Unsaved
  <2>5. NotYetWritten'
    BY <1>e, <1>i, <2>1 DEF NotYetWritten
  <2>6. ClaimedIsComplete'
    BY <1>e, <1>i, <1>id, <2>1, <2>3 DEF ClaimedIsComplete
  <2>7. NeverTruncated'
    <3>1. ASSUME NEW f \in FileIds, stored[f].from /= None
          PROVE  session'[stored[f].from] = session[stored[f].from]
      BY <1>t, <2>1, <2>4, <3>1
    <3> QED
      BY <1>i, <2>1, <3>1 DEF NeverTruncated
  <2> QED
    BY <2>5, <2>6, <2>7
<1>3. ASSUME NEW u \in Uploads, PatchAccept(r, u)
      PROVE  NotYetWritten' /\ ClaimedIsComplete' /\ NeverTruncated'
  <2>1. pc'[r] = "append" /\ session' = session /\ stored' = stored /\ io'[r].n = 0
    BY <1>3, <1>t DEF PatchAccept, StartAppend, Goto, table, disk, IOType
  <2> QED
    BY <1>e, <1>i, <2>1 DEF NotYetWritten, ClaimedIsComplete, NeverTruncated
<1>4. CASE CopyWrite(r)
  <2>1. pc'[r] = "copy" /\ session' = session /\ stored' = stored
    BY <1>4, <1>t DEF CopyWrite, Goto, table
  <2> QED
    BY <1>e, <1>i, <2>1 DEF NotYetWritten, ClaimedIsComplete, NeverTruncated
<1>5. CASE Credits(r)
  <2>1. /\ pc'[r] \notin {"append", "open", "save"} /\ stored' = stored /\ io[r].n \in Nat
        /\ session' = [session EXCEPT ![req[r].id].offset = @ + io[r].n]
    BY <1>5, <1>t DEF Credits, IOType
  <2>2. ASSUME NEW v \in Uploads
        PROVE  session'[v].length = session[v].length /\ session'[v].offset >= session[v].offset
    BY <1>t, <2>1
  <2>3. NotYetWritten'
    BY <1>e, <1>i, <2>1 DEF NotYetWritten
  <2>4. ClaimedIsComplete'
    <3>1. SUFFICES ASSUME NEW q \in Requests \ {r}, pc[q] \in {"open", "save"}
                   PROVE  session'[req[q].id].offset >= session'[req[q].id].length
      BY <1>e, <2>1 DEF ClaimedIsComplete
    <3>2. req[q].id \in Uploads /\ session[req[q].id].offset >= session[req[q].id].length
      BY <1>i, <1>id, <3>1 DEF ClaimedIsComplete
    <3>3. session[req[q].id].offset \in Nat /\ session[req[q].id].length \in Nat /\ session'[req[q].id].offset \in Nat
      BY <1>t, <3>2 DEF Typing, StateOK
    <3> QED
      BY <2>2, <3>2, <3>3
  <2>5. NeverTruncated'
    BY <1>i, <1>t, <2>1, <2>2 DEF NeverTruncated
  <2> QED
    BY <2>3, <2>4, <2>5
<1>6. CASE Takes(r)
  <2>1. /\ pc'[r] = "open" /\ session' = session /\ stored' = stored /\ req' = req
        /\ pc[r] = "finish" /\ session[req[r].id].offset = session[req[r].id].length
    BY <1>6 DEF Takes
  <2>2. session[req[r].id].offset >= session[req[r].id].length
    BY <1>id, <1>t, <2>1
  <2> QED
    BY <1>e, <1>i, <2>1, <2>2 DEF NotYetWritten, ClaimedIsComplete, NeverTruncated
<1>7. CASE Stores(r)
  <2>1. /\ pc[r] = "save" /\ pc'[r] = "publish" /\ session' = session
    BY <1>7 DEF Stores
  <2>2. PICK f \in FileIds :
          stored' = [stored EXCEPT ![f] = [from |-> req[r].id, content |-> staged[req[r].id]]]
    BY <1>7 DEF Stores
  <2>3. Len(staged[req[r].id]) >= session[req[r].id].length
    <3> DEFINE u == req[r].id
    <3>1. u \in Uploads /\ session[u].offset >= session[u].length
      BY <1>i, <1>id, <2>1 DEF ClaimedIsComplete
    <3>2. /\ IsFiniteSet(Uncredited(u))
          /\ session[u].offset + Cardinality(Uncredited(u)) <= Len(staged[u])
      BY <1>i, <3>1 DEF Covered
    <3>3. Cardinality(Uncredited(u)) \in Nat
      BY <3>2, FS_CardinalityType
    <3>4. session[u].offset \in Nat /\ session[u].length \in Nat /\ Len(staged[u]) \in Nat
      BY <1>t, <3>1
    <3>5. \A a, b, c, l \in Nat : a >= b /\ a + c <= l => l >= b
      OBVIOUS
    <3> HIDE DEF u
    <3>6. Len(staged[u]) >= session[u].length
      BY <3>1, <3>2, <3>3, <3>4, <3>5
    <3> QED
      BY <3>6 DEF u
  <2>4. NeverTruncated'
    BY <1>i, <1>t, <2>1, <2>2, <2>3 DEF NeverTruncated
  <2> QED
    BY <1>e, <1>i, <2>1, <2>4 DEF NotYetWritten, ClaimedIsComplete
<1> QED
  BY <1>1, <1>2, <1>3, <1>4, <1>5, <1>6, <1>7 DEF Effect

LEMMA BytesStep == IInv /\ Typing' /\ BytesInv /\ [Next]_vars => BytesInv'
<1> SUFFICES ASSUME IInv, Typing', BytesInv, [Next]_vars PROVE BytesInv'
  OBVIOUS
<1>1. Typing
  BY DEF IInv
<1>2. ASSUME NEW r \in Requests, Effect(r) PROVE BytesInv'
  BY <1>1, <1>2, CoveredStep, CompleteStep DEF BytesInv
<1>3. CASE Outside
  <2>1. NotYetWritten' /\ ClaimedIsComplete' /\ NeverTruncated'
    BY <1>3 DEF BytesInv, Outside, NotYetWritten, ClaimedIsComplete, NeverTruncated
  <2>2. \A u : Uncredited(u)' = Uncredited(u)
    BY <1>3 DEF Outside, Uncredited, Appenders
  <2>3. Covered'
    BY <1>3, <2>2 DEF BytesInv, Outside, Covered
  <2> QED
    BY <2>1, <2>3 DEF BytesInv
<1> QED
  BY <1>1, <1>2, <1>3, EveryEffect

LEMMA BytesInit == Init => BytesInv
<1> SUFFICES ASSUME Init PROVE BytesInv
  OBVIOUS
<1>1. NotYetWritten /\ ClaimedIsComplete /\ NeverTruncated
  BY DEF Init, NotYetWritten, ClaimedIsComplete, NeverTruncated, NoFile
<1>2. \A u : Appenders(u) = {}
  BY DEF Init, Appenders, Copying
<1>3. \A u : Uncredited(u) = {}
  BY <1>2 DEF Uncredited
<1>4. \A u \in Uploads : session[u].offset = 0 /\ Len(staged[u]) = 0
  BY DEF Init
<1>5. IsFiniteSet({}) /\ Cardinality({}) = 0
  BY FS_EmptySet
<1>6. Covered
  <2>1. SUFFICES ASSUME NEW u \in Uploads
                 PROVE  /\ IsFiniteSet(Uncredited(u))
                        /\ session[u].offset + Cardinality(Uncredited(u)) <= Len(staged[u])
    BY DEF Covered
  <2>2. IsFiniteSet(Uncredited(u)) /\ Cardinality(Uncredited(u)) = 0
    BY <1>3, <1>5
  <2> QED
    BY <1>4, <2>2
<1> QED
  BY <1>1, <1>6 DEF BytesInv

LEMMA BytesInvariant == Spec => []BytesInv
<1>1. Init => BytesInv
  BY BytesInit
<1>2. IInv /\ IInv' /\ BytesInv /\ [Next]_vars => BytesInv'
  BY BytesStep DEF IInv
<1> QED
  BY <1>1, <1>2, IInvariant, PTL DEF Spec

\* A live upload never claims a byte its staging file lacks.
THEOREM CreditedIsStaged == Spec => []AckedBytesStaged
<1>1. ASSUME Typing, Covered PROVE AckedBytesStaged
  <2>1. SUFFICES ASSUME NEW u \in Uploads PROVE session[u].offset <= Len(staged[u])
    BY <1>1 DEF AckedBytesStaged, Typing, StateOK
  <2>2. /\ IsFiniteSet(Uncredited(u))
        /\ session[u].offset + Cardinality(Uncredited(u)) <= Len(staged[u])
    BY <1>1 DEF Covered
  <2>3. Cardinality(Uncredited(u)) \in Nat
    BY <2>2, FS_CardinalityType
  <2>4. session[u].offset \in Nat /\ Len(staged[u]) \in Nat
    BY <1>1 DEF Typing, StateOK
  <2>5. \A a, c, l \in Nat : a + c <= l => a <= l
    OBVIOUS
  <2> QED
    BY <2>2, <2>3, <2>4, <2>5
<1>2. IInv /\ BytesInv => AckedBytesStaged
  BY <1>1 DEF IInv, BytesInv
<1> QED
  BY <1>2, IInvariant, BytesInvariant, PTL

\* What the FileWriter stores is at least as long as the client declared.
THEOREM StoredIsWhole == Spec => []NeverTruncated
<1>1. BytesInv => NeverTruncated
  BY DEF BytesInv
<1> QED
  BY <1>1, BytesInvariant, PTL

-----------------------------------------------------------------------------
(* A client with one request in flight per upload.                         *)

OneAtATime ==
  \A r, q \in Requests :
    r /= q /\ req[r].id \in Patient /\ req[r].id = req[q].id =>
      pc[r] = "done" \/ pc[q] = "done"

WithinLength == \A u \in Patient : session[u].offset <= session[u].length

\* The room an append was given is still there when it is used.
RoomIsLeft ==
  \A r \in Requests :
    pc[r] \in Appending /\ req[r].id \in Patient =>
      io[r].room = session[req[r].id].length - session[req[r].id].offset

\* Only a chunk that fits is credited.
CreditFits == \A r \in Requests : pc[r] = "credit" => io[r].n <= io[r].room

SerialInv == OneAtATime /\ WithinLength /\ RoomIsLeft /\ CreditFits

\* The request a goroutine serves stays, or is for an upload nobody serves.
LEMMA OneAtATimeStep ==
  ASSUME IInv, OneAtATime, NEW r \in Requests, Effect(r)
  PROVE  OneAtATime'
<1>e. \A q \in Requests \ {r} : pc'[q] = pc[q] /\ req'[q] = req[q]
  BY DEF Effect, ElseStill
<1>i. pc[r] = "idle" => req[r].id = None
  BY DEF IInv, Claims, IdleIsBlank, NoReq
<1>1. \/ req'[r] = req[r]
      \/ req'[r].id \notin Patient
      \/ \A q \in Requests \ {r} : req[q].id = req'[r].id => pc[q] = "done"
  <2>1. CASE Leaves(r)
    BY <2>1 DEF Leaves, Addressable
  <2>2. ASSUME NEW u \in Uploads, NEW length \in 0 .. MaxLength, Begins(r, u, length)
        PROVE  \A q \in Requests \ {r} : req[q].id /= req'[r].id
    <3>1. Fresh(u) /\ Arrive(r, "POST", u)
      BY <2>2 DEF Begins, Register
    <3>2. req'[r].id = u
      BY <3>1 DEF Arrive, IInv, Typing, RequestsOK, ReqType
    <3> QED
      BY <3>1, <3>2 DEF IInv, Claims, AddressedIsCreated
  <2>3. ASSUME NEW u \in Uploads, PatchAccept(r, u)
        PROVE  \/ req'[r].id \notin Patient
               \/ \A q \in Requests \ {r} : req[q].id = req'[r].id => pc[q] = "done"
    <3>1. Addressable(r, u) /\ Arrive(r, "PATCH", u)
      BY <2>3 DEF PatchAccept
    <3>2. req'[r].id = u
      BY <3>1 DEF Arrive, IInv, Typing, RequestsOK, ReqType
    <3> QED
      BY <3>1, <3>2 DEF Addressable
  <2>4. CASE CopyWrite(r) \/ Credits(r) \/ Takes(r) \/ Stores(r)
    BY <2>4 DEF CopyWrite, Credits, Takes, Stores
  <2> QED
    BY <2>1, <2>2, <2>3, <2>4 DEF Effect
<1>2. SUFFICES ASSUME NEW q \in Requests \ {r}, req'[r].id = req[q].id, req'[r].id \in Patient
               PROVE  pc[q] = "done"
  BY <1>e DEF OneAtATime
<1>3. CASE req'[r] = req[r]
  BY <1>2, <1>3 DEF Effect, OneAtATime
<1> QED
  BY <1>1, <1>2, <1>3

\* Every other append in flight is for another upload.
LEMMA OthersElsewhere ==
  ASSUME Typing, OneAtATime, NEW r \in Requests, pc[r] /= "done", req[r].id \in Patient,
         NEW q \in Requests \ {r}, pc[q] \in Appending
  PROVE  req[q].id \in Uploads /\ req[q].id /= req[r].id
BY DEF OneAtATime, Typing, RequestsOK, AddressesUpload, Appending, Copying

LEMMA SerialStep ==
  ASSUME IInv, SerialInv, NEW r \in Requests, Effect(r)
  PROVE  SerialInv'
<1>t. /\ session \in [Uploads -> [length : Nat, offset : Nat]]
      /\ pc \in [Requests -> Labels] /\ io \in IOType
  BY DEF IInv, Typing, StateOK, RequestsOK
<1>e. /\ \A q \in Requests \ {r} : pc'[q] = pc[q] /\ req'[q] = req[q] /\ io'[q] = io[q]
      /\ pc[r] /= "done"
  BY DEF Effect, ElseStill
<1>i. OneAtATime /\ WithinLength /\ RoomIsLeft /\ CreditFits
  BY DEF SerialInv
<1>id. \A q \in Requests : pc[q] \in Appending => req[q].id \in Uploads
  BY DEF IInv, Typing, RequestsOK, AddressesUpload, Appending, Copying
<1>o. OneAtATime'
  BY <1>i, OneAtATimeStep
<1>k. ASSUME session' = session,
             pc'[r] \in Appending /\ req'[r].id \in Patient =>
               io'[r].room = session[req'[r].id].length - session[req'[r].id].offset,
             pc'[r] = "credit" => io'[r].n <= io'[r].room
      PROVE  SerialInv'
  <2>1. WithinLength' /\ CreditFits'
    BY <1>e, <1>i, <1>k DEF WithinLength, CreditFits
  <2>2. RoomIsLeft'
    BY <1>e, <1>i, <1>k DEF RoomIsLeft
  <2> QED
    BY <1>o, <2>1, <2>2 DEF SerialInv
<1>1. CASE Leaves(r)
  BY <1>1, <1>i, <1>k DEF Leaves, GoesOn, RoomIsLeft, Appending, Copying
<1>2. ASSUME NEW u \in Uploads, NEW length \in 0 .. MaxLength, Begins(r, u, length)
      PROVE  SerialInv'
  <2>1. /\ Fresh(u) /\ Arrive(r, "POST", u)
        /\ session' = [session EXCEPT ![u] = [length |-> length, offset |-> 0]]
        /\ pc'[r] /= "credit"
    BY <1>2 DEF Begins, Register
  <2>2. req'[r].id = u
    BY <2>1 DEF Arrive, IInv, Typing, RequestsOK, ReqType
  <2>3. \A q \in Requests : req[q].id /= u
    BY <2>1 DEF IInv, Claims, AddressedIsCreated
  <2>4. ASSUME pc'[r] = "append" PROVE io'[r].room = length
    <3>1. PICK k \in Chunks(u, length) :
            io'[r] = [base |-> 0, room |-> length, size |-> k, n |-> 0]
      BY <1>2, <2>4 DEF Begins
    <3> QED
      BY <3>1
  <2>5. session'[u].length = length /\ session'[u].offset = 0
    BY <1>t, <2>1
  <2>6. \A v \in Uploads \ {u} : session'[v] = session[v]
    BY <1>t, <2>1
  <2>7. WithinLength'
    BY <1>i, <2>5, <2>6 DEF WithinLength
  <2>8. RoomIsLeft'
    <3>1. SUFFICES ASSUME NEW q \in Requests, pc'[q] \in Appending, req'[q].id \in Patient
                   PROVE  io'[q].room = session'[req'[q].id].length - session'[req'[q].id].offset
      BY DEF RoomIsLeft
    <3>2. CASE q = r
      <4>1. pc'[r] = "append"
        BY <1>2, <3>1, <3>2 DEF Begins, Appending, Copying
      <4> QED
        BY <2>2, <2>4, <2>5, <3>2, <4>1
    <3>3. CASE q /= r
      <4>1. session'[req[q].id] = session[req[q].id]
        BY <1>e, <1>id, <2>3, <2>6, <3>1, <3>3
      <4> QED
        BY <1>e, <1>i, <3>1, <3>3, <4>1 DEF RoomIsLeft
    <3> QED
      BY <3>2, <3>3
  <2>9. CreditFits'
    BY <1>e, <1>i, <2>1 DEF CreditFits
  <2> QED
    BY <1>o, <2>7, <2>8, <2>9 DEF SerialInv
<1>3. ASSUME NEW u \in Uploads, PatchAccept(r, u) PROVE SerialInv'
  <2>1. /\ Arrive(r, "PATCH", u) /\ session' = session
        /\ StartAppend(r, u, session[u].offset, session[u].length - session[u].offset)
    BY <1>3 DEF PatchAccept, table
  <2>2. req'[r].id = u
    BY <2>1 DEF Arrive, IInv, Typing, RequestsOK, ReqType
  <2>3. /\ pc'[r] = "append"
        /\ io'[r].room = session[u].length - session[u].offset
    BY <1>t, <2>1 DEF StartAppend, Goto, IOType
  <2> QED
    BY <1>k, <2>1, <2>2, <2>3
<1>4. CASE CopyWrite(r)
  <2>1. /\ pc[r] = "write" /\ pc'[r] = "copy" /\ session' = session /\ req' = req
        /\ io'[r].room = io[r].room
    BY <1>4, <1>t DEF CopyWrite, At, Goto, table, IOType
  <2> QED
    BY <1>i, <1>k, <2>1 DEF RoomIsLeft, Appending, Copying
<1>5. CASE Credits(r)
  <2> DEFINE u == req[r].id
  <2>1. /\ pc[r] = "credit" /\ pc'[r] \notin Appending /\ req' = req
        /\ session' = [session EXCEPT ![u].offset = @ + io[r].n]
    BY <1>5 DEF Credits, Appending, Copying
  <2>2. u \in Uploads /\ io[r].n \in Nat /\ io[r].room \in Int
    BY <1>id, <1>t, <2>1 DEF Appending, Copying, IOType
  <2>3. /\ session'[u].offset = session[u].offset + io[r].n
        /\ session'[u].length = session[u].length
        /\ \A v \in Uploads \ {u} : session'[v] = session[v]
    BY <1>t, <2>1, <2>2
  <2>4. u \in Patient => io[r].n <= session[u].length - session[u].offset
    BY <1>i, <2>1 DEF RoomIsLeft, CreditFits, Appending, Copying
  <2>5. session[u].offset \in Nat /\ session[u].length \in Nat
    BY <1>t, <2>2
  <2>6. u \in Patient => session'[u].offset <= session'[u].length
    BY <2>2, <2>3, <2>4, <2>5
  <2>7. WithinLength'
    BY <1>i, <2>3, <2>6 DEF WithinLength
  <2>8. RoomIsLeft'
    <3>1. SUFFICES ASSUME NEW q \in Requests \ {r}, pc[q] \in Appending,
                          req[q].id \in Patient
                   PROVE  io[q].room = session'[req[q].id].length - session'[req[q].id].offset
      BY <1>e, <2>1 DEF RoomIsLeft
    <3>2. session'[req[q].id] = session[req[q].id]
      BY <1>e, <1>i, <2>2, <2>3, <3>1, OthersElsewhere DEF IInv
    <3> QED
      BY <1>i, <3>1, <3>2 DEF RoomIsLeft
  <2>9. CreditFits'
    BY <1>e, <1>i, <2>1 DEF CreditFits, Appending, Copying
  <2> QED
    BY <1>o, <2>7, <2>8, <2>9 DEF SerialInv
<1>6. CASE Takes(r) \/ Stores(r)
  BY <1>6, <1>k DEF Takes, Stores, Appending, Copying
<1> QED
  BY <1>1, <1>2, <1>3, <1>4, <1>5, <1>6 DEF Effect

LEMMA SerialInit == Init => SerialInv
<1> SUFFICES ASSUME Init PROVE SerialInv
  OBVIOUS
<1>1. \A r \in Requests : pc[r] = "idle" /\ req[r].id \notin Uploads
  BY NoneAssumption DEF Init, NoReq
<1>2. OneAtATime /\ RoomIsLeft /\ CreditFits
  BY <1>1 DEF OneAtATime, RoomIsLeft, CreditFits, Appending, Copying
<1>3. WithinLength
  BY DEF Init, WithinLength
<1> QED
  BY <1>2, <1>3 DEF SerialInv

LEMMA SerialInvariant == Spec => []SerialInv
<1>1. IInv /\ SerialInv /\ [Next]_vars => SerialInv'
  <2>1. SUFFICES ASSUME IInv, SerialInv, [Next]_vars PROVE SerialInv'
    OBVIOUS
  <2>2. CASE Outside
    BY <2>1, <2>2 DEF Outside, SerialInv, OneAtATime, WithinLength, RoomIsLeft, CreditFits
  <2> QED
    BY <2>1, <2>2, EveryEffect, SerialStep DEF IInv
<1> QED
  BY <1>1, SerialInit, IInvariant, PTL DEF Spec

\* With such a client no offset passes the length, whatever fails: every
\* upload can still be finished.
THEOREM OffsetStaysWithin == Spec => []OffsetWithinLength
<1>1. IInv /\ SerialInv => OffsetWithinLength
  BY DEF IInv, Typing, StateOK, SerialInv, WithinLength, OffsetWithinLength
<1> QED
  BY <1>1, IInvariant, SerialInvariant, PTL

-----------------------------------------------------------------------------
(* Such a client, no body cut or too long, and no failing Sync.            *)

\* The client's data up to its byte n.
Upto(n) == [i \in 1 .. n |-> i]

LEMMA UptoIsSeq ==
  ASSUME NEW n \in Nat
  PROVE  Upto(n) \in Seq(Nat) /\ Len(Upto(n)) = n /\ Append(Upto(n), n + 1) = Upto(n + 1)
BY DEF Upto

Careful == Patient \cap Steady

SizeFits ==
  \A r \in Requests :
    pc[r] \in Appending /\ req[r].id \in Careful => io[r].size <= io[r].room

\* An append works at the end of the file, which is the offset it was given.
PrefixWritten ==
  \A r \in Requests :
    pc[r] \in Appending /\ req[r].id \in Careful =>
      /\ io[r].base = session[req[r].id].offset
      /\ staged[req[r].id] = Upto(io[r].base + io[r].n)

NobodyAppends(u) == \A r \in Requests : pc[r] \in Appending => req[r].id /= u

\* Between appends the file of a live upload ends where its offset says.
PrefixStaged ==
  \A u \in live \cap Careful : NobodyAppends(u) => staged[u] = Upto(session[u].offset)

WholeClaimed ==
  \A r \in Requests :
    pc[r] \in {"open", "save"} /\ req[r].id \in Careful =>
      staged[req[r].id] = Upto(session[req[r].id].length)

FreshIsEmpty == \A u \in Uploads : Fresh(u) => staged[u] = <<>>

FaithfulInv ==
  /\ SizeFits /\ PrefixWritten /\ PrefixStaged /\ WholeClaimed /\ FreshIsEmpty
  /\ SteadyContentFaithful

\* A goroutine that is idle serves nothing, so only a POST ends a freshness.
LEMMA StillFresh ==
  ASSUME IInv, NEW r \in Requests, ElseStill(r), req'[r] = req[r] \/ pc[r] = "idle",
         NEW u \in Uploads, Fresh(u)'
  PROVE  Fresh(u)
BY DEF ElseStill, IInv, Claims, IdleIsBlank, NoReq, Fresh

LEMMA FaithfulLeaves ==
  ASSUME IInv, FaithfulInv,
         NEW r \in Requests, ElseStill(r), Leaves(r)
  PROVE  FaithfulInv'
<1>t. /\ live \subseteq Uploads /\ pc \in [Requests -> Labels] /\ io \in IOType
      /\ \A q \in Requests : io[q].n <= io[q].size
  BY DEF IInv, Typing, StateOK, RequestsOK
<1>e. \A q \in Requests \ {r} : pc'[q] = pc[q] /\ req'[q] = req[q] /\ io'[q] = io[q]
  BY DEF ElseStill
<1>i. /\ SizeFits /\ PrefixWritten /\ PrefixStaged /\ WholeClaimed /\ FreshIsEmpty
      /\ SteadyContentFaithful
  BY DEF FaithfulInv
<1>s. session' = session /\ staged' = staged /\ stored' = stored /\ live' \subseteq live
  BY DEF Leaves
<1>1. SizeFits' /\ PrefixWritten'
  BY <1>e, <1>i, <1>s DEF Leaves, GoesOn, SizeFits, PrefixWritten
<1>2. PrefixStaged'
  <2>1. SUFFICES ASSUME NEW u \in live' \cap Careful, NobodyAppends(u)'
                 PROVE  NobodyAppends(u)
    BY <1>i, <1>s DEF PrefixStaged
  <2>2. SUFFICES ASSUME pc[r] \in Appending, req[r].id = u PROVE FALSE
    BY <1>e, <2>1 DEF NobodyAppends
  <2>3. pc[r] /= "idle"
    BY <2>2 DEF Appending, Copying
  <2>4. req'[r] = req[r] /\ pc'[r] \notin Appending
    BY <2>1, <2>2, <2>3 DEF Leaves, NobodyAppends
  <2>5. io[r].n > io[r].room
    BY <2>1, <2>2, <2>4 DEF Leaves, GivesUp, Careful
  <2>6. io[r].n \in Nat /\ io[r].size \in Nat /\ io[r].room \in Int
    BY <1>t DEF IOType
  <2>7. io[r].n <= io[r].size /\ io[r].size <= io[r].room
    BY <1>i, <1>t, <2>2 DEF SizeFits
  <2> QED
    BY <2>5, <2>6, <2>7
<1>3. WholeClaimed'
  BY <1>e, <1>i, <1>s DEF Leaves, WholeClaimed
<1>4. FreshIsEmpty'
  <2>1. req'[r] = req[r] \/ pc[r] = "idle"
    BY DEF Leaves
  <2> QED
    BY <1>i, <1>s, <2>1, StillFresh DEF FreshIsEmpty
<1>5. SteadyContentFaithful'
  BY <1>i, <1>s DEF SteadyContentFaithful, Faithful
<1> QED
  BY <1>1, <1>2, <1>3, <1>4, <1>5 DEF FaithfulInv

LEMMA FaithfulBegins ==
  ASSUME IInv, FaithfulInv,
         NEW r \in Requests, ElseStill(r),
         NEW u \in Uploads, NEW length \in 0 .. MaxLength, Begins(r, u, length)
  PROVE  FaithfulInv'
<1>t. /\ live \subseteq Uploads /\ pc \in [Requests -> Labels] /\ io \in IOType
      /\ session \in [Uploads -> [length : Nat, offset : Nat]]
      /\ stored \in [FileIds -> [from : Uploads \cup {None}, content : Seq(Nat)]]
      /\ \A q \in Requests : pc[q] \notin {"idle", "done"} => req[q].id \in Uploads
  BY DEF IInv, Typing, StateOK, RequestsOK, AddressesUpload
<1>e. \A q \in Requests \ {r} : pc'[q] = pc[q] /\ req'[q] = req[q] /\ io'[q] = io[q]
  BY DEF ElseStill
<1>i. /\ SizeFits /\ PrefixWritten /\ PrefixStaged /\ WholeClaimed /\ FreshIsEmpty
      /\ SteadyContentFaithful
  BY DEF FaithfulInv
<1>1. /\ pc[r] = "idle" /\ Fresh(u) /\ Arrive(r, "POST", u) /\ live' = live \cup {u}
      /\ session' = [session EXCEPT ![u] = [length |-> length, offset |-> 0]]
      /\ staged' = staged /\ stored' = stored
      /\ pc'[r] \in {"append", "abort", "finish", "done"}
  BY DEF Begins, Register, At
<1>2. req'[r] = [op |-> "POST", id |-> u]
  BY <1>1 DEF Arrive, IInv, Typing, RequestsOK, ReqType
<1>3. /\ \A q \in Requests : req[q].id /= u
      /\ \A f \in FileIds : stored[f].from /= u
  BY <1>1 DEF IInv, Claims, AddressedIsCreated, FreshIsUntouched, Unsaved
<1>4. /\ session'[u].length = length /\ session'[u].offset = 0
      /\ \A v \in Uploads \ {u} : session'[v] = session[v]
      /\ staged'[u] = Upto(0)
  <2>1. staged[u] = <<>>
    BY <1>1, <1>i DEF FreshIsEmpty
  <2>2. Upto(0) = <<>>
    BY DEF Upto
  <2> QED
    BY <1>t, <1>1, <2>1, <2>2
<1>5. ASSUME pc'[r] = "append"
      PROVE  io'[r].base = 0 /\ io'[r].n = 0 /\ (u \in Careful => io'[r].size <= io'[r].room)
  <2>1. PICK k \in Chunks(u, length) :
          io'[r] = [base |-> 0, room |-> length, size |-> k, n |-> 0]
    BY <1>5 DEF Begins
  <2>2. u \in Careful => k <= length
    BY DEF Chunks, MayFail, Careful
  <2> QED
    BY <2>1, <2>2
<1>6. SizeFits' /\ PrefixWritten'
  <2>1. SUFFICES ASSUME NEW q \in Requests, pc'[q] \in Appending, req'[q].id \in Careful
                 PROVE  /\ io'[q].size <= io'[q].room
                        /\ io'[q].base = session'[req'[q].id].offset
                        /\ staged'[req'[q].id] = Upto(io'[q].base + io'[q].n)
    BY DEF SizeFits, PrefixWritten
  <2>2. CASE q = r
    <3>1. pc'[r] = "append"
      BY <1>1, <2>1, <2>2 DEF Appending, Copying
    <3>2. io'[r].base + io'[r].n = 0
      BY <1>5, <3>1
    <3> QED
      BY <1>2, <1>4, <1>5, <2>1, <2>2, <3>1, <3>2
  <2>3. CASE q /= r
    <3>1. pc[q] \in Appending /\ req'[q] = req[q] /\ io'[q] = io[q] /\ req[q].id \in Uploads \ {u}
      BY <1>e, <1>t, <1>3, <2>1, <2>3 DEF Appending, Copying
    <3> QED
      BY <1>i, <1>1, <1>4, <2>1, <3>1 DEF SizeFits, PrefixWritten
  <2> QED
    BY <2>2, <2>3
<1>7. PrefixStaged'
  <2>1. SUFFICES ASSUME NEW v \in live' \cap Careful, NobodyAppends(v)', v /= u
                 PROVE  staged'[v] = Upto(session'[v].offset)
    BY <1>4 DEF PrefixStaged
  <2>2. v \in live /\ NobodyAppends(v)
    BY <1>e, <1>1, <2>1 DEF NobodyAppends, Appending, Copying
  <2> QED
    BY <1>i, <1>t, <1>1, <1>4, <2>1, <2>2 DEF PrefixStaged
<1>8. WholeClaimed'
  <2>1. SUFFICES ASSUME NEW q \in Requests \ {r}, pc[q] \in {"open", "save"},
                        req[q].id \in Careful
                 PROVE  staged'[req[q].id] = Upto(session'[req[q].id].length)
    BY <1>e, <1>1 DEF WholeClaimed
  <2>2. req[q].id \in Uploads \ {u}
    BY <1>t, <1>3, <2>1
  <2> QED
    BY <1>i, <1>1, <1>4, <2>1, <2>2 DEF WholeClaimed
<1>9. FreshIsEmpty'
  BY <1>i, <1>1, StillFresh DEF FreshIsEmpty
<1>10. SteadyContentFaithful'
  <2>1. SUFFICES ASSUME NEW f \in FileIds, stored[f].from \in Patient \cap Steady
                 PROVE  stored[f].content = [i \in 1 .. session'[stored[f].from].length |-> i]
    BY <1>1 DEF SteadyContentFaithful, Faithful
  <2>2. session'[stored[f].from] = session[stored[f].from]
    BY <1>t, <1>3, <1>4, <2>1
  <2> QED
    BY <1>i, <2>1, <2>2 DEF SteadyContentFaithful, Faithful
<1> QED
  BY <1>6, <1>7, <1>8, <1>9, <1>10 DEF FaithfulInv

LEMMA FaithfulAccepts ==
  ASSUME IInv, SerialInv,
         FaithfulInv, NEW r \in Requests, ElseStill(r), NEW u \in Uploads, PatchAccept(r, u)
  PROVE  FaithfulInv'
<1>t. /\ live \subseteq Uploads /\ pc \in [Requests -> Labels] /\ io \in IOType
      /\ session \in [Uploads -> [length : Nat, offset : Nat]]
  BY DEF IInv, Typing, StateOK, RequestsOK
<1>e. \A q \in Requests \ {r} : pc'[q] = pc[q] /\ req'[q] = req[q] /\ io'[q] = io[q]
  BY DEF ElseStill
<1>i. /\ SizeFits /\ PrefixWritten /\ PrefixStaged /\ WholeClaimed /\ FreshIsEmpty
      /\ SteadyContentFaithful
  BY DEF FaithfulInv
<1> DEFINE room == session[u].length - session[u].offset
<1>1. /\ pc[r] = "idle" /\ u \in live /\ Addressable(r, u) /\ Arrive(r, "PATCH", u)
      /\ StartAppend(r, u, session[u].offset, room)
      /\ live' = live /\ session' = session /\ staged' = staged /\ stored' = stored
  BY DEF PatchAccept, Addressable, At, table, disk
<1>2. req'[r].id = u /\ pc'[r] = "append"
  BY <1>1, <1>t DEF Arrive, StartAppend, Goto, IInv, Typing, RequestsOK, ReqType
<1>3. /\ io'[r].base = session[u].offset /\ io'[r].n = 0
      /\ u \in Careful => io'[r].size <= io'[r].room
  <2>1. PICK k \in Chunks(u, room) :
          io' = [io EXCEPT ![r] = [base |-> session[u].offset, room |-> room, size |-> k, n |-> 0]]
    BY <1>1 DEF StartAppend
  <2>2. /\ session[u].offset \in Nat /\ session[u].length \in Nat
        /\ u \in Careful => session[u].offset <= session[u].length
    BY <1>t, <1>1 DEF SerialInv, WithinLength, Careful
  <2>3. u \in Careful => ~(room < 0)
    BY <2>2
  <2>4. u \in Careful => k <= room
    BY <2>3 DEF Chunks, MayFail, Careful
  <2> HIDE DEF room
  <2> QED
    BY <1>t, <2>1, <2>4 DEF IOType
<1>4. u \in Careful => staged[u] = Upto(session[u].offset)
  <2>1. u \in Careful => NobodyAppends(u)
    BY <1>1 DEF Addressable, NobodyAppends, Appending, Copying, Careful
  <2> QED
    BY <1>1, <1>i, <2>1 DEF PrefixStaged
<1>5. SizeFits' /\ PrefixWritten'
  <2>1. session[u].offset + 0 = session[u].offset
    BY <1>t
  <2>2. SizeFits'
    BY <1>e, <1>i, <1>1, <1>2, <1>3 DEF SizeFits
  <2>3. PrefixWritten'
    BY <1>e, <1>i, <1>1, <1>2, <1>3, <1>4, <2>1 DEF PrefixWritten
  <2> QED
    BY <2>2, <2>3
<1>6. PrefixStaged'
  BY <1>e, <1>i, <1>1, <1>2 DEF PrefixStaged, NobodyAppends, Appending, Copying
<1>7. WholeClaimed' /\ SteadyContentFaithful'
  BY <1>e, <1>i, <1>1, <1>2 DEF WholeClaimed, SteadyContentFaithful, Faithful
<1>8. FreshIsEmpty'
  BY <1>i, <1>1, StillFresh DEF FreshIsEmpty
<1> QED
  BY <1>5, <1>6, <1>7, <1>8 DEF FaithfulInv

LEMMA FaithfulWrites ==
  ASSUME IInv, SerialInv, FaithfulInv,
         NEW r \in Requests, ElseStill(r), CopyWrite(r)
  PROVE  FaithfulInv'
<1> DEFINE u == req[r].id
           n == io[r].n
           end == io[r].base + n
<1>t. /\ live \subseteq Uploads /\ pc \in [Requests -> Labels] /\ io \in IOType
      /\ staged \in [Uploads -> Seq(Nat)]
      /\ \A q \in Requests : pc[q] \notin {"idle", "done"} => req[q].id \in Uploads
  BY DEF IInv, Typing, StateOK, RequestsOK, AddressesUpload
<1>e. \A q \in Requests \ {r} : pc'[q] = pc[q] /\ req'[q] = req[q] /\ io'[q] = io[q]
  BY DEF ElseStill
<1>i. /\ SizeFits /\ PrefixWritten /\ PrefixStaged /\ WholeClaimed /\ FreshIsEmpty
      /\ SteadyContentFaithful /\ OneAtATime
  BY DEF FaithfulInv, SerialInv
<1>1. /\ pc[r] = "write" /\ pc'[r] = "copy" /\ req' = req
      /\ live' = live /\ session' = session /\ stored' = stored
      /\ staged' = [staged EXCEPT ![u] = Append(@, end + 1)]
      /\ io'[r].n = n + 1 /\ io'[r].base = io[r].base
      /\ io'[r].size = io[r].size /\ io'[r].room = io[r].room
  BY <1>t DEF CopyWrite, At, Goto, table, IOType
<1>2. u \in Uploads /\ end \in Nat /\ io'[r].base + io'[r].n = end + 1
  <2>1. io[r].base \in Nat /\ io[r].n \in Nat
    BY <1>t DEF IOType
  <2>2. u \in Uploads
    BY <1>1, <1>t
  <2> QED
    BY <1>1, <2>1, <2>2
<1>3. u \in Careful => staged'[u] = Upto(end + 1)
  <2>1. u \in Careful => staged[u] = Upto(end)
    BY <1>1, <1>i DEF PrefixWritten, Appending, Copying
  <2>2. staged'[u] = Append(staged[u], end + 1)
    BY <1>1, <1>2, <1>t
  <2> HIDE DEF end
  <2> QED
    BY <1>2, <2>1, <2>2, UptoIsSeq
<1>4. \A v \in Uploads \ {u} : staged'[v] = staged[v]
  BY <1>1, <1>t
<1> HIDE DEF end
<1>5. SizeFits'
  BY <1>e, <1>i, <1>1 DEF SizeFits, Appending, Copying
<1>6. PrefixWritten'
  <2>1. SUFFICES ASSUME NEW q \in Requests, pc'[q] \in Appending, req[q].id \in Careful
                 PROVE  /\ io'[q].base = session[req[q].id].offset
                        /\ staged'[req[q].id] = Upto(io'[q].base + io'[q].n)
    BY <1>1 DEF PrefixWritten
  <2>2. CASE q = r
    BY <1>i, <1>1, <1>2, <1>3, <2>1, <2>2 DEF PrefixWritten, Appending, Copying
  <2>3. CASE q /= r
    <3>1. pc[q] \in Appending /\ io'[q] = io[q]
      BY <1>e, <2>1, <2>3
    <3>2. req[q].id \in Uploads \ {u}
      BY <1>i, <1>t, <1>1, <1>2, <2>1, <2>3, <3>1, OthersElsewhere DEF IInv, Careful
    <3> QED
      BY <1>i, <1>4, <2>1, <3>1, <3>2 DEF PrefixWritten
  <2> QED
    BY <2>2, <2>3
<1>7. PrefixStaged'
  <2>1. SUFFICES ASSUME NEW v \in live \cap Careful, NobodyAppends(v)'
                 PROVE  staged'[v] = Upto(session[v].offset)
    BY <1>1 DEF PrefixStaged
  <2>2. v /= u /\ NobodyAppends(v)
    BY <1>e, <1>1, <2>1 DEF NobodyAppends, Appending, Copying
  <2> QED
    BY <1>i, <1>t, <1>4, <2>1, <2>2 DEF PrefixStaged
<1>8. WholeClaimed'
  <2>1. SUFFICES ASSUME NEW q \in Requests \ {r}, pc[q] \in {"open", "save"},
                        req[q].id \in Careful
                 PROVE  staged'[req[q].id] = Upto(session[req[q].id].length)
    BY <1>e, <1>1 DEF WholeClaimed
  <2>2. req[q].id \in Uploads \ {u}
    BY <1>i, <1>t, <1>1, <1>2, <2>1 DEF OneAtATime, Careful
  <2> QED
    BY <1>i, <1>4, <2>1, <2>2 DEF WholeClaimed
<1>9. FreshIsEmpty'
  <2>1. SUFFICES ASSUME NEW v \in Uploads, Fresh(v) PROVE staged'[v] = <<>>
    BY <1>1, StillFresh DEF FreshIsEmpty
  <2>2. v /= u
    BY <1>2, <2>1 DEF IInv, Claims, AddressedIsCreated
  <2> QED
    BY <1>i, <1>4, <2>1, <2>2 DEF FreshIsEmpty
<1>10. SteadyContentFaithful'
  BY <1>i, <1>1 DEF SteadyContentFaithful, Faithful
<1> QED
  BY <1>5, <1>6, <1>7, <1>8, <1>9, <1>10 DEF FaithfulInv

LEMMA FaithfulCredits ==
  ASSUME IInv, SerialInv, FaithfulInv,
         NEW r \in Requests, ElseStill(r), Credits(r)
  PROVE  FaithfulInv'
<1> DEFINE u == req[r].id
<1>t. /\ live \subseteq Uploads /\ pc \in [Requests -> Labels] /\ io \in IOType
      /\ session \in [Uploads -> [length : Nat, offset : Nat]]
      /\ stored \in [FileIds -> [from : Uploads \cup {None}, content : Seq(Nat)]]
      /\ \A q \in Requests : pc[q] \notin {"idle", "done"} => req[q].id \in Uploads
  BY DEF IInv, Typing, StateOK, RequestsOK, AddressesUpload
<1>e. \A q \in Requests \ {r} : pc'[q] = pc[q] /\ req'[q] = req[q] /\ io'[q] = io[q]
  BY DEF ElseStill
<1>i. /\ SizeFits /\ PrefixWritten /\ PrefixStaged /\ WholeClaimed /\ FreshIsEmpty
      /\ SteadyContentFaithful /\ OneAtATime
  BY DEF FaithfulInv, SerialInv
<1>1. /\ pc[r] = "credit" /\ pc'[r] \notin Appending \cup {"open", "save"} /\ req' = req
      /\ live' = live /\ staged' = staged /\ stored' = stored
      /\ session' = [session EXCEPT ![u].offset = @ + io[r].n]
  BY DEF Credits, Appending, Copying
<1>2. u \in Uploads /\ io[r].n \in Nat
  BY <1>1, <1>t DEF IOType
<1>3. /\ session'[u].offset = session[u].offset + io[r].n
      /\ \A v \in Uploads \ {u} : session'[v] = session[v]
      /\ \A v \in Uploads : session'[v].length = session[v].length
  BY <1>1, <1>2, <1>t
<1>4. u \in Careful => staged[u] = Upto(session'[u].offset)
  BY <1>i, <1>1, <1>3 DEF PrefixWritten, Appending, Copying
<1>5. SizeFits'
  BY <1>e, <1>i, <1>1 DEF SizeFits
<1>6. PrefixWritten'
  <2>1. SUFFICES ASSUME NEW q \in Requests \ {r}, pc[q] \in Appending,
                        req[q].id \in Careful
                 PROVE  /\ io[q].base = session'[req[q].id].offset
                        /\ staged[req[q].id] = Upto(io[q].base + io[q].n)
    BY <1>e, <1>1 DEF PrefixWritten
  <2>2. req[q].id \in Uploads \ {u}
    BY <1>i, <1>t, <1>1, <1>2, <2>1, OthersElsewhere DEF IInv, Careful
  <2> QED
    BY <1>i, <1>3, <2>1, <2>2 DEF PrefixWritten
<1>7. PrefixStaged'
  <2>1. SUFFICES ASSUME NEW v \in live \cap Careful, NobodyAppends(v)', v /= u
                 PROVE  staged[v] = Upto(session'[v].offset)
    BY <1>1, <1>4 DEF PrefixStaged
  <2>2. NobodyAppends(v)
    BY <1>e, <2>1 DEF NobodyAppends
  <2> QED
    BY <1>i, <1>t, <1>3, <2>1, <2>2 DEF PrefixStaged
<1>8. WholeClaimed'
  BY <1>e, <1>i, <1>t, <1>1, <1>3 DEF WholeClaimed
<1>9. FreshIsEmpty'
  BY <1>i, <1>1, StillFresh DEF FreshIsEmpty
<1>10. SteadyContentFaithful'
  <2>1. SUFFICES ASSUME NEW f \in FileIds, stored[f].from \in Patient \cap Steady
                 PROVE  stored[f].content = [i \in 1 .. session'[stored[f].from].length |-> i]
    BY <1>1 DEF SteadyContentFaithful, Faithful
  <2>2. session'[stored[f].from].length = session[stored[f].from].length
    BY <1>t, <1>3, <2>1
  <2> QED
    BY <1>i, <2>1, <2>2 DEF SteadyContentFaithful, Faithful
<1> QED
  BY <1>5, <1>6, <1>7, <1>8, <1>9, <1>10 DEF FaithfulInv

\* finish claims a complete upload, or stores the one it claimed.
LEMMA FaithfulFinishes ==
  ASSUME IInv, SerialInv, FaithfulInv,
         NEW r \in Requests, ElseStill(r), Takes(r) \/ Stores(r)
  PROVE  FaithfulInv'
<1> DEFINE u == req[r].id
<1>t. /\ pc \in [Requests -> Labels]
      /\ stored \in [FileIds -> [from : Uploads \cup {None}, content : Seq(Nat)]]
      /\ \A q \in Requests : pc[q] \notin {"idle", "done"} => req[q].id \in Uploads
  BY DEF IInv, Typing, StateOK, RequestsOK, AddressesUpload
<1>e. \A q \in Requests \ {r} : pc'[q] = pc[q] /\ req'[q] = req[q] /\ io'[q] = io[q]
  BY DEF ElseStill
<1>i. /\ SizeFits /\ PrefixWritten /\ PrefixStaged /\ WholeClaimed /\ FreshIsEmpty
      /\ SteadyContentFaithful /\ OneAtATime
  BY DEF FaithfulInv, SerialInv
<1>1. /\ pc[r] \in {"finish", "save"} /\ pc'[r] \in {"open", "publish"} /\ req' = req
      /\ live' \subseteq live /\ session' = session /\ staged' = staged
  BY DEF Takes, Stores
<1>2. SizeFits' /\ PrefixWritten'
  BY <1>e, <1>i, <1>1 DEF SizeFits, PrefixWritten, Appending, Copying
<1>3. PrefixStaged'
  BY <1>e, <1>i, <1>1 DEF PrefixStaged, NobodyAppends, Appending, Copying
<1>4. FreshIsEmpty'
  BY <1>i, <1>1, StillFresh DEF FreshIsEmpty
<1>5. WholeClaimed' /\ SteadyContentFaithful'
  <2>1. CASE Takes(r)
    <3>1. /\ u \in live /\ session[u].offset = session[u].length /\ pc[r] = "finish"
          /\ stored' = stored
      BY <2>1 DEF Takes
    <3>2. u \in Careful => NobodyAppends(u)
      BY <1>i, <1>t, <3>1, OthersElsewhere DEF IInv, NobodyAppends, Appending, Copying, Careful
    <3>3. u \in Careful => staged[u] = Upto(session[u].length)
      BY <1>i, <3>1, <3>2 DEF PrefixStaged
    <3>4. WholeClaimed'
      BY <1>e, <1>i, <1>1, <3>3 DEF WholeClaimed
    <3>5. SteadyContentFaithful'
      BY <1>i, <1>1, <3>1 DEF SteadyContentFaithful, Faithful
    <3> QED
      BY <3>4, <3>5
  <2>2. CASE Stores(r)
    <3>1. pc[r] = "save" /\ pc'[r] = "publish"
      BY <2>2 DEF Stores
    <3>2. PICK f \in FileIds : stored' = [stored EXCEPT ![f] = [from |-> u, content |-> staged[u]]]
      BY <2>2 DEF Stores
    <3>3. u \in Patient \cap Steady => staged[u] = [i \in 1 .. session[u].length |-> i]
      BY <1>i, <3>1 DEF WholeClaimed, Upto, Careful
    <3>4. WholeClaimed'
      BY <1>e, <1>i, <1>1, <3>1 DEF WholeClaimed
    <3>5. SteadyContentFaithful'
      <4>1. SUFFICES ASSUME NEW g \in FileIds, stored'[g].from \in Patient \cap Steady
                     PROVE  stored'[g].content = [i \in 1 .. session[stored'[g].from].length |-> i]
        BY <1>1 DEF SteadyContentFaithful, Faithful
      <4>2. CASE g = f
        <5>1. stored'[g].from = u /\ stored'[g].content = staged[u]
          BY <1>t, <3>2, <4>2
        <5> QED
          BY <3>3, <4>1, <5>1
      <4>3. CASE g /= f
        <5>1. stored'[g] = stored[g]
          BY <1>t, <3>2, <4>3
        <5> QED
          BY <1>i, <4>1, <5>1 DEF SteadyContentFaithful, Faithful
      <4> QED
        BY <4>2, <4>3
    <3> QED
      BY <3>4, <3>5
  <2> QED
    BY <2>1, <2>2
<1> QED
  BY <1>2, <1>3, <1>4, <1>5 DEF FaithfulInv

LEMMA FaithfulInit == Init => FaithfulInv
<1> SUFFICES ASSUME Init PROVE FaithfulInv
  OBVIOUS
<1>1. SizeFits /\ PrefixWritten /\ PrefixStaged /\ WholeClaimed
  BY DEF Init, SizeFits, PrefixWritten, PrefixStaged, WholeClaimed, Appending, Copying
<1>2. FreshIsEmpty /\ SteadyContentFaithful
  BY DEF Init, FreshIsEmpty, SteadyContentFaithful, Faithful, NoFile
<1> QED
  BY <1>1, <1>2 DEF FaithfulInv

\* The stored file is the client's data, each byte once and in order, given a
\* client with one request in flight per upload and that no body is cut short
\* or too long and no Sync fails: whatever else fails, is aborted or is closed.
THEOREM StoredIsFaithful == Spec => []SteadyContentFaithful
<1>1. IInv /\ SerialInv /\ FaithfulInv /\ [Next]_vars => FaithfulInv'
  <2>1. SUFFICES ASSUME IInv, SerialInv, FaithfulInv, [Next]_vars PROVE FaithfulInv'
    OBVIOUS
  <2>2. CASE Outside
    <3>1. SizeFits' /\ PrefixWritten' /\ PrefixStaged'
      BY <2>1, <2>2 DEF Outside, FaithfulInv, SizeFits, PrefixWritten, PrefixStaged, NobodyAppends
    <3>2. WholeClaimed' /\ FreshIsEmpty' /\ SteadyContentFaithful'
      BY <2>1, <2>2 DEF Outside, FaithfulInv, WholeClaimed, FreshIsEmpty, Fresh, SteadyContentFaithful, Faithful
    <3> QED
      BY <3>1, <3>2 DEF FaithfulInv
  <2>3. ASSUME NEW r \in Requests, Effect(r) PROVE FaithfulInv'
    BY <2>1, <2>3, FaithfulLeaves, FaithfulBegins, FaithfulAccepts, FaithfulWrites,
       FaithfulCredits, FaithfulFinishes DEF Effect
  <2> QED
    BY <2>1, <2>2, <2>3, EveryEffect DEF IInv
<1>2. FaithfulInv => SteadyContentFaithful
  BY DEF FaithfulInv
<1> QED
  BY <1>1, <1>2, FaithfulInit, IInvariant, SerialInvariant, PTL DEF Spec

=============================================================================
