------------------------------ MODULE TusHandler ------------------------------
(***************************************************************************)
(* The TUS upload handler, upload/tus/tus.go.                              *)
(*                                                                         *)
(* Each element of Requests is the goroutine of one HTTP request.  What it *)
(* does under Handler.mu is one action; between two critical sections it   *)
(* has a pc, and every other goroutine may run.  `live' is the key set of  *)
(* h.uploads; the session struct itself outlives its map entry, because a  *)
(* goroutine keeps the pointer append got.  Every place that closes the    *)
(* staging file deletes the entry in the same critical section, so the     *)
(* file is open for writing exactly when its upload is live.               *)
(*                                                                         *)
(* A byte is named by its 1-based position in the client's own data, so a  *)
(* file holding <<1, 1, 2>> got its first byte twice.  A chunk of several  *)
(* bytes is written byte by byte: io.Copy writes block by block and blocks *)
(* of two requests may interleave.                                         *)
(***************************************************************************)
EXTENDS Integers, Sequences, FiniteSets

CONSTANTS
  Requests,      \* request goroutines, one request each
  Uploads,       \* the ids newUploadID may return
  FileIds,       \* the ids the FileWriter may return from Save
  MaxLength,     \* bound: the largest Upload-Length a client declares
  Faults,        \* what may go wrong, see FaultKinds
  Patient,       \* uploads whose client has one request in flight at a time
  Steady,        \* uploads whose bodies come as declared and whose file syncs
  Ownership,     \* may the staging directory be ensureDir's own, or the caller's
  None           \* no upload, no file

\* "cut": a body read or a staging write fails;  "overlong": the client sends
\* more than it declared;  "sync", "open", "save": that call reports an error.
\* The first three spare the uploads in Steady.
FaultKinds == {"cut", "overlong", "sync", "open", "save"}

ASSUME MaxLengthAssumption == MaxLength \in Nat
ASSUME FaultsAssumption == Faults \subseteq FaultKinds
ASSUME ClientsAssumption == Patient \subseteq Uploads /\ Steady \subseteq Uploads
ASSUME OwnershipAssumption == Ownership \subseteq BOOLEAN /\ Ownership /= {}
ASSUME NoneAssumption == None \notin Uploads /\ None \notin FileIds

VARIABLES
  up,         \* FALSE once the Go runtime has killed the process
  live,       \* the keys of h.uploads
  session,    \* the session struct of each upload id
  completed,  \* h.completed, None where it has no entry
  staged,     \* the bytes of each staging file
  onDisk,     \* whether the staging path names that file
  stored,     \* the files the FileWriter holds
  pc,         \* where each request goroutine is
  req,        \* its method and the upload it addresses
  io,         \* its append: client offset, room, size of the chunk, bytes written
  ans         \* its response, final once pc is "done"

table == <<live, session, completed>>
disk  == <<staged, onDisk, stored>>
vars  == <<up, table, disk, pc, req, io, ans>>

Methods == {"POST", "PATCH", "HEAD", "DELETE", "OTHER"}

Labels == {"idle", "append", "copy", "write", "credit", "abort", "result",
           "finish", "open", "save", "publish", "cleanup", "missing", "done"}

NoReq    == [op |-> "OTHER", id |-> None]
NoIO     == [base |-> 0, room |-> 0, size |-> 0, n |-> 0]
NoAnswer == [code |-> 0, file |-> None]
NoFile   == [from |-> None, content |-> <<>>]

Init ==
  /\ up = TRUE
  /\ live = {}
  /\ session = [u \in Uploads |-> [length |-> 0, offset |-> 0]]
  /\ completed = [u \in Uploads |-> None]
  /\ staged = [u \in Uploads |-> <<>>]
  /\ onDisk = [u \in Uploads |-> FALSE]
  /\ stored = [f \in FileIds |-> NoFile]
  /\ pc = [r \in Requests |-> "idle"]
  /\ req = [r \in Requests |-> NoReq]
  /\ io = [r \in Requests |-> NoIO]
  /\ ans = [r \in Requests |-> NoAnswer]

-----------------------------------------------------------------------------
(* Moving one goroutine.                                                   *)

At(r, label) == up /\ pc[r] = label

Goto(r, label) == pc' = [pc EXCEPT ![r] = label]

Arrive(r, op, u) == req' = [req EXCEPT ![r] = [op |-> op, id |-> u]]

Prepare(r, code, file) == ans' = [ans EXCEPT ![r] = [code |-> code, file |-> file]]

\* append has returned.
EndIO(r) == io' = [io EXCEPT ![r] = NoIO]

\* The response is written and the handler returns.
Answer(r, code, file) ==
  /\ Goto(r, "done")
  /\ Prepare(r, code, file)
  /\ EndIO(r)

\* What may go wrong with a body or with the staging file of u.
MayFail(u, fault) == fault \in Faults /\ u \notin Steady

\* What a chunk of u may hold: at most room bytes, one more when it is overlong.
\* io.LimitReader stops at room+1, and at once when room is negative.
Chunks(u, room) ==
  {k \in 0 .. (IF room < 0 THEN 0 ELSE room + 1) :
     k <= room \/ room < 0 \/ MayFail(u, "overlong")}

StartAppend(r, u, base, room) ==
  /\ Goto(r, "append")
  /\ \E k \in Chunks(u, room) :
       io' = [io EXCEPT ![r] = [base |-> base, room |-> room, size |-> k, n |-> 0]]

\* newUploadID draws 16 random bytes: an id is never drawn twice.
Fresh(u) == \A r \in Requests : req[r].op = "POST" => req[r].id /= u

\* A client knows an id from the Location header, which create sets before
\* it calls finish: a 500 from finish carries it too.
Located(u) ==
  \E r \in Requests :
    /\ req[r] = [op |-> "POST", id |-> u]
    /\ pc[r] = "done" /\ ans[r].code \in {201, 500}

\* A request for u may arrive now.
Addressable(r, u) ==
  /\ At(r, "idle")
  /\ Located(u)
  /\ u \in Patient => \A q \in Requests : req[q].id = u => pc[q] = "done"

\* Answer to a request whose append failed: create drops the upload first.
AppendFailed(r, code) ==
  IF req[r].op = "POST"
    THEN Goto(r, "abort") /\ Prepare(r, 400, None) /\ EndIO(r)
    ELSE Answer(r, code, None)

DoneCode(r) == IF req[r].op = "POST" THEN 201 ELSE 204

-----------------------------------------------------------------------------
(* Slips: a handler as a plausible mistake would leave it.  No behaviour of  *)
(* Spec takes one; the properties below must tell each from the original.    *)

\* io.Copy without the LimitReader.
SlipCopyReadUnlimited(r) ==
  /\ At(r, "copy")
  /\ Goto(r, "write")
  /\ UNCHANGED <<up, table, disk, req, io, ans>>

\* append truncates the file to where its own chunk began when it is cut.
SlipCopyCutRollsBack(r) ==
  /\ At(r, "copy") /\ MayFail(req[r].id, "cut")
  /\ staged' = [staged EXCEPT ![req[r].id] =
                  SubSeq(@, 1, IF io[r].base < Len(@) THEN io[r].base ELSE Len(@))]
  /\ AppendFailed(r, 400)
  /\ UNCHANGED <<up, table, onDisk, stored, req>>

\* append credits the room it was given, not the bytes it copied.
SlipCreditRoom(r) ==
  LET u == req[r].id IN
  /\ At(r, "credit")
  /\ session' = [session EXCEPT ![u].offset = @ + io[r].room]
  /\ IF req[r].op = "PATCH"
       THEN Goto(r, "result") /\ EndIO(r) /\ UNCHANGED ans
       ELSE Goto(r, "finish") /\ EndIO(r) /\ UNCHANGED ans
  /\ UNCHANGED <<up, live, completed, disk, req>>

\* patch does not compare Upload-Offset with the session.
SlipPatchAnyOffset(r, u) ==
  /\ Addressable(r, u) /\ u \in live
  /\ Arrive(r, "PATCH", u)
  /\ \E base \in 0 .. session[u].length :
       StartAppend(r, u, base, session[u].length - session[u].offset)
  /\ UNCHANGED <<up, table, disk, ans>>

\* patch lets a chunk have the whole length, wherever it starts.
SlipPatchWholeRoom(r, u) ==
  /\ Addressable(r, u) /\ u \in live
  /\ Arrive(r, "PATCH", u)
  /\ StartAppend(r, u, session[u].offset, session[u].length)
  /\ UNCHANGED <<up, table, disk, ans>>

\* patch takes an upload for complete only beyond its length.
SlipPatchResultStrict(r) ==
  LET u == req[r].id IN
  /\ At(r, "result")
  /\ IF u \notin live THEN Answer(r, 404, None)
     ELSE IF session[u].offset > session[u].length
       THEN Goto(r, "finish") /\ UNCHANGED <<io, ans>>
       ELSE Answer(r, 204, None)
  /\ UNCHANGED <<up, table, disk, req>>

\* finish leaves the entry in the table until the file is saved.
SlipFinishKeepsEntry(r) ==
  LET u == req[r].id IN
  /\ At(r, "finish") /\ u \in live /\ session[u].offset = session[u].length
  /\ Goto(r, "open")
  /\ UNCHANGED <<up, table, disk, req, io, ans>>

\* finish forgets h.completed[id] = saved.ID.
SlipSaveUnpublished(r) ==
  LET u == req[r].id IN
  /\ At(r, "save")
  /\ \E f \in FileIds :
       /\ stored[f] = NoFile
       /\ stored' = [stored EXCEPT ![f] = [from |-> u, content |-> staged[u]]]
       /\ Goto(r, "cleanup") /\ Prepare(r, DoneCode(r), f)
  /\ UNCHANGED <<up, table, staged, onDisk, req, io>>

\* Close empties the table and leaves the files to RemoveAll.
SlipCloseKeepsFiles ==
  /\ up
  /\ live' = {}
  /\ \E owned \in Ownership : onDisk' = [u \in Uploads |-> onDisk[u] /\ ~owned]
  /\ UNCHANGED <<up, session, completed, staged, stored, pc, req, io, ans>>

-----------------------------------------------------------------------------
(* POST: create, lines 143-223.                                            *)

\* The critical section of create: the session enters the table, its staging
\* file the disk.
Register(r, u, length) ==
  /\ At(r, "idle") /\ Fresh(u)
  /\ Arrive(r, "POST", u)
  /\ live' = live \cup {u}
  /\ session' = [session EXCEPT ![u] = [length |-> length, offset |-> 0]]
  /\ onDisk' = [onDisk EXCEPT ![u] = TRUE]
  /\ UNCHANGED <<up, completed, staged, stored>>

\* A creation without content; an empty file is finished at once.
CreateEmpty(r, u, length) ==
  /\ Register(r, u, length)
  /\ IF length = 0
       THEN Goto(r, "finish") /\ UNCHANGED <<io, ans>>
       ELSE Answer(r, 201, None)

\* A creation whose content has the wrong type is aborted.
CreateWrongType(r, u, length) ==
  /\ Register(r, u, length)
  /\ Goto(r, "abort") /\ Prepare(r, 415, None)
  /\ UNCHANGED io

CreateWithContent(r, u, length) ==
  /\ Register(r, u, length)
  /\ StartAppend(r, u, 0, length)
  /\ UNCHANGED ans

\* h.abort(id), then the answer prepared before.
Abort(r) ==
  LET u == req[r].id IN
  /\ At(r, "abort") /\ Goto(r, "done")
  /\ live' = live \ {u}
  /\ onDisk' = [onDisk EXCEPT ![u] = @ /\ u \notin live]
  /\ UNCHANGED <<up, session, completed, staged, stored, req, io, ans>>

-----------------------------------------------------------------------------
(* PATCH: lines 251-321.                                                   *)

\* The upload is live and Upload-Offset is its offset.
PatchAccept(r, u) ==
  /\ Addressable(r, u) /\ u \in live
  /\ Arrive(r, "PATCH", u)
  /\ StartAppend(r, u, session[u].offset, session[u].length - session[u].offset)
  /\ UNCHANGED <<up, table, disk, ans>>

PatchConflict(r, u) ==
  /\ Addressable(r, u) /\ u \in live
  /\ Arrive(r, "PATCH", u)
  /\ Answer(r, 409, None)
  /\ UNCHANGED <<up, table, disk>>

\* Not live: the lock is released before h.completed is read (line 274).
PatchNotLive(r, u) ==
  /\ Addressable(r, u) /\ u \notin live
  /\ Arrive(r, "PATCH", u)
  /\ Goto(r, "missing")
  /\ UNCHANGED <<up, table, disk, io, ans>>

PatchMissing(r) ==
  /\ At(r, "missing")
  /\ Answer(r, IF completed[req[r].id] = None THEN 404 ELSE 400, None)
  /\ UNCHANGED <<up, table, disk, req>>

\* After append: has the upload gone, is it complete?
PatchResult(r) ==
  LET u == req[r].id IN
  /\ At(r, "result")
  /\ IF u \notin live THEN Answer(r, 404, None)
     ELSE IF session[u].offset >= session[u].length
       THEN Goto(r, "finish") /\ UNCHANGED <<io, ans>>
       ELSE Answer(r, 204, None)
  /\ UNCHANGED <<up, table, disk, req>>

-----------------------------------------------------------------------------
(* append: lines 343-367.                                                  *)

AppendLookup(r) ==
  /\ At(r, "append")
  /\ IF req[r].id \in live
       THEN Goto(r, "copy") /\ UNCHANGED <<io, ans>>
       ELSE AppendFailed(r, 400)
  /\ UNCHANGED <<up, table, disk, req>>

\* io.Copy has read a block and starts to write it: the write fails when the
\* file is closed, and is no longer stopped by a Close once it has started.
CopyRead(r) ==
  /\ At(r, "copy") /\ io[r].n < io[r].size
  /\ IF req[r].id \in live
       THEN Goto(r, "write") /\ UNCHANGED <<io, ans>>
       ELSE AppendFailed(r, 400)
  /\ UNCHANGED <<up, table, disk, req>>

CopyWrite(r) ==
  /\ At(r, "write") /\ Goto(r, "copy")
  /\ staged' = [staged EXCEPT ![req[r].id] = Append(@, io[r].base + io[r].n + 1)]
  /\ io' = [io EXCEPT ![r].n = @ + 1]
  /\ UNCHANGED <<up, table, onDisk, stored, req, ans>>

\* The client goes away or the disk fails: what was written stays written.
CopyCut(r) ==
  /\ At(r, "copy") /\ MayFail(req[r].id, "cut")
  /\ AppendFailed(r, 400)
  /\ UNCHANGED <<up, table, disk, req>>

\* The end of the body, or of the LimitReader: the size check, then Sync.
CopyEnd(r) ==
  /\ At(r, "copy") /\ io[r].n = io[r].size
  /\ \/ io[r].n > io[r].room /\ AppendFailed(r, 413)
     \/ /\ io[r].n <= io[r].room
        /\ req[r].id \notin live \/ MayFail(req[r].id, "sync")
        /\ AppendFailed(r, 400)
     \/ /\ io[r].n <= io[r].room
        /\ req[r].id \in live
        /\ Goto(r, "credit") /\ UNCHANGED <<io, ans>>
  /\ UNCHANGED <<up, table, disk, req>>

\* s.offset += n, on the session append looked up, live or not.
Credit(r) ==
  LET u == req[r].id IN
  /\ At(r, "credit")
  /\ session' = [session EXCEPT ![u].offset = @ + io[r].n]
  /\ IF req[r].op = "PATCH"
       THEN Goto(r, "result") /\ EndIO(r) /\ UNCHANGED ans
     ELSE IF io[r].n >= session[u].length
       THEN Goto(r, "finish") /\ EndIO(r) /\ UNCHANGED ans
       ELSE Answer(r, 201, None)
  /\ UNCHANGED <<up, live, completed, disk, req>>

-----------------------------------------------------------------------------
(* finish: lines 369-416.                                                  *)

\* The critical section that takes the upload out of the table.
FinishClaim(r) ==
  LET u == req[r].id IN
  /\ At(r, "finish")
  /\ \/ /\ u \notin live
        /\ IF completed[u] = None THEN Answer(r, 500, None)
                                  ELSE Answer(r, DoneCode(r), completed[u])
        /\ UNCHANGED live
     \/ /\ u \in live /\ session[u].offset /= session[u].length
        /\ Answer(r, 500, None)
        /\ UNCHANGED live
     \/ /\ u \in live /\ session[u].offset = session[u].length
        /\ live' = live \ {u}
        /\ Goto(r, "open") /\ UNCHANGED <<io, ans>>
  /\ UNCHANGED <<up, session, completed, disk, req>>

FinishOpen(r) ==
  /\ At(r, "open")
  /\ \/ onDisk[req[r].id] /\ Goto(r, "save") /\ UNCHANGED <<io, ans>>
     \/ /\ ~onDisk[req[r].id] \/ "open" \in Faults
        /\ Answer(r, 500, None)
  /\ UNCHANGED <<up, table, disk, req>>

\* writer.Save copies the open file under a fresh id, or fails.
FinishSave(r) ==
  LET u == req[r].id IN
  /\ At(r, "save")
  /\ \/ \E f \in FileIds :
          /\ stored[f] = NoFile
          /\ stored' = [stored EXCEPT ![f] = [from |-> u, content |-> staged[u]]]
          /\ Goto(r, "publish") /\ Prepare(r, DoneCode(r), f)
     \/ /\ "save" \in Faults
        /\ Goto(r, "cleanup") /\ Prepare(r, 500, None)
        /\ UNCHANGED stored
  /\ UNCHANGED <<up, table, staged, onDisk, req, io>>

FinishPublish(r) ==
  /\ At(r, "publish") /\ Goto(r, "cleanup")
  /\ completed' = [completed EXCEPT ![req[r].id] = ans[r].file]
  /\ UNCHANGED <<up, live, session, disk, req, io, ans>>

\* The deferred os.Remove(path), then the answer.
FinishCleanup(r) ==
  /\ At(r, "cleanup") /\ Goto(r, "done")
  /\ onDisk' = [onDisk EXCEPT ![req[r].id] = FALSE]
  /\ UNCHANGED <<up, table, staged, stored, req, io, ans>>

-----------------------------------------------------------------------------
(* HEAD, DELETE, the rest, Handler.Close, and the Go runtime.              *)

HeadCode(u) == IF u \in live \/ completed[u] /= None THEN 200 ELSE 404

Status(r, u) ==
  /\ Addressable(r, u)
  /\ Arrive(r, "HEAD", u)
  /\ Answer(r, HeadCode(u), completed[u])
  /\ UNCHANGED <<up, table, disk>>

Terminate(r, u) ==
  /\ Addressable(r, u)
  /\ Arrive(r, "DELETE", u)
  /\ live' = live \ {u}
  /\ onDisk' = [onDisk EXCEPT ![u] = @ /\ u \notin live]
  /\ Answer(r, 204, None)
  /\ UNCHANGED <<up, session, completed, staged, stored>>

\* OPTIONS, an unknown method, a malformed header, a failure to stage: no
\* state changes.
Refuse(r) ==
  /\ At(r, "idle")
  /\ Answer(r, 400, None)
  /\ UNCHANGED <<up, table, disk, req>>

\* Handler.Close: every live session goes; an own directory goes as a whole.
\* A handler's directory is its own or it is not: with both in Ownership each
\* Close may be of either kind, which allows more than the two together.
Close ==
  /\ up
  /\ live' = {}
  /\ \E owned \in Ownership :
       onDisk' = [u \in Uploads |-> onDisk[u] /\ u \notin live /\ ~owned]
  /\ UNCHANGED <<up, session, completed, staged, stored, pc, req, io, ans>>

\* patch reads h.completed without the lock while finish writes it: the
\* runtime may detect the concurrent map access and kill the process.
FatalMapRace(r, q) ==
  /\ At(r, "missing") /\ At(q, "publish")
  /\ up' = FALSE
  /\ UNCHANGED <<table, disk, pc, req, io, ans>>

\* Every request has been answered, or the process is dead.
Terminated ==
  /\ ~up \/ \A r \in Requests : pc[r] = "done"
  /\ UNCHANGED vars

\* The steps a goroutine takes by itself, with no client to wait for.
Step(r) ==
  \/ Abort(r) \/ PatchMissing(r) \/ PatchResult(r)
  \/ AppendLookup(r) \/ CopyWrite(r) \/ Credit(r)
  \/ FinishClaim(r) \/ FinishOpen(r) \/ FinishSave(r)
  \/ FinishPublish(r) \/ FinishCleanup(r)

\* The steps that need the client: an arrival, or more of the body.
ClientStep(r) ==
  \/ \E u \in Uploads, length \in 0 .. MaxLength :
       \/ CreateEmpty(r, u, length)
       \/ CreateWrongType(r, u, length)
       \/ CreateWithContent(r, u, length)
  \/ \E u \in Uploads :
       \/ PatchAccept(r, u) \/ PatchConflict(r, u) \/ PatchNotLive(r, u)
       \/ Status(r, u) \/ Terminate(r, u)
  \/ Refuse(r)
  \/ CopyRead(r) \/ CopyCut(r) \/ CopyEnd(r)

Next ==
  \/ \E r \in Requests : Step(r) \/ ClientStep(r)
  \/ \E r, q \in Requests : FatalMapRace(r, q)
  \/ Close
  \/ Terminated

\* A goroutine that waits for nobody is scheduled: critical sections are
\* short and sync.Mutex does not starve.  A client may stall for ever.
Fairness == \A r \in Requests : WF_vars(Step(r))

Spec == Init /\ [][Next]_vars /\ Fairness

-----------------------------------------------------------------------------
(* Refinement: what the clients and the store see of an upload.            *)

\* A goroutine is handing the upload over.
HandedOver(u) == \E r \in Requests : pc[r] \in {"open", "save"} /\ req[r].id = u

Life(u) ==
  IF Fresh(u) THEN "absent"
  ELSE IF u \in live THEN "receiving"
  ELSE IF \E f \in FileIds : stored[f].from = u THEN "done"
  ELSE IF HandedOver(u) THEN "finishing"
  ELSE "gone"

Offset(u) == IF u \in live THEN session[u].offset ELSE 0

\* What the answers with a file id have said.
Told ==
  {<<req[r].id, ans[r].file>> : r \in {q \in Requests : pc[q] = "done" /\ ans[q].file /= None}}

Promise ==
  INSTANCE ResumableUpload WITH
    life   <- [u \in Uploads |-> Life(u)],
    length <- [u \in Uploads |-> session[u].length],
    offset <- [u \in Uploads |-> Offset(u)],
    origin <- [f \in FileIds |-> stored[f].from],
    told   <- Told

-----------------------------------------------------------------------------
(* Properties.                                                             *)

\* Every variable has its type.
TypeOK ==
  /\ up \in BOOLEAN
  /\ live \subseteq Uploads
  /\ session \in [Uploads -> [length : Nat, offset : Nat]]
  /\ completed \in [Uploads -> FileIds \cup {None}]
  /\ staged \in [Uploads -> Seq(Nat)]
  /\ onDisk \in [Uploads -> BOOLEAN]
  /\ stored \in [FileIds -> [from : Uploads \cup {None}, content : Seq(Nat)]]
  /\ pc \in [Requests -> Labels]
  /\ req \in [Requests -> [op : Methods, id : Uploads \cup {None}]]
  /\ io \in [Requests -> [base : Nat, room : Int, size : Nat, n : Nat]]
  /\ \A r \in Requests : io[r].n <= io[r].size
  /\ ans \in [Requests -> [code : Nat, file : FileIds \cup {None}]]

\* However many requests see an upload complete, finish hands it to the
\* FileWriter once: no two stored files come from one upload.
SavedAtMostOnce ==
  \A f, g \in FileIds :
    stored[f].from /= None /\ stored[f].from = stored[g].from => f = g

\* A file id in a response is the one h.completed and Handler.FileID report
\* for that upload, and the FileWriter holds a file made from it.
AnsweredFileIsStored ==
  \A r \in Requests :
    pc[r] = "done" /\ ans[r].file /= None =>
      /\ completed[req[r].id] = ans[r].file
      /\ stored[ans[r].file].from = req[r].id

\* append adds n to the offset only after n bytes are in the file, so a live
\* upload never claims a byte its staging file lacks.
AckedBytesStaged ==
  \A u \in live : session[u].offset <= Len(staged[u])

\* What reaches the FileWriter is never shorter than the declared
\* Upload-Length, whatever requests were aborted, cut or racing.
NeverTruncated ==
  \A f \in FileIds :
    stored[f].from /= None =>
      Len(stored[f].content) >= session[stored[f].from].length

\* A file holds the bytes its client declared, each once and in order.
Faithful(f) == stored[f].content = [i \in 1 .. session[stored[f].from].length |-> i]

\* The stored file of a patient client is its client's data.  (A PATCH that is
\* cut breaks it, see README.)
ContentFaithful ==
  \A f \in FileIds : stored[f].from \in Patient => Faithful(f)

\* The stored file of a patient client whose bodies come as declared is its
\* data, whatever else fails and whatever the clients of other uploads do.
SteadyContentFaithful ==
  \A f \in FileIds : stored[f].from \in Patient \cap Steady => Faithful(f)

\* The offset HEAD reports never passes Upload-Length, so that the upload can
\* be finished, if its client does not repeat a PATCH in flight.  (Two PATCHes
\* accepted at one offset are both credited, and it does not hold for them.)
OffsetWithinLength ==
  \A u \in live \cap Patient : session[u].offset <= session[u].length

Quiet == \A r \in Requests : pc[r] \in {"idle", "done"}

\* With no request in flight the staging directory holds the live uploads and
\* nothing else: every way out of the table removes the file.
StagingReclaimed ==
  up /\ Quiet => \A u \in Uploads : onDisk[u] => u \in live

\* An upload that has left the table is never live again, and the file id
\* published for it never changes.
RetiredForGood ==
  [][\A u \in Uploads :
       /\ ~Fresh(u) /\ u \notin live => u \notin live'
       /\ completed[u] /= None => completed'[u] = completed[u]]_vars

\* However requests interleave, abort, fail or die, an upload lives as
\* ResumableUpload says: it is finished with the declared number of bytes or
\* not at all, handed over once, never taken up again, and its clients are
\* only told of the file made from it.
ImplementsUpload == Promise!Spec

\* Every byte of u has been credited and no append in flight may add to them.
FullyReceived(u) ==
  /\ u \in live /\ session[u].offset = session[u].length
  /\ \A r \in Requests :
       req[r].id = u /\ pc[r] \in {"append", "copy", "write", "credit"} =>
         req[r].op = "PATCH" /\ io[r].room <= 0

\* A fully received upload does not stay in the table: one of the requests
\* that credited its bytes finishes it, even when every other client stalls.
\* FullyReceived leaves out an upload while a PATCH that was accepted before
\* the last byte was credited is still copying: if that PATCH is credited too,
\* the offset has passed the length, finish refuses, and the upload stays for
\* ever.  OffsetWithinLength says which clients cannot get there.
FullyReceivedLeaves ==
  \A u \in Uploads : FullyReceived(u) ~> (~up \/ u \notin live)

=============================================================================
