---------------------------- MODULE MapperApiProofs ----------------------------
(***************************************************************************)
(* Proofs about MapperApi: an import over HTTP is one run of ImportRun, so *)
(* that what ImportRunProofs proves of a call holds of a request; what the *)
(* client may conclude from the status of the answer; which errors reach   *)
(* an answer; and, from what the adapters do to any file, that an import   *)
(* reads what the analysis showed.                                         *)
(***************************************************************************)
EXTENDS MapperApi, ImportRunProofs, WellFoundedInduction

-----------------------------------------------------------------------------
(* An import is one run.                                                   *)

\* The fields of a job.
JobIsRecord == {"stage", "trusted", "err", "reply"} \subseteq DOMAIN job

\* Executor.Import is called after the handler has looked at the request, and
\* its loop runs after its checks.
SetupFirst ==
  job.stage \in {"idle", "sent", "load", "open", "columns", "rows"} => pc = "setup"

OneRun == JobIsRecord /\ SetupFirst

\* What a stage of Executor.Import does, whatever it checks.
LEMMA PrepareOutcome ==
  ASSUME NEW stage, NEW then, NEW checks, JobIsRecord, Prepare(stage, then, checks)
  PROVE  /\ job.stage = stage /\ UNCHANGED <<request, cancelled, next, result, outside>>
         /\ UNCHANGED <<deployment, schemas, file, probe>>
         /\ JobIsRecord' /\ UNCHANGED <<job.trusted, job.reply>>
         /\ \/ /\ job'.stage = then /\ job'.err = job.err
               /\ IF then = "run" THEN Goto("begin") ELSE UNCHANGED <<pc, error>>
            \/ job'.stage = "run" /\ job'.err \in FirstOf(checks) /\ Return("setup")
<1>1. CASE /\ job' = [job EXCEPT !.stage = then]
           /\ IF then = "run" THEN Goto("begin") ELSE UNCHANGED <<pc, error>>
  BY <1>1 DEF Prepare, JobIsRecord
<1>2. ASSUME NEW err \in FirstOf(checks),
             job' = [job EXCEPT !.stage = "run", !.err = err], Return("setup")
      PROVE  /\ JobIsRecord' /\ UNCHANGED <<job.trusted, job.reply>>
             /\ job'.stage = "run" /\ job'.err \in FirstOf(checks)
  BY <1>2 DEF JobIsRecord
<1> QED
  BY <1>1, <1>2 DEF Prepare

LEMMA PrepareIsSetup ==
  ASSUME NEW stage \in {"load", "open", "columns", "rows"},
         NEW then \in {"open", "columns", "rows", "run"}, NEW checks,
         OneRun, Prepare(stage, then, checks)
  PROVE  (Setup \/ UNCHANGED vars) /\ OneRun'
<1>1. pc = "setup" /\ job.stage = stage
  BY PrepareOutcome DEF OneRun, SetupFirst
<1> QED
  BY <1>1, PrepareOutcome DEF Setup, OneRun, SetupFirst, vars, Goto, Return

LEMMA StageIsSetup ==
  ASSUME OneRun, LoadSchema \/ OpenFile \/ FindColumns \/ OpenRows
  PROVE  (Setup \/ UNCHANGED vars) /\ OneRun'
<1>1. CASE LoadSchema
  BY <1>1, PrepareIsSetup DEF LoadSchema
<1>2. CASE OpenFile
  BY <1>2, PrepareIsSetup DEF OpenFile
<1>3. CASE FindColumns
  BY <1>3, PrepareIsSetup DEF FindColumns
<1>4. CASE OpenRows
  BY <1>4, PrepareIsSetup DEF OpenRows
<1> QED
  BY <1>1, <1>2, <1>3, <1>4

LEMMA StageOutcome ==
  ASSUME JobIsRecord, LoadSchema \/ OpenFile \/ FindColumns \/ OpenRows
  PROVE  /\ job.stage \in {"load", "open", "columns", "rows"}
         /\ job'.stage \in {"open", "columns", "rows", "run"}
         /\ UNCHANGED <<job.trusted, job.reply, schemas, file>>
<1>1. CASE LoadSchema
  BY <1>1, PrepareOutcome DEF LoadSchema
<1>2. CASE OpenFile
  BY <1>2, PrepareOutcome DEF OpenFile
<1>3. CASE FindColumns
  BY <1>3, PrepareOutcome DEF FindColumns
<1>4. CASE OpenRows
  BY <1>4, PrepareOutcome DEF OpenRows
<1> QED
  BY <1>1, <1>2, <1>3, <1>4

\* The analysis request, and everybody else, leaves the import alone.
Elsewhere ==
  SendAnalysis \/ HandleAnalysis \/ SaveUpload \/ AnalyzeFile
    \/ RegisterSchema \/ CompleteUpload \/ DeleteFile \/ ApiTerminated

LEMMA ElsewhereIsSilent == Elsewhere => UNCHANGED <<vars, job>>
  BY DEF Elsewhere, SendAnalysis, HandleAnalysis, SaveUpload, AnalyzeFile, Inspect,
         RegisterSchema, CompleteUpload, DeleteFile, ApiTerminated, allVars, apiVars

LEMMA OneRunStep ==
  ASSUME OneRun, [ApiNext]_allVars
  PROVE  [Next]_vars /\ OneRun'
<1>1. CASE SendImport
  BY <1>1 DEF SendImport, OneRun, JobIsRecord, SetupFirst, vars
<1>2. CASE HandleImport
  BY <1>2 DEF HandleImport, OneRun, JobIsRecord, SetupFirst, vars
<1>3. CASE LoadSchema \/ OpenFile \/ FindColumns \/ OpenRows
  BY <1>3, StageIsSetup DEF Next, Import
<1>4. CASE RunImport
  <2>1. Import /\ pc /= "setup" /\ job' = job
    BY <1>4 DEF RunImport, Import, Begin, LoopHead, Read, Deliver, Accept, Refuse, Finish, End, apiVars
  <2> QED
    BY <2>1 DEF Next, OneRun, JobIsRecord, SetupFirst
<1>5. CASE HangUp
  BY <1>5 DEF HangUp, Cancel, Next, OneRun, JobIsRecord, SetupFirst, apiVars
<1>6. CASE AnswerImport
  BY <1>6 DEF AnswerImport, OneRun, JobIsRecord, SetupFirst, vars
<1>7. CASE Elsewhere
  BY <1>7, ElsewhereIsSilent DEF OneRun, JobIsRecord, SetupFirst, vars
<1>8. CASE UNCHANGED allVars
  BY <1>8 DEF allVars, apiVars, OneRun, JobIsRecord, SetupFirst, vars
<1> QED
  BY <1>1, <1>2, <1>3, <1>4, <1>5, <1>6, <1>7, <1>8 DEF ApiNext, Elsewhere

LEMMA OneRunInit == ApiInit => Init /\ OneRun
  BY DEF ApiInit, Init, IdleJob, OneRun, JobIsRecord, SetupFirst

\* POST /imports/sync calls Executor.Import once, as ImportRun has it: the
\* handler repeats nothing, and no other request touches the import.
THEOREM ImportIsOne == ApiSpec => ImportIsOneRun
  BY OneRunInit, OneRunStep, PTL DEF ApiSpec, ImportIsOneRun, Spec

\* So the result of a 200 is honest, and its nil error means all rows.
THEOREM AnswersAreComplete == ApiSpec => [](NilMeansAllRows /\ CountersAreHonest)
  BY ImportIsOne, NilIsComplete, CountersHonest, PTL DEF ImportIsOneRun

-----------------------------------------------------------------------------
(* What the status of an answer says.                                      *)

\* Before its loop an import has done nothing.
NothingYet ==
  /\ ~Done => error = "none"
  /\ pc \in {"setup", "begin"} \/ error = "setup" => delivered = <<>> /\ ended = <<>>

\* An import that ran is answered with a status that blames nobody, unless a
\* check of Executor.Import or a hook of the application spoke.
ReplyFits ==
  /\ job.stage /= "answered" => job.reply = NoReply
  /\ job.stage = "answered" =>
       \/ pc = "setup"
       \/ Done /\ (error \in {"setup", "begin", "end"} \/ job.reply.status \in {200, 408, 499, 500})

StatusInv == OneRun /\ NothingYet /\ ReplyFits

LEMMA ContextStatuses ==
  /\ \A reply \in Replies(Unmapped) : reply.status = 500
  /\ \A e \in ContextErrors : \A reply \in Replies(e) : reply.status \in {408, 499}
<1>1. StatusCodes(Unmapped) = {500}
  BY DEF StatusCodes, Unmapped
<1>2. \A e \in ContextErrors : StatusCodes(e) \subseteq {408, 499}
  <2>1. StatusMap["canceled"] = 499 /\ StatusMap["deadline_exceeded"] = 408
    BY DEF StatusMap
  <2>2. \A c : StatusCodes(Because(c)) = {StatusMap[c]}
    BY DEF StatusCodes, Because
  <2> QED
    BY <2>1, <2>2 DEF ContextErrors
<1> QED
  BY <1>1, <1>2 DEF Replies

LEMMA NothingYetStep ==
  ASSUME NothingYet, TypeOK, [Next]_vars
  PROVE  NothingYet'
<1>1. CASE Setup \/ Begin \/ LoopHead \/ Cancel
  BY <1>1 DEF NothingYet, Setup, Begin, LoopHead, Cancel, Goto, Return, Done, outside
<1>2. CASE Read \/ Deliver \/ Accept \/ Refuse \/ Finish \/ End
  BY <1>2 DEF NothingYet, Read, Deliver, Accept, Refuse, Reject, Finish, End, Goto, Return, Done, outside
<1>3. CASE UNCHANGED vars
  BY <1>3 DEF vars, outside, NothingYet, Done
<1> QED
  BY <1>1, <1>2, <1>3 DEF Next, Import, Terminated

LEMMA AnswerStatus ==
  ASSUME TypeOK, OneRun, AnswerImport
  PROVE  /\ job'.stage = "answered" /\ UNCHANGED <<pc, error>> /\ Done
         /\ error \in {"setup", "begin", "end"} \/ job'.reply.status \in {200, 408, 499, 500}
<1>1. /\ job.stage = "run" /\ Done /\ UNCHANGED <<pc, error>>
  BY DEF AnswerImport, vars, Done
<1>2. PICK reply \in IF error = "none" THEN {Succeed} ELSE UNION {Replies(e) : e \in ImportErrors} :
        job' = [job EXCEPT !.stage = "answered", !.reply = reply]
  BY Zenon DEF AnswerImport
<1>3. job'.stage = "answered" /\ job'.reply = reply
  BY <1>2 DEF OneRun, JobIsRecord
<1>4. CASE error = "none"
  <2>1. reply = Succeed
    BY <1>2, <1>4
  <2>2. Succeed.status = 200
    BY DEF Succeed
  <2> QED
    BY <1>1, <1>3, <2>1, <2>2
<1>5. CASE error \in {"context", "read"}
  <2>1. ImportErrors \subseteq {Unmapped} \cup ContextErrors
    BY <1>5 DEF ImportErrors
  <2>2. PICK e \in {Unmapped} \cup ContextErrors : reply \in Replies(e)
    BY <1>2, <1>5, <2>1
  <2> QED
    BY <1>1, <1>3, <2>2, ContextStatuses
<1> QED
  BY <1>1, <1>3, <1>4, <1>5 DEF TypeOK, Errors

LEMMA ReplyStep ==
  ASSUME TypeOK, StatusInv, [ApiNext]_allVars
  PROVE  ReplyFits'
<1> USE DEF StatusInv
<1>1. CASE SendImport
  BY <1>1 DEF SendImport, OneRun, JobIsRecord, ReplyFits, vars, Done
<1>2. CASE HandleImport
  <2>1. pc' = "setup" /\ job.stage /= "answered"
    BY <1>2 DEF HandleImport, OneRun, SetupFirst, vars
  <2> QED
    BY <1>2, <2>1 DEF HandleImport, OneRun, JobIsRecord, ReplyFits
<1>3. CASE LoadSchema \/ OpenFile \/ FindColumns \/ OpenRows
  <2>1. job.stage /= "answered" /\ job'.stage /= "answered" /\ job'.reply = job.reply
    BY <1>3, StageOutcome DEF OneRun
  <2> QED
    BY <2>1 DEF ReplyFits
<1>4. CASE RunImport
  <2>1. job' = job /\ pc \notin {"setup", "done"}
    BY <1>4 DEF RunImport, Begin, LoopHead, Read, Deliver, Accept, Refuse, Finish, End, apiVars
  <2> QED
    BY <2>1 DEF ReplyFits, Done
<1>5. CASE HangUp
  BY <1>5 DEF HangUp, ReplyFits, apiVars, Cancel
<1>6. CASE AnswerImport
  BY <1>6, AnswerStatus DEF ReplyFits, Done
<1>7. CASE Elsewhere
  BY <1>7, ElsewhereIsSilent DEF ReplyFits, vars, Done
<1>8. CASE UNCHANGED allVars
  BY <1>8 DEF allVars, apiVars, ReplyFits, vars, Done
<1> QED
  BY <1>1, <1>2, <1>3, <1>4, <1>5, <1>6, <1>7, <1>8 DEF ApiNext, Elsewhere

LEMMA TypeAlways == ApiSpec => []TypeOK
  BY ImportIsOne, TypeCorrect, PTL DEF ImportIsOneRun

LEMMA StatusInvariance == ApiSpec => []StatusInv
<1>1. ApiInit => StatusInv
  BY OneRunInit DEF StatusInv, NothingYet, ReplyFits, ApiInit, Init, IdleJob, Done
<1>2. TypeOK /\ StatusInv /\ [ApiNext]_allVars => StatusInv'
  BY OneRunStep, NothingYetStep, ReplyStep DEF StatusInv
<1> QED
  BY <1>1, <1>2, TypeAlways, PTL DEF ApiSpec

\* After a 400, 404, 409, 415 or 503 that is not the application's own, no row
\* was delivered and no hook called: the client may correct its request.
THEOREM RefusalsAreClean == ApiSpec => []RefusedMeansUntouched
<1>1. StatusInv => RefusedMeansUntouched
  <2> SUFFICES ASSUME StatusInv, job.reply.status \in {400, 404, 409, 415, 503},
                      error \notin {"begin", "end"}
               PROVE  delivered = <<>> /\ ended = <<>> /\ (pc = "setup" \/ error = "setup")
    BY DEF RefusedMeansUntouched
  <2>1. job.stage = "answered"
    <3>1. NoReply.status = 0
      BY DEF NoReply
    <3> QED
      BY <3>1 DEF StatusInv, ReplyFits
  <2>2. pc = "setup" \/ error = "setup"
    BY <2>1 DEF StatusInv, ReplyFits
  <2> QED
    BY <2>2 DEF StatusInv, NothingYet
<1> QED
  BY <1>1, StatusInvariance, PTL

-----------------------------------------------------------------------------
(* What was handed out works.                                              *)

\* Before the import runs it has no error.
NoErrYet ==
  job.stage \in {"idle", "sent", "load", "open", "columns", "rows"} => job.err = Unmapped

\* A schema or a file a client was told of is there, or the file was deleted.
StillThere ==
  /\ "service" \in schemas => "executor" \in schemas
  /\ job.trusted => "executor" \in schemas /\ file \in {"stored", "deleted"}

\* Neither the error nor the answer is a 404 then.
NeverNotFound ==
  job.trusted /\ file /= "deleted" =>
    /\ 404 \notin StatusCodes(job.err)
    /\ error \notin {"begin", "end"} => job.reply.status /= 404

FoundInv == StatusInv /\ NoErrYet /\ StillThere /\ NeverNotFound

\* Causes of a failed import that are no 404.
Harmless ==
  {Unmapped, BadMapping} \cup ContextErrors
    \cup {Because(c) : c \in {"executor_unavailable", "processor_unavailable", "no_header"}}

LEMMA HarmlessStatuses == \A e \in Harmless : 404 \notin StatusCodes(e)
<1>1. StatusCodes(Unmapped) = {500} /\ StatusCodes(BadMapping) = {400}
  BY DEF StatusCodes, Unmapped, BadMapping
<1>2. \A c : StatusCodes(Because(c)) = {StatusMap[c]}
  BY DEF StatusCodes, Because
<1>3. /\ StatusMap["canceled"] = 499 /\ StatusMap["deadline_exceeded"] = 408
      /\ StatusMap["executor_unavailable"] = 503 /\ StatusMap["processor_unavailable"] = 503
      /\ StatusMap["no_header"] = 400
  BY DEF StatusMap
<1> QED
  BY <1>1, <1>2, <1>3 DEF Harmless, ContextErrors

LEMMA FirstOfSound ==
  ASSUME NEW checks, NEW e \in FirstOf(checks)
  PROVE  \E n \in DOMAIN checks : checks[n][1] /\ e \in checks[n][2]
  BY DEF FirstOf

LEMMA SourceErrorHarmless == \A opened : SourceError(opened) \in Harmless
  BY DEF SourceError, Harmless

LEMMA ColumnsHarmless ==
  ASSUME NEW flaw, NEW ok, NEW analysis,
         NEW stuck,
         NEW e \in FirstOf(IF ok THEN <<>>
                           ELSE << <<cancelled, ContextErrors>>,
                                   <<analysis.error /= "none", {SourceError(analysis)}>>,
                                   <<flaw, {BadMapping}>>,
                                   <<stuck, {Unmapped}>> >>)
  PROVE  e \in Harmless
<1>1. /\ ContextErrors \subseteq Harmless /\ BadMapping \in Harmless
      /\ SourceError(analysis) \in Harmless /\ Unmapped \in Harmless
  BY SourceErrorHarmless DEF Harmless
<1>2. ~ok
  BY DEF FirstOf
<1> QED
  BY <1>1, <1>2, FirstOfSound

\* A stage leaves the error alone or ends the checks.
LEMMA StageErr ==
  ASSUME JobIsRecord, LoadSchema \/ OpenFile \/ FindColumns \/ OpenRows
  PROVE  job'.err = job.err \/ job'.stage = "run"
<1>1. CASE LoadSchema
  BY <1>1, PrepareOutcome DEF LoadSchema
<1>2. CASE OpenFile
  BY <1>2, PrepareOutcome DEF OpenFile
<1>3. CASE FindColumns
  BY <1>3, PrepareOutcome DEF FindColumns
<1>4. CASE OpenRows
  BY <1>4, PrepareOutcome DEF OpenRows
<1> QED
  BY <1>1, <1>2, <1>3, <1>4

\* What SendImport trusts is there, since one registration serves both.
LEMMA StillThereStep ==
  ASSUME SharedRegistry, JobIsRecord, StillThere, [ApiNext]_allVars
  PROVE  StillThere'
<1>1. CASE SendImport
  BY <1>1 DEF SendImport, JobIsRecord, StillThere, Served
<1>2. CASE HandleImport
  <2>1. job'.trusted = job.trusted /\ UNCHANGED <<schemas, file>>
    BY <1>2 DEF HandleImport, JobIsRecord
  <2> QED
    BY <2>1 DEF StillThere
<1>3. CASE LoadSchema \/ OpenFile \/ FindColumns \/ OpenRows
  BY <1>3, StageOutcome DEF StillThere
<1>4. CASE RunImport \/ HangUp \/ UNCHANGED allVars
  BY <1>4 DEF RunImport, HangUp, allVars, apiVars, StillThere
<1>5. CASE AnswerImport
  <2>1. job'.trusted = job.trusted /\ UNCHANGED <<schemas, file>>
    BY <1>5 DEF AnswerImport, JobIsRecord
  <2> QED
    BY <2>1 DEF StillThere
<1>6. CASE Elsewhere
  <2>1. job' = job
    BY <1>6, ElsewhereIsSilent
  <2>2. schemas' = schemas \/ schemas' = {"service", "executor"}
    BY <1>6 DEF Elsewhere, SendAnalysis, HandleAnalysis, SaveUpload, AnalyzeFile, Inspect,
                RegisterSchema, CompleteUpload, DeleteFile, ApiTerminated, allVars, apiVars
  <2>3. file' = file \/ file' = "stored" \/ file' = "deleted"
    BY <1>6 DEF Elsewhere, SendAnalysis, HandleAnalysis, SaveUpload, AnalyzeFile, Inspect,
                RegisterSchema, CompleteUpload, DeleteFile, ApiTerminated, allVars, apiVars
  <2>4. file' = file \/ file = "absent" \/ file' = "deleted"
    BY <1>6 DEF Elsewhere, SendAnalysis, HandleAnalysis, SaveUpload, AnalyzeFile, Inspect,
                RegisterSchema, CompleteUpload, DeleteFile, ApiTerminated, allVars, apiVars
  <2> QED
    BY <2>1, <2>2, <2>3, <2>4 DEF StillThere
<1> QED
  BY <1>1, <1>2, <1>3, <1>4, <1>5, <1>6 DEF ApiNext, Elsewhere

\* Each stage fails with a harmless error, given a stored file and a schema.
LEMMA StageHarmless ==
  ASSUME JobIsRecord, "executor" \in schemas, file = "stored",
         LoadSchema \/ OpenFile \/ FindColumns \/ OpenRows
  PROVE  job'.err = job.err \/ job'.err \in Harmless
<1> USE DEF Harmless
<1>1. CASE LoadSchema
  <2> DEFINE checks(flaw) ==
        << <<"executor" \in missing, {Because("executor_unavailable")}>>,
           <<cancelled, ContextErrors>>,
           <<flaw, {BadMapping}>>,
           <<"executor" \notin schemas, {Because("schema_not_found")}>>,
           <<"processor" \in missing, {Because("processor_unavailable")}>> >>
  <2>1. PICK flaw \in BOOLEAN : Prepare("load", "open", checks(flaw))
    BY <1>1 DEF LoadSchema
  <2>2. ASSUME NEW e \in FirstOf(checks(flaw))
        PROVE  e \in Harmless
    <3>1. PICK n \in 1 .. 5 : checks(flaw)[n][1] /\ e \in checks(flaw)[n][2]
      BY <2>2, FirstOfSound
    <3>2. /\ checks(flaw)[1][2] = {Because("executor_unavailable")} /\ checks(flaw)[2][2] = ContextErrors
          /\ checks(flaw)[3][2] = {BadMapping} /\ checks(flaw)[5][2] = {Because("processor_unavailable")}
      OBVIOUS
    <3>3. ~checks(flaw)[4][1]
      OBVIOUS
    <3> HIDE DEF checks
    <3>4. n /= 4
      BY <3>1, <3>3
    <3> QED
      BY <3>1, <3>2, <3>4
  <2> QED
    BY <2>1, <2>2, PrepareOutcome
<1>2. CASE OpenFile
  <2> DEFINE checks(closed, flaw) ==
        << <<cancelled, ContextErrors>>,
           <<closed, {Unmapped}>>,
           <<file /= "stored", {Because("not_found")}>>,
           <<flaw, {BadMapping}>> >>
  <2>1. PICK closed, flaw \in BOOLEAN : Prepare("open", "columns", checks(closed, flaw))
    BY <1>2 DEF OpenFile
  <2>2. ASSUME NEW e \in FirstOf(checks(closed, flaw))
        PROVE  e \in Harmless
    <3>1. PICK n \in 1 .. 4 : checks(closed, flaw)[n][1] /\ e \in checks(closed, flaw)[n][2]
      BY <2>2, FirstOfSound
    <3>2. /\ checks(closed, flaw)[1][2] = ContextErrors /\ checks(closed, flaw)[2][2] = {Unmapped}
          /\ checks(closed, flaw)[4][2] = {BadMapping}
      OBVIOUS
    <3>3. ~checks(closed, flaw)[3][1]
      OBVIOUS
    <3> HIDE DEF checks
    <3>4. n /= 3
      BY <3>1, <3>3
    <3> QED
      BY <3>1, <3>2, <3>4
  <2> QED
    BY <2>1, <2>2, PrepareOutcome
<1>3. CASE FindColumns
  <2>1. PICK flaw, stuck \in BOOLEAN :
          Prepare("columns", "rows",
            IF ~seekable THEN <<>>
            ELSE << <<cancelled, ContextErrors>>,
                    <<Analyze(format, content).error /= "none",
                      {SourceError(Analyze(format, content))}>>,
                    <<flaw, {BadMapping}>>,
                    <<stuck, {Unmapped}>> >>)
    BY <1>3 DEF FindColumns
  <2> QED
    BY <2>1, PrepareOutcome, ColumnsHarmless
<1>4. CASE OpenRows
  <2>1. PICK flaw \in BOOLEAN :
          Prepare("rows", "run",
            << <<cancelled, ContextErrors>>,
               <<Open(format, content).error /= "none", {SourceError(Open(format, content))}>>,
               <<flaw, {BadMapping}>> >>)
    BY <1>4 DEF OpenRows
  <2> QED
    BY <2>1, PrepareOutcome, FirstOfSound, SourceErrorHarmless
<1> QED
  BY <1>1, <1>2, <1>3, <1>4

\* No answer of the handler before it calls Import is a 404.
LEMMA HandlerStatus ==
  ASSUME JobIsRecord, HandleImport, job.reply.status /= 404
  PROVE  job'.reply.status /= 404 /\ UNCHANGED <<job.err, job.trusted>>
<1> DEFINE checks(flaw) ==
      << <<"service" \in missing, {ServiceMissing}>>,
         <<flaw = "media_type", {NoJSON}>>,
         <<flaw = "json", Replies(Because("invalid_request"))>>,
         <<"importer" \in missing, Replies(Because("importer_unavailable"))>> >>
<1>1. PICK flaw \in {"none", "media_type", "json"} :
        IF FirstOf(checks(flaw)) = {} THEN job' = [job EXCEPT !.stage = "load"]
        ELSE \E reply \in FirstOf(checks(flaw)) :
               job' = [job EXCEPT !.stage = "answered", !.reply = reply]
  BY DEF HandleImport
<1>2. CASE job' = [job EXCEPT !.stage = "load"]
  BY <1>2 DEF JobIsRecord
<1>3. ASSUME NEW reply \in FirstOf(checks(flaw)),
             job' = [job EXCEPT !.stage = "answered", !.reply = reply]
      PROVE  job'.reply.status /= 404 /\ UNCHANGED <<job.err, job.trusted>>
  <2>1. PICK n \in 1 .. 4 : reply \in checks(flaw)[n][2]
    BY <1>3, FirstOfSound
  <2>2. ServiceMissing.status = 503 /\ NoJSON.status = 415
    BY DEF ServiceMissing, NoJSON
  <2>3. \A c : \A r \in Replies(Because(c)) : r.status = StatusMap[c]
    <3>1. \A c : StatusCodes(Because(c)) = {StatusMap[c]}
      BY DEF StatusCodes, Because
    <3> QED
      BY <3>1 DEF Replies
  <2>4. StatusMap["invalid_request"] = 400 /\ StatusMap["importer_unavailable"] = 503
    BY DEF StatusMap
  <2>5. /\ checks(flaw)[1][2] = {ServiceMissing} /\ checks(flaw)[2][2] = {NoJSON}
        /\ checks(flaw)[3][2] = Replies(Because("invalid_request"))
        /\ checks(flaw)[4][2] = Replies(Because("importer_unavailable"))
    OBVIOUS
  <2>6. reply.status /= 404
    <3> HIDE DEF checks
    <3>1. \/ reply = ServiceMissing \/ reply = NoJSON
          \/ reply \in Replies(Because("invalid_request"))
          \/ reply \in Replies(Because("importer_unavailable"))
      BY <2>1, <2>5
    <3> QED
      BY <2>2, <2>3, <2>4, <3>1
  <2>7. job'.reply = reply /\ UNCHANGED <<job.err, job.trusted>>
    BY <1>3 DEF JobIsRecord
  <2> QED
    BY <2>6, <2>7
<1> QED
  BY <1>1, <1>2, <1>3

\* The error of an import that did not fail in a hook decides its status.
LEMMA AnswerHarmless ==
  ASSUME TypeOK, FoundInv, AnswerImport, job.trusted, file /= "deleted",
         error \notin {"begin", "end"}
  PROVE  job'.reply.status /= 404
<1>1. CASE error = "setup"
  <2>0. UNION {Replies(e) : e \in ImportErrors} = Replies(job.err)
    BY <1>1 DEF ImportErrors
  <2>1. PICK reply \in Replies(job.err) : job' = [job EXCEPT !.stage = "answered", !.reply = reply]
    BY <1>1, <2>0, Zenon DEF AnswerImport
  <2>2. reply.status \in StatusCodes(job.err)
    BY DEF Replies
  <2> QED
    BY <2>1, <2>2 DEF FoundInv, StatusInv, OneRun, JobIsRecord, NeverNotFound
<1>2. CASE error /= "setup"
  BY <1>2, AnswerStatus DEF FoundInv, StatusInv
<1> QED
  BY <1>1, <1>2

LEMMA NoErrYetStep ==
  ASSUME OneRun, NoErrYet, [ApiNext]_allVars
  PROVE  NoErrYet'
<1> USE DEF OneRun, JobIsRecord, NoErrYet
<1>1. CASE SendImport
  BY <1>1 DEF SendImport
<1>2. CASE HandleImport
  BY <1>2 DEF HandleImport
<1>3. CASE LoadSchema \/ OpenFile \/ FindColumns \/ OpenRows
  BY <1>3, StageErr, StageOutcome
<1>4. CASE RunImport \/ HangUp \/ UNCHANGED allVars
  BY <1>4 DEF RunImport, HangUp, allVars, apiVars
<1>5. CASE AnswerImport
  BY <1>5 DEF AnswerImport
<1>6. CASE Elsewhere
  BY <1>6, ElsewhereIsSilent
<1> QED
  BY <1>1, <1>2, <1>3, <1>4, <1>5, <1>6 DEF ApiNext, Elsewhere

LEMMA NeverNotFoundStep ==
  ASSUME SharedRegistry, TypeOK, FoundInv, [ApiNext]_allVars
  PROVE  NeverNotFound'
<1> USE DEF FoundInv, StatusInv, OneRun
<1> SUFFICES ASSUME job'.trusted, file' /= "deleted"
             PROVE  /\ 404 \notin StatusCodes(job'.err)
                    /\ error' \notin {"begin", "end"} => job'.reply.status /= 404
  BY DEF NeverNotFound
<1>0. NoReply.status /= 404
  BY DEF NoReply
<1>1. CASE SendImport \/ HandleImport
  <2>1. job.stage \in {"idle", "sent"} /\ UNCHANGED <<pc, error>> /\ job'.err = job.err
    BY <1>1 DEF SendImport, HandleImport, JobIsRecord, vars
  <2>2. 404 \notin StatusCodes(job'.err)
    BY <2>1, HarmlessStatuses DEF NoErrYet, Harmless
  <2>3. job.reply.status /= 404
    BY <1>0, <2>1 DEF ReplyFits
  <2>4. job'.reply.status /= 404
    BY <1>1, <2>3, HandlerStatus DEF SendImport, JobIsRecord
  <2> QED
    BY <2>2, <2>4
<1>2. CASE LoadSchema \/ OpenFile \/ FindColumns \/ OpenRows
  <2>1. job.trusted /\ file /= "deleted" /\ job'.reply = job.reply
    BY <1>2, StageOutcome
  <2>2. job'.err = job.err \/ job'.err \in Harmless
    BY <1>2, <2>1, StageHarmless DEF StillThere
  <2>3. job.stage \in {"load", "open", "columns", "rows"}
    BY <1>2, StageOutcome
  <2>4. job.reply.status /= 404
    BY <1>0, <2>3 DEF ReplyFits
  <2> QED
    BY <2>1, <2>2, <2>4, HarmlessStatuses DEF NeverNotFound
<1>3. CASE RunImport
  <2>1. job' = job /\ file' = file /\ pc \notin {"setup", "done"}
    BY <1>3 DEF RunImport, Begin, LoopHead, Read, Deliver, Accept, Refuse, Finish, End, apiVars
  <2>2. job.reply.status /= 404
    BY <1>0, <2>1 DEF ReplyFits, Done
  <2> QED
    BY <2>1, <2>2 DEF NeverNotFound
<1>4. CASE HangUp \/ UNCHANGED allVars
  BY <1>4 DEF HangUp, Cancel, allVars, apiVars, vars, outside, NeverNotFound
<1>5. CASE AnswerImport
  <2>1. job'.err = job.err /\ job'.trusted = job.trusted /\ UNCHANGED <<file, error>>
    BY <1>5 DEF AnswerImport, JobIsRecord, vars
  <2> QED
    BY <1>5, <2>1, AnswerHarmless DEF NeverNotFound
<1>6. CASE Elsewhere
  <2>1. job' = job /\ error' = error
    BY <1>6, ElsewhereIsSilent DEF vars
  <2>2. file /= "deleted"
    BY <1>6 DEF Elsewhere, SendAnalysis, HandleAnalysis, SaveUpload, AnalyzeFile, Inspect,
                RegisterSchema, CompleteUpload, DeleteFile, ApiTerminated, allVars, apiVars
  <2> QED
    BY <2>1, <2>2 DEF NeverNotFound
<1> QED
  BY <1>1, <1>2, <1>3, <1>4, <1>5, <1>6 DEF ApiNext, Elsewhere

LEMMA FoundInvariance == SharedRegistry /\ ApiSpec => []FoundInv
<1> SUFFICES ASSUME SharedRegistry
             PROVE  ApiSpec => []FoundInv
  OBVIOUS
<1>1. ApiInit => NoErrYet /\ StillThere /\ NeverNotFound
  BY DEF ApiInit, IdleJob, NoErrYet, StillThere, NeverNotFound
<1>2. TypeOK /\ StatusInv /\ FoundInv /\ [ApiNext]_allVars => (NoErrYet /\ StillThere /\ NeverNotFound)'
  <2> SUFFICES ASSUME TypeOK, FoundInv, [ApiNext]_allVars
               PROVE  NoErrYet' /\ StillThere' /\ NeverNotFound'
    OBVIOUS
  <2>1. OneRun /\ JobIsRecord /\ NoErrYet /\ StillThere
    BY DEF FoundInv, StatusInv, OneRun
  <2> QED
    BY <2>1, NoErrYetStep, StillThereStep, NeverNotFoundStep
<1> QED
  BY <1>1, <1>2, TypeAlways, StatusInvariance, PTL DEF ApiSpec, FoundInv

\* A file and a schema the client was told of are found by the import, when the
\* service registers schemas in the registry its executor reads.
THEOREM HandedOutIsFound == SharedRegistry /\ ApiSpec => []HandedOutWorks
<1>1. FoundInv => HandedOutWorks
  BY DEF FoundInv, NeverNotFound, HandedOutWorks
<1> QED
  BY <1>1, FoundInvariance, PTL

-----------------------------------------------------------------------------
(* What an adapter analyzes is what it opens.                              *)

LEMMA MinIsLeast ==
  ASSUME NEW S \in SUBSET Nat, S /= {}
  PROVE  Min(S) \in S /\ \A n \in S : Min(S) <= n
<1>1. PICK least \in S : \A n \in S : ~ (<<n, least>> \in OpToRel(<, Nat))
  BY NatLessThanWellFounded, WFMin
<1>2. \A n \in S : ~ (n < least)
  BY <1>1 DEF OpToRel
<1>3. \A n \in S : least <= n
  BY <1>2
<1> QED
  BY <1>3 DEF Min

\* The rows of a sheet, as SettingsAssumption has them.
AnyRow == RowKinds \cup {"blank"}

NotBlank(sheet)   == {i \in 1 .. Len(sheet) : sheet[i] /= "blank"}
WithValues(sheet) == {i \in 1 .. Len(sheet) : HasValue(sheet[i])}

LEMMA HeaderIs ==
  ASSUME NEW sheet \in Seq(AnyRow)
  PROVE  /\ HeaderRow(sheet) = IF NotBlank(sheet) /= {} THEN Min(NotBlank(sheet)) ELSE 0
         /\ HeaderRow(sheet) = 0 <=> NotBlank(sheet) = {}
         /\ HeaderRow(sheet) /= 0 => HeaderRow(sheet) \in 1 .. Len(sheet)
<1>1. HeaderRow(sheet) = IF NotBlank(sheet) /= {} THEN Min(NotBlank(sheet)) ELSE 0
  BY DEF HeaderRow, SelectInSeq, NotBlank
<1>2. NotBlank(sheet) \in SUBSET (1 .. Len(sheet)) /\ NotBlank(sheet) \in SUBSET Nat
  BY DEF NotBlank
<1>3. NotBlank(sheet) /= {} => Min(NotBlank(sheet)) \in NotBlank(sheet)
  BY <1>2, MinIsLeast
<1> QED
  BY <1>1, <1>2, <1>3

\* The samples of a summary are the numbers of the first rows.
LEMMA SummaryShows ==
  ASSUME NEW n \in Nat, NEW from \in Nat
  PROVE  LET summary == Summary([i \in 1 .. n |-> from + i]) IN
           /\ summary.rows = n
           /\ \A i \in DOMAIN summary.samples : summary.samples[i] = from + i
<1> DEFINE numbers == [i \in 1 .. n |-> from + i]
           size == IF n < SampleLimit THEN n ELSE SampleLimit
<1>1. numbers \in Seq(Nat) /\ Len(numbers) = n
  OBVIOUS
<1>2. size \in 0 .. n
  BY SampleLimitAssumption
<1>3. /\ Summary(numbers).rows = n
      /\ Summary(numbers).samples = SubSeq(numbers, 1, size)
  BY <1>1 DEF Summary
<1>4. /\ DOMAIN SubSeq(numbers, 1, size) = 1 .. size
      /\ \A i \in 1 .. size : SubSeq(numbers, 1, size)[i] = numbers[i] /\ i \in 1 .. n
  BY <1>1, <1>2
<1> QED
  BY <1>3, <1>4

\* What AnalysisMatchesImport says of the file.
Shown(form, sheets) == Analyze(form, sheets).error = "none"

FirstShown(form, sheets) ==
  Analyze(form, sheets).sheets[Min(DOMAIN Analyze(form, sheets).sheets)]

Agrees(form, sheets) ==
  /\ Open(form, sheets).error = "none"
  /\ \A blank \in {"good", "bad"} :
       /\ Len(RowsOf(form, sheets, blank)) = FirstShown(form, sheets).rows
       /\ \A i \in 1 .. Len(RowsOf(form, sheets, blank)) :
            RowsOf(form, sheets, blank)[i] /= "broken"
  /\ \A i \in DOMAIN FirstShown(form, sheets).samples :
       Open(form, sheets).counted + i = FirstShown(form, sheets).samples[i]

LEMMA CsvAgrees ==
  ASSUME NEW sheets \in Seq(Seq(AnyRow)), Len(sheets) = 1, Shown("csv", sheets)
  PROVE  Agrees("csv", sheets)
<1> DEFINE sheet == sheets[1]
           header == HeaderRow(sheet)
           left == Len(sheet) - header
<1>1. sheet \in Seq(AnyRow)
  OBVIOUS
<1>2. CsvAnalyze(sheets).error = "none"
  BY DEF Shown, Analyze
<1>3. header /= 0 /\ HasValue(sheet[header])
  BY <1>2 DEF CsvAnalyze, CsvOpen, NoHeader, Unreadable
<1>4. Open("csv", sheets) = Reader(1, header, header)
  BY <1>3 DEF Open, CsvOpen
<1>5. /\ Reader(1, header, header).error = "none" /\ Reader(1, header, header).sheet = 1
      /\ Reader(1, header, header).row = header /\ Reader(1, header, header).counted = header
  BY DEF Reader
<1>6. header \in 1 .. Len(sheet) /\ left \in Nat /\ header \in Nat
  BY <1>1, <1>3, HeaderIs
<1>7. \A i \in header + 1 .. Len(sheet) : sheet[i] /= "broken"
  <2>1. Unreadable.error = "unreadable"
    BY DEF Unreadable
  <2> QED
    BY <1>2, <1>4, <1>5, <2>1 DEF CsvAnalyze, Open
<1>8. CsvAnalyze(sheets) = Analysis([s \in {1} |-> Summary([i \in 1 .. left |-> header + i])])
  BY <1>4, <1>5, <1>7 DEF CsvAnalyze, Open
<1> DEFINE summary == Summary([i \in 1 .. left |-> header + i])
<1>9. FirstShown("csv", sheets) = summary
  <2>1. Min({1}) = 1
    BY MinIsLeast
  <2>2. Analyze("csv", sheets).sheets = [s \in {1} |-> summary]
    BY <1>8 DEF Analyze, Analysis
  <2> HIDE DEF summary
  <2> QED
    BY <2>1, <2>2 DEF FirstShown
<1>10. /\ summary.rows = left
       /\ \A i \in DOMAIN summary.samples : summary.samples[i] = header + i
  BY <1>6, SummaryShows
<1> HIDE DEF summary
<1>11. ASSUME NEW blank \in {"good", "bad"}
      PROVE  /\ Len(RowsOf("csv", sheets, blank)) = left
             /\ \A i \in 1 .. left : RowsOf("csv", sheets, blank)[i] /= "broken"
  <2>1. RowsOf("csv", sheets, blank) =
          [i \in 1 .. left |-> IF sheet[header + i] = "blank" THEN blank ELSE sheet[header + i]]
    BY <1>4, <1>5 DEF RowsOf
  <2>2. Len(RowsOf("csv", sheets, blank)) = left
    BY <1>6, <2>1
  <2>3. ASSUME NEW i \in 1 .. left PROVE RowsOf("csv", sheets, blank)[i] /= "broken"
    <3>1. header + i \in header + 1 .. Len(sheet)
      BY <1>6
    <3>2. sheet[header + i] /= "broken"
      BY <1>7, <3>1
    <3> QED
      BY <2>1, <3>2
  <2> QED
    BY <2>2, <2>3
<1> QED
  BY <1>4, <1>5, <1>9, <1>10, <1>11 DEF Agrees

\* Where no row is broken, the first row that is not blank is the header.
LEMMA SameHeader ==
  ASSUME NEW sheet \in Seq(AnyRow), \A i \in 1 .. Len(sheet) : sheet[i] /= "broken"
  PROVE  /\ NotBlank(sheet) = WithValues(sheet)
         /\ SelectInSeq(sheet, HasValue) = HeaderRow(sheet)
<1>1. \A i \in 1 .. Len(sheet) : sheet[i] \in AnyRow
  OBVIOUS
<1>2. NotBlank(sheet) = WithValues(sheet)
  BY <1>1 DEF NotBlank, WithValues, HasValue, AnyRow, RowKinds
<1>3. SelectInSeq(sheet, HasValue) = IF WithValues(sheet) /= {} THEN Min(WithValues(sheet)) ELSE 0
  BY DEF SelectInSeq, WithValues
<1> QED
  BY <1>2, <1>3, HeaderIs

LEMMA XlsxAgrees ==
  ASSUME NEW sheets \in Seq(Seq(AnyRow)), Shown("xlsx", sheets)
  PROVE  Agrees("xlsx", sheets)
<1> DEFINE listed == {s \in 1 .. Len(sheets) : \E i \in 1 .. Len(sheets[s]) : HasValue(sheets[s][i])}
           first == Min(listed)
           sheet == sheets[first]
           header == HeaderRow(sheet)
           left == Len(sheet) - header
           summary == Summary([i \in 1 .. left |-> header + i])
<1>1. XlsxAnalyze(sheets).error = "none"
  BY DEF Shown, Analyze
<1>2. /\ ~ \E s \in 1 .. Len(sheets) : Contains(sheets[s], "broken")
      /\ listed /= {}
      /\ XlsxAnalyze(sheets) = Analysis([s \in listed |-> XlsxAnalyzeSheet(sheets[s])])
  BY <1>1 DEF XlsxAnalyze, Unreadable, NoHeader
<1>3. \A s \in 1 .. Len(sheets) : sheets[s] \in Seq(AnyRow)
  OBVIOUS
<1>4. \A s \in 1 .. Len(sheets) : \A i \in 1 .. Len(sheets[s]) : sheets[s][i] /= "broken"
  BY <1>2 DEF Contains
<1>5. listed \in SUBSET Nat /\ listed \in SUBSET (1 .. Len(sheets))
  OBVIOUS
<1>6. listed = {s \in 1 .. Len(sheets) : HeaderRow(sheets[s]) /= 0}
  <2>1. SUFFICES ASSUME NEW s \in 1 .. Len(sheets)
                 PROVE  (\E i \in 1 .. Len(sheets[s]) : HasValue(sheets[s][i]))
                          <=> HeaderRow(sheets[s]) /= 0
    OBVIOUS
  <2>2. NotBlank(sheets[s]) = WithValues(sheets[s])
    BY <1>3, <1>4, SameHeader
  <2>3. HeaderRow(sheets[s]) = 0 <=> NotBlank(sheets[s]) = {}
    BY <1>3, HeaderIs
  <2> QED
    BY <2>2, <2>3 DEF WithValues
<1>7. SelectInSeq(sheets, LAMBDA one : HeaderRow(one) /= 0) = first
  BY <1>2, <1>6 DEF SelectInSeq
<1> HIDE DEF listed
<1>8. first \in listed /\ first \in 1 .. Len(sheets) /\ sheet \in Seq(AnyRow) /\ header /= 0
  BY <1>2, <1>3, <1>5, <1>6, MinIsLeast
<1>9. header \in 1 .. Len(sheet) /\ left \in Nat /\ header \in Nat /\ Len(sheet) \in Nat
  BY <1>8, HeaderIs
<1>10. SelectInSeq(sheet, HasValue) = header
  BY <1>4, <1>8, SameHeader
<1>11. HasValue(sheet[header])
  <2>1. sheet[header] /= "broken" /\ sheet[header] \in AnyRow
    BY <1>4, <1>8, <1>9
  <2>2. header \in NotBlank(sheet)
    <3>1. NotBlank(sheet) \in SUBSET Nat
      BY DEF NotBlank
    <3>2. /\ header = IF NotBlank(sheet) /= {} THEN Min(NotBlank(sheet)) ELSE 0
          /\ NotBlank(sheet) /= {}
      BY <1>8, HeaderIs
    <3> QED
      BY <3>1, <3>2, MinIsLeast
  <2> QED
    BY <2>1, <2>2 DEF NotBlank, HasValue, AnyRow, RowKinds
<1> HIDE DEF first
<1>12. first /= 0
  BY <1>8
<1>13. Open("xlsx", sheets) = Reader(first, header, header)
  BY <1>7, <1>11, <1>12 DEF Open, XlsxOpen
<1>14. /\ Reader(first, header, header).error = "none" /\ Reader(first, header, header).sheet = first
       /\ Reader(first, header, header).row = header /\ Reader(first, header, header).counted = header
  BY DEF Reader
<1>15. FirstShown("xlsx", sheets) = summary
  <2>1. XlsxAnalyzeSheet(sheet) = summary
    BY <1>10 DEF XlsxAnalyzeSheet
  <2> HIDE DEF summary, sheet
  <2>2. Analyze("xlsx", sheets).sheets = [s \in listed |-> XlsxAnalyzeSheet(sheets[s])]
    BY <1>2 DEF Analyze, Analysis
  <2>3. FirstShown("xlsx", sheets) = XlsxAnalyzeSheet(sheets[first])
    BY <1>8, <2>2 DEF FirstShown, first
  <2> QED
    BY <2>1, <2>3 DEF sheet
<1>16. /\ summary.rows = left
       /\ \A i \in DOMAIN summary.samples : summary.samples[i] = header + i
  BY <1>9, SummaryShows
<1> HIDE DEF summary
<1>17. ASSUME NEW blank \in {"good", "bad"}
      PROVE  /\ Len(RowsOf("xlsx", sheets, blank)) = left
             /\ \A i \in 1 .. left : RowsOf("xlsx", sheets, blank)[i] /= "broken"
  <2>1. RowsOf("xlsx", sheets, blank) =
          [i \in 1 .. left |-> IF sheet[header + i] = "blank" THEN blank ELSE sheet[header + i]]
    BY <1>13, <1>14 DEF RowsOf
  <2>2. Len(RowsOf("xlsx", sheets, blank)) = left
    BY <1>9, <2>1
  <2>3. ASSUME NEW i \in 1 .. left PROVE RowsOf("xlsx", sheets, blank)[i] /= "broken"
    <3>1. header + i \in 1 .. Len(sheet)
      BY <1>9
    <3>2. sheet[header + i] /= "broken"
      BY <1>4, <1>8, <3>1
    <3> QED
      BY <2>1, <3>2
  <2> QED
    BY <2>2, <2>3
<1> QED
  BY <1>13, <1>14, <1>15, <1>16, <1>17 DEF Agrees

\* Both adapters: a file that can be analyzed can be opened, at the rows that
\* were counted and shown.
LEMMA AdaptersAgree ==
  ASSUME NEW form \in {"csv", "xlsx"}, NEW sheets \in Seq(Seq(AnyRow)),
         form = "csv" => Len(sheets) = 1, Shown(form, sheets)
  PROVE  Agrees(form, sheets)
BY CsvAgrees, XlsxAgrees

-----------------------------------------------------------------------------
(* The answer to an error.                                                 *)

Causes == DOMAIN StatusMap

LEMMA CauseNames ==
  /\ Causes = {"invalid_request", "unsupported_media_type", "invalid_schema", "schema_exists",
               "schema_not_found", "file_store_unavailable", "source_adapter_unavailable",
               "importer_unavailable", "executor_unavailable", "processor_unavailable",
               "no_header", "not_found", "deadline_exceeded", "canceled"}
  /\ \A c \in Causes : StatusMap[c] \in Statuses \ {0, 200}
BY DEF Causes, StatusMap, Statuses

LEMMA CauseHasCode == \A c \in Causes : \E i \in 1 .. Len(Codes) : Codes[i] = c
<1>1. /\ Len(Codes) = 14
      /\ Codes[1] = "invalid_request" /\ Codes[2] = "unsupported_media_type"
      /\ Codes[3] = "invalid_schema" /\ Codes[4] = "schema_exists"
      /\ Codes[5] = "schema_not_found" /\ Codes[6] = "file_store_unavailable"
      /\ Codes[7] = "source_adapter_unavailable" /\ Codes[8] = "importer_unavailable"
      /\ Codes[9] = "executor_unavailable" /\ Codes[10] = "processor_unavailable"
      /\ Codes[11] = "no_header" /\ Codes[12] = "not_found"
      /\ Codes[13] = "deadline_exceeded" /\ Codes[14] = "canceled"
  BY DEF Codes
<1> QED
  BY <1>1, CauseNames

\* An error that errors.As finds no MappingError in.
Undetailed(err) == err.detail = ""

\* The code of an error without a detail is one of its causes.
LEMMA CodeIsACause ==
  ASSUME NEW err, Undetailed(err), err.causes /= {}, err.causes \subseteq Causes
  PROVE  ErrorCode(err) \in err.causes
<1> DEFINE places == {i \in 1 .. Len(Codes) : Codes[i] \in err.causes}
<1>1. places /= {} /\ places \in SUBSET Nat
  <2>1. \E i \in 1 .. Len(Codes) : Codes[i] \in err.causes
    BY CauseHasCode
  <2>2. Len(Codes) = 14
    BY DEF Codes
  <2>3. places \in SUBSET (1 .. 14)
    BY <2>2
  <2>4. 1 .. 14 \subseteq Nat
    OBVIOUS
  <2> QED
    BY <2>1, <2>3, <2>4
<1>2. Min(places) \in places
  BY <1>1, MinIsLeast
<1>3. SelectInSeq(Codes, LAMBDA c : c \in err.causes) = Min(places)
  BY <1>1 DEF SelectInSeq
<1>4. ErrorCode(err) = Codes[Min(places)]
  BY <1>3, Zenon DEF ErrorCode, Undetailed
<1> QED
  BY <1>2, <1>4

\* The errors of this code: one cause, or a detail, or none of both.
OwnErrors == {Unmapped, BadMapping} \cup {Because(c) : c \in Causes}

\* No header is found by who cannot analyze the file either.
FitsFile(err) == "no_header" \in err.causes => ~Shown(format, content)

\* An answer to an error: one status per code.
Good(reply) ==
  /\ reply.status \in Statuses \ {0, 200} /\ reply.code \in ErrorNames
  /\ reply.code \in Causes => reply.status = StatusMap[reply.code]
  /\ reply.code = "no_header" => ~Shown(format, content)

LEMMA GoodReplies ==
  ASSUME NEW err \in OwnErrors, FitsFile(err)
  PROVE  Replies(err) /= {} /\ \A reply \in Replies(err) : Good(reply)
<1>1. CASE err = Unmapped
  <2>1. StatusCodes(err) = {500} /\ ErrorCode(err) = "internal_error"
    BY <1>1 DEF StatusCodes, ErrorCode, Unmapped
  <2>2. Replies(err) = {[status |-> 500, code |-> "internal_error"]}
    BY <2>1 DEF Replies
  <2>3. \A reply \in Replies(err) : reply.status = 500 /\ reply.code = "internal_error"
    BY <2>2
  <2> QED
    BY <2>2, <2>3, CauseNames DEF Good, Statuses, ErrorNames, Causes
<1>2. CASE err = BadMapping
  <2>1. StatusCodes(err) = {400} /\ ErrorCode(err) = "invalid_mapping"
    BY <1>2 DEF StatusCodes, ErrorCode, BadMapping
  <2>2. Replies(err) = {[status |-> 400, code |-> "invalid_mapping"]}
    BY <2>1 DEF Replies
  <2>3. \A reply \in Replies(err) : reply.status = 400 /\ reply.code = "invalid_mapping"
    BY <2>2
  <2> QED
    BY <2>2, <2>3, CauseNames DEF Good, Statuses, ErrorNames, Causes
<1>3. ASSUME NEW c \in Causes, err = Because(c)
      PROVE  Replies(err) /= {} /\ \A reply \in Replies(err) : Good(reply)
  <2>1. err.causes = {c} /\ Undetailed(err)
    BY <1>3 DEF Because, Undetailed
  <2>2. StatusCodes(err) = {StatusMap[c]}
    BY <2>1 DEF StatusCodes
  <2>3. ErrorCode(err) = c
    BY <2>1, CodeIsACause
  <2>4. Replies(err) = {[status |-> StatusMap[c], code |-> c]}
    BY <2>2, <2>3 DEF Replies
  <2>5. \A reply \in Replies(err) : reply.status = StatusMap[c] /\ reply.code = c
    BY <2>4
  <2>6. c = "no_header" => ~Shown(format, content)
    BY <2>1 DEF FitsFile
  <2>7. StatusMap[c] \in Statuses \ {0, 200}
    BY <1>3, CauseNames
  <2> QED
    BY <2>4, <2>5, <2>6, <2>7 DEF Good, ErrorNames, Causes
<1> QED
  BY <1>1, <1>2, <1>3 DEF OwnErrors

\* What a step may fail with, given what the file holds.
OwnHere == {err \in OwnErrors : FitsFile(err)}

\* ... and what the import may fail with before its loop.
SetupHere == OwnHere \cap SetupErrors

\* The errors that need nothing of the file.
LEMMA PlainErrors ==
  /\ {Unmapped, BadMapping} \cup ContextErrors \subseteq OwnHere
  /\ \A c \in Causes \ {"no_header"} : Because(c) \in OwnHere
  /\ {Unmapped, BadMapping} \cup ContextErrors \subseteq SetupErrors
  /\ \A c \in {"executor_unavailable", "processor_unavailable", "schema_not_found", "not_found"} :
       Because(c) \in SetupErrors
<1>1. Unmapped.causes = {} /\ BadMapping.causes = {}
  BY DEF Unmapped, BadMapping
<1>2. \A c : Because(c).causes = {c}
  BY DEF Because
<1>3. /\ {Unmapped, BadMapping} \cup ContextErrors \subseteq SetupErrors
      /\ \A c \in {"executor_unavailable", "processor_unavailable", "schema_not_found",
                    "not_found"} : Because(c) \in SetupErrors
  BY DEF SetupErrors, ContextErrors
<1> QED
  BY <1>1, <1>2, <1>3, CauseNames DEF OwnErrors, OwnHere, ContextErrors, FitsFile

\* What the request has of the file, and the file of the adapter.
ContentIs ==
  /\ format \in {"csv", "xlsx"} /\ content \in Seq(Seq(AnyRow))
  /\ format = "csv" => Len(content) = 1
  /\ \E blank \in {"good", "bad"} : rows = RowsOf(format, content, blank)

LEMMA ContentAgrees ==
  ASSUME ContentIs, Shown(format, content)
  PROVE  Agrees(format, content)
BY AdaptersAgree DEF ContentIs

LEMMA SourceErrors ==
  ASSUME NEW opened, ~Shown(format, content)
  PROVE  SourceError(opened) \in SetupHere
<1>1. SourceError(opened) \in OwnHere
  BY CauseNames DEF SourceError, OwnErrors, OwnHere, FitsFile
<1>2. SourceError(opened) \in SetupErrors
  BY DEF SourceError, SetupErrors
<1> QED
  BY <1>1, <1>2 DEF SetupHere

-----------------------------------------------------------------------------
(* The errors of the import.                                               *)

\* A step leaves the file and the adapters as they are.
LEMMA DeploymentStays ==
  ASSUME [ApiNext]_allVars
  PROVE  UNCHANGED <<format, seekable, missing, content, rows>>
<1>1. CASE LoadSchema \/ OpenFile \/ FindColumns \/ OpenRows
  BY <1>1 DEF LoadSchema, OpenFile, FindColumns, OpenRows, Prepare, deployment, request
<1>2. CASE RunImport \/ HangUp
  BY <1>2 DEF RunImport, Begin, LoopHead, Read, Deliver, Accept, Refuse, Finish, End, HangUp,
              Cancel, apiVars, deployment, request
<1>3. CASE SendImport \/ HandleImport \/ AnswerImport \/ UNCHANGED allVars
  BY <1>3 DEF SendImport, HandleImport, AnswerImport, allVars, apiVars, vars, deployment, request
<1>4. CASE Elsewhere
  BY <1>4 DEF Elsewhere, SendAnalysis, HandleAnalysis, SaveUpload, AnalyzeFile, Inspect,
              RegisterSchema, CompleteUpload, DeleteFile, ApiTerminated, allVars, apiVars, vars,
              deployment, request
<1> QED
  BY <1>1, <1>2, <1>3, <1>4 DEF ApiNext, Elsewhere

LEMMA ContentStep ==
  ASSUME ContentIs, [ApiNext]_allVars
  PROVE  ContentIs'
<1>1. UNCHANGED <<format, content, rows>>
  BY DeploymentStays
<1>2. \A blank : RowsOf(format', content', blank) = RowsOf(format, content, blank)
  BY <1>1
<1> QED
  BY <1>1, <1>2 DEF ContentIs

\* Each stage fails with an error of this code that fits the file.
LEMMA StageOwn ==
  ASSUME JobIsRecord, ContentIs, LoadSchema \/ OpenFile \/ FindColumns \/ OpenRows
  PROVE  job'.err = job.err \/ job'.err \in SetupHere
<1>1. CASE LoadSchema
  <2> DEFINE checks(flaw) ==
        << <<"executor" \in missing, {Because("executor_unavailable")}>>,
           <<cancelled, ContextErrors>>,
           <<flaw, {BadMapping}>>,
           <<"executor" \notin schemas, {Because("schema_not_found")}>>,
           <<"processor" \in missing, {Because("processor_unavailable")}>> >>
  <2>1. PICK flaw \in BOOLEAN : Prepare("load", "open", checks(flaw))
    BY <1>1 DEF LoadSchema
  <2>2. ASSUME NEW e \in FirstOf(checks(flaw))
        PROVE  e \in SetupHere
    <3>1. PICK n \in 1 .. 5 : e \in checks(flaw)[n][2]
      BY <2>2, FirstOfSound
    <3>2. /\ checks(flaw)[1][2] = {Because("executor_unavailable")}
          /\ checks(flaw)[2][2] = ContextErrors /\ checks(flaw)[3][2] = {BadMapping}
          /\ checks(flaw)[4][2] = {Because("schema_not_found")}
          /\ checks(flaw)[5][2] = {Because("processor_unavailable")}
      OBVIOUS
    <3> HIDE DEF checks
    <3>3. {"executor_unavailable", "schema_not_found", "processor_unavailable"}
            \subseteq Causes \ {"no_header"}
      BY CauseNames
    <3> QED
      BY <3>1, <3>2, <3>3, PlainErrors DEF SetupHere
  <2> QED
    BY <2>1, <2>2, PrepareOutcome
<1>2. CASE OpenFile
  <2> DEFINE checks(closed, flaw) ==
        << <<cancelled, ContextErrors>>,
           <<closed, {Unmapped}>>,
           <<file /= "stored", {Because("not_found")}>>,
           <<flaw, {BadMapping}>> >>
  <2>1. PICK closed, flaw \in BOOLEAN : Prepare("open", "columns", checks(closed, flaw))
    BY <1>2 DEF OpenFile
  <2>2. ASSUME NEW e \in FirstOf(checks(closed, flaw))
        PROVE  e \in SetupHere
    <3>1. PICK n \in 1 .. 4 : e \in checks(closed, flaw)[n][2]
      BY <2>2, FirstOfSound
    <3>2. /\ checks(closed, flaw)[1][2] = ContextErrors /\ checks(closed, flaw)[2][2] = {Unmapped}
          /\ checks(closed, flaw)[3][2] = {Because("not_found")}
          /\ checks(closed, flaw)[4][2] = {BadMapping}
      OBVIOUS
    <3> HIDE DEF checks
    <3>3. "not_found" \in Causes \ {"no_header"}
      BY CauseNames
    <3> QED
      BY <3>1, <3>2, <3>3, PlainErrors DEF SetupHere
  <2> QED
    BY <2>1, <2>2, PrepareOutcome
<1>3. CASE FindColumns
  <2> DEFINE analysis == Analyze(format, content)
             checks(flaw, stuck) == << <<cancelled, ContextErrors>>,
                                       <<analysis.error /= "none", {SourceError(analysis)}>>,
                                       <<flaw, {BadMapping}>>,
                                       <<stuck, {Unmapped}>> >>
             checked(flaw, stuck) == IF ~seekable THEN <<>> ELSE checks(flaw, stuck)
  <2>1. PICK flaw, stuck \in BOOLEAN : Prepare("columns", "rows", checked(flaw, stuck))
    BY <1>3 DEF FindColumns
  <2>2. ASSUME NEW e \in FirstOf(checked(flaw, stuck))
        PROVE  e \in SetupHere
    <3>1. seekable
      BY <2>2 DEF FirstOf
    <3>2. PICK n \in 1 .. 4 : checks(flaw, stuck)[n][1] /\ e \in checks(flaw, stuck)[n][2]
      BY <2>2, <3>1, FirstOfSound
    <3>3. /\ checks(flaw, stuck)[1][2] = ContextErrors
          /\ checks(flaw, stuck)[3][2] = {BadMapping} /\ checks(flaw, stuck)[4][2] = {Unmapped}
          /\ checks(flaw, stuck)[2][2] = {SourceError(analysis)}
          /\ checks(flaw, stuck)[2][1] <=> ~Shown(format, content)
      BY DEF Shown
    <3> HIDE DEF checks
    <3> QED
      BY <3>2, <3>3, PlainErrors, SourceErrors DEF SetupHere
  <2> QED
    BY <2>1, <2>2, PrepareOutcome
<1>4. CASE OpenRows
  <2> DEFINE reader == Open(format, content)
             checks(flaw) == << <<cancelled, ContextErrors>>,
                                <<reader.error /= "none", {SourceError(reader)}>>,
                                <<flaw, {BadMapping}>> >>
  <2>1. PICK flaw \in BOOLEAN : Prepare("rows", "run", checks(flaw))
    BY <1>4 DEF OpenRows
  <2>2. reader.error /= "none" => ~Shown(format, content)
    BY ContentAgrees DEF Agrees
  <2>3. ASSUME NEW e \in FirstOf(checks(flaw))
        PROVE  e \in SetupHere
    <3>1. PICK n \in 1 .. 3 : checks(flaw)[n][1] /\ e \in checks(flaw)[n][2]
      BY <2>3, FirstOfSound
    <3>2. /\ checks(flaw)[1][2] = ContextErrors /\ checks(flaw)[3][2] = {BadMapping}
          /\ checks(flaw)[2][2] = {SourceError(reader)}
          /\ checks(flaw)[2][1] <=> reader.error /= "none"
      OBVIOUS
    <3> HIDE DEF checks
    <3> QED
      BY <2>2, <3>1, <3>2, PlainErrors, SourceErrors DEF SetupHere
  <2> QED
    BY <2>1, <2>3, PrepareOutcome
<1> QED
  BY <1>1, <1>2, <1>3, <1>4

ErrIsOwn == job.err \in SetupHere

LEMMA OwnHereStays ==
  ASSUME [ApiNext]_allVars
  PROVE  OwnHere' = OwnHere /\ SetupHere' = SetupHere
BY DeploymentStays DEF OwnHere, SetupHere, FitsFile

LEMMA ErrStep ==
  ASSUME JobIsRecord, ContentIs, ErrIsOwn, [ApiNext]_allVars
  PROVE  ErrIsOwn'
<1>1. job'.err = job.err \/ job'.err \in SetupHere
  <2>1. CASE SendImport
    BY <2>1 DEF SendImport, JobIsRecord
  <2>2. CASE HandleImport
    BY <2>2 DEF HandleImport, JobIsRecord
  <2>3. CASE LoadSchema \/ OpenFile \/ FindColumns \/ OpenRows
    BY <2>3, StageOwn
  <2>4. CASE RunImport \/ HangUp \/ UNCHANGED allVars
    BY <2>4 DEF RunImport, HangUp, allVars, apiVars
  <2>5. CASE AnswerImport
    BY <2>5 DEF AnswerImport, JobIsRecord
  <2>6. CASE Elsewhere
    BY <2>6, ElsewhereIsSilent
  <2> QED
    BY <2>1, <2>2, <2>3, <2>4, <2>5, <2>6 DEF ApiNext, Elsewhere
<1> QED
  BY <1>1, OwnHereStays DEF ErrIsOwn

-----------------------------------------------------------------------------
(* The answers.                                                            *)

LEMMA OwnReplies ==
  ASSUME NEW err \in OwnHere
  PROVE  Replies(err) /= {} /\ \A reply \in Replies(err) : Good(reply)
BY GoodReplies DEF OwnHere

\* What a hook of the application says has a status too, and no header in it.
HookAnswer(reply) ==
  /\ reply.status \in Statuses \ {0, 200} /\ reply.code \in ErrorNames
  /\ reply.code /= "no_header"

LEMMA HookReplies ==
  ASSUME NEW err \in HookErrors, NEW reply \in Replies(err)
  PROVE  HookAnswer(reply)
<1>1. CASE err = Unmapped
  <2>1. StatusCodes(err) = {500} /\ ErrorCode(err) = "internal_error"
    BY <1>1 DEF StatusCodes, ErrorCode, Unmapped
  <2>2. Replies(err) = {[status |-> 500, code |-> "internal_error"]}
    BY <2>1 DEF Replies
  <2>3. reply.status = 500 /\ reply.code = "internal_error"
    BY <2>2
  <2> QED
    BY <2>3 DEF HookAnswer, Statuses, ErrorNames
<1>2. CASE err.causes = {"not_found", "schema_exists"} /\ Undetailed(err)
  <2>1. ErrorCode(err) \in {"not_found", "schema_exists"}
    BY <1>2, CodeIsACause, CauseNames
  <2>2. StatusCodes(err) = {StatusMap[c] : c \in {"not_found", "schema_exists"}}
    BY <1>2 DEF StatusCodes
  <2>3. StatusCodes(err) \subseteq Statuses \ {0, 200}
    BY <2>2, CauseNames
  <2> QED
    BY <2>1, <2>3, CauseNames DEF Replies, HookAnswer, ErrorNames, Causes
<1>3. err = Unmapped \/ (err.causes = {"not_found", "schema_exists"} /\ Undetailed(err))
  <2> DEFINE both == [causes |-> {"not_found", "schema_exists"}, detail |-> ""]
  <2>1. both.causes = {"not_found", "schema_exists"} /\ Undetailed(both)
    BY Zenon DEF Undetailed
  <2>2. err = Unmapped \/ err = both
    BY Zenon DEF HookErrors
  <2> HIDE DEF both
  <2> QED
    BY <2>1, <2>2
<1> QED
  BY <1>1, <1>2, <1>3

\* The answer to the import: none yet, that of a nil error, that of an error,
\* or what a hook of the application made of it.
JobAnswer ==
  \/ job.reply = NoReply
  \/ job.reply = Succeed /\ Done /\ error = "none"
  \/ Good(job.reply)
  \/ HookAnswer(job.reply) /\ Done /\ error \in {"begin", "end"}

LEMMA HandlerAnswers ==
  ASSUME JobIsRecord, HandleImport
  PROVE  job'.reply = job.reply \/ Good(job'.reply)
<1> DEFINE checks(flaw) ==
      << <<"service" \in missing, {ServiceMissing}>>,
         <<flaw = "media_type", {NoJSON}>>,
         <<flaw = "json", Replies(Because("invalid_request"))>>,
         <<"importer" \in missing, Replies(Because("importer_unavailable"))>> >>
<1>1. PICK flaw \in {"none", "media_type", "json"} :
        IF FirstOf(checks(flaw)) = {} THEN job' = [job EXCEPT !.stage = "load"]
        ELSE \E reply \in FirstOf(checks(flaw)) :
               job' = [job EXCEPT !.stage = "answered", !.reply = reply]
  BY DEF HandleImport
<1>2. CASE job' = [job EXCEPT !.stage = "load"]
  BY <1>2 DEF JobIsRecord
<1>3. ASSUME NEW reply \in FirstOf(checks(flaw)),
             job' = [job EXCEPT !.stage = "answered", !.reply = reply]
      PROVE  Good(job'.reply)
  <2>1. PICK n \in 1 .. 4 : reply \in checks(flaw)[n][2]
    BY <1>3, FirstOfSound
  <2>2. /\ checks(flaw)[1][2] = {ServiceMissing} /\ checks(flaw)[2][2] = {NoJSON}
        /\ checks(flaw)[3][2] = Replies(Because("invalid_request"))
        /\ checks(flaw)[4][2] = Replies(Because("importer_unavailable"))
    OBVIOUS
  <2>3. Good(ServiceMissing) /\ Good(NoJSON)
    <3>1. StatusMap["unsupported_media_type"] = 415
      BY DEF StatusMap
    <3> QED
      BY <3>1, CauseNames DEF Good, ServiceMissing, NoJSON, Statuses, ErrorNames, Causes
  <2>4. Because("invalid_request") \in OwnHere /\ Because("importer_unavailable") \in OwnHere
    BY PlainErrors, CauseNames
  <2>5. Good(reply)
    <3> HIDE DEF checks
    <3>1. \/ reply = ServiceMissing \/ reply = NoJSON
          \/ reply \in Replies(Because("invalid_request"))
          \/ reply \in Replies(Because("importer_unavailable"))
      BY <2>1, <2>2
    <3> QED
      BY <2>3, <2>4, <3>1, OwnReplies
  <2> QED
    BY <1>3, <2>5 DEF JobIsRecord
<1> QED
  BY <1>1, <1>2, <1>3

LEMMA ImportAnswers ==
  ASSUME TypeOK, JobIsRecord, ErrIsOwn, AnswerImport
  PROVE  JobAnswer'
<1>1. job.stage = "run" /\ Done /\ UNCHANGED <<pc, error, format, content>>
  BY DEF AnswerImport, vars, Done, deployment
<1>2. PICK reply \in IF error = "none" THEN {Succeed} ELSE UNION {Replies(e) : e \in ImportErrors} :
        job' = [job EXCEPT !.stage = "answered", !.reply = reply]
  BY Zenon DEF AnswerImport
<1>3. job'.reply = reply
  BY <1>2 DEF JobIsRecord
<1>4. Done' /\ (Good(reply)' <=> Good(reply)) /\ (HookAnswer(reply)' <=> HookAnswer(reply))
  BY <1>1 DEF Done, Good, HookAnswer
<1>5. CASE error = "none"
  <2>1. reply = Succeed
    BY <1>2, <1>5
  <2> QED
    BY <1>1, <1>3, <1>4, <1>5, <2>1 DEF JobAnswer, Succeed
<1>6. CASE error \in {"setup", "context", "read"}
  <2>1. ImportErrors \subseteq OwnHere
    BY <1>6, PlainErrors DEF ImportErrors, ErrIsOwn, SetupHere
  <2>2. PICK e \in OwnHere : reply \in Replies(e)
    BY <1>2, <1>6, <2>1
  <2>3. Good(reply)
    BY <2>2, OwnReplies
  <2> QED
    BY <1>3, <1>4, <2>3 DEF JobAnswer, Good
<1>7. CASE error \in {"begin", "end"}
  <2>1. ImportErrors = HookErrors
    BY <1>7 DEF ImportErrors
  <2>2. PICK e \in HookErrors : reply \in Replies(e)
    BY <1>2, <1>7, <2>1
  <2>3. HookAnswer(reply)
    BY <2>2, HookReplies
  <2> QED
    BY <1>1, <1>3, <1>4, <1>7, <2>3 DEF JobAnswer, HookAnswer
<1> QED
  BY <1>5, <1>6, <1>7 DEF TypeOK, Errors

LEMMA JobAnswerStep ==
  ASSUME TypeOK, StatusInv, ErrIsOwn, JobAnswer, [ApiNext]_allVars
  PROVE  JobAnswer'
<1> USE DEF StatusInv, OneRun
<1>0. UNCHANGED <<format, content>>
  BY DeploymentStays
<1>1. CASE SendImport
  <2>1. UNCHANGED <<job.reply, pc, error>>
    BY <1>1 DEF SendImport, JobIsRecord, vars
  <2> QED
    BY <1>0, <2>1 DEF JobAnswer, Good, HookAnswer, Done
<1>2. CASE HandleImport
  <2>1. job.reply = NoReply
    BY <1>2 DEF HandleImport, ReplyFits
  <2>2. job'.reply = job.reply \/ Good(job'.reply)
    BY <1>2, HandlerAnswers
  <2> QED
    BY <1>0, <2>1, <2>2 DEF JobAnswer, Good, NoReply
<1>3. CASE LoadSchema \/ OpenFile \/ FindColumns \/ OpenRows
  <2>1. job.reply = NoReply /\ job'.reply = job.reply
    BY <1>3, StageOutcome DEF ReplyFits
  <2> QED
    BY <2>1 DEF JobAnswer, NoReply
<1>4. CASE RunImport
  <2>1. job' = job /\ pc \notin {"setup", "done"}
    BY <1>4 DEF RunImport, Begin, LoopHead, Read, Deliver, Accept, Refuse, Finish, End, apiVars
  <2>2. job.reply = NoReply
    BY <2>1 DEF ReplyFits, Done
  <2> QED
    BY <2>1, <2>2 DEF JobAnswer, NoReply
<1>5. CASE HangUp \/ Elsewhere \/ UNCHANGED allVars
  <2>1. UNCHANGED <<job, pc, error>>
    BY <1>5, ElsewhereIsSilent DEF HangUp, Cancel, allVars, apiVars, vars
  <2> QED
    BY <1>0, <2>1 DEF JobAnswer, Good, HookAnswer, Done
<1>6. CASE AnswerImport
  BY <1>6, ImportAnswers
<1> QED
  BY <1>1, <1>2, <1>3, <1>4, <1>5, <1>6 DEF ApiNext, Elsewhere

\* The fields of the analysis request.
ProbeIsRecord == {"stage", "reply"} \subseteq DOMAIN probe

\* The answer to the analysis.
ProbeAnswer ==
  \/ probe.reply = NoReply
  \/ probe.reply = Succeed /\ Shown(format, content)
  \/ Good(probe.reply)

LEMMA InspectOutcome ==
  ASSUME NEW stage, NEW then, NEW checks, ProbeIsRecord, Inspect(stage, then, checks)
  PROVE  \/ FirstOf(checks) = {} /\ probe' = then
         \/ /\ probe'.stage = "answered" /\ probe'.reply \in FirstOf(checks)
            /\ {"stage", "reply"} \subseteq DOMAIN probe'
BY DEF Inspect, ProbeIsRecord

\* The first check that fails is found.
LEMMA FirstOfFinds ==
  ASSUME NEW checks, NEW k \in Nat, DOMAIN checks = 1 .. k,
         \A n \in 1 .. k : checks[n][2] /= {},
         NEW n \in 1 .. k, checks[n][1]
  PROVE  FirstOf(checks) /= {}
<1> DEFINE failing == {m \in 1 .. k : checks[m][1]}
<1>1. failing \in SUBSET Nat /\ failing /= {}
  OBVIOUS
<1>2. PICK m \in failing : \A other \in failing : m <= other
  BY <1>1, MinIsLeast
<1>3. \A before \in 1 .. m - 1 : ~checks[before][1]
  <2>1. SUFFICES ASSUME NEW before \in 1 .. m - 1, checks[before][1] PROVE FALSE
    OBVIOUS
  <2>2. before \in failing
    BY <1>2, <2>1
  <2> QED
    BY <1>1, <1>2, <2>1, <2>2
<1>4. m \in 1 .. k /\ checks[m][1]
  BY <1>2
<1>5. PICK e : e \in checks[m][2]
  BY <1>4
<1>6. e \in FirstOf(checks)
  BY <1>3, <1>4, <1>5 DEF FirstOf
<1> QED
  BY <1>6

\* An answer of the analysis handler to a check that failed.
LEMMA PlainReplies ==
  /\ \A c \in Causes \ {"no_header"} :
       Replies(Because(c)) /= {} /\ \A reply \in Replies(Because(c)) : Good(reply)
  /\ Replies(Unmapped) /= {} /\ \A reply \in Replies(Unmapped) : Good(reply)
  /\ \A e \in ContextErrors : Replies(e) /= {} /\ \A reply \in Replies(e) : Good(reply)
  /\ Good(ServiceMissing) /\ Good(NoJSON) /\ Good(NoFileId)
<1>1. StatusMap["unsupported_media_type"] = 415
  BY DEF StatusMap
<1>2. Good(ServiceMissing) /\ Good(NoJSON) /\ Good(NoFileId)
  BY <1>1, CauseNames DEF Good, ServiceMissing, NoJSON, NoFileId, Statuses, ErrorNames, Causes
<1> QED
  BY <1>2, PlainErrors, OwnReplies

LEMMA HandlerInspects ==
  ASSUME ProbeIsRecord, HandleAnalysis
  PROVE  ProbeIsRecord' /\ (probe'.reply = probe.reply \/ Good(probe'.reply))
<1> DEFINE byId(flaw) ==
             << <<"service" \in missing, {ServiceMissing}>>,
                <<flaw = "media_type", {NoJSON}>>,
                <<flaw = "body", Replies(Because("invalid_request"))>>,
                <<flaw = "no_file", {NoFileId}>> >>
           multipart(flaw, named) ==
             << <<"service" \in missing, {ServiceMissing}>>,
                <<flaw = "body", Replies(Because("invalid_request"))>>,
                <<~named /\ flaw = "no_file", Replies(Because("invalid_request"))>>,
                <<~named /\ "writer" \in missing, Replies(Because("file_store_unavailable"))>> >>
<1>1. PICK flaw \in {"none", "media_type", "body", "no_file"}, named \in BOOLEAN :
        \/ Inspect("json", [probe EXCEPT !.stage = "analyze"], byId(flaw))
        \/ Inspect("multipart", [probe EXCEPT !.stage = IF named THEN "analyze" ELSE "save"],
                   multipart(flaw, named))
  BY DEF HandleAnalysis
<1>2. \/ probe' = [probe EXCEPT !.stage = "analyze"]
      \/ probe' = [probe EXCEPT !.stage = "save"]
      \/ /\ probe'.reply \in FirstOf(byId(flaw)) \cup FirstOf(multipart(flaw, named))
         /\ {"stage", "reply"} \subseteq DOMAIN probe'
  <2> HIDE DEF byId, multipart
  <2> QED
    BY <1>1, InspectOutcome
<1>3. "invalid_request" \in Causes \ {"no_header"} /\ "file_store_unavailable" \in Causes \ {"no_header"}
  BY CauseNames
<1>4. \A reply \in FirstOf(byId(flaw)) : Good(reply)
  <2>1. SUFFICES ASSUME NEW reply \in FirstOf(byId(flaw)) PROVE Good(reply)
    OBVIOUS
  <2>2. PICK n \in 1 .. 4 : reply \in byId(flaw)[n][2]
    BY <2>1, FirstOfSound
  <2>3. /\ byId(flaw)[1][2] = {ServiceMissing} /\ byId(flaw)[2][2] = {NoJSON}
        /\ byId(flaw)[3][2] = Replies(Because("invalid_request")) /\ byId(flaw)[4][2] = {NoFileId}
    OBVIOUS
  <2> HIDE DEF byId
  <2> QED
    BY <1>3, <2>2, <2>3, PlainReplies
<1>5. \A reply \in FirstOf(multipart(flaw, named)) : Good(reply)
  <2>1. SUFFICES ASSUME NEW reply \in FirstOf(multipart(flaw, named)) PROVE Good(reply)
    OBVIOUS
  <2>2. PICK n \in 1 .. 4 : reply \in multipart(flaw, named)[n][2]
    BY <2>1, FirstOfSound
  <2>3. /\ multipart(flaw, named)[1][2] = {ServiceMissing}
        /\ multipart(flaw, named)[2][2] = Replies(Because("invalid_request"))
        /\ multipart(flaw, named)[3][2] = Replies(Because("invalid_request"))
        /\ multipart(flaw, named)[4][2] = Replies(Because("file_store_unavailable"))
    OBVIOUS
  <2> HIDE DEF multipart
  <2> QED
    BY <1>3, <2>2, <2>3, PlainReplies
<1> HIDE DEF byId, multipart
<1> QED
  BY <1>2, <1>4, <1>5 DEF ProbeIsRecord

LEMMA SaveInspects ==
  ASSUME ProbeIsRecord, SaveUpload
  PROVE  ProbeIsRecord' /\ (probe'.reply = probe.reply \/ Good(probe'.reply))
<1>1. CASE Inspect("save", [probe EXCEPT !.stage = "analyze"], <<>>)
  <2>1. FirstOf(<<>>) = {}
    BY DEF FirstOf
  <2> QED
    BY <1>1, <2>1 DEF Inspect, ProbeIsRecord
<1>2. ASSUME NEW err \in ContextErrors
                          \cup {Unmapped, Because("not_found"), Because("file_store_unavailable")},
             Inspect("save", probe, << <<TRUE, Replies(err)>> >>)
      PROVE  ProbeIsRecord' /\ (probe'.reply = probe.reply \/ Good(probe'.reply))
  <2> DEFINE checks == << <<TRUE, Replies(err)>> >>
  <2>1. \A reply \in Replies(err) : Good(reply)
    BY PlainReplies, CauseNames
  <2>2. \A reply \in FirstOf(checks) : reply \in Replies(err)
    BY FirstOfSound
  <2> HIDE DEF checks
  <2>3. \/ probe' = probe
        \/ probe'.reply \in FirstOf(checks) /\ {"stage", "reply"} \subseteq DOMAIN probe'
    BY <1>2, InspectOutcome DEF checks
  <2> QED
    BY <2>1, <2>2, <2>3 DEF ProbeIsRecord
<1> QED
  BY <1>1, <1>2 DEF SaveUpload

\* A 200 of the analysis is for a file that could be analyzed.
LEMMA AnalysisInspects ==
  ASSUME ProbeIsRecord, AnalyzeFile
  PROVE  /\ ProbeIsRecord'
         /\ \/ probe'.reply = Succeed /\ Shown(format, content)
            \/ Good(probe'.reply)
<1> DEFINE analysis == Analyze(format, content)
           hangups == UNION {Replies(e) : e \in ContextErrors}
           done == [probe EXCEPT !.stage = "answered", !.reply = Succeed]
           checks(gone, closed) ==
             << <<"files" \in missing, Replies(Because("file_store_unavailable"))>>,
                <<"source" \in missing, Replies(Because("source_adapter_unavailable"))>>,
                <<gone, hangups>>,
                <<closed, Replies(Unmapped)>>,
                <<file /= "stored", Replies(Because("not_found"))>>,
                <<analysis.error /= "none", Replies(SourceError(analysis))>> >>
<1>1. PICK gone, closed \in BOOLEAN : Inspect("analyze", done, checks(gone, closed))
  BY DEF AnalyzeFile
<1> DEFINE all == checks(gone, closed)
<1> HIDE DEF hangups, analysis
<1>2. /\ all[1][2] = Replies(Because("file_store_unavailable"))
      /\ all[2][2] = Replies(Because("source_adapter_unavailable"))
      /\ all[3][2] = hangups
      /\ all[4][2] = Replies(Unmapped) /\ all[5][2] = Replies(Because("not_found"))
      /\ all[6][2] = Replies(SourceError(analysis))
      /\ all[6][1] = (analysis.error /= "none")
      /\ DOMAIN all = 1 .. 6
  OBVIOUS
<1>3. {"file_store_unavailable", "source_adapter_unavailable", "not_found"}
        \subseteq Causes \ {"no_header"}
  BY CauseNames
<1>4. analysis.error /= "none" =>
        SourceError(analysis) \in OwnHere
  BY SourceErrors DEF Shown, analysis, SetupHere
<1>5. SourceError(analysis) = Unmapped \/ SourceError(analysis) = Because("no_header")
  BY DEF SourceError
<1>6. Replies(SourceError(analysis)) /= {}
  <2>1. Because("no_header").causes = {"no_header"}
    BY DEF Because
  <2>2. StatusCodes(Because("no_header")) = {StatusMap["no_header"]}
    BY <2>1 DEF StatusCodes
  <2>3. Replies(Because("no_header")) /= {}
    BY <2>2 DEF Replies
  <2> QED
    BY <1>5, <2>3, PlainReplies
<1>7. hangups /= {}
  <2>1. Because("canceled") \in ContextErrors
    BY DEF ContextErrors
  <2>2. Replies(Because("canceled")) /= {}
    BY <2>1, PlainReplies
  <2> QED
    BY <2>1, <2>2 DEF hangups
<1> HIDE DEF checks
<1>8. \A n \in 1 .. 6 : all[n][2] /= {}
  BY <1>2, <1>3, <1>6, <1>7, PlainReplies
<1>9. FirstOf(all) = {} => analysis.error = "none"
  <2>1. SUFFICES ASSUME analysis.error /= "none" PROVE FirstOf(all) /= {}
    OBVIOUS
  <2>2. all[6][1]
    BY <1>2, <2>1
  <2>3. DOMAIN all = 1 .. 6
    BY <1>2
  <2> HIDE DEF all
  <2>4. \A k \in Nat : DOMAIN all = 1 .. k /\ (\A n \in 1 .. k : all[n][2] /= {}) =>
          \A n \in 1 .. k : all[n][1] => FirstOf(all) /= {}
    BY FirstOfFinds
  <2>5. \A n \in 1 .. 6 : all[n][1] => FirstOf(all) /= {}
    BY <1>8, <2>3, <2>4
  <2> QED
    BY <2>2, <2>5
<1>10. ASSUME NEW reply \in FirstOf(all) PROVE Good(reply)
  <2>1. PICK n \in 1 .. 6 : all[n][1] /\ reply \in all[n][2]
    BY <1>2, <1>10, FirstOfSound
  <2>2. \A answer \in hangups : Good(answer)
    BY PlainReplies DEF hangups
  <2> HIDE DEF all
  <2>3. \/ reply \in Replies(Because("file_store_unavailable"))
        \/ reply \in Replies(Because("source_adapter_unavailable"))
        \/ reply \in hangups
        \/ reply \in Replies(Unmapped)
        \/ reply \in Replies(Because("not_found"))
        \/ reply \in Replies(SourceError(analysis)) /\ analysis.error /= "none"
    <3>1. n = 1 \/ n = 2 \/ n = 3 \/ n = 4 \/ n = 5 \/ n = 6
      OBVIOUS
    <3> QED
      BY <1>2, <2>1, <3>1
  <2> QED
    BY <1>3, <1>4, <2>2, <2>3, PlainReplies, OwnReplies
<1> HIDE DEF all
<1>11. CASE FirstOf(all) = {} /\ probe' = done
  BY <1>9, <1>11 DEF ProbeIsRecord, Shown, analysis
<1>12. CASE probe'.reply \in FirstOf(all) /\ {"stage", "reply"} \subseteq DOMAIN probe'
  BY <1>10, <1>12 DEF ProbeIsRecord
<1> QED
  BY <1>1, <1>11, <1>12, InspectOutcome DEF all

LEMMA ProbeStep ==
  ASSUME ProbeIsRecord, ProbeAnswer, [ApiNext]_allVars
  PROVE  ProbeIsRecord' /\ ProbeAnswer'
<1>0. UNCHANGED <<format, content>>
  BY DeploymentStays
<1>1. CASE SendAnalysis
  <2>1. ProbeIsRecord' /\ probe'.reply = probe.reply
    BY <1>1 DEF SendAnalysis, ProbeIsRecord
  <2> QED
    BY <1>0, <2>1 DEF ProbeAnswer, Good
<1>2. CASE HandleAnalysis \/ SaveUpload
  <2>1. ProbeIsRecord' /\ (probe'.reply = probe.reply \/ Good(probe'.reply))
    BY <1>2, HandlerInspects, SaveInspects
  <2> QED
    BY <1>0, <2>1 DEF ProbeAnswer, Good
<1>3. CASE AnalyzeFile
  <2>1. /\ ProbeIsRecord'
        /\ \/ probe'.reply = Succeed /\ Shown(format, content)
           \/ Good(probe'.reply)
    BY <1>3, AnalysisInspects
  <2> QED
    BY <1>0, <2>1 DEF ProbeAnswer, Good, Succeed
<1>4. CASE \/ SendImport \/ HandleImport \/ LoadSchema \/ OpenFile \/ FindColumns \/ OpenRows
           \/ RunImport \/ HangUp \/ AnswerImport \/ RegisterSchema \/ CompleteUpload \/ DeleteFile
           \/ UNCHANGED allVars
  <2>1. probe' = probe
    BY <1>4 DEF SendImport, HandleImport, LoadSchema, OpenFile, FindColumns, OpenRows, Prepare,
                RunImport, HangUp, AnswerImport, RegisterSchema, CompleteUpload, DeleteFile,
                allVars, apiVars
  <2> QED
    BY <1>0, <2>1 DEF ProbeIsRecord, ProbeAnswer, Good
<1> QED
  BY <1>1, <1>2, <1>3, <1>4 DEF ApiNext, ApiTerminated

-----------------------------------------------------------------------------
(* Types, and the answers of the two requests together.                    *)

LEMMA EmptyCodes == NoReply.code = "" /\ Succeed.code = ""
  BY Zenon DEF NoReply, Succeed

LEMMA AnswerFields ==
  /\ NoReply.status = 0 /\ Succeed.status = 200
  /\ NoReply.code \notin Causes /\ Succeed.code \notin Causes
<1>1. NoReply.status = 0 /\ Succeed.status = 200
  BY DEF NoReply, Succeed
<1>2. "" \notin Causes
  BY Zenon, CauseNames
<1> QED
  BY <1>1, <1>2, EmptyCodes, Zenon

\* What the deployment has, and where the file and the requests are.
Placed ==
  /\ seekable \in BOOLEAN /\ missing \subseteq Parts
  /\ schemas \subseteq {"service", "executor"}
  /\ file \in {"absent", "stored", "deleted"}
  /\ job.stage \in {"idle", "sent", "load", "open", "columns", "rows", "run", "answered"}
  /\ probe.stage \in {"idle", "json", "multipart", "save", "analyze", "answered"}

LEMMA JobPlaced ==
  ASSUME JobIsRecord, Placed, [ApiNext]_allVars
  PROVE  job'.stage \in {"idle", "sent", "load", "open", "columns", "rows", "run", "answered"}
<1>1. CASE SendImport \/ HandleImport \/ AnswerImport
  BY <1>1 DEF SendImport, HandleImport, AnswerImport, JobIsRecord
<1>2. CASE LoadSchema \/ OpenFile \/ FindColumns \/ OpenRows
  BY <1>2, StageOutcome
<1>3. CASE RunImport \/ HangUp \/ UNCHANGED allVars
  BY <1>3 DEF RunImport, HangUp, allVars, apiVars, Placed
<1>4. CASE Elsewhere
  BY <1>4, ElsewhereIsSilent DEF Placed
<1> QED
  BY <1>1, <1>2, <1>3, <1>4 DEF ApiNext, Elsewhere

LEMMA ProbePlaced ==
  ASSUME ProbeIsRecord, Placed, [ApiNext]_allVars
  PROVE  probe'.stage \in {"idle", "json", "multipart", "save", "analyze", "answered"}
<1>1. CASE SendAnalysis
  BY <1>1 DEF SendAnalysis, ProbeIsRecord
<1>2. CASE HandleAnalysis
  BY <1>2 DEF HandleAnalysis, Inspect, ProbeIsRecord
<1>3. CASE SaveUpload
  BY <1>3 DEF SaveUpload, Inspect, ProbeIsRecord, Placed
<1>4. CASE AnalyzeFile
  BY <1>4 DEF AnalyzeFile, Inspect, ProbeIsRecord
<1>5. CASE \/ SendImport \/ HandleImport \/ LoadSchema \/ OpenFile \/ FindColumns \/ OpenRows
           \/ RunImport \/ HangUp \/ AnswerImport \/ RegisterSchema \/ CompleteUpload \/ DeleteFile
           \/ UNCHANGED allVars
  BY <1>5 DEF SendImport, HandleImport, LoadSchema, OpenFile, FindColumns, OpenRows, Prepare,
              RunImport, HangUp, AnswerImport, RegisterSchema, CompleteUpload, DeleteFile,
              allVars, apiVars, Placed
<1> QED
  BY <1>1, <1>2, <1>3, <1>4, <1>5 DEF ApiNext, ApiTerminated

LEMMA PlacedStep ==
  ASSUME JobIsRecord, ProbeIsRecord, Placed, [ApiNext]_allVars
  PROVE  Placed'
<1>1. UNCHANGED <<seekable, missing>>
  BY DeploymentStays
<1>2. CASE LoadSchema \/ OpenFile \/ FindColumns \/ OpenRows
  BY <1>1, <1>2, StageOutcome, JobPlaced, ProbePlaced DEF Placed
<1>3. CASE RunImport \/ HangUp \/ UNCHANGED allVars
  BY <1>1, <1>3, JobPlaced, ProbePlaced DEF RunImport, HangUp, allVars, apiVars, Placed
<1>4. CASE SendImport \/ HandleImport \/ AnswerImport
  BY <1>1, <1>4, JobPlaced, ProbePlaced DEF SendImport, HandleImport, AnswerImport, Placed
<1>5. CASE Elsewhere
  <2>1. schemas' = schemas \/ schemas' \subseteq {"service", "executor"}
    BY <1>5 DEF Elsewhere, SendAnalysis, HandleAnalysis, SaveUpload, AnalyzeFile, Inspect,
                RegisterSchema, CompleteUpload, DeleteFile, ApiTerminated, allVars, apiVars
  <2>2. file' = file \/ file' = "stored" \/ file' = "deleted"
    BY <1>5 DEF Elsewhere, SendAnalysis, HandleAnalysis, SaveUpload, AnalyzeFile, Inspect,
                RegisterSchema, CompleteUpload, DeleteFile, ApiTerminated, allVars, apiVars
  <2> QED
    BY <1>1, <2>1, <2>2, JobPlaced, ProbePlaced DEF Placed
<1> QED
  BY <1>2, <1>3, <1>4, <1>5 DEF ApiNext, Elsewhere

\* An import whose client stayed stops reading at a broken row only.
ReadFails == error = "read" => cancelled \/ \E i \in 1 .. Len(rows) : rows[i] = "broken"

LEMMA ReadFailsStep ==
  ASSUME TypeOK, ReadFails, [Next]_vars
  PROVE  ReadFails'
<1>1. CASE Read
  <2>1. UNCHANGED <<rows, cancelled>>
    BY <1>1 DEF Read, request
  <2>2. next \in Nat /\ Len(rows) \in Nat
    BY RowFacts
  <2>3. \/ error' = "read" /\ (cancelled \/ (next < Len(rows) /\ rows[next + 1] = "broken"))
        \/ error' = error
    BY <1>1 DEF Read, Goto, Return, Reject
  <2>4. next < Len(rows) => next + 1 \in 1 .. Len(rows)
    BY <2>2
  <2> QED
    BY <2>1, <2>3, <2>4 DEF ReadFails
<1>2. CASE Setup \/ Begin \/ LoopHead \/ Deliver \/ Accept \/ Refuse \/ Finish \/ End
  <2>1. UNCHANGED <<rows, cancelled>> /\ (error' = error \/ error' /= "read")
    BY <1>2 DEF Setup, Begin, LoopHead, Deliver, Accept, Refuse, Reject, Finish, End, Goto, Return,
                request
  <2> QED
    BY <2>1 DEF ReadFails
<1>3. CASE Cancel
  BY <1>3 DEF Cancel, ReadFails, request
<1>4. CASE UNCHANGED vars
  BY <1>4 DEF vars, request, ReadFails
<1> QED
  BY <1>1, <1>2, <1>3, <1>4 DEF Next, Import, Terminated

AnswersInv ==
  /\ ContentIs /\ ErrIsOwn /\ JobAnswer
  /\ ProbeIsRecord /\ ProbeAnswer
  /\ Placed /\ ReadFails

LEMMA AnswersInit == ApiInit => AnswersInv
<1> SUFFICES ASSUME ApiInit PROVE AnswersInv
  OBVIOUS
<1>1. PICK setting \in Settings :
        /\ format = setting.format /\ content = setting.content
        /\ rows = RowsOf(format, content, setting.blank)
        /\ seekable = setting.seekable /\ missing = setting.missing
  BY DEF ApiInit
<1>7. /\ setting \in AllSettings
      /\ format = "csv" => Len(content) = 1
  BY <1>1, SettingsAssumption
<1>8. ContentIs /\ seekable \in BOOLEAN /\ missing \subseteq Parts
  BY <1>1, <1>7 DEF AllSettings, AnyRow, ContentIs
<1>2. job.stage = "idle" /\ job.err = Unmapped /\ job.reply = NoReply
  BY DEF ApiInit, IdleJob
<1>3. probe.stage = "idle" /\ probe.reply = NoReply /\ ProbeIsRecord
  BY DEF ApiInit, IdleProbe, ProbeIsRecord
<1>4. ErrIsOwn /\ JobAnswer /\ ProbeAnswer
  BY <1>2, <1>3, PlainErrors DEF ErrIsOwn, SetupHere, JobAnswer, ProbeAnswer
<1>5. Placed
  BY <1>2, <1>3, <1>8 DEF ApiInit, Placed
<1>6. ReadFails
  BY DEF ApiInit, Init, ReadFails
<1> QED
  BY <1>3, <1>4, <1>5, <1>6, <1>8 DEF AnswersInv

\* An answer as ApiTypeOK has it.
Typed(reply) ==
  /\ reply.status \in Statuses
  /\ reply.code \in IF reply.status \in {0, 200} THEN {""} ELSE ErrorNames

LEMMA AnswersTyped ==
  ASSUME NEW reply, reply \in {NoReply, Succeed} \/ Good(reply) \/ HookAnswer(reply)
  PROVE  Typed(reply)
<1>1. CASE reply \in {NoReply, Succeed}
  <2>1. reply.code = ""
    BY <1>1, EmptyCodes, Zenon
  <2>2. reply.status \in {0, 200} /\ reply.status \in Statuses
    BY <1>1, AnswerFields DEF Statuses
  <2> QED
    BY <2>1, <2>2, Zenon DEF Typed
<1>2. CASE Good(reply) \/ HookAnswer(reply)
  <2>1. reply.code \in ErrorNames /\ reply.status \in Statuses /\ reply.status \notin {0, 200}
    BY <1>2 DEF Good, HookAnswer
  <2> QED
    BY <2>1, Zenon DEF Typed
<1> QED
  BY <1>1, <1>2

LEMMA AnswersStep ==
  ASSUME TypeOK, StatusInv, AnswersInv, [ApiNext]_allVars
  PROVE  AnswersInv'
<1>1. OneRun /\ JobIsRecord
  BY DEF StatusInv, OneRun
<1>2. ContentIs' /\ ErrIsOwn' /\ JobAnswer'
  BY <1>1, ContentStep, ErrStep, JobAnswerStep DEF AnswersInv
<1>3. ProbeIsRecord' /\ ProbeAnswer' /\ Placed'
  BY <1>1, ProbeStep, PlacedStep DEF AnswersInv
<1>4. ReadFails'
  BY <1>1, OneRunStep, ReadFailsStep DEF AnswersInv
<1> QED
  BY <1>2, <1>3, <1>4 DEF AnswersInv

LEMMA AnswersInvariance == ApiSpec => []AnswersInv
<1>1. TypeOK /\ StatusInv /\ AnswersInv /\ [ApiNext]_allVars => AnswersInv'
  BY AnswersStep
<1> QED
  BY AnswersInit, <1>1, TypeAlways, StatusInvariance, PTL DEF ApiSpec

\* Every variable of the two requests, the file and the registries has its type;
\* what made an import fail before its loop is an error its checks there can
\* make, and an answer has a status and, unless it is a 200, a known error name.
THEOREM ApiTypeCorrect == ApiSpec => []ApiTypeOK
<1>1. TypeOK /\ AnswersInv => ApiTypeOK
  <2> SUFFICES ASSUME TypeOK, AnswersInv PROVE ApiTypeOK
    OBVIOUS
  <2>1. /\ Typed(job.reply) /\ Typed(probe.reply)
    <3>1. /\ \/ job.reply \in {NoReply, Succeed}
             \/ Good(job.reply) \/ HookAnswer(job.reply)
          /\ probe.reply \in {NoReply, Succeed} \/ Good(probe.reply)
      BY DEF AnswersInv, JobAnswer, ProbeAnswer
    <3> QED
      BY <3>1, AnswersTyped
  <2>2. content \in Seq(Seq(RowKinds \cup {"blank"}))
    BY DEF AnswersInv, ContentIs, AnyRow
  <2>3. job.err \in SetupErrors
    BY DEF AnswersInv, ErrIsOwn, SetupHere
  <2> QED
    BY <2>1, <2>2, <2>3 DEF AnswersInv, ContentIs, Placed, ApiTypeOK, Typed
<1> QED
  BY <1>1, TypeAlways, AnswersInvariance, PTL

\* Two clients with the same problem get the same answer: the map StatusCode
\* ranges over never has two entries that fit, unless a hook of the application
\* wraps two errors of this code.
THEOREM AnswersStay == ApiSpec => []AnswersAreStable
<1>1. AnswersInv => AnswersAreStable
  <2> SUFFICES ASSUME AnswersInv PROVE AnswersAreStable
    OBVIOUS
  <2>1. error \notin {"begin", "end"} /\ job.reply.code \in Causes =>
          job.reply.status = StatusMap[job.reply.code]
    BY AnswerFields DEF AnswersInv, JobAnswer, Good
  <2>2. probe.reply.code \in Causes => probe.reply.status = StatusMap[probe.reply.code]
    BY AnswerFields DEF AnswersInv, ProbeAnswer, Good
  <2> QED
    BY <2>1, <2>2 DEF AnswersAreStable, Causes
<1> QED
  BY <1>1, AnswersInvariance, PTL

\* What an analysis has shown is what the import reads: the same header, all
\* rows readable, as many of them and under the numbers of the samples, in any
\* file of either format and whatever happens between the two requests.
THEOREM AnalysisIsImported == ApiSpec => []AnalysisMatchesImport
<1>1. TypeOK /\ AnswersInv /\ NilMeansAllRows /\ CountersAreHonest => AnalysisMatchesImport
  <2> SUFFICES ASSUME TypeOK, AnswersInv, NilMeansAllRows, CountersAreHonest,
                      probe.reply = Succeed
               PROVE  /\ job.reply.code /= "no_header"
                      /\ error = "read" => cancelled
                      /\ job.reply = Succeed /\ ~(failFast /\ Rejected /= {}) =>
                           result.processed = FirstShown(format, content).rows
                      /\ \A i \in 1 .. next \cap DOMAIN FirstShown(format, content).samples :
                           Open(format, content).counted + i =
                             FirstShown(format, content).samples[i]
    BY DEF AnalysisMatchesImport, FirstShown
  <2>1. Shown(format, content)
    BY AnswerFields DEF AnswersInv, ProbeAnswer, Good
  <2>2. Agrees(format, content)
    BY <2>1, ContentAgrees DEF AnswersInv
  <2>7. PICK blank \in {"good", "bad"} : rows = RowsOf(format, content, blank)
    BY DEF AnswersInv, ContentIs
  <2>3. job.reply.code /= "no_header"
    BY <2>1, AnswerFields, CauseNames DEF AnswersInv, JobAnswer, Good, HookAnswer
  <2>4. error = "read" => cancelled
    BY <2>2, <2>7 DEF AnswersInv, ReadFails, Agrees
  <2>5. ASSUME job.reply = Succeed, ~(failFast /\ Rejected /= {})
        PROVE  result.processed = FirstShown(format, content).rows
    <3>1. Done /\ error = "none"
      BY <2>5, AnswerFields DEF AnswersInv, JobAnswer, Good, HookAnswer
    <3>2. next = Len(rows) /\ result.processed = next
      BY <2>5, <3>1 DEF NilMeansAllRows, CountersAreHonest
    <3> QED
      BY <2>2, <2>7, <3>2 DEF Agrees
  <2>6. \A i \in DOMAIN FirstShown(format, content).samples :
          Open(format, content).counted + i = FirstShown(format, content).samples[i]
    BY <2>2 DEF Agrees
  <2> QED
    BY <2>3, <2>4, <2>5, <2>6
<1> QED
  BY <1>1, TypeAlways, AnswersInvariance, AnswersAreComplete, PTL

=============================================================================
