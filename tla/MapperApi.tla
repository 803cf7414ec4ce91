------------------------------ MODULE MapperApi ------------------------------
(***************************************************************************)
(* The HTTP API (mapperhttp) on the mapper service (mapper/service.go) and *)
(* its executor: a client analyzes a file, another one imports it, while   *)
(* the application registers the schema, an upload completes and the file  *)
(* is deleted.  The import is ImportRun's, with its setup, executor.go     *)
(* lines 108-177, step by step; its rows are those SourceAdapters finds.   *)
(*                                                                         *)
(* There is one file id and one schema id, and a request is well-formed or *)
(* has one flaw.  Settings says which deployments, files and options are   *)
(* looked at: all of them in the proofs, a few in the runs.                *)
(***************************************************************************)
EXTENDS ImportRun, SourceAdapters

CONSTANTS
  Settings,       \* what is configured, what the file holds, what is asked for
  SharedRegistry  \* the service is given the registry of the executor

Parts == {"service", "importer", "executor", "processor", "files", "source", "writer"}

AllSettings ==
  [format : {"csv", "xlsx"}, seekable : BOOLEAN, missing : SUBSET Parts,
   content : Seq(Seq(RowKinds \cup {"blank"})), blank : {"good", "bad"},
   failFast : BOOLEAN, hooks : SUBSET {"begin", "end"}]

\* A CSV file is one sheet.
ASSUME SettingsAssumption ==
  /\ Settings \subseteq AllSettings
  /\ \A setting \in Settings : setting.format = "csv" => Len(setting.content) = 1

VARIABLES
  format,    \* which source adapter is configured
  seekable,  \* whether the reader of the file store is an io.ReadSeeker
  missing,   \* the parts that were not configured
  content,   \* what the file holds, once it is stored
  schemas,   \* the registries that have the schema: "service", "executor"
  file,      \* "absent", "stored" or "deleted"
  job,       \* the import request
  probe      \* the analysis request

deployment == <<format, seekable, missing, content>>
apiVars    == <<deployment, schemas, file, job, probe>>
allVars    == <<vars, apiVars>>

-----------------------------------------------------------------------------
(* Errors: the causes errors.Is finds, and the code of a MappingError.      *)

StatusMap ==
  [invalid_request            |-> 400, unsupported_media_type |-> 415,
   invalid_schema             |-> 400, schema_exists          |-> 409,
   schema_not_found           |-> 404, file_store_unavailable |-> 503,
   source_adapter_unavailable |-> 503, importer_unavailable   |-> 503,
   executor_unavailable       |-> 503, processor_unavailable  |-> 503,
   no_header                  |-> 400, not_found              |-> 404,
   deadline_exceeded          |-> 408, canceled               |-> 499]

\* The switch of ErrorCode, in its order.
Codes ==
  <<"invalid_request", "unsupported_media_type", "invalid_schema", "schema_exists",
    "schema_not_found", "file_store_unavailable", "source_adapter_unavailable",
    "importer_unavailable", "executor_unavailable", "processor_unavailable",
    "no_header", "not_found", "deadline_exceeded", "canceled">>

Because(cause) == [causes |-> {cause}, detail |-> ""]
BadMapping     == [causes |-> {}, detail |-> "invalid_mapping"]
Unmapped       == [causes |-> {}, detail |-> ""]
ContextErrors  == {Because("canceled"), Because("deadline_exceeded")}

\* What a lifecycle hook of the application may return: its own error, or one
\* that wraps two of this module's.
HookErrors == {Unmapped, [causes |-> {"not_found", "schema_exists"}, detail |-> ""]}

\* StatusCode ranges over a map: any cause may come first.
StatusCodes(err) ==
  IF err.causes /= {} THEN {StatusMap[c] : c \in err.causes}
  ELSE IF err.detail /= "" THEN {400} ELSE {500}

ErrorCode(err) ==
  IF err.detail /= "" THEN err.detail
  ELSE IF err.causes = {} THEN "internal_error"
  ELSE Codes[SelectInSeq(Codes, LAMBDA c : c \in err.causes)]

\* What the first check that fails may answer; nothing if none does.
FirstOf(checks) ==
  UNION {checks[i][2] : i \in {n \in DOMAIN checks :
    checks[n][1] /\ \A before \in 1 .. n - 1 : ~checks[before][1]}}

NoReply == [status |-> 0, code |-> ""]
Succeed == [status |-> 200, code |-> ""]
Replies(err) == {[status |-> s, code |-> ErrorCode(err)] : s \in StatusCodes(err)}

\* Answers the handlers write without an error value.
ServiceMissing == [status |-> 503, code |-> "service_unavailable"]
NoJSON         == [status |-> 415, code |-> "unsupported_media_type"]
NoFileId       == [status |-> 400, code |-> "invalid_file_id"]

-----------------------------------------------------------------------------
\* What Open yields is what the loop of ImportRun will read.  A blank row
\* under the header is a row without values: under one mapping it is good, if
\* no required field is mapped (RowMapping), under another one it is bad.
RowsOf(form, sheets, blank) ==
  LET reader == Open(form, sheets) IN
    IF reader.error /= "none" THEN <<>>
    ELSE [i \in 1 .. Len(sheets[reader.sheet]) - reader.row |->
            LET row == sheets[reader.sheet][reader.row + i] IN IF row = "blank" THEN blank ELSE row]

SourceError(opened) ==
  IF opened.error = "no_header" THEN Because("no_header") ELSE Unmapped

IdleJob   == [stage |-> "idle", trusted |-> FALSE, err |-> Unmapped, reply |-> NoReply]
IdleProbe == [stage |-> "idle", reply |-> NoReply]

ApiInit ==
  /\ \E setting \in Settings :
       /\ format = setting.format
       /\ seekable = setting.seekable
       /\ missing = setting.missing
       /\ content = setting.content
       /\ rows = RowsOf(format, content, setting.blank)
       /\ failFast = setting.failFast
       /\ hooks = setting.hooks
  /\ Init
  /\ schemas = {}
  /\ file = "absent"
  /\ job = IdleJob
  /\ probe = IdleProbe

-----------------------------------------------------------------------------
(* POST /imports/sync.  What may be wrong with the request is found by the   *)
(* check that looks for it: flaw says whether it is there.                   *)

\* GET /schemas/{id} on this state.
Served == "service" \notin missing /\ "service" \in schemas

\* The file of the request is in the store, and its schema is being served.
SendImport ==
  /\ job.stage = "idle"
  /\ job' = [job EXCEPT !.stage = "sent", !.trusted = file = "stored" /\ Served]
  /\ UNCHANGED <<vars, deployment, schemas, file, probe>>

\* handleImport and Service.Import, up to the call of the importer.
HandleImport ==
  \E flaw \in {"none", "media_type", "json"} :
    LET refusals ==
          FirstOf(<< <<"service" \in missing, {ServiceMissing}>>,
                     <<flaw = "media_type", {NoJSON}>>,
                     <<flaw = "json", Replies(Because("invalid_request"))>>,
                     <<"importer" \in missing, Replies(Because("importer_unavailable"))>> >>)
    IN /\ job.stage = "sent"
       /\ IF refusals = {} THEN job' = [job EXCEPT !.stage = "load"]
          ELSE \E reply \in refusals :
                 job' = [job EXCEPT !.stage = "answered", !.reply = reply]
       /\ UNCHANGED <<vars, deployment, schemas, file, probe>>

\* A stage of Executor.Import before its loop: its checks, in order.
Prepare(stage, then, checks) ==
  /\ job.stage = stage
  /\ LET errs == FirstOf(checks) IN
       IF errs = {}
         THEN /\ job' = [job EXCEPT !.stage = then]
              /\ IF then = "run" THEN Goto("begin") ELSE UNCHANGED <<pc, error>>
         ELSE \E err \in errs :
                job' = [job EXCEPT !.stage = "run", !.err = err] /\ Return("setup")
  /\ UNCHANGED <<request, cancelled, next, result, outside>>
  /\ UNCHANGED <<deployment, schemas, file, probe>>

\* Slip: the error of Open wraps ErrFileStoreUnavailable too.
SlipOpenFile ==
  Prepare("open", "columns",
    << <<cancelled, ContextErrors>>,
       <<file /= "stored",
         {[causes |-> {"not_found", "file_store_unavailable"}, detail |-> ""]}>> >>)

\* Slip: without the Seek, Open finds the reader at its end.
SlipFindColumns ==
  Prepare("columns", "rows",
    << <<cancelled, ContextErrors>>,
       <<seekable, {IF format = "csv" THEN Because("no_header") ELSE Unmapped}>> >>)

\* A file id or a schema id may be left out.
LoadSchema ==
  \E flaw \in BOOLEAN :
    Prepare("load", "open",
      << <<"executor" \in missing, {Because("executor_unavailable")}>>,
         <<cancelled, ContextErrors>>,
         <<flaw, {BadMapping}>>,
         <<"executor" \notin schemas, {Because("schema_not_found")}>>,
         <<"processor" \in missing, {Because("processor_unavailable")}>> >>)

\* The store may be closed or find the id malformed; the sheet be negative.
OpenFile ==
  \E closed, flaw \in BOOLEAN :
    Prepare("open", "columns",
      << <<cancelled, ContextErrors>>,
         <<closed, {Unmapped}>>,
         <<file /= "stored", {Because("not_found")}>>,
         <<flaw, {BadMapping}>> >>)

\* columnsFromSource analyzes the file and rewinds it, if it can be rewound.
\* The sheet may not exist, and the rewind may fail.
FindColumns ==
  \E flaw, stuck \in BOOLEAN :
    LET analysis == Analyze(format, content) IN
      Prepare("columns", "rows",
        IF ~seekable THEN <<>>
        ELSE << <<cancelled, ContextErrors>>,
                <<analysis.error /= "none", {SourceError(analysis)}>>,
                <<flaw, {BadMapping}>>,
                <<stuck, {Unmapped}>> >>)

\* openRows, then CompilePlan.
OpenRows ==
  \E flaw \in BOOLEAN :
    LET reader == Open(format, content) IN
      Prepare("rows", "run",
        << <<cancelled, ContextErrors>>,
           <<reader.error /= "none", {SourceError(reader)}>>,
           <<flaw, {BadMapping}>> >>)

RunImport ==
  /\ Begin \/ LoopHead \/ Read \/ Deliver \/ Accept \/ Refuse \/ Finish \/ End
  /\ UNCHANGED apiVars

HangUp ==
  /\ job.stage \notin {"idle", "answered"}
  /\ Cancel
  /\ UNCHANGED apiVars

\* Slip: an unreadable row makes the request a bad one.
SlipImportErrors ==
  IF error = "read" THEN {Because("invalid_request")} ELSE {job.err}

\* The error Import has returned.
ImportErrors ==
  IF error = "setup" THEN {job.err}
  ELSE IF error \in {"begin", "end"} THEN HookErrors
  ELSE IF error = "read" /\ ~cancelled THEN {Unmapped}
  ELSE IF error = "read" THEN {Unmapped} \cup ContextErrors
  ELSE ContextErrors

\* Slip: the handler tries a failed import again.
SlipAnswerImport ==
  /\ job.stage = "run" /\ pc = "done"
  /\ IF error \in {"none", "setup"}
       THEN /\ job' = [job EXCEPT !.stage = "answered", !.reply = Succeed]
            /\ UNCHANGED <<pc, next, result, error>>
       ELSE /\ job' = [job EXCEPT !.stage = "load"]
            /\ pc' = "setup" /\ next' = 0 /\ result' = Zero /\ error' = "none"
  /\ UNCHANGED <<request, cancelled, outside, deployment, schemas, file, probe>>

\* The result is the body of a 200 and of no other answer.
AnswerImport ==
  /\ job.stage = "run" /\ pc = "done"
  /\ \E reply \in IF error = "none" THEN {Succeed} ELSE UNION {Replies(e) : e \in ImportErrors} :
       job' = [job EXCEPT !.stage = "answered", !.reply = reply]
  /\ UNCHANGED <<vars, deployment, schemas, file, probe>>

-----------------------------------------------------------------------------
(* POST /files/analyze, with a file id or, as multipart, with the file.    *)

SendAnalysis ==
  /\ probe.stage = "idle"
  /\ \E form \in {"json", "multipart"} : probe' = [probe EXCEPT !.stage = form]
  /\ UNCHANGED <<vars, deployment, schemas, file, job>>

\* A stage of handleAnalyze: its checks, then the next one, or the analysis.
Inspect(stage, then, checks) ==
  /\ probe.stage = stage
  /\ LET refusals == FirstOf(checks) IN
       IF refusals = {} THEN probe' = then
       ELSE \E reply \in refusals :
              probe' = [probe EXCEPT !.stage = "answered", !.reply = reply]
  /\ UNCHANGED <<vars, deployment, schemas, job>>

\* A multipart request names its file or brings it; the one file there is can
\* be brought once.
HandleAnalysis ==
  \E flaw \in {"none", "media_type", "body", "no_file"}, named \in BOOLEAN :
    /\ \/ Inspect("json", [probe EXCEPT !.stage = "analyze"],
            << <<"service" \in missing, {ServiceMissing}>>,
               <<flaw = "media_type", {NoJSON}>>,
               <<flaw = "body", Replies(Because("invalid_request"))>>,
               <<flaw = "no_file", {NoFileId}>> >>)
       \/ /\ named \/ flaw = "no_file" \/ file = "absent"
          /\ Inspect("multipart", [probe EXCEPT !.stage = IF named THEN "analyze" ELSE "save"],
               << <<"service" \in missing, {ServiceMissing}>>,
                  <<flaw = "body", Replies(Because("invalid_request"))>>,
                  <<~named /\ flaw = "no_file", Replies(Because("invalid_request"))>>,
                  <<~named /\ "writer" \in missing,
                    Replies(Because("file_store_unavailable"))>> >>)
    /\ UNCHANGED file

\* Save may fail: the directory of the store gone, the store closed, the client
\* gone.  Once it has stored the file the request may fail still, if the upload
\* cannot be closed or the id is empty, and the file stays.
SaveUpload ==
  /\ file = "absent"
  /\ \/ Inspect("save", [probe EXCEPT !.stage = "analyze"], <<>>) /\ file' = "stored"
     \/ \E err \in ContextErrors \cup {Unmapped, Because("not_found")} :
          Inspect("save", probe, << <<TRUE, Replies(err)>> >>) /\ UNCHANGED file
     \/ \E err \in {Unmapped, Because("file_store_unavailable")} :
          Inspect("save", probe, << <<TRUE, Replies(err)>> >>) /\ file' = "stored"

\* Slip: the file is cleaned up once it has been analyzed.
SlipAnalyzeFile ==
  /\ probe.stage = "analyze"
  /\ LET analyzed == file = "stored" /\ Analyze(format, content).error = "none" IN
       \E reply \in IF analyzed THEN {Succeed} ELSE Replies(Unmapped) :
         probe' = [probe EXCEPT !.stage = "answered", !.reply = reply]
  /\ file' = IF file = "stored" THEN "absent" ELSE file
  /\ UNCHANGED <<vars, deployment, schemas, job>>

\* Service.AnalyzeFile.
AnalyzeFile ==
  \E gone, closed \in BOOLEAN :
    LET analysis == Analyze(format, content) IN
      /\ Inspect("analyze", [probe EXCEPT !.stage = "answered", !.reply = Succeed],
           << <<"files" \in missing, Replies(Because("file_store_unavailable"))>>,
              <<"source" \in missing, Replies(Because("source_adapter_unavailable"))>>,
              <<gone, UNION {Replies(e) : e \in ContextErrors}>>,
              <<closed, Replies(Unmapped)>>,
              <<file /= "stored", Replies(Because("not_found"))>>,
              <<analysis.error /= "none", Replies(SourceError(analysis))>> >>)
      /\ UNCHANGED file

-----------------------------------------------------------------------------
(* The other handlers, and the application.                                *)

\* Service.RegisterSchema, which knows its own registry only.
RegisterSchema ==
  /\ "service" \notin missing /\ schemas = {}
  /\ schemas' = IF SharedRegistry THEN {"service", "executor"} ELSE {"service"}
  /\ UNCHANGED <<vars, deployment, file, job, probe>>

\* A TUS upload is finished (TusHandler), and its id given to the client.
CompleteUpload ==
  /\ file = "absent" /\ probe.stage /= "save"
  /\ file' = "stored"
  /\ UNCHANGED <<vars, deployment, schemas, job, probe>>

DeleteFile ==
  /\ file = "stored"
  /\ file' = "deleted"
  /\ UNCHANGED <<vars, deployment, schemas, job, probe>>

ApiTerminated ==
  /\ job.stage = "answered" /\ probe.stage = "answered"
  /\ UNCHANGED allVars

ApiNext ==
  \/ SendImport \/ HandleImport \/ LoadSchema \/ OpenFile \/ FindColumns \/ OpenRows
  \/ RunImport \/ HangUp \/ AnswerImport
  \/ SendAnalysis \/ HandleAnalysis \/ SaveUpload \/ AnalyzeFile
  \/ RegisterSchema \/ CompleteUpload \/ DeleteFile
  \/ ApiTerminated

ApiSpec == ApiInit /\ [][ApiNext]_allVars

-----------------------------------------------------------------------------
(* Properties.                                                             *)

Statuses == {0, 200, 400, 404, 408, 409, 415, 499, 500, 503}

\* What the body of an error may call it.
ErrorNames ==
  DOMAIN StatusMap
    \cup {"internal_error", "invalid_mapping", "service_unavailable", "invalid_file_id"}

\* The errors that a request may meet before its first row is read.
SetupErrors ==
  {Unmapped, BadMapping} \cup {Because(cause) : cause \in
     {"canceled", "deadline_exceeded", "executor_unavailable", "processor_unavailable",
      "schema_not_found", "not_found", "no_header"}}

\* Every variable has its type: a request is at one of its stages, an import
\* that failed before its loop has one of the errors of the checks there, and
\* an error has a name the code knows and a status that goes with one.
ApiTypeOK ==
  /\ TypeOK
  /\ format \in {"csv", "xlsx"} /\ seekable \in BOOLEAN /\ missing \subseteq Parts
  /\ content \in Seq(Seq(RowKinds \cup {"blank"}))
  /\ schemas \subseteq {"service", "executor"}
  /\ file \in {"absent", "stored", "deleted"}
  /\ job.stage \in {"idle", "sent", "load", "open", "columns", "rows", "run", "answered"}
  /\ job.err \in SetupErrors
  /\ probe.stage \in {"idle", "json", "multipart", "save", "analyze", "answered"}
  /\ \A reply \in {job.reply, probe.reply} :
       /\ reply.status \in Statuses
       /\ reply.code \in IF reply.status \in {0, 200} THEN {""} ELSE ErrorNames

\* Inside the API an import is one run of ImportRun, so that what is proved of
\* one call of Executor.Import holds of each request: it is never repeated,
\* and nothing else touches its processor or its counters.
ImportIsOneRun == Spec

\* An error that blames the request or the deployment comes before anything
\* was done: no row was delivered and no hook called, and the client may send
\* a corrected request.  The application's own hooks may say what they like.
RefusedMeansUntouched ==
  job.reply.status \in {400, 404, 409, 415, 503} /\ error \notin {"begin", "end"} =>
    delivered = <<>> /\ ended = <<>> /\ (pc = "setup" \/ error = "setup")

\* A file in the store and a schema that GET /schemas/{id} serves can be
\* imported: neither is "not found", unless the file is deleted meanwhile.
HandedOutWorks ==
  job.trusted /\ file /= "deleted" /\ error \notin {"begin", "end"} =>
    job.reply.status /= 404

\* What an analysis has shown is what the import reads: a table with a header
\* and readable rows, as many rows, under the numbers the samples have.
AnalysisMatchesImport ==
  LET sheets == Analyze(format, content).sheets
      shown  == sheets[Min(DOMAIN sheets)]
  IN
    probe.reply = Succeed =>
      /\ job.reply.code /= "no_header"
      /\ error = "read" => cancelled
      /\ job.reply = Succeed /\ ~(failFast /\ Rejected /= {}) =>
           result.processed = shown.rows
      /\ \A i \in 1 .. next \cap DOMAIN shown.samples :
           Open(format, content).counted + i = shown.samples[i]

\* Two clients with the same problem get the same answer: no error of this
\* code has two of the causes that StatusCode looks for in map order.
AnswersAreStable ==
  /\ error \notin {"begin", "end"} /\ job.reply.code \in DOMAIN StatusMap =>
       job.reply.status = StatusMap[job.reply.code]
  /\ probe.reply.code \in DOMAIN StatusMap =>
       probe.reply.status = StatusMap[probe.reply.code]

=============================================================================
