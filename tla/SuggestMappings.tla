--------------------------- MODULE SuggestMappings ---------------------------
(***************************************************************************)
(* POST /mappings/suggest: handleSuggest of mapperhttp/suggest.go and the  *)
(* JevSuggester of suggest/suggest.go, which asks an upstream service once *)
(* per column, each time with a timeout, and falls back to fuzzy matching  *)
(* of every column as soon as one call fails.                              *)
(*                                                                         *)
(* The upstream answers whatever and whenever it likes, or never.  A reply *)
(* is the record of the parts parseJevResponse looks for; confidences are  *)
(* whole numbers, 0 .. Top standing for 0 to 1.  A request has been        *)
(* decoded.  Fuzzy matching is taken by its contract, which FuzzyMatch     *)
(* models.                                                                 *)
(***************************************************************************)
EXTENDS Integers, Sequences, FiniteSets

CONSTANTS
  Targets,     \* the field ids of the schema
  Replies,     \* what the upstream may answer
  Top,         \* the confidence that stands for 1
  MaxColumns,  \* bound: columns of a request
  None         \* no choice

ASSUME TargetsAssumption == Targets \subseteq Nat \ {0} /\ None \notin Targets
ASSUME BoundsAssumption == Top \in Nat /\ MaxColumns \in Nat

\* What numberValue takes for a number is one; there may be none.
Numbers(probs) == \A t \in DOMAIN probs : probs[t] \in Int

Part(part) == Numbers(part.probs) /\ part.confidence \in Int

ASSUME RepliesAssumption ==
  \A reply \in Replies :
    /\ Part(reply.answer) /\ Part(reply.nested) /\ Part(reply.direct)
    /\ Numbers(reply.probs) /\ Numbers(reply.choices)

VARIABLES
  provider,   \* the configured strategy
  columns,    \* how many columns the request has
  options,    \* MinConfidence and Limit
  cancelled,  \* the client has gone
  pc,         \* where the request is
  source,     \* columns the upstream has answered
  asked,      \* upstream calls made
  found,      \* suggestions so far, each with the strategy it comes from
  model,      \* Result.Model
  response    \* status and suggestions, final once pc is "done"

request == <<provider, columns, options>>
vars    == <<request, cancelled, pc, source, asked, found, model, response>>

Pending == [status |-> 0, suggestions |-> <<>>]

Init ==
  /\ provider \in {"fuzzy", "jev"}
  /\ columns \in 1 .. MaxColumns
  /\ options \in [min : 0 .. Top, limit : 0 .. MaxColumns]
  /\ cancelled = FALSE
  /\ pc = "start"
  /\ source = 0
  /\ asked = 0
  /\ found = <<>>
  /\ model = "none"
  /\ response = Pending

-----------------------------------------------------------------------------
(* parseJevResponse.  Each operator returns the set of readings: empty if  *)
(* the part says nothing, more than one where a Go map decides.            *)

Clamp(n) == IF n < 0 THEN 0 ELSE IF n > Top THEN Top ELSE n

Reading(t, n) == [target |-> t, confidence |-> Clamp(n)]

\* A slip of the next: the id is not looked up in the schema.
SlipKnown(t) == t /= None

\* targetFromValue
Known(t) == t \in Targets

BestProbability(probs) ==
  LET known == {t \in DOMAIN probs : Known(t)}
  IN {Reading(t, probs[t]) :
        t \in {s \in known : \A u \in known : Clamp(probs[u]) <= Clamp(probs[s])}}

\* parseJevAnswer: the choice, if the schema has it; its probability, or else
\* the confidence given with it.
ParseAnswer(part) ==
  IF Known(part.choice)
    THEN {Reading(part.choice, IF part.choice \in DOMAIN part.probs
                                 THEN part.probs[part.choice] ELSE part.confidence)}
    ELSE BestProbability(part.probs)

ParseDirect(part) ==
  IF Known(part.choice) THEN {Reading(part.choice, part.confidence)} ELSE {}

\* The first part that says something counts.
ParseReply(reply) ==
  LET readings == <<ParseAnswer(reply.answer), BestProbability(reply.probs),
                    BestProbability(reply.choices), ParseAnswer(reply.nested),
                    ParseDirect(reply.direct)>>
      telling  == {i \in DOMAIN readings : readings[i] /= {}}
  IN IF ~reply.usable \/ telling = {} THEN {}
     ELSE readings[CHOOSE i \in telling : \A j \in telling : i <= j]

-----------------------------------------------------------------------------
(* filterSuggestions: its loop.                                             *)

\* Kept(s)[n]: of the first n suggestions, those that reach MinConfidence.
Kept(suggestions) ==
  LET kept[n \in 0 .. Len(suggestions)] ==
        IF n = 0 THEN <<>>
        ELSE IF suggestions[n].confidence >= options.min
          THEN Append(kept[n - 1], suggestions[n])
          ELSE kept[n - 1]
  IN kept

-----------------------------------------------------------------------------
(* Slips: what a plausible mistake would make of a step.  Spec takes none.   *)

\* A column the upstream cannot place is left to fuzzy matching alone.
SlipColumnFailed ==
  /\ pc = "await"
  /\ \E t \in Targets, n \in 0 .. Top :
       found' = Append(found, [source |-> source, by |-> "fuzzy", target |-> t, confidence |-> n])
  /\ source' = source + 1
  /\ pc' = "column"
  /\ UNCHANGED <<request, cancelled, asked, model, response>>

\* No timeout: a call ends when its caller is cancelled.
SlipNoTimeout ==
  /\ pc = "await" /\ cancelled
  /\ pc' = "fuzzy" /\ found' = <<>>
  /\ UNCHANGED <<request, cancelled, source, asked, model, response>>

\* The limit is applied before the confidence.
SlipFilter(suggestions) ==
  LET cut == IF options.limit > 0 /\ Len(suggestions) > options.limit
               THEN SubSeq(suggestions, 1, options.limit) ELSE suggestions
  IN Kept(cut)[Len(cut)]

\* An upstream failure is an error of the request.
SlipFails ==
  /\ pc = "await"
  /\ pc' = "done"
  /\ response' = [status |-> 502, suggestions |-> <<>>]
  /\ UNCHANGED <<request, cancelled, source, asked, found, model>>

-----------------------------------------------------------------------------
(* The request.                                                            *)

\* An invalid body, an unknown schema, a wrong method, no JSON, no suggester.
Refusals == {400, 404, 405, 415, 503}

\* No suggester runs.
Refuse ==
  /\ pc = "start"
  /\ pc' = "done"
  /\ \E status \in Refusals : response' = [status |-> status, suggestions |-> <<>>]
  /\ UNCHANGED <<request, cancelled, source, asked, found, model>>

Start ==
  /\ pc = "start"
  /\ pc' = IF provider = "jev" THEN "column" ELSE "fuzzy"
  /\ UNCHANGED <<request, cancelled, source, asked, found, model, response>>

\* suggestColumn: a call whose context is done already fails.
Ask ==
  /\ pc = "column" /\ source < columns /\ ~cancelled
  /\ pc' = "await"
  /\ asked' = asked + 1
  /\ UNCHANGED <<request, cancelled, source, found, model, response>>

AskCancelled ==
  /\ pc = "column" /\ source < columns /\ cancelled
  /\ pc' = "fuzzy" /\ found' = <<>>
  /\ UNCHANGED <<request, cancelled, source, asked, model, response>>

ColumnAnswered ==
  /\ pc = "await"
  /\ \E reply \in Replies :
       \E reading \in ParseReply(reply) :
         found' = Append(found, [source |-> source, by |-> "jev",
                                 target |-> reading.target, confidence |-> reading.confidence])
  /\ source' = source + 1
  /\ pc' = "column"
  /\ UNCHANGED <<request, cancelled, asked, model, response>>

\* A reply that says nothing, or a status that is not 2xx.
ColumnUnanswered ==
  /\ pc = "await"
  /\ \E reply \in Replies : ParseReply(reply) = {}
  /\ pc' = "fuzzy" /\ found' = <<>>
  /\ UNCHANGED <<request, cancelled, source, asked, model, response>>

\* The call's own timeout, the caller's context or the transport ends it.
ColumnFails ==
  /\ pc = "await"
  /\ pc' = "fuzzy" /\ found' = <<>>
  /\ UNCHANGED <<request, cancelled, source, asked, model, response>>

JevDone ==
  /\ pc = "column" /\ source = columns
  /\ pc' = "respond" /\ model' = "jev"
  /\ UNCHANGED <<request, cancelled, source, asked, found, response>>

\* FuzzySuggester looks at the context before each column: every column, in
\* turn, gets a suggestion or none, or the caller gets the context's error.
FuzzyDone ==
  /\ pc = "fuzzy" /\ ~cancelled
  /\ \E n \in 0 .. columns :
       \E place \in [1 .. n -> 0 .. columns - 1], target \in [1 .. n -> Targets],
          confidence \in [1 .. n -> 0 .. Top] :
         /\ \A i, j \in 1 .. n : i < j => place[i] < place[j]
         /\ found' = [i \in 1 .. n |-> [source |-> place[i], by |-> "fuzzy",
                                       target |-> target[i], confidence |-> confidence[i]]]
  /\ pc' = "respond" /\ model' = "fuzzy"
  /\ UNCHANGED <<request, cancelled, source, asked, response>>

FuzzyCancelled ==
  /\ pc = "fuzzy" /\ cancelled
  /\ pc' = "done"
  /\ response' = [status |-> 502, suggestions |-> <<>>]
  /\ UNCHANGED <<request, cancelled, source, asked, found, model>>

\* filterSuggestions
Filter(suggestions) ==
  LET kept == Kept(suggestions)[Len(suggestions)]
  IN IF options.limit > 0 /\ Len(kept) > options.limit
       THEN SubSeq(kept, 1, options.limit) ELSE kept

Respond ==
  /\ pc = "respond"
  /\ pc' = "done"
  /\ response' = [status |-> 200, suggestions |-> Filter(found)]
  /\ UNCHANGED <<request, cancelled, source, asked, found, model>>

Cancel ==
  /\ pc /= "done" /\ ~cancelled
  /\ cancelled' = TRUE
  /\ UNCHANGED <<request, pc, source, asked, found, model, response>>

Terminated == pc = "done" /\ UNCHANGED vars

\* What the server does by itself, the timeout included.
Server ==
  \/ Start \/ Ask \/ AskCancelled \/ ColumnFails \/ JevDone
  \/ FuzzyDone \/ FuzzyCancelled \/ Respond

Next ==
  \/ Server
  \/ Refuse \/ ColumnAnswered \/ ColumnUnanswered
  \/ Cancel \/ Terminated

\* The goroutine is scheduled, and a call ends by its timeout at the latest.
\* Nothing is assumed of the upstream or of the client.
Spec == Init /\ [][Next]_vars /\ WF_vars(Server)

-----------------------------------------------------------------------------
(* Properties.                                                             *)

Suggestions ==
  [source : 0 .. columns - 1, by : {"jev", "fuzzy"}, target : Targets, confidence : 0 .. Top]

\* Every variable has its type; whatever the upstream replied, a suggestion
\* names a field of the schema with a confidence between 0 and 1.
TypeOK ==
  /\ provider \in {"fuzzy", "jev"} /\ columns \in 1 .. MaxColumns
  /\ options \in [min : 0 .. Top, limit : 0 .. MaxColumns]
  /\ cancelled \in BOOLEAN
  /\ pc \in {"start", "column", "await", "fuzzy", "respond", "done"}
  /\ source \in 0 .. columns /\ asked \in 0 .. columns
  /\ found \in Seq(Suggestions)
  /\ model \in {"none", "jev", "fuzzy"}
  /\ response.status \in {0, 200, 502} \cup Refusals
  /\ response.suggestions \in Seq(Suggestions)

Answered == pc = "done" /\ response.status = 200

\* An answer never mixes strategies: what it calls "jev" the upstream chose,
\* for every column, and after any failure nothing of the upstream is left.
OneStrategy ==
  Answered =>
    /\ \A i \in DOMAIN response.suggestions : response.suggestions[i].by = model
    /\ model = "jev" => Len(found) = columns /\ asked = columns

\* The client gets the first suggestions that reach MinConfidence, as many as
\* Limit admits: none that qualifies is dropped for one that does not.
FirstThatQualify ==
  Answered =>
    LET given == response.suggestions
        sources == {given[i].source : i \in DOMAIN given}
    IN /\ \A i, j \in DOMAIN given : i < j => given[i].source < given[j].source
       /\ \A n \in DOMAIN found :
            found[n].source \in sources <=>
              /\ found[n].confidence >= options.min
              /\ \/ options.limit = 0
                 \/ Cardinality({m \in 1 .. n : found[m].confidence >= options.min})
                      <= options.limit

\* The suggester fails only for a client that has gone: an upstream that is
\* down, slow or confused never makes the request fail, as the comment on
\* JevSuggester says.  The API description says the opposite, see the next.
FailsOnlyIfCancelled == pc = "done" /\ response.status = 502 => cancelled

\* "The upstream suggestion service failed" is what api/openapi.yaml calls the
\* answer 502: a client that is still there is told so when the last call to
\* the upstream brought no suggestion.  The code answers 200, with fuzzy
\* suggestions, and this is violated.
UpstreamFailureIsTold ==
  pc = "done" /\ asked > source /\ ~cancelled => response.status = 502

\* Every request is answered, even if the upstream never replies.
EventuallyAnswered == <>(pc = "done")

=============================================================================
