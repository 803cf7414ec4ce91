------------------------- MODULE SchemaRegistryProofs -------------------------
(***************************************************************************)
(* Proofs about SchemaRegistry, for any number of calls, any ids, names    *)
(* and contents, and an application that writes what and when it likes.    *)
(***************************************************************************)
EXTENDS SchemaRegistry, TLAPS

USE NoneAssumption

-----------------------------------------------------------------------------
(* The inductive invariant.                                                *)

\* The array of a registered schema is the registry's own.
StoredIsOwn == \A id \in Registered : schemas[id].fields \in Arrays \ owned

\* So is the clone of a Register that waits for the lock.
ClaimIsOwn ==
  \A c \in Calls :
    pc[c] = "insert" =>
      local[c] \in Arrays \ owned /\ call[c].kind = "register" /\ call[c].id \in Ids

\* A Register that has not cloned yet has its caller's array.
SourceIsThere ==
  \A c \in Calls :
    pc[c] \in {"validate", "copy"} =>
      local[c] \in Arrays /\ call[c].kind = "register" /\ call[c].id \in Ids

\* A Get that clones has an array to clone.
CloneHasSource ==
  \A c \in Calls : pc[c] = "clone" => local[c] \in Arrays /\ call[c].kind = "get"

\* A call has no answer before it is done.
AnswersAreFinal == \A c \in Calls : pc[c] /= "done" => answer[c] = "none"

\* The schema of a Register that succeeded is registered.
WinnerIsThere ==
  \A c \in Calls :
    call[c].kind = "register" /\ answer[c] = "ok" =>
      call[c].id \in Registered /\ schemas[call[c].id].name = call[c].name

IInv ==
  /\ TypeOK
  /\ StoredIsOwn /\ ClaimIsOwn /\ SourceIsThere /\ CloneHasSource
  /\ AnswersAreFinal /\ WinnerIsThere /\ OneWinner

-----------------------------------------------------------------------------
(* The two kinds of step.                                                  *)

\* What the registry holds, or is about to hold, nobody writes to.
Untouched ==
  /\ \A id \in Registered : heap'[schemas[id].fields] = heap[schemas[id].fields]
  /\ \A c \in Calls : pc[c] = "insert" => heap'[local[c]] = heap[local[c]]

\* Arrays that become the application's were nobody's, or were its own.
OnlyFreeGiven == owned' \subseteq owned \cup Free

\* Only the call c moves.
Moves(c) ==
  \A d \in Calls \ {c} :
    pc'[d] = pc[d] /\ call'[d] = call[d] /\ local'[d] = local[d] /\ answer'[d] = answer[d]

LEMMA FreeIsUnused ==
  ASSUME NEW a \in Free
  PROVE  /\ a \in Arrays /\ a \notin owned
         /\ \A id \in Registered : schemas[id].fields /= a
         /\ \A c \in Calls : local[c] /= a
BY DEF Free, Registered

\* Writing to free arrays, or to the application's, touches nothing of the registry.
LEMMA WritesElsewhere ==
  ASSUME IInv, NEW W \in SUBSET (owned \cup Free),
         \A a \in Arrays \ W : heap'[a] = heap[a]
  PROVE  Untouched
<1>1. \A id \in Registered : schemas[id].fields \in Arrays \ W
  BY FreeIsUnused DEF IInv, StoredIsOwn
<1>2. \A c \in Calls : pc[c] = "insert" => local[c] \in Arrays \ W
  BY FreeIsUnused DEF IInv, ClaimIsOwn
<1> QED
  BY <1>1, <1>2 DEF Untouched

\* As long as no schema is added, the registry stays as it is.
LEMMA StoredStays ==
  ASSUME IInv, schemas' = schemas, Untouched, OnlyFreeGiven
  PROVE  StoredIsOwn'
<1>1. Registered' = Registered
  BY DEF Registered
<1>2. \A id \in Registered : schemas[id].fields \notin owned'
  BY FreeIsUnused DEF IInv, StoredIsOwn, OnlyFreeGiven
<1> QED
  BY <1>1, <1>2 DEF IInv, StoredIsOwn, Untouched

\* A claim of a call that does not move stays.
LEMMA ClaimStays ==
  ASSUME IInv, Untouched, OnlyFreeGiven,
         NEW d \in Calls, pc'[d] = pc[d], call'[d] = call[d], local'[d] = local[d],
         pc'[d] = "insert"
  PROVE  local'[d] \in Arrays \ owned' /\ call'[d].kind = "register" /\ call'[d].id \in Ids
<1>1. local[d] \notin owned'
  BY FreeIsUnused DEF IInv, ClaimIsOwn, OnlyFreeGiven
<1> QED
  BY <1>1 DEF IInv, ClaimIsOwn, Untouched

\* A step of the call c that registers nothing keeps the promises to the others.
LEMMA WinnersStay ==
  ASSUME IInv, schemas' = schemas, NEW c \in Calls, Moves(c),
         ~(call'[c].kind = "register" /\ answer'[c] = "ok"), answer'[c] /= "exists"
  PROVE  WinnerIsThere' /\ OneWinner'
<1>1. Registered' = Registered
  BY DEF Registered
<1>2. \A d \in Calls :
        \/ answer'[d] \in {"ok", "exists"} => d /= c
        \/ call'[d].kind /= "register"
  OBVIOUS
<1>3. WinnerIsThere'
  BY <1>1, <1>2 DEF IInv, WinnerIsThere, Moves
<1>4. OneWinner'
  <2>1. \A d, e \in Calls :
          /\ d /= e
          /\ call'[d].kind = "register" /\ answer'[d] = "ok"
          /\ call'[e].kind = "register" /\ answer'[e] = "ok"
          => call'[d].id /= call'[e].id /\ call'[d].name /= call'[e].name
    BY <1>2 DEF IInv, OneWinner, Moves
  <2>2. \A d \in Calls :
          answer'[d] = "exists" =>
            \/ call'[d].id \in Registered'
            \/ \E id \in Registered' : schemas'[id].name = call'[d].name
    BY <1>1 DEF IInv, OneWinner, Moves
  <2> QED
    BY <2>1, <2>2 DEF OneWinner
<1> QED
  BY <1>3, <1>4

-----------------------------------------------------------------------------
(* One lemma per action.                                                   *)

LEMMA ApplicationInv ==
  ASSUME IInv, NEW a \in Arrays, NEW fields \in Contents,
         Allocate(a, fields) \/ Overwrite(a, fields)
  PROVE  IInv' /\ Untouched /\ schemas' = schemas
<1>1. /\ a \in owned \cup Free /\ owned' = owned \cup {a}
      /\ heap' = [heap EXCEPT ![a] = fields]
      /\ UNCHANGED <<schemas, pc, call, local, answer>> /\ raced' \subseteq raced \cup Calls
  BY DEF Allocate, Overwrite
<1>2. Untouched
  <2>1. \A b \in Arrays \ {a} : heap'[b] = heap[b]
    BY <1>1 DEF IInv, TypeOK
  <2> QED
    BY <1>1, <2>1, WritesElsewhere
<1>3. OnlyFreeGiven
  BY <1>1 DEF OnlyFreeGiven
<1>4. TypeOK'
  BY <1>1 DEF IInv, TypeOK
<1>5. StoredIsOwn'
  BY <1>1, <1>2, <1>3, StoredStays
<1>6. ClaimIsOwn'
  BY <1>1, <1>2, <1>3, ClaimStays DEF ClaimIsOwn
<1>7. /\ SourceIsThere' /\ CloneHasSource' /\ AnswersAreFinal'
      /\ WinnerIsThere' /\ OneWinner'
  BY <1>1 DEF IInv, SourceIsThere, CloneHasSource, AnswersAreFinal, WinnerIsThere, OneWinner, Registered
<1> QED
  BY <1>1, <1>2, <1>4, <1>5, <1>6, <1>7 DEF IInv

\* What a call does to its own variables.
LEMMA BeginEffect ==
  ASSUME TypeOK, NEW c \in Calls, NEW kind \in Kinds, NEW id \in Ids \cup {0},
         NEW name \in Names \cup {""}, Begin(c, kind, id, name)
  PROVE  /\ pc[c] = "idle"
         /\ call' \in [Calls -> [kind : Kinds, id : Ids \cup {0}, name : Names \cup {""}]]
         /\ call'[c].kind = kind /\ call'[c].id = id /\ call'[c].name = name
         /\ \A d \in Calls \ {c} : call'[d] = call[d]
BY DEF TypeOK, Begin

LEMMA ReturnEffect ==
  ASSUME TypeOK, NEW c \in Calls, NEW result \in Answers, Return(c, result)
  PROVE  /\ pc' \in [Calls -> Labels] /\ pc'[c] = "done"
         /\ local' \in [Calls -> Arrays \cup {None}]
         /\ answer' \in [Calls -> Answers] /\ answer'[c] = result
         /\ \A d \in Calls \ {c} :
              pc'[d] = pc[d] /\ local'[d] = local[d] /\ answer'[d] = answer[d]
BY DEF TypeOK, Return, Goto, Labels

\* A call that has returned, or begun to clone, claims nothing.
LEMMA OthersKeepTheirs ==
  ASSUME IInv, Untouched, OnlyFreeGiven, NEW c \in Calls, Moves(c), pc'[c] /= "insert",
         pc'[c] \in {"validate", "copy"} =>
           local'[c] \in Arrays /\ call'[c].kind = "register" /\ call'[c].id \in Ids,
         pc'[c] = "clone" => local'[c] \in Arrays /\ call'[c].kind = "get",
         pc'[c] /= "done" => answer'[c] = "none"
  PROVE  ClaimIsOwn' /\ SourceIsThere' /\ CloneHasSource' /\ AnswersAreFinal'
<1>1. ClaimIsOwn'
  BY ClaimStays DEF ClaimIsOwn, Moves
<1>2. SourceIsThere'
  BY DEF IInv, SourceIsThere, Moves
<1>3. CloneHasSource' /\ AnswersAreFinal'
  BY DEF IInv, CloneHasSource, AnswersAreFinal, Moves
<1> QED
  BY <1>1, <1>2, <1>3

LEMMA RegisterStartInv ==
  ASSUME IInv, NEW c \in Calls, NEW id \in Ids, NEW name \in Names, NEW a \in Arrays,
         RegisterStart(c, id, name, a)
  PROVE  IInv' /\ Untouched /\ schemas' = schemas
<1> USE DEF IInv
<1>1. /\ pc[c] = "idle" /\ call'[c].kind = "register" /\ call'[c].id = id
      /\ call' \in [Calls -> [kind : Kinds, id : Ids \cup {0}, name : Names \cup {""}]]
      /\ \A d \in Calls \ {c} : call'[d] = call[d]
      /\ UNCHANGED <<heap, owned, schemas, answer, raced>>
  <2>1. Begin(c, "register", id, name) /\ UNCHANGED <<heap, owned, schemas, answer, raced>>
    BY DEF RegisterStart
  <2>2. "register" \in Kinds
    BY DEF Kinds
  <2>3. id \in Ids \cup {0} /\ name \in Names \cup {""}
    BY Zenon
  <2>4. /\ pc[c] = "idle"
        /\ call' \in [Calls -> [kind : Kinds, id : Ids \cup {0}, name : Names \cup {""}]]
        /\ call'[c].kind = "register" /\ call'[c].id = id
        /\ \A d \in Calls \ {c} : call'[d] = call[d]
    BY <2>1, <2>2, <2>3, BeginEffect
  <2> QED
    BY <2>1, <2>4
<1>2. Untouched /\ OnlyFreeGiven
  BY <1>1 DEF Untouched, OnlyFreeGiven
<1>3. local' = [local EXCEPT ![c] = a] /\ Goto(c, "validate")
  BY DEF RegisterStart
<1>4. /\ pc' \in [Calls -> Labels] /\ pc'[c] = "validate"
      /\ local' \in [Calls -> Arrays \cup {None}] /\ local'[c] = a
  BY <1>3 DEF TypeOK, Goto, Labels
<1>5. Moves(c) /\ answer'[c] = "none"
  BY <1>1, <1>3 DEF TypeOK, Moves, Goto, AnswersAreFinal
<1>6. TypeOK'
  BY <1>1, <1>4 DEF TypeOK
<1> QED
  BY <1>1, <1>2, <1>4, <1>5, <1>6, StoredStays, OthersKeepTheirs, WinnersStay

LEMMA RegisterValidateInv ==
  ASSUME IInv, NEW c \in Calls, RegisterValidate(c)
  PROVE  IInv' /\ Untouched /\ schemas' = schemas
<1> USE DEF IInv
<1>1. pc[c] = "validate" /\ UNCHANGED <<heap, owned, schemas, call, raced>>
  BY DEF RegisterValidate
<1>2. Untouched /\ OnlyFreeGiven
  BY <1>1 DEF Untouched, OnlyFreeGiven
<1>3. local[c] \in Arrays /\ call[c].kind = "register" /\ call[c].id \in Ids
  BY <1>1 DEF SourceIsThere
<1>4. CASE Return(c, "invalid")
  <2>1. Moves(c) /\ pc'[c] = "done" /\ answer'[c] = "invalid"
    BY <1>1, <1>4, ReturnEffect DEF Moves, Answers
  <2>2. TypeOK'
    BY <1>1, <1>4, ReturnEffect DEF TypeOK, Answers
  <2> QED
    BY <1>1, <1>2, <2>1, <2>2, StoredStays, OthersKeepTheirs, WinnersStay
<1>5. CASE Goto(c, "copy") /\ UNCHANGED <<local, answer>>
  <2>1. pc' \in [Calls -> Labels] /\ pc'[c] = "copy"
    BY <1>5 DEF TypeOK, Goto, Labels
  <2>2. Moves(c) /\ answer'[c] = "none"
    BY <1>1, <1>5 DEF TypeOK, Moves, Goto, AnswersAreFinal
  <2>3. TypeOK'
    BY <1>1, <1>5, <2>1 DEF TypeOK
  <2> QED
    BY <1>1, <1>2, <1>3, <1>5, <2>1, <2>2, <2>3, StoredStays, OthersKeepTheirs, WinnersStay
<1> QED
  BY <1>4, <1>5 DEF RegisterValidate

LEMMA CloneEffect ==
  ASSUME IInv, NEW c \in Calls, RegisterClone(c)
  PROVE  \E copy \in Free, fields \in Contents \cup {<<>>} :
           /\ c \notin raced => fields = heap[local[c]]
           /\ heap' = [heap EXCEPT ![copy] = fields]
           /\ local' = [local EXCEPT ![c] = copy]
<1>1. pc[c] = "copy" /\ heap[local[c]] \in Contents \cup {<<>>}
  BY DEF RegisterClone, IInv, SourceIsThere, TypeOK
<1>2. PICK copy \in Free, fields \in IF c \in raced THEN Contents ELSE {heap[local[c]]} :
        heap' = [heap EXCEPT ![copy] = fields] /\ local' = [local EXCEPT ![c] = copy]
  BY DEF RegisterClone
<1>3. fields \in Contents \cup {<<>>} /\ (c \notin raced => fields = heap[local[c]])
  BY <1>1, <1>2
<1> QED
  BY <1>2, <1>3

LEMMA RegisterCloneInv ==
  ASSUME IInv, NEW c \in Calls, RegisterClone(c)
  PROVE  IInv' /\ Untouched /\ schemas' = schemas
<1> USE DEF IInv
<1>1. /\ pc[c] = "copy" /\ Goto(c, "insert")
      /\ UNCHANGED <<owned, schemas, call, answer, raced>>
  BY DEF RegisterClone
<1>2. PICK copy \in Free, fields \in Contents \cup {<<>>} :
        heap' = [heap EXCEPT ![copy] = fields] /\ local' = [local EXCEPT ![c] = copy]
  BY CloneEffect
<1>3. /\ pc' \in [Calls -> Labels] /\ pc'[c] = "insert"
      /\ local' \in [Calls -> Arrays \cup {None}] /\ local'[c] = copy
      /\ heap' \in [Arrays -> Contents \cup {<<>>}]
      /\ \A b \in Arrays \ {copy} : heap'[b] = heap[b]
  BY <1>1, <1>2, FreeIsUnused DEF TypeOK, Goto, Labels
<1>4. Moves(c) /\ OnlyFreeGiven /\ answer'[c] = "none"
  BY <1>1, <1>2 DEF TypeOK, Moves, Goto, OnlyFreeGiven, AnswersAreFinal
<1>5. Untouched
  BY <1>3, WritesElsewhere
<1>6. TypeOK'
  BY <1>1, <1>3 DEF TypeOK
<1>7. ClaimIsOwn'
  <2> SUFFICES ASSUME NEW d \in Calls, pc'[d] = "insert"
               PROVE  /\ local'[d] \in Arrays \ owned'
                      /\ call'[d].kind = "register" /\ call'[d].id \in Ids
    BY DEF ClaimIsOwn
  <2>1. CASE d = c
    BY <1>1, <1>3, <2>1, FreeIsUnused DEF SourceIsThere
  <2>2. CASE d /= c
    BY <1>4, <1>5, <2>2, ClaimStays DEF Moves
  <2> QED
    BY <2>1, <2>2
<1>8. SourceIsThere' /\ CloneHasSource' /\ AnswersAreFinal'
  BY <1>3, <1>4 DEF SourceIsThere, CloneHasSource, AnswersAreFinal, Moves
<1> QED
  BY <1>1, <1>4, <1>5, <1>6, <1>7, <1>8, StoredStays, WinnersStay

LEMMA RegisterInsertInv ==
  ASSUME IInv, NEW c \in Calls, RegisterInsert(c)
  PROVE  IInv' /\ Untouched /\ \A id \in Registered : schemas'[id] = schemas[id]
<1> USE DEF IInv
<1> DEFINE id == call[c].id
           name == call[c].name
           taken == id \in Registered \/ \E i \in Registered : schemas[i].name = name
<1>1. pc[c] = "insert" /\ UNCHANGED <<heap, owned, call, raced>>
  BY DEF RegisterInsert
<1>2. Untouched /\ OnlyFreeGiven
  BY <1>1 DEF Untouched, OnlyFreeGiven
<1>3. local[c] \in Arrays \ owned /\ id \in Ids /\ call[c].kind = "register"
  BY <1>1 DEF ClaimIsOwn
<1>4. CASE taken
  <2>1. Return(c, "exists") /\ UNCHANGED schemas
    BY <1>4 DEF RegisterInsert
  <2>2. Moves(c) /\ pc'[c] = "done" /\ answer'[c] = "exists"
    BY <1>1, <2>1, ReturnEffect DEF Moves, Answers
  <2>3. TypeOK'
    BY <1>1, <2>1, ReturnEffect DEF TypeOK, Answers
  <2>4. Registered' = Registered
    BY <2>1 DEF Registered
  <2>5. WinnerIsThere'
    BY <1>1, <2>1, <2>2, <2>4 DEF WinnerIsThere, Moves
  <2>6. OneWinner'
    <3>1. \A d, e \in Calls :
            /\ d /= e
            /\ call'[d].kind = "register" /\ answer'[d] = "ok"
            /\ call'[e].kind = "register" /\ answer'[e] = "ok"
            => call'[d].id /= call'[e].id /\ call'[d].name /= call'[e].name
      BY <1>1, <2>2 DEF OneWinner, Moves
    <3>2. \A d \in Calls \ {c} :
            answer'[d] = "exists" =>
              \/ call'[d].id \in Registered'
              \/ \E i \in Registered' : schemas'[i].name = call'[d].name
      BY <1>1, <2>1, <2>2, <2>4 DEF OneWinner, Moves
    <3>3. call'[c].id \in Registered' \/ \E i \in Registered' : schemas'[i].name = call'[c].name
      BY <1>1, <1>4, <2>1, <2>4
    <3> QED
      BY <3>1, <3>2, <3>3 DEF OneWinner
  <2> QED
    BY <1>2, <2>1, <2>2, <2>3, <2>5, <2>6, StoredStays, OthersKeepTheirs
<1>5. CASE ~taken
  <2>1. /\ schemas' = [schemas EXCEPT ![id] = [name |-> name, fields |-> local[c]]]
        /\ Return(c, "ok")
    BY <1>5 DEF RegisterInsert
  <2>2. Moves(c) /\ pc'[c] = "done" /\ answer'[c] = "ok"
    BY <1>1, <2>1, ReturnEffect DEF Moves, Answers
  <2>3. name \in Names \cup {""}
    BY DEF TypeOK
  <2>4. /\ schemas' \in [Ids -> [name : Names \cup {""}, fields : Arrays \cup {None}]]
        /\ schemas'[id].name = name /\ schemas'[id].fields = local[c]
        /\ \A i \in Ids \ {id} : schemas'[i] = schemas[i]
    BY <1>3, <2>1, <2>3 DEF TypeOK
  <2>5. TypeOK'
    BY <1>1, <2>1, <2>4, ReturnEffect DEF TypeOK, Answers
  <2>6. Registered' = Registered \cup {id}
    BY <1>3, <2>4 DEF Registered
  <2>7. \A i \in Registered : i /= id /\ schemas'[i] = schemas[i]
    BY <1>5, <2>4 DEF Registered
  <2>8. StoredIsOwn'
    <3> SUFFICES ASSUME NEW i \in Registered'
                 PROVE  schemas'[i].fields \in Arrays \ owned'
      BY DEF StoredIsOwn
    <3>1. CASE i = id
      BY <1>1, <1>3, <2>4, <3>1
    <3>2. CASE i \in Registered
      BY <1>1, <2>7, <3>2 DEF StoredIsOwn
    <3> QED
      BY <2>6, <3>1, <3>2
  <2>9. WinnerIsThere'
    <3> SUFFICES ASSUME NEW d \in Calls, call'[d].kind = "register", answer'[d] = "ok"
                 PROVE  call'[d].id \in Registered' /\ schemas'[call'[d].id].name = call'[d].name
      BY DEF WinnerIsThere
    <3>1. CASE d = c
      BY <1>1, <2>4, <2>6, <3>1
    <3>2. CASE d /= c
      BY <1>1, <2>2, <2>6, <2>7, <3>2 DEF WinnerIsThere, Moves
    <3> QED
      BY <3>1, <3>2
  <2>10. \A d \in Calls \ {c} :
           call[d].kind = "register" /\ answer[d] = "ok" => call[d].id /= id /\ call[d].name /= name
    BY <1>5 DEF WinnerIsThere
  <2>11. OneWinner'
    <3>1. \A d, e \in Calls :
            /\ d /= e
            /\ call'[d].kind = "register" /\ answer'[d] = "ok"
            /\ call'[e].kind = "register" /\ answer'[e] = "ok"
            => call'[d].id /= call'[e].id /\ call'[d].name /= call'[e].name
      BY <1>1, <2>2, <2>10 DEF OneWinner, Moves
    <3>2. \A d \in Calls :
            answer'[d] = "exists" =>
              \/ call'[d].id \in Registered'
              \/ \E i \in Registered' : schemas'[i].name = call'[d].name
      BY <1>1, <2>2, <2>6, <2>7 DEF OneWinner, Moves
    <3> QED
      BY <3>1, <3>2 DEF OneWinner
  <2>12. ClaimIsOwn' /\ SourceIsThere' /\ CloneHasSource' /\ AnswersAreFinal'
    BY <1>2, <2>2, OthersKeepTheirs
  <2> QED
    BY <1>2, <2>5, <2>7, <2>8, <2>9, <2>11, <2>12
<1> QED
  BY <1>4, <1>5

LEMMA GetReadInv ==
  ASSUME IInv, NEW c \in Calls, NEW id \in Ids, GetRead(c, id)
  PROVE  IInv' /\ Untouched /\ schemas' = schemas
<1> USE DEF IInv
<1>1. /\ pc[c] = "idle" /\ call'[c].kind = "get"
      /\ call' \in [Calls -> [kind : Kinds, id : Ids \cup {0}, name : Names \cup {""}]]
      /\ \A d \in Calls \ {c} : call'[d] = call[d]
      /\ UNCHANGED <<heap, owned, schemas, raced>>
  BY BeginEffect DEF GetRead, Kinds
<1>2. Untouched /\ OnlyFreeGiven
  BY <1>1 DEF Untouched, OnlyFreeGiven
<1>3. CASE id \notin Registered
  <2>1. Return(c, "not found")
    BY <1>3 DEF GetRead
  <2>2. Moves(c) /\ pc'[c] = "done" /\ answer'[c] = "not found"
    BY <1>1, <2>1, ReturnEffect DEF Moves, Answers
  <2>3. TypeOK'
    BY <1>1, <2>1, ReturnEffect DEF TypeOK, Answers
  <2> QED
    BY <1>1, <1>2, <2>2, <2>3, StoredStays, OthersKeepTheirs, WinnersStay
<1>4. CASE id \in Registered
  <2>1. local' = [local EXCEPT ![c] = schemas[id].fields] /\ Goto(c, "clone") /\ UNCHANGED answer
    BY <1>4 DEF GetRead
  <2>2. schemas[id].fields \in Arrays
    BY <1>4 DEF StoredIsOwn
  <2>3. /\ pc' \in [Calls -> Labels] /\ pc'[c] = "clone"
        /\ local' \in [Calls -> Arrays \cup {None}] /\ local'[c] \in Arrays
    BY <2>1, <2>2 DEF TypeOK, Goto, Labels
  <2>4. Moves(c) /\ answer'[c] = "none"
    BY <1>1, <2>1 DEF TypeOK, Moves, Goto, AnswersAreFinal
  <2>5. TypeOK'
    BY <1>1, <2>1, <2>3 DEF TypeOK
  <2> QED
    BY <1>1, <1>2, <2>3, <2>4, <2>5, StoredStays, OthersKeepTheirs, WinnersStay
<1> QED
  BY <1>3, <1>4

LEMMA GetCloneInv ==
  ASSUME IInv, NEW c \in Calls, GetClone(c)
  PROVE  IInv' /\ Untouched /\ schemas' = schemas
<1> USE DEF IInv
<1>1. PICK copy \in Free :
        heap' = [heap EXCEPT ![copy] = heap[local[c]]] /\ owned' = owned \cup {copy}
  BY DEF GetClone
<1>2. pc[c] = "clone" /\ Return(c, "ok") /\ UNCHANGED <<schemas, call, raced>>
  BY DEF GetClone
<1>3. local[c] \in Arrays /\ call[c].kind = "get" /\ copy \in Arrays
  BY <1>2, FreeIsUnused DEF CloneHasSource
<1>4. heap' \in [Arrays -> Contents \cup {<<>>}] /\ \A a \in Arrays \ {copy} : heap'[a] = heap[a]
  BY <1>1, <1>3 DEF TypeOK
<1>5. Untouched
  BY <1>4, WritesElsewhere
<1>6. OnlyFreeGiven
  BY <1>1 DEF OnlyFreeGiven
<1>7. Moves(c) /\ pc'[c] = "done" /\ answer'[c] = "ok"
  BY <1>2, ReturnEffect DEF Moves, Answers
<1>8. TypeOK'
  BY <1>1, <1>2, <1>3, <1>4, ReturnEffect DEF TypeOK, Answers
<1> QED
  BY <1>2, <1>3, <1>5, <1>6, <1>7, <1>8, StoredStays, OthersKeepTheirs, WinnersStay

LEMMA ListInv ==
  ASSUME IInv, NEW c \in Calls, List(c)
  PROVE  IInv' /\ Untouched /\ schemas' = schemas
<1> USE DEF IInv
<1>1. /\ pc[c] = "idle" /\ call'[c].kind = "list"
      /\ call' \in [Calls -> [kind : Kinds, id : Ids \cup {0}, name : Names \cup {""}]]
      /\ \A d \in Calls \ {c} : call'[d] = call[d]
      /\ Return(c, "ok") /\ UNCHANGED <<schemas, raced>>
  BY BeginEffect DEF List, Kinds
<1>2. PICK copy \in [Registered -> Free] :
        /\ heap' = [a \in Arrays |->
                      IF \E id \in Registered : copy[id] = a
                        THEN heap[schemas[CHOOSE id \in Registered : copy[id] = a].fields]
                        ELSE heap[a]]
        /\ owned' = owned \cup {copy[id] : id \in Registered}
  BY DEF List, Injection
<1> DEFINE W == {copy[id] : id \in Registered}
<1>3. W \subseteq Free
  BY <1>2
<1>4. heap' \in [Arrays -> Contents \cup {<<>>}]
  <2> SUFFICES ASSUME NEW a \in Arrays PROVE heap'[a] \in Contents \cup {<<>>}
    BY <1>2
  <2>1. CASE \E id \in Registered : copy[id] = a
    <3>1. (CHOOSE id \in Registered : copy[id] = a) \in Registered
      BY <2>1
    <3> QED
      BY <1>2, <2>1, <3>1 DEF TypeOK, StoredIsOwn
  <2>2. CASE ~\E id \in Registered : copy[id] = a
    BY <1>2, <2>2 DEF TypeOK
  <2> QED
    BY <2>1, <2>2
<1>5. \A a \in Arrays \ W : heap'[a] = heap[a]
  BY <1>2
<1>6. Untouched
  BY <1>3, <1>5, WritesElsewhere
<1>7. OnlyFreeGiven /\ owned' \subseteq Arrays
  BY <1>2, <1>3, FreeIsUnused DEF OnlyFreeGiven, TypeOK
<1>8. Moves(c) /\ pc'[c] = "done" /\ answer'[c] = "ok"
  BY <1>1, ReturnEffect DEF Moves, Answers
<1>9. TypeOK'
  BY <1>1, <1>4, <1>7, ReturnEffect DEF TypeOK, Answers
<1> QED
  BY <1>1, <1>6, <1>7, <1>8, <1>9, StoredStays, OthersKeepTheirs, WinnersStay

-----------------------------------------------------------------------------
(* The invariant of the specification.                                     *)

LEMMA InitInv == Init => IInv
<1> SUFFICES ASSUME Init PROVE IInv
  OBVIOUS
<1>1. Registered = {}
  BY DEF Init, NoEntry, Registered
<1>2. TypeOK
  BY DEF Init, TypeOK, NoEntry, NoCall, Kinds, Labels, Answers
<1>3. StoredIsOwn /\ ClaimIsOwn /\ SourceIsThere /\ CloneHasSource
  BY <1>1 DEF Init, StoredIsOwn, ClaimIsOwn, SourceIsThere, CloneHasSource
<1>4. AnswersAreFinal /\ WinnerIsThere /\ OneWinner
  BY <1>1 DEF Init, NoCall, AnswersAreFinal, WinnerIsThere, OneWinner
<1> QED
  BY <1>2, <1>3, <1>4 DEF IInv

LEMMA StepInv ==
  ASSUME IInv, Next
  PROVE  IInv' /\ Untouched /\ \A id \in Registered : schemas'[id] = schemas[id]
<1>1. ASSUME NEW a \in Arrays, NEW fields \in Contents,
             Allocate(a, fields) \/ Overwrite(a, fields)
      PROVE  IInv' /\ Untouched /\ schemas' = schemas
  BY <1>1, ApplicationInv
<1>2. ASSUME NEW c \in Calls,
             \/ \E id \in Ids, name \in Names, a \in Arrays : RegisterStart(c, id, name, a)
             \/ RegisterValidate(c) \/ RegisterClone(c)
             \/ \E id \in Ids : GetRead(c, id)
             \/ GetClone(c) \/ List(c)
      PROVE  IInv' /\ Untouched /\ schemas' = schemas
  BY <1>2, RegisterStartInv, RegisterValidateInv, RegisterCloneInv, GetReadInv, GetCloneInv, ListInv
<1>3. ASSUME NEW c \in Calls, RegisterInsert(c)
      PROVE  IInv' /\ Untouched /\ \A id \in Registered : schemas'[id] = schemas[id]
  BY <1>3, RegisterInsertInv
<1>4. ASSUME Terminated
      PROVE  IInv' /\ Untouched /\ schemas' = schemas
  <2>1. UNCHANGED vars
    BY <1>4 DEF Terminated
  <2> QED
    BY <2>1 DEF vars, IInv, TypeOK, StoredIsOwn, ClaimIsOwn, SourceIsThere, CloneHasSource, AnswersAreFinal,
                WinnerIsThere, OneWinner, Registered, Untouched
<1> QED
  BY <1>1, <1>2, <1>3, <1>4 DEF Next

LEMMA StutterInv ==
  ASSUME IInv, UNCHANGED vars
  PROVE  IInv'
BY DEF vars, IInv, TypeOK, StoredIsOwn, ClaimIsOwn, SourceIsThere, CloneHasSource, AnswersAreFinal,
       WinnerIsThere, OneWinner, Registered

THEOREM Invariance == Spec => []IInv
<1>1. IInv /\ [Next]_vars => IInv'
  BY StepInv, StutterInv
<1> QED
  BY InitInv, <1>1, PTL DEF Spec

-----------------------------------------------------------------------------
(* What a Register has validated stays valid, unless it was raced.          *)

\* The slice between validation and clone, and the clone before the lock.
ClaimIsValid ==
  \A c \in Calls :
    pc[c] \in {"copy", "insert"} /\ c \notin raced =>
      ValidSchema(call[c].id, call[c].name, heap[local[c]])

Valid == ClaimIsValid /\ RegisteredIsValid

\* A step that changes no claim's array keeps the claims of the calls that stay.
LEMMA ClaimStaysValid ==
  ASSUME IInv, ClaimIsValid, NEW d \in Calls,
         pc'[d] = pc[d], call'[d] = call[d], local'[d] = local[d],
         d \in raced => d \in raced',
         pc[d] = "copy" /\ d \notin raced' => heap'[local[d]] = heap[local[d]],
         Untouched, pc'[d] \in {"copy", "insert"}, d \notin raced'
  PROVE  ValidSchema(call'[d].id, call'[d].name, heap'[local'[d]])
BY DEF ClaimIsValid, Untouched

\* A registered schema is untouched, and so is the call that registered it.
LEMMA RegisteredStays ==
  ASSUME IInv, RegisteredIsValid, Untouched, NEW d \in Calls,
         call'[d] = call[d], answer'[d] = answer[d], d \in raced => d \in raced',
         \A id \in Registered : schemas'[id] = schemas[id],
         call'[d].kind = "register", answer'[d] = "ok", d \notin raced'
  PROVE  /\ call'[d].id \in Registered'
         /\ ValidSchema(call'[d].id, schemas'[call'[d].id].name,
                        heap'[schemas'[call'[d].id].fields])
<1>1. /\ call[d].id \in Registered
      /\ ValidSchema(call[d].id, schemas[call[d].id].name, heap[schemas[call[d].id].fields])
  BY DEF RegisteredIsValid
<1>2. call[d].id \in Registered' /\ schemas'[call[d].id] = schemas[call[d].id]
  BY <1>1 DEF Registered
<1> QED
  BY <1>1, <1>2 DEF Untouched

\* A step of the call c alone, that races nobody.
LEMMA ValidStays ==
  ASSUME IInv, Valid, Untouched, raced' = raced, NEW c \in Calls, Moves(c),
         \A id \in Registered : schemas'[id] = schemas[id],
         \A d \in Calls \ {c} : pc[d] = "copy" => heap'[local[d]] = heap[local[d]],
         pc'[c] \in {"copy", "insert"} /\ c \notin raced =>
           ValidSchema(call'[c].id, call'[c].name, heap'[local'[c]]),
         call'[c].kind = "register" /\ answer'[c] = "ok" /\ c \notin raced =>
           /\ call'[c].id \in Registered'
           /\ ValidSchema(call'[c].id, schemas'[call'[c].id].name,
                          heap'[schemas'[call'[c].id].fields])
  PROVE  Valid'
<1>1. ClaimIsValid'
  BY ClaimStaysValid DEF Valid, ClaimIsValid, Moves
<1>2. RegisteredIsValid'
  <2> SUFFICES ASSUME NEW d \in Calls, call'[d].kind = "register", answer'[d] = "ok",
                      d \notin raced'
               PROVE  /\ call'[d].id \in Registered'
                      /\ ValidSchema(call'[d].id, schemas'[call'[d].id].name,
                                     heap'[schemas'[call'[d].id].fields])
    BY DEF RegisteredIsValid
  <2>1. CASE d = c
    BY <2>1
  <2>2. CASE d /= c
    BY <2>2, RegisteredStays DEF Valid, Moves
  <2> QED
    BY <2>1, <2>2
<1> QED
  BY <1>1, <1>2 DEF Valid

LEMMA NextValid ==
  ASSUME IInv, Valid, Next
  PROVE  Valid'
<1>a. Untouched /\ \A id \in Registered : schemas'[id] = schemas[id]
  BY StepInv
<1>b. TypeOK /\ IInv'
  BY StepInv DEF IInv
<1>1. ASSUME NEW a \in Arrays, NEW fields \in Contents,
             Allocate(a, fields) \/ Overwrite(a, fields)
      PROVE  Valid'
  <2>1. /\ UNCHANGED <<schemas, pc, call, local, answer>> /\ raced \subseteq raced'
        /\ heap' = [heap EXCEPT ![a] = fields]
    BY <1>1 DEF Allocate, Overwrite
  <2>2. \A d \in Calls : pc[d] = "copy" /\ local[d] = a => d \in raced'
    BY <1>1, FreeIsUnused DEF Allocate, Overwrite
  <2>3. \A d \in Calls : pc[d] = "copy" /\ d \notin raced' => heap'[local[d]] = heap[local[d]]
    BY <1>b, <2>1, <2>2 DEF IInv, TypeOK, SourceIsThere
  <2>4. ClaimIsValid'
    BY <1>a, <2>1, <2>3, ClaimStaysValid DEF Valid, ClaimIsValid
  <2>5. RegisteredIsValid'
    BY <1>a, <2>1, RegisteredStays DEF Valid, RegisteredIsValid
  <2> QED
    BY <2>4, <2>5 DEF Valid
<1>2. ASSUME NEW c \in Calls, NEW id \in Ids, NEW name \in Names, NEW a \in Arrays,
             RegisterStart(c, id, name, a)
      PROVE  Valid'
  <2>1. Begin(c, "register", id, name) /\ Goto(c, "validate") /\ UNCHANGED <<heap, answer, raced>>
        /\ local' = [local EXCEPT ![c] = a]
    BY <1>2 DEF RegisterStart
  <2>2. pc'[c] = "validate" /\ Moves(c) /\ answer'[c] = "none"
    BY <1>b, <2>1 DEF IInv, TypeOK, Begin, Goto, Moves, AnswersAreFinal
  <2> QED
    BY <1>a, <2>1, <2>2, ValidStays
<1>3. ASSUME NEW c \in Calls, RegisterValidate(c)
      PROVE  Valid'
  <2>1. pc[c] = "validate" /\ UNCHANGED <<heap, call, raced>>
    BY <1>3 DEF RegisterValidate
  <2>2. CASE Return(c, "invalid")
    <3>1. Moves(c) /\ pc'[c] = "done" /\ answer'[c] = "invalid"
      BY <1>b, <2>1, <2>2, ReturnEffect DEF Moves, Answers
    <3> QED
      BY <1>a, <2>1, <3>1, ValidStays
  <2>3. CASE /\ c \in raced \/ ValidSchema(call[c].id, call[c].name, heap[local[c]])
             /\ Goto(c, "copy") /\ UNCHANGED <<local, answer>>
    <3>1. Moves(c) /\ answer'[c] = "none"
      BY <1>b, <2>1, <2>3 DEF IInv, TypeOK, Moves, Goto, AnswersAreFinal
    <3> QED
      BY <1>a, <2>1, <2>3, <3>1, ValidStays
  <2> QED
    BY <1>3, <2>2, <2>3 DEF RegisterValidate
<1>4. ASSUME NEW c \in Calls, RegisterClone(c)
      PROVE  Valid'
  <2>1. pc[c] = "copy" /\ Goto(c, "insert") /\ UNCHANGED <<call, answer, raced>>
    BY <1>4 DEF RegisterClone
  <2>2. PICK copy \in Free, fields \in Contents \cup {<<>>} :
          /\ c \notin raced => fields = heap[local[c]]
          /\ heap' = [heap EXCEPT ![copy] = fields]
          /\ local' = [local EXCEPT ![c] = copy]
    BY <1>4, CloneEffect
  <2>3. copy \in Arrays /\ \A d \in Calls : local[d] /= copy
    BY FreeIsUnused
  <2>4. Moves(c) /\ pc'[c] = "insert" /\ answer'[c] = "none"
    BY <1>b, <2>1, <2>2 DEF IInv, TypeOK, Moves, Goto, AnswersAreFinal
  <2>5. heap'[copy] = fields /\ local'[c] = copy
    BY <1>b, <2>2, <2>3 DEF TypeOK
  <2>6. \A d \in Calls : pc[d] = "copy" => heap'[local[d]] = heap[local[d]]
    BY <1>b, <2>2, <2>3 DEF IInv, TypeOK, SourceIsThere
  <2>7. c \notin raced => ValidSchema(call'[c].id, call'[c].name, heap'[local'[c]])
    BY <2>1, <2>2, <2>5 DEF Valid, ClaimIsValid
  <2> QED
    BY <1>a, <2>1, <2>4, <2>6, <2>7, ValidStays
<1>5. ASSUME NEW c \in Calls, RegisterInsert(c)
      PROVE  Valid'
  <2>1. pc[c] = "insert" /\ UNCHANGED <<heap, owned, call, raced>>
    BY <1>5 DEF RegisterInsert
  <2>2. CASE Return(c, "exists")
    <3>1. Moves(c) /\ pc'[c] = "done" /\ answer'[c] = "exists"
      BY <1>b, <2>1, <2>2, ReturnEffect DEF Moves, Answers
    <3> QED
      BY <1>a, <2>1, <3>1, ValidStays
  <2>3. CASE /\ schemas' = [schemas EXCEPT ![call[c].id] =
                              [name |-> call[c].name, fields |-> local[c]]]
             /\ Return(c, "ok")
    <3>1. Moves(c) /\ pc'[c] = "done" /\ answer'[c] = "ok"
      BY <1>b, <2>1, <2>3, ReturnEffect DEF Moves, Answers
    <3>2. call[c].id \in Ids /\ local[c] \in Arrays
      BY <2>1 DEF IInv, ClaimIsOwn
    <3>3. /\ schemas'[call[c].id].name = call[c].name /\ schemas'[call[c].id].fields = local[c]
          /\ call[c].id \in Registered'
      BY <1>b, <2>3, <3>2 DEF TypeOK, Registered
    <3>4. c \notin raced => ValidSchema(call[c].id, call[c].name, heap[local[c]])
      BY <2>1 DEF Valid, ClaimIsValid
    <3> QED
      BY <1>a, <2>1, <3>1, <3>3, <3>4, ValidStays
  <2> QED
    BY <1>5, <2>2, <2>3 DEF RegisterInsert
<1>6. ASSUME NEW c \in Calls, NEW id \in Ids, GetRead(c, id)
      PROVE  Valid'
  <2>1. /\ Begin(c, "get", id, "") /\ UNCHANGED <<heap, raced>>
        /\ \/ Return(c, "not found")
           \/ /\ local' = [local EXCEPT ![c] = schemas[id].fields]
              /\ Goto(c, "clone") /\ UNCHANGED answer
    BY <1>6 DEF GetRead
  <2>2. Moves(c) /\ pc'[c] \in {"done", "clone"} /\ call'[c].kind = "get"
    BY <1>b, <2>1 DEF TypeOK, Begin, Return, Goto, Moves
  <2> QED
    BY <1>a, <2>1, <2>2, ValidStays
<1>7. ASSUME NEW c \in Calls, GetClone(c)
      PROVE  Valid'
  <2>1. pc[c] = "clone" /\ Return(c, "ok") /\ UNCHANGED <<call, raced>>
    BY <1>7 DEF GetClone
  <2>2. Moves(c) /\ pc'[c] = "done" /\ call'[c].kind = "get"
    BY <1>b, <2>1 DEF IInv, TypeOK, Return, Goto, Moves, CloneHasSource
  <2>3. \A d \in Calls : pc[d] = "copy" => heap'[local[d]] = heap[local[d]]
    BY <1>7, <1>b, FreeIsUnused DEF GetClone, IInv, TypeOK, SourceIsThere
  <2> QED
    BY <1>a, <2>1, <2>2, <2>3, ValidStays
<1>8. ASSUME NEW c \in Calls, List(c)
      PROVE  Valid'
  <2>1. Begin(c, "list", 0, "") /\ Return(c, "ok") /\ UNCHANGED raced
    BY <1>8 DEF List
  <2>2. Moves(c) /\ pc'[c] = "done" /\ call'[c].kind = "list"
    BY <1>b, <2>1 DEF TypeOK, Begin, Return, Goto, Moves
  <2>3. \A d \in Calls : pc[d] = "copy" => heap'[local[d]] = heap[local[d]]
    <3>1. PICK copy \in [Registered -> Free] :
            heap' = [a \in Arrays |->
                       IF \E id \in Registered : copy[id] = a
                         THEN heap[schemas[CHOOSE id \in Registered : copy[id] = a].fields]
                         ELSE heap[a]]
      BY <1>8 DEF List, Injection
    <3>2. \A id \in Registered : \A d \in Calls : local[d] /= copy[id]
      BY <3>1, FreeIsUnused
    <3> QED
      BY <3>1, <3>2 DEF IInv, SourceIsThere
  <2> QED
    BY <1>a, <2>1, <2>2, <2>3, ValidStays
<1>9. ASSUME Terminated
      PROVE  Valid'
  BY <1>9 DEF Terminated, vars, Valid, ClaimIsValid, RegisteredIsValid, Registered
<1> QED
  BY <1>1, <1>2, <1>3, <1>4, <1>5, <1>6, <1>7, <1>8, <1>9 DEF Next

-----------------------------------------------------------------------------
(* The properties of the runs.                                             *)

\* Every variable keeps its type.
THEOREM TypeCorrect == Spec => []TypeOK
<1>1. IInv => TypeOK
  BY DEF IInv
<1> QED
  BY <1>1, Invariance, PTL

\* A schema that Register stored is valid, and stays so whatever the application
\* writes to the slices it holds, unless it wrote to the one it passed while
\* Register was reading it.
THEOREM RegisteredStaysValid == Spec => []RegisteredIsValid
<1>1. Init => Valid
  BY DEF Init, NoCall, Valid, ClaimIsValid, RegisteredIsValid
<1>2. IInv /\ Valid /\ UNCHANGED vars => Valid'
  BY DEF vars, Valid, ClaimIsValid, RegisteredIsValid, Registered
<1>3. IInv /\ Valid /\ [Next]_vars => Valid'
  BY <1>2, NextValid
<1>4. Valid => RegisteredIsValid
  BY DEF Valid
<1> QED
  BY <1>1, <1>3, <1>4, Invariance, PTL DEF Spec

\* Of any number of concurrent Registers of one id or name one succeeds.
THEOREM OneRegisterWins == Spec => []OneWinner
<1>1. IInv => OneWinner
  BY DEF IInv
<1> QED
  BY <1>1, Invariance, PTL

\* A registered schema is there for ever, and unchanged.
THEOREM RegisteredIsImmutable == Spec => RegisteredNeverChanges
<1> DEFINE Keep ==
      \A id \in Registered :
        /\ id \in Registered'
        /\ schemas'[id].name = schemas[id].name
        /\ heap'[schemas'[id].fields] = heap[schemas[id].fields]
<1>1. IInv /\ Next => Keep
  <2> SUFFICES ASSUME IInv, Next, NEW id \in Registered
               PROVE  /\ id \in Registered'
                      /\ schemas'[id].name = schemas[id].name
                      /\ heap'[schemas'[id].fields] = heap[schemas[id].fields]
    OBVIOUS
  <2>1. Untouched /\ schemas'[id] = schemas[id]
    BY StepInv
  <2> QED
    BY <2>1 DEF Untouched, Registered
<1>2. IInv /\ [Next]_vars => [Keep]_vars
  BY <1>1
<1> QED
  BY <1>2, Invariance, PTL DEF Spec, RegisteredNeverChanges

=============================================================================
