---------------------------- MODULE SchemaRegistry ----------------------------
(***************************************************************************)
(* MemorySchemaRegistry, mapper/registry.go: a map of schemas under an     *)
(* RWMutex, called by any number of goroutines.                            *)
(*                                                                         *)
(* A Go schema holds its fields in a slice, and a copy of the struct is a  *)
(* second reference to the same array.  So fields live in a heap: an       *)
(* element of Arrays is one backing array, `owned' are those the           *)
(* application can reach and may overwrite whenever it likes.  Only        *)
(* cloneSchema keeps them apart from the registry's own.                   *)
(***************************************************************************)
EXTENDS Naturals, Sequences, FiniteSets, Functions

CONSTANTS
  Calls,     \* calls of Register, Get and List, each made once
  Arrays,    \* backing arrays of field slices
  Ids,       \* schema ids
  Names,     \* schema names
  Contents,  \* the field lists an application may write
  None       \* no array

ASSUME IdsAssumption == Ids \subseteq Nat
ASSUME ContentsAssumption ==
  \A fields \in Contents :
    fields \in Seq([id : Nat, name : STRING, type : STRING])
ASSUME NoneAssumption == None \notin Arrays

VARIABLES
  heap,     \* the content of each array
  owned,    \* the arrays the application holds
  schemas,  \* MemorySchemaRegistry.schemas; fields = None where it has no entry
  pc,       \* where each call is
  call,     \* its kind and arguments
  local,    \* the array in its own copy of a schema
  answer,   \* "ok", or its error
  raced     \* Registers whose slice the application wrote to as they read it

vars == <<heap, owned, schemas, pc, call, local, answer, raced>>

Kinds   == {"register", "get", "list", "none"}
Labels  == {"idle", "validate", "copy", "insert", "clone", "done"}
Answers == {"none", "ok", "invalid", "exists", "not found"}
NoEntry == [name |-> "", fields |-> None]
NoCall  == [kind |-> "none", id |-> 0, name |-> ""]

Registered == {id \in Ids : schemas[id].fields /= None}

\* Go allocates an array that nobody refers to.
Free == Arrays \ (owned \cup {schemas[id].fields : id \in Ids} \cup {local[c] : c \in Calls})

Init ==
  /\ heap = [a \in Arrays |-> <<>>]
  /\ owned = {}
  /\ schemas = [id \in Ids |-> NoEntry]
  /\ pc = [c \in Calls |-> "idle"]
  /\ call = [c \in Calls |-> NoCall]
  /\ local = [c \in Calls |-> None]
  /\ answer = [c \in Calls |-> "none"]
  /\ raced = {}

-----------------------------------------------------------------------------
Goto(c, label) == pc' = [pc EXCEPT ![c] = label]

Begin(c, kind, id, name) ==
  /\ pc[c] = "idle"
  /\ call' = [call EXCEPT ![c] = [kind |-> kind, id |-> id, name |-> name]]

\* The call returns, and its copy of the struct is gone.
Return(c, result) ==
  /\ Goto(c, "done")
  /\ answer' = [answer EXCEPT ![c] = result]
  /\ local' = [local EXCEPT ![c] = None]

Supported == {"string", "integer", "decimal", "boolean", "datetime"}

\* validateSchema
ValidFields(fields) ==
  /\ fields /= <<>>
  /\ \A i \in DOMAIN fields :
       fields[i].id /= 0 /\ fields[i].name /= "" /\ fields[i].type \in Supported
  /\ \A i, j \in DOMAIN fields :
       fields[i].id = fields[j].id \/ fields[i].name = fields[j].name => i = j

ValidSchema(id, name, fields) == id /= 0 /\ name /= "" /\ ValidFields(fields)

-----------------------------------------------------------------------------
(* Slips: what a plausible mistake would make of a step.  Spec takes none.   *)

\* Register stores the slice it was given.
SlipRegisterShares(c) ==
  /\ pc[c] = "copy"
  /\ Goto(c, "insert")
  /\ UNCHANGED <<heap, owned, schemas, call, local, answer, raced>>

\* Register looks for the id under the lock, but not for the name.
SlipInsertById(c) ==
  LET id == call[c].id IN
  /\ pc[c] = "insert"
  /\ IF id \in Registered THEN Return(c, "exists") /\ UNCHANGED schemas
     ELSE /\ schemas' = [schemas EXCEPT ![id] = [name |-> call[c].name, fields |-> local[c]]]
          /\ Return(c, "ok")
  /\ UNCHANGED <<heap, owned, call, raced>>

\* Get returns the registry's own struct.
SlipGetShares(c) ==
  /\ pc[c] = "clone"
  /\ owned' = owned \cup {local[c]}
  /\ Return(c, "ok")
  /\ UNCHANGED <<heap, schemas, call, raced>>

\* Get does not ask whether the map has the id, and clones nothing.
SlipGetUnfound(c, id) ==
  /\ Begin(c, "get", id, "")
  /\ owned' = owned \cup {schemas[id].fields}
  /\ Return(c, "ok")
  /\ UNCHANGED <<heap, schemas, raced>>

-----------------------------------------------------------------------------
(* The application.                                                        *)

Allocate(a, fields) ==
  /\ a \in Free
  /\ owned' = owned \cup {a}
  /\ heap' = [heap EXCEPT ![a] = fields]
  /\ UNCHANGED <<schemas, pc, call, local, answer, raced>>

\* It writes to a slice it holds: one it made, or one it got back.  Register
\* may be reading it.
Overwrite(a, fields) ==
  /\ a \in owned /\ heap[a] /= fields
  /\ heap' = [heap EXCEPT ![a] = fields]
  /\ raced' = raced \cup {c \in Calls : pc[c] \in {"validate", "copy"} /\ local[c] = a}
  /\ UNCHANGED <<owned, schemas, pc, call, local, answer>>

-----------------------------------------------------------------------------
(* Register: validateSchema, then cloneSchema, both on the caller's slice   *)
(* and without a lock, then one critical section.  What either makes of a  *)
(* slice that is being written to is anybody's guess.                      *)

RegisterStart(c, id, name, a) ==
  /\ Begin(c, "register", id, name)
  /\ a \in owned
  /\ local' = [local EXCEPT ![c] = a]
  /\ Goto(c, "validate")
  /\ UNCHANGED <<heap, owned, schemas, answer, raced>>

RegisterValidate(c) ==
  LET valid == ValidSchema(call[c].id, call[c].name, heap[local[c]]) IN
  /\ pc[c] = "validate"
  /\ \/ (c \in raced \/ ~valid) /\ Return(c, "invalid")
     \/ (c \in raced \/ valid) /\ Goto(c, "copy") /\ UNCHANGED <<local, answer>>
  /\ UNCHANGED <<heap, owned, schemas, call, raced>>

RegisterClone(c) ==
  /\ pc[c] = "copy"
  /\ \E copy \in Free, fields \in IF c \in raced THEN Contents ELSE {heap[local[c]]} :
       /\ heap' = [heap EXCEPT ![copy] = fields]
       /\ local' = [local EXCEPT ![c] = copy]
  /\ Goto(c, "insert")
  /\ UNCHANGED <<owned, schemas, call, answer, raced>>

RegisterInsert(c) ==
  LET id == call[c].id
      name == call[c].name
      taken == id \in Registered \/ \E i \in Registered : schemas[i].name = name
  IN
  /\ pc[c] = "insert"
  /\ \/ taken /\ Return(c, "exists") /\ UNCHANGED schemas
     \/ /\ ~taken
        /\ schemas' = [schemas EXCEPT ![id] = [name |-> name, fields |-> local[c]]]
        /\ Return(c, "ok")
  /\ UNCHANGED <<heap, owned, call, raced>>

\* Get: the struct is read under the lock and cloned after it.
GetRead(c, id) ==
  /\ Begin(c, "get", id, "")
  /\ \/ id \notin Registered /\ Return(c, "not found")
     \/ /\ id \in Registered
        /\ local' = [local EXCEPT ![c] = schemas[id].fields]
        /\ Goto(c, "clone") /\ UNCHANGED answer
  /\ UNCHANGED <<heap, owned, schemas, raced>>

GetClone(c) ==
  /\ pc[c] = "clone"
  /\ \E copy \in Free :
       /\ heap' = [heap EXCEPT ![copy] = heap[local[c]]]
       /\ owned' = owned \cup {copy}
  /\ Return(c, "ok")
  /\ UNCHANGED <<schemas, call, raced>>

\* List clones every schema under the read lock; the order is left out.
List(c) ==
  /\ Begin(c, "list", 0, "")
  /\ \E copy \in Injection(Registered, Free) :
       /\ heap' = [a \in Arrays |->
                     IF \E id \in Registered : copy[id] = a
                       THEN heap[schemas[CHOOSE id \in Registered : copy[id] = a].fields]
                       ELSE heap[a]]
       /\ owned' = owned \cup {copy[id] : id \in Registered}
  /\ Return(c, "ok")
  /\ UNCHANGED <<schemas, raced>>

Terminated == (\A c \in Calls : pc[c] = "done") /\ UNCHANGED vars

Next ==
  \/ \E a \in Arrays, fields \in Contents : Allocate(a, fields) \/ Overwrite(a, fields)
  \/ \E c \in Calls :
       \/ \E id \in Ids, name \in Names, a \in Arrays : RegisterStart(c, id, name, a)
       \/ RegisterValidate(c) \/ RegisterClone(c) \/ RegisterInsert(c)
       \/ \E id \in Ids : GetRead(c, id)
       \/ GetClone(c)
       \/ List(c)
  \/ Terminated

Spec == Init /\ [][Next]_vars

-----------------------------------------------------------------------------
(* Properties.                                                             *)

\* Every variable has its type.
TypeOK ==
  /\ heap \in [Arrays -> Contents \cup {<<>>}]
  /\ owned \subseteq Arrays
  /\ schemas \in [Ids -> [name : Names \cup {""}, fields : Arrays \cup {None}]]
  /\ pc \in [Calls -> Labels]
  /\ call \in [Calls -> [kind : Kinds, id : Ids \cup {0}, name : Names \cup {""}]]
  /\ local \in [Calls -> Arrays \cup {None}]
  /\ answer \in [Calls -> Answers]
  /\ raced \subseteq Calls

\* What Get, List and Import find is valid, and stays valid whatever the
\* application writes to the slices it passed in or got back, unless it wrote
\* to the slice it passed to Register before that had cloned it.
RegisteredIsValid ==
  \A c \in Calls :
    call[c].kind = "register" /\ answer[c] = "ok" /\ c \notin raced =>
      LET id == call[c].id
      IN id \in Registered /\ ValidSchema(id, schemas[id].name, heap[schemas[id].fields])

\* Of any number of concurrent Registers of one id or one name one succeeds,
\* and a Register is refused only for a schema that is there.
OneWinner ==
  /\ \A c, d \in Calls :
       /\ c /= d
       /\ call[c].kind = "register" /\ answer[c] = "ok"
       /\ call[d].kind = "register" /\ answer[d] = "ok"
       => call[c].id /= call[d].id /\ call[c].name /= call[d].name
  /\ \A c \in Calls :
       answer[c] = "exists" =>
         call[c].id \in Registered \/ \E id \in Registered : schemas[id].name = call[c].name

\* A registered schema stays, with its name and its fields: what an import
\* compiled its plan against is what any later one finds.
RegisteredNeverChanges ==
  [][\A id \in Registered :
       /\ id \in Registered'
       /\ schemas'[id].name = schemas[id].name
       /\ heap'[schemas'[id].fields] = heap[schemas[id].fields]]_vars

=============================================================================
