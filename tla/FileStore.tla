------------------------------ MODULE FileStore ------------------------------
(***************************************************************************)
(* What the rest of the system relies on when it calls a file store        *)
(* (mapper.FileStore, FileWriter and FileDeleter, mapper/file.go): Save,   *)
(* Open and Delete take effect at once, at some moment between call and    *)
(* return, or fail and have no effect.  Open also returns the metadata the *)
(* file was saved with, as long as the store has it: it loses it when the  *)
(* file goes and when the process restarts, and Open then makes some up.   *)
(*                                                                         *)
(* A call is pending, decided once it has taken effect, then returned; one *)
(* that a crash cuts short is lost.  TempStore implements this module; its *)
(* partial files, its second map and its error paths are invisible here.   *)
(***************************************************************************)
CONSTANTS
  Ops,      \* calls, each made once
  FileIds,  \* file ids
  None      \* no call

VARIABLES
  owned,    \* Close removes the files
  open,     \* Close has not been called since the last start
  files,    \* the Save each file is from, or None
  described, \* the files whose metadata the store still has
  phase,    \* where each call is
  outcome   \* what it will return, or has returned

vars == <<owned, open, files, described, phase, outcome>>

\* by: the Save whose bytes a read returns; meta: the one whose metadata it
\* returns, None for metadata made up from the file.
Answer(kind, f, by, meta) == [kind |-> kind, files |-> f, by |-> by, meta |-> meta]

Undecided == Answer("none", {}, None, None)

Init ==
  /\ owned \in BOOLEAN
  /\ open = TRUE
  /\ files = [f \in FileIds |-> None]
  /\ described = {}
  /\ phase = [o \in Ops |-> "pending"]
  /\ outcome = [o \in Ops |-> Undecided]

\* A pending call is decided, and may return at once.
Decide(o, next, kind, f, by) ==
  /\ phase[o] = "pending"
  /\ phase' = [phase EXCEPT ![o] = next]
  /\ outcome' = [outcome EXCEPT ![o] = Answer(kind, f, by, None)]

\* An id is given to one file only, ever.
Used(f) == \E o \in Ops : outcome[o].kind = "saved" /\ outcome[o].files = {f}

Save(o, f) ==
  /\ open /\ ~Used(f)
  /\ files' = [files EXCEPT ![f] = o]
  /\ described' = described \cup {f}
  /\ Decide(o, "returned", "saved", {f}, o)
  /\ UNCHANGED <<owned, open>>

\* The whole file, as its Save was given it.
Open(o, f) ==
  /\ files[f] /= None
  /\ Decide(o, "decided", "read", {f}, files[f])
  /\ UNCHANGED <<owned, open, files, described>>

\* With the bytes comes the metadata of the Save they are from.  Once the
\* store may have lost it, Open may make metadata up or fail instead.
Describe(o, f) ==
  /\ phase[o] = "decided" /\ outcome[o].kind = "read" /\ outcome[o].files = {f}
  /\ phase' = [phase EXCEPT ![o] = "returned"]
  /\ \E answer \in {Answer("read", {f}, outcome[o].by, outcome[o].by)}
                      \cup IF f \in described THEN {}
                           ELSE {outcome[o], Answer("failed", {}, None, None)} :
       outcome' = [outcome EXCEPT ![o] = answer]
  /\ UNCHANGED <<owned, open, files, described>>

Delete(o, f) ==
  /\ files[f] /= None
  /\ files' = [files EXCEPT ![f] = None]
  /\ described' = described \ {f}
  /\ Decide(o, "decided", "deleted", {f}, None)
  /\ UNCHANGED <<owned, open>>

\* From the first Close on nothing is saved; an owned store is still to clear.
Close(o) ==
  /\ open' = FALSE
  /\ Decide(o, IF open /\ owned THEN "decided" ELSE "returned", "closed", {}, None)
  /\ UNCHANGED <<owned, files, described>>

Clear ==
  /\ owned /\ ~open
  /\ files' = [f \in DOMAIN files |-> None]
  /\ described' = {}
  /\ UNCHANGED <<owned, open, phase, outcome>>

\* A call may fail; it has then changed nothing.
Fail(o) ==
  /\ Decide(o, "returned", "failed", {}, None)
  /\ UNCHANGED <<owned, open, files, described>>

Return(o) ==
  /\ phase[o] = "decided" /\ outcome[o].kind /= "read"
  /\ phase' = [phase EXCEPT ![o] = "returned"]
  /\ UNCHANGED <<owned, open, files, described, outcome>>

\* A crash loses calls and all metadata, and keeps every file.
Restart ==
  /\ ~owned
  /\ open' = TRUE
  /\ described' = {}
  /\ \E lost \in SUBSET {o \in Ops : phase[o] \in {"pending", "decided"}} :
       /\ phase' = [o \in Ops |-> IF o \in lost THEN "lost" ELSE phase[o]]
       /\ outcome' = [o \in Ops |-> IF o \in lost THEN Undecided ELSE outcome[o]]
  /\ UNCHANGED <<owned, files>>

Next ==
  \/ \E o \in Ops :
       \/ Close(o) \/ Fail(o) \/ Return(o)
       \/ \E f \in FileIds : Save(o, f) \/ Open(o, f) \/ Describe(o, f) \/ Delete(o, f)
  \/ Clear \/ Restart

Spec == Init /\ [][Next]_vars

=============================================================================
