------------------------------ MODULE TempStore ------------------------------
(***************************************************************************)
(* The local file store, filestore/tempfile/store.go: one directory, an    *)
(* in-memory metadata map under Store.mu, and the operations Save, Open,   *)
(* Delete and Close, called by any number of goroutines (HTTP handlers,    *)
(* the TUS handler, the executor).                                         *)
(*                                                                         *)
(* Each element of Ops is one call.  System calls and critical sections    *)
(* are single actions; anything may happen between two of them, a crash of *)
(* the process included.  The content of a file is the Save that wrote it  *)
(* and whether the copy is complete.                                       *)
(***************************************************************************)
EXTENDS Naturals, FiniteSets

CONSTANTS
  Ops,          \* calls, each made once
  FileIds,      \* the ids newFileID may return
  MaxAttempts,  \* how many ids Save tries (8 in the code)
  MaxCrashes,   \* bound: crashes of the process
  None          \* no call

ASSUME MaxAttemptsAssumption == MaxAttempts \in Nat \ {0}
ASSUME MaxCrashesAssumption == MaxCrashes \in Nat
ASSUME NoneAssumption == None \notin Ops

VARIABLES
  owned,     \* Store.owned: New made the directory, the caller did not give it
  disk,      \* the files in the directory
  root,      \* whether the directory exists
  metadata,  \* Store.metadata: the Save that registered a file, or None
  closed,    \* Store.closed
  pc,        \* where each call is
  call,      \* its kind, the file it works on, the ids Save has tried
  result,    \* what it returned, final once pc is "done"
  crashes    \* crashes so far

store == <<disk, root, metadata, closed>>
vars  == <<owned, store, pc, call, result, crashes>>

Absent   == [by |-> None, whole |-> FALSE]
Content  == [by : Ops \cup {None}, whole : BOOLEAN]
Kinds    == {"save", "open", "delete", "close", "none"}
Labels   == {"idle", "create", "copy", "register", "undo",
             "openfile", "lookup", "remove", "forget", "clear", "rmdir",
             "done", "dead"}

\* A call returns an error, or nil with what Open read: the content, and the
\* Save whose metadata it found (None: the metadata made up from the file).
NoResult == [ok |-> FALSE, content |-> Absent, meta |-> None]

Init ==
  /\ owned \in BOOLEAN
  /\ disk = [f \in FileIds |-> Absent]
  /\ root = TRUE
  /\ metadata = [f \in FileIds |-> None]
  /\ closed = FALSE
  /\ pc = [o \in Ops |-> "idle"]
  /\ call = [o \in Ops |-> [kind |-> "none", files |-> {}, tried |-> 0]]
  /\ result = [o \in Ops |-> NoResult]
  /\ crashes = 0

-----------------------------------------------------------------------------
Goto(o, label) == pc' = [pc EXCEPT ![o] = label]

OnDisk(f) == disk[f] /= Absent

\* The file a call works on, once it has one.
Works(o, f) == call[o].files = {f}

Begin(o, kind, files) ==
  call' = [call EXCEPT ![o] = [kind |-> kind, files |-> files, tried |-> 0]]

Return(o, ok) ==
  /\ Goto(o, "done")
  /\ result' = [result EXCEPT ![o].ok = ok]

Fail(o) == Return(o, FALSE)

\* newFileID draws 16 random bytes.  It may hit a file that is there, which
\* O_EXCL refuses, but not an id used before and since removed.
Fresh(f) == \A o \in Ops : call[o].kind = "save" => ~Works(o, f)

\* A caller knows a file id from a Save that returned it.
Known(f) ==
  \E o \in Ops : call[o].kind = "save" /\ Works(o, f) /\ pc[o] = "done" /\ result[o].ok

Remove(f) == disk' = [disk EXCEPT ![f] = Absent]

-----------------------------------------------------------------------------
(* Slips: what a plausible mistake would make of a step.  Spec takes none.   *)

\* Without O_EXCL a drawn id that exists is truncated and written again.
SlipCreateTruncates(o) ==
  \E f \in FileIds :
    /\ pc[o] = "create" /\ root
    /\ disk' = [disk EXCEPT ![f] = [by |-> o, whole |-> FALSE]]
    /\ call' = [call EXCEPT ![o].files = {f}]
    /\ Goto(o, "copy")
    /\ UNCHANGED <<owned, root, metadata, closed, result, crashes>>

\* Save tries ids until one is free.
SlipCollidesForever(o) ==
  /\ pc[o] = "create"
  /\ \E f \in FileIds : OnDisk(f)
  /\ call' = [call EXCEPT ![o].tried = @ + 1]
  /\ UNCHANGED <<owned, store, pc, result, crashes>>

\* Open makes metadata up although the store has an entry.
SlipLookupMisses(o) ==
  /\ pc[o] = "lookup"
  /\ Return(o, TRUE)
  /\ UNCHANGED <<owned, store, call, crashes>>

\* Save does not look at closed again before it registers.
SlipRegisterUnchecked(o) ==
  \E f \in FileIds :
    /\ pc[o] = "register" /\ Works(o, f)
    /\ metadata' = [metadata EXCEPT ![f] = o]
    /\ Return(o, TRUE)
    /\ UNCHANGED <<owned, disk, root, closed, call, crashes>>

\* Save returns the error of a failed copy and leaves the file.
SlipUndoKeepsFile(o) ==
  /\ pc[o] = "undo"
  /\ Fail(o)
  /\ UNCHANGED <<owned, store, call, crashes>>

\* Delete leaves the metadata entry behind.
SlipForgetNothing(o) ==
  /\ pc[o] = "forget"
  /\ Return(o, TRUE)
  /\ UNCHANGED <<owned, store, call, crashes>>

-----------------------------------------------------------------------------
(* Save: lines 88-151.                                                     *)

\* A done context or a store that is not ready is refused.
SaveStart(o) ==
  /\ pc[o] = "idle"
  /\ Begin(o, "save", {})
  /\ \/ ~closed /\ Goto(o, "create") /\ UNCHANGED result
     \/ Fail(o)
  /\ UNCHANGED <<owned, store, crashes>>

SaveCollides(o) ==
  /\ pc[o] = "create"
  /\ \E f \in FileIds : OnDisk(f)
  /\ call' = [call EXCEPT ![o].tried = @ + 1]
  /\ IF call[o].tried + 1 = MaxAttempts THEN Fail(o) ELSE UNCHANGED <<pc, result>>
  /\ UNCHANGED <<owned, store, crashes>>

SaveCreate(o) ==
  \E f \in FileIds :
    /\ pc[o] = "create" /\ root
    /\ Fresh(f)
    /\ disk' = [disk EXCEPT ![f] = [by |-> o, whole |-> FALSE]]
    /\ call' = [call EXCEPT ![o].files = {f}]
    /\ Goto(o, "copy")
    /\ UNCHANGED <<owned, root, metadata, closed, result, crashes>>

\* The directory is gone, or there is no room for a file.
SaveCreateFails(o) ==
  /\ pc[o] = "create"
  /\ Fail(o)
  /\ UNCHANGED <<owned, store, call, crashes>>

SaveCopy(o) ==
  \E f \in FileIds :
    /\ pc[o] = "copy" /\ Works(o, f)
    /\ disk' = [disk EXCEPT ![f].whole = OnDisk(f)]
    /\ Goto(o, "register")
    /\ UNCHANGED <<owned, root, metadata, closed, call, result, crashes>>

\* The reader, the disk or the context fails.
SaveCopyFails(o) ==
  /\ pc[o] = "copy"
  /\ Goto(o, "undo")
  /\ UNCHANGED <<owned, store, call, result, crashes>>

SaveRegister(o) ==
  \E f \in FileIds :
    /\ pc[o] = "register" /\ Works(o, f)
    /\ IF closed
         THEN Goto(o, "undo") /\ UNCHANGED <<metadata, result>>
         ELSE metadata' = [metadata EXCEPT ![f] = o] /\ Return(o, TRUE)
    /\ UNCHANGED <<owned, disk, root, closed, call, crashes>>

SaveUndo(o) ==
  \E f \in FileIds :
    /\ pc[o] = "undo" /\ Works(o, f)
    /\ Remove(f) /\ Fail(o)
    /\ UNCHANGED <<owned, root, metadata, closed, call, crashes>>

-----------------------------------------------------------------------------
(* Open: lines 153-184.                                                    *)

OpenStart(o, f) ==
  /\ pc[o] = "idle" /\ Known(f)
  /\ Begin(o, "open", {f})
  /\ \/ ~closed /\ Goto(o, "openfile") /\ UNCHANGED result
     \/ Fail(o)
  /\ UNCHANGED <<owned, store, crashes>>

OpenFile(o) ==
  \E f \in FileIds :
    /\ pc[o] = "openfile" /\ Works(o, f)
    /\ IF OnDisk(f)
         THEN Goto(o, "lookup") /\ result' = [result EXCEPT ![o].content = disk[f]]
         ELSE Fail(o)
    /\ UNCHANGED <<owned, store, call, crashes>>

\* Without an entry Open makes up metadata, the id for a name and the size
\* that Stat gives; Stat may fail.
OpenLookup(o) ==
  \E f \in FileIds :
    /\ pc[o] = "lookup" /\ Works(o, f)
    /\ \/ /\ result' = [result EXCEPT ![o].ok = TRUE, ![o].meta = metadata[f]]
          /\ Goto(o, "done")
       \/ metadata[f] = None /\ Fail(o)
    /\ UNCHANGED <<owned, store, call, crashes>>

-----------------------------------------------------------------------------
(* Delete: lines 186-209.                                                  *)

DeleteStart(o, f) ==
  /\ pc[o] = "idle" /\ Known(f)
  /\ Begin(o, "delete", {f})
  /\ \/ ~closed /\ Goto(o, "remove") /\ UNCHANGED result
     \/ Fail(o)
  /\ UNCHANGED <<owned, store, crashes>>

DeleteRemove(o) ==
  \E f \in FileIds :
    /\ pc[o] = "remove" /\ Works(o, f)
    /\ IF OnDisk(f)
         THEN Remove(f) /\ Goto(o, "forget") /\ UNCHANGED result
         ELSE Fail(o) /\ UNCHANGED disk
    /\ UNCHANGED <<owned, root, metadata, closed, call, crashes>>

DeleteForget(o) ==
  \E f \in FileIds :
    /\ pc[o] = "forget" /\ Works(o, f)
    /\ metadata' = [metadata EXCEPT ![f] = None]
    /\ Return(o, TRUE)
    /\ UNCHANGED <<owned, disk, root, closed, call, crashes>>

-----------------------------------------------------------------------------
(* Close: lines 211-228.                                                   *)

CloseStart(o) ==
  /\ pc[o] = "idle"
  /\ Begin(o, "close", {})
  /\ closed' = TRUE
  /\ IF closed \/ ~owned THEN Return(o, TRUE)
                         ELSE Goto(o, "clear") /\ UNCHANGED result
  /\ UNCHANGED <<owned, disk, root, metadata, crashes>>

\* os.RemoveAll removes the files it lists, then the directory.
CloseClear(o) ==
  /\ pc[o] = "clear"
  /\ disk' = [f \in FileIds |-> Absent]
  /\ Goto(o, "rmdir")
  /\ UNCHANGED <<owned, root, metadata, closed, call, result, crashes>>

\* A file created since the listing keeps the directory, and RemoveAll fails.
CloseRmdir(o) ==
  /\ pc[o] = "rmdir"
  /\ IF \E f \in FileIds : OnDisk(f)
       THEN Fail(o) /\ UNCHANGED root
       ELSE root' = FALSE /\ Return(o, TRUE)
  /\ UNCHANGED <<owned, disk, metadata, closed, call, crashes>>

-----------------------------------------------------------------------------
\* The process dies, and New(directory) starts another on the same directory:
\* the files are there, the metadata is not, the calls in flight are lost.
CrashAndRestart ==
  /\ ~owned /\ crashes < MaxCrashes
  /\ crashes' = crashes + 1
  /\ metadata' = [f \in FileIds |-> None]
  /\ closed' = FALSE
  /\ pc' = [o \in Ops |-> IF pc[o] \in {"idle", "done"} THEN pc[o] ELSE "dead"]
  /\ UNCHANGED <<owned, disk, root, call, result>>

Quiet == \A o \in Ops : pc[o] \in {"idle", "done", "dead"}

Terminated ==
  /\ \A o \in Ops : pc[o] \in {"done", "dead"}
  /\ UNCHANGED vars

Next ==
  \/ \E o \in Ops :
       \/ SaveStart(o) \/ SaveCollides(o) \/ SaveCreate(o) \/ SaveCreateFails(o)
       \/ SaveCopy(o) \/ SaveCopyFails(o) \/ SaveRegister(o) \/ SaveUndo(o)
       \/ OpenFile(o) \/ OpenLookup(o)
       \/ DeleteRemove(o) \/ DeleteForget(o)
       \/ CloseStart(o) \/ CloseClear(o) \/ CloseRmdir(o)
       \/ \E f \in FileIds : OpenStart(o, f) \/ DeleteStart(o, f)
  \/ CrashAndRestart
  \/ Terminated

Spec == Init /\ [][Next]_vars

-----------------------------------------------------------------------------
(* What the store promises its callers: it implements FileStore.  A file    *)
(* is in the abstract store from the critical section that registers it to  *)
(* the os.Remove that takes it out; a call is decided by the system call    *)
(* that reads or removes its file.                                          *)

Succeeded(o) == pc[o] = "done" /\ result[o].ok

SavedFiles ==
  [f \in FileIds |->
     IF disk[f].by \in Ops /\ Succeeded(disk[f].by) THEN disk[f].by ELSE None]

\* The files there whose metadata has not been forgotten.
Described == {f \in FileIds : SavedFiles[f] /= None /\ metadata[f] /= None}

Phase(o) ==
  IF pc[o] = "done" THEN "returned"
  ELSE IF pc[o] = "dead" THEN "lost"
  ELSE IF pc[o] \in {"lookup", "forget", "clear", "rmdir"} THEN "decided"
  ELSE "pending"

Decided(kind, files, by, meta) ==
  [kind |-> kind, files |-> files, by |-> by, meta |-> meta]

\* What a call answers: an Open the content it has read and, once it has
\* returned, the metadata it has found.
Outcome(o) ==
  IF pc[o] \notin {"done", "lookup", "forget", "clear", "rmdir"}
    THEN Decided("none", {}, None, None)
  ELSE IF call[o].kind = "close" THEN Decided("closed", {}, None, None)
  ELSE IF pc[o] = "done" /\ ~result[o].ok THEN Decided("failed", {}, None, None)
  ELSE IF call[o].kind = "save" THEN Decided("saved", call[o].files, o, None)
  ELSE IF call[o].kind = "delete" THEN Decided("deleted", call[o].files, None, None)
  ELSE Decided("read", call[o].files,
               IF result[o].content.whole THEN result[o].content.by ELSE None,
               IF pc[o] = "done" THEN result[o].meta ELSE None)

Promise ==
  INSTANCE FileStore WITH
    open      <- ~closed,
    files     <- SavedFiles,
    described <- Described,
    phase     <- [o \in Ops |-> Phase(o)],
    outcome   <- [o \in Ops |-> Outcome(o)]

-----------------------------------------------------------------------------
(* Properties.                                                             *)

\* Every variable has its type.
TypeOK ==
  /\ owned \in BOOLEAN
  /\ disk \in [FileIds -> Content]
  /\ root \in BOOLEAN
  /\ metadata \in [FileIds -> Ops \cup {None}]
  /\ closed \in BOOLEAN
  /\ pc \in [Ops -> Labels]
  /\ call \in [Ops -> [kind : Kinds, files : SUBSET FileIds, tried : 0 .. MaxAttempts]]
  /\ result \in [Ops -> [ok : BOOLEAN, content : Content, meta : Ops \cup {None}]]
  /\ crashes \in 0 .. MaxCrashes

DeleteBegun(f) ==
  \E o \in Ops : call[o].kind = "delete" /\ Works(o, f)

\* A file whose Save returned nil stays, whole and as that Save wrote it,
\* until someone deletes it or an owned store is closed: no other Save can
\* take its id or its path.
SavedFileAvailable ==
  \A o \in Ops, f \in FileIds :
    (/\ call[o].kind = "save" /\ Works(o, f) /\ pc[o] = "done" /\ result[o].ok
     /\ ~DeleteBegun(f) /\ ~(closed /\ owned))
      => /\ disk[f] = [by |-> o, whole |-> TRUE]
         /\ crashes = 0 => metadata[f] = o

\* A Save that returned an error has left no file, whichever step failed.
FailedSaveLeavesNothing ==
  \A o \in Ops, f \in FileIds :
    call[o].kind = "save" /\ pc[o] = "done" /\ ~result[o].ok => disk[f].by /= o

\* With no call in flight, and no crash, the directory and the metadata map
\* name the same files.
MapMatchesDirectory ==
  Quiet /\ crashes = 0 /\ ~(closed /\ owned) =>
    \A f \in FileIds : OnDisk(f) <=> metadata[f] /= None

\* Once an owned store is closed and the calls under way have returned, no
\* uploaded data is left on disk: a Save that lost the race removes its file.
ClosedStoreIsEmpty ==
  closed /\ owned /\ Quiet => \A f \in FileIds : ~OnDisk(f)

\* What Open returns is a complete copy, with or without its metadata.
OpenedIsWhole ==
  \A o \in Ops :
    call[o].kind = "open" /\ pc[o] = "done" /\ result[o].ok => result[o].content.whole

\* Every behaviour of the store is one in which Save, Open and Delete are
\* atomic: partial files, races of the two maps, failed and late calls and
\* crashes show in no bytes returned and in no file kept or lost.  Open returns
\* "its stored metadata" (line 153) with the bytes, but metadata made up
\* from the file (line 181) once a Delete or Close has taken the file away
\* meanwhile, or the process has restarted since the Save.
ImplementsFileStore == Promise!Spec

=============================================================================
