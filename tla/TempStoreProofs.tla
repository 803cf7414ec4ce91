--------------------------- MODULE TempStoreProofs ---------------------------
(***************************************************************************)
(* Proofs about TempStore, for any number of calls, any set of ids, any    *)
(* bound on attempts and crashes, an owned and a given directory; the last *)
(* part proves that it implements FileStore.                               *)
(***************************************************************************)
EXTENDS TempStore, TLAPS

USE MaxAttemptsAssumption, MaxCrashesAssumption, NoneAssumption

-----------------------------------------------------------------------------
(* The inductive invariant.                                                *)

\* Where a call is says which operation it is; Save has no file before it
\* has created one, and gives up after MaxAttempts.
LabelsFit ==
  \A o \in Ops :
    /\ pc[o] \in {"create", "copy", "register", "undo"} => call[o].kind = "save"
    /\ pc[o] \in {"openfile", "lookup"} => call[o].kind = "open"
    /\ pc[o] \in {"remove", "forget"} => call[o].kind = "delete"
    /\ pc[o] \in {"clear", "rmdir"} => call[o].kind = "close" /\ owned /\ closed
    /\ pc[o] = "idle" => call[o].kind = "none"
    /\ pc[o] = "create" => call[o].files = {} /\ call[o].tried < MaxAttempts
    /\ pc[o] = "dead" => ~owned /\ crashes > 0

Saves(o, f) == call[o].kind = "save" /\ Works(o, f)

\* No two Saves ever work on one file.
OneSaver == \A o, p \in Ops, f \in FileIds : Saves(o, f) /\ Saves(p, f) => o = p

\* A file on disk is that of a Save that has not failed; it is whole once
\* that Save has copied it, and registered once it has returned.
SavedBy(o, f) ==
  /\ o \in Ops /\ Saves(o, f)
  /\ pc[o] \in {"copy", "register", "undo", "dead"} \/ Succeeded(o)
  /\ pc[o] = "register" => disk[f].whole
  /\ pc[o] = "done" => disk[f].whole /\ (crashes = 0 => metadata[f] = o)

FileIsSaved == \A f \in FileIds : disk[f] = Absent \/ SavedBy(disk[f].by, f)

\* A file whose Save is past its creation is there, unless someone deletes
\* it or the owned store is closed.
Holds(o, f) == Saves(o, f) /\ (pc[o] \in {"copy", "register"} \/ Succeeded(o))

MayBeGone(f) == DeleteBegun(f) \/ (closed /\ owned)

FileIsKept ==
  \A o \in Ops, f \in FileIds : Holds(o, f) => disk[f].by = o \/ MayBeGone(f)

\* Open and Delete work on files that were saved.
UsersKnow ==
  \A o \in Ops, f \in FileIds :
    call[o].kind \in {"open", "delete"} /\ Works(o, f) => Known(f)

\* A file whose metadata Delete is about to forget is gone for good.
RemovedIsGone ==
  \A o \in Ops, f \in FileIds : pc[o] = "forget" /\ Works(o, f) => disk[f] = Absent

\* A metadata entry is that of a Save that has succeeded.
EntryIsSaved ==
  \A f \in FileIds :
    \/ metadata[f] = None
    \/ metadata[f] \in Ops /\ Saves(metadata[f], f) /\ Succeeded(metadata[f])

\* A metadata entry has its file, or a Delete about to forget the entry.
EntryHasFile ==
  \A f \in FileIds :
    metadata[f] /= None =>
      \/ disk[f] /= Absent
      \/ closed /\ owned
      \/ \E o \in Ops : pc[o] = "forget" /\ Works(o, f)

\* After Close of an owned store a file is either about to be cleared, or
\* that of a Save that has yet to find out.
ClosedIsCleared ==
  closed /\ owned =>
    \/ \E o \in Ops : pc[o] = "clear"
    \/ \A f \in FileIds : disk[f] = Absent \/ pc[disk[f].by] /= "done"

\* What Open has read is whole.
ReadIsWhole ==
  \A o \in Ops :
    call[o].kind = "open" /\ (pc[o] = "lookup" \/ Succeeded(o)) => result[o].content.whole

\* What Open has read is from the Save that the id belongs to.
ReadIsOfItsFile ==
  \A o \in Ops, f \in FileIds :
    pc[o] = "lookup" /\ Works(o, f) =>
      /\ result[o].content.by \in Ops
      /\ Saves(result[o].content.by, f) /\ Succeeded(result[o].content.by)

Files == OneSaver /\ FileIsSaved /\ FileIsKept /\ UsersKnow /\ RemovedIsGone

IInv ==
  /\ TypeOK /\ LabelsFit /\ Files
  /\ EntryIsSaved /\ EntryHasFile /\ ClosedIsCleared /\ ReadIsWhole
  /\ ReadIsOfItsFile

-----------------------------------------------------------------------------
(* What a step does to the records of the call that takes it.              *)

Calls   == [kind : Kinds, files : SUBSET FileIds, tried : 0 .. MaxAttempts]
Results == [ok : BOOLEAN, content : Content, meta : Ops \cup {None}]

\* Only the call o moves.
Moves(o, label) ==
  /\ pc' \in [Ops -> Labels] /\ pc'[o] = label
  /\ call' \in [Ops -> Calls]
  /\ result' \in [Ops -> Results]
  /\ \A q \in Ops \ {o} : pc'[q] = pc[q] /\ call'[q] = call[q] /\ result'[q] = result[q]

LEMMA GotoEffect ==
  ASSUME TypeOK, NEW o \in Ops, NEW l \in Labels, Goto(o, l),
         call' \in [Ops -> Calls], \A q \in Ops \ {o} : call'[q] = call[q],
         result' = result
  PROVE  Moves(o, l)
BY DEF TypeOK, Goto, Moves, Calls, Results

LEMMA BeginEffect ==
  ASSUME TypeOK, NEW o \in Ops, NEW kind \in Kinds, NEW files \in SUBSET FileIds,
         Begin(o, kind, files)
  PROVE  /\ call' \in [Ops -> Calls]
         /\ \A q \in Ops \ {o} : call'[q] = call[q]
         /\ call'[o].kind = kind /\ call'[o].files = files /\ call'[o].tried = 0
BY DEF TypeOK, Begin, Calls

LEMMA ReturnEffect ==
  ASSUME TypeOK, NEW o \in Ops, NEW ok \in BOOLEAN, Return(o, ok),
         call' \in [Ops -> Calls], \A q \in Ops \ {o} : call'[q] = call[q]
  PROVE  /\ Moves(o, "done")
         /\ result'[o].ok = ok /\ result'[o].content = result[o].content
<1>1. result \in [Ops -> Results]
  BY DEF TypeOK, Results
<1>2. result' = [result EXCEPT ![o].ok = ok]
  BY DEF Return
<1>3. result' \in [Ops -> Results]
  BY <1>1, <1>2 DEF Results
<1>4. result'[o].ok = ok
  BY <1>1, <1>2 DEF Results
<1>5. result'[o].content = result[o].content
  BY <1>1, <1>2 DEF Results
<1>6. \A q \in Ops \ {o} : result'[q] = result[q]
  BY <1>1, <1>2 DEF Results
<1> QED
  BY <1>3, <1>4, <1>5, <1>6 DEF TypeOK, Return, Goto, Moves, Labels

LEMMA SameCalls ==
  ASSUME TypeOK, call' = call
  PROVE  call' \in [Ops -> Calls] /\ \A q \in Ops : call'[q] = call[q]
BY DEF TypeOK, Calls

-----------------------------------------------------------------------------
(* What stays true of the other calls and of the files they work on.       *)

\* The call o starts, or stays the kind of call it is with the file it has.
SameCall(o) ==
  \/ pc[o] = "idle"
  \/ /\ call'[o].kind = call[o].kind
     /\ pc[o] = "create" \/ call'[o].files = call[o].files

LEMMA KnownStays ==
  ASSUME NEW o \in Ops, NEW l \in Labels, Moves(o, l), pc[o] /= "done",
         NEW f \in FileIds, Known(f)
  PROVE  Known(f)'
<1>1. PICK p \in Ops : call[p].kind = "save" /\ call[p].files = {f} /\ pc[p] = "done" /\ result[p].ok
  BY DEF Known, Works
<1>2. p /= o
  BY <1>1
<1>3. call'[p].kind = "save" /\ call'[p].files = {f} /\ pc'[p] = "done" /\ result'[p].ok
  BY <1>1, <1>2 DEF Moves
<1> QED
  BY <1>3 DEF Known, Works

LEMMA UsersKnowStays ==
  ASSUME UsersKnow, NEW o \in Ops, NEW l \in Labels, Moves(o, l), pc[o] /= "done",
         \A f \in FileIds : call'[o].kind \in {"open", "delete"} /\ call'[o].files = {f} =>
            Known(f)
  PROVE  UsersKnow'
<1> SUFFICES ASSUME NEW q \in Ops, NEW f \in FileIds,
                    call'[q].kind \in {"open", "delete"}, call'[q].files = {f}
             PROVE  Known(f)'
  BY DEF UsersKnow, Works
<1>1. Known(f)
  <2>1. CASE q = o
    BY <2>1
  <2>2. CASE q /= o
    BY <2>2 DEF UsersKnow, Works, Moves
  <2> QED
    BY <2>1, <2>2
<1> QED
  BY <1>1, KnownStays

LEMMA MayBeGoneStays ==
  ASSUME LabelsFit, NEW o \in Ops, NEW l \in Labels, Moves(o, l), SameCall(o),
         owned' = owned, closed => closed', NEW f \in FileIds, MayBeGone(f)
  PROVE  MayBeGone(f)'
<1>1. CASE closed /\ owned
  BY <1>1 DEF MayBeGone
<1>2. CASE DeleteBegun(f)
  <2>1. PICK p \in Ops : call[p].kind = "delete" /\ call[p].files = {f}
    BY <1>2 DEF DeleteBegun, Works
  <2>2. call'[p].kind = "delete" /\ call'[p].files = {f}
    <3>1. CASE p = o
      BY <2>1, <3>1 DEF SameCall, LabelsFit
    <3>2. CASE p /= o
      BY <2>1, <3>2 DEF Moves
    <3> QED
      BY <3>1, <3>2
  <2> QED
    BY <2>2 DEF MayBeGone, DeleteBegun, Works
<1> QED
  BY <1>1, <1>2 DEF MayBeGone

LEMMA OneSaverStays ==
  ASSUME OneSaver, NEW o \in Ops, NEW l \in Labels, Moves(o, l),
         \A f \in FileIds : call'[o].kind = "save" /\ call'[o].files = {f} =>
            \/ Saves(o, f)
            \/ \A q \in Ops \ {o} : ~Saves(q, f)
  PROVE  OneSaver'
<1> SUFFICES ASSUME NEW p \in Ops, NEW q \in Ops, NEW f \in FileIds,
                    Saves(p, f)', Saves(q, f)'
             PROVE  p = q
  BY DEF OneSaver
<1>1. \A r \in Ops \ {o} : Saves(r, f)' => Saves(r, f)
  BY DEF Moves, Saves, Works
<1> QED
  BY <1>1 DEF OneSaver, Saves, Works

LEMMA FileIsSavedStays ==
  ASSUME FileIsSaved, NEW o \in Ops, NEW l \in Labels, Moves(o, l), crashes' = crashes,
         \A f \in FileIds :
            \/ disk'[f] = Absent
            \/ SavedBy(o, f)' /\ disk'[f].by = o
            \/ disk'[f] = disk[f] /\ metadata'[f] = metadata[f] /\ disk[f].by /= o
  PROVE  FileIsSaved'
<1> SUFFICES ASSUME NEW f \in FileIds, disk'[f] /= Absent
             PROVE  SavedBy(disk[f].by, f)'
  BY DEF FileIsSaved, Absent
<1>1. CASE SavedBy(o, f)' /\ disk'[f].by = o
  BY <1>1
<1>2. CASE disk'[f] = disk[f] /\ metadata'[f] = metadata[f] /\ disk[f].by /= o
  <2>1. PICK p \in Ops : p = disk[f].by /\ SavedBy(p, f) /\ p /= o
    BY <1>2 DEF FileIsSaved, SavedBy
  <2>2. pc'[p] = pc[p] /\ call'[p] = call[p] /\ result'[p] = result[p]
    BY <2>1 DEF Moves, SavedBy
  <2> QED
    BY <1>2, <2>1, <2>2 DEF SavedBy, Saves, Works, Succeeded
<1> QED
  BY <1>1, <1>2

LEMMA FileIsKeptStays ==
  ASSUME FileIsKept, LabelsFit, NEW o \in Ops, NEW l \in Labels, Moves(o, l), SameCall(o),
         owned' = owned, closed => closed',
         \A f \in FileIds :
            \/ disk'[f].by = disk[f].by
            \/ MayBeGone(f)'
            \/ \A q \in Ops \ {o} : ~Saves(q, f),
         \A f \in FileIds : Holds(o, f)' => disk'[f].by = o \/ MayBeGone(f)'
  PROVE  FileIsKept'
<1> SUFFICES ASSUME NEW q \in Ops, NEW f \in FileIds, Holds(q, f)', q /= o, ~MayBeGone(f)'
             PROVE  disk'[f].by = q
  BY DEF FileIsKept
<1>1. Holds(q, f) /\ Saves(q, f)
  BY DEF Moves, Holds, Saves, Works, Succeeded
<1>2. ~MayBeGone(f)
  BY MayBeGoneStays
<1> QED
  BY <1>1, <1>2 DEF FileIsKept

LEMMA EntryIsSavedStays ==
  ASSUME EntryIsSaved, NEW o \in Ops, NEW l \in Labels, Moves(o, l), pc[o] /= "done",
         \A f \in FileIds :
            \/ metadata'[f] = metadata[f]
            \/ metadata'[f] = None
            \/ metadata'[f] = o /\ Saves(o, f)' /\ Succeeded(o)'
  PROVE  EntryIsSaved'
<1> SUFFICES ASSUME NEW f \in FileIds, metadata'[f] = metadata[f], metadata[f] /= None
             PROVE  \E p \in Ops : p = metadata[f] /\ Saves(p, f)' /\ Succeeded(p)'
  BY DEF EntryIsSaved, Saves, Works, Succeeded
<1>1. PICK p \in Ops : p = metadata[f] /\ Saves(p, f) /\ Succeeded(p)
  BY DEF EntryIsSaved
<1>2. p /= o
  BY <1>1 DEF Succeeded
<1>3. pc'[p] = pc[p] /\ call'[p] = call[p] /\ result'[p] = result[p]
  BY <1>2 DEF Moves
<1> QED
  BY <1>1, <1>3 DEF Saves, Works, Succeeded

LEMMA EntryHasFileStays ==
  ASSUME EntryHasFile, NEW o \in Ops, NEW l \in Labels, Moves(o, l), owned' = owned,
         closed => closed', pc[o] /= "forget",
         \A f \in FileIds :
            metadata'[f] /= None =>
              \/ disk'[f] /= Absent
              \/ closed' /\ owned'
              \/ pc'[o] = "forget" /\ call'[o].files = {f}
              \/ disk'[f] = disk[f] /\ metadata'[f] = metadata[f]
  PROVE  EntryHasFile'
<1> SUFFICES ASSUME NEW f \in FileIds, metadata'[f] /= None, disk'[f] = Absent,
                    ~(closed' /\ owned'), ~(pc'[o] = "forget" /\ call'[o].files = {f})
             PROVE  \E q \in Ops : pc'[q] = "forget" /\ call'[q].files = {f}
  BY DEF EntryHasFile, Works, Absent
<1>1. PICK q \in Ops : pc[q] = "forget" /\ call[q].files = {f}
  BY DEF EntryHasFile, Works
<1>2. pc'[q] = "forget" /\ call'[q].files = {f}
  BY <1>1 DEF Moves
<1> QED
  BY <1>2

LEMMA ClosedIsClearedStays ==
  ASSUME ClosedIsCleared, FileIsSaved, NEW o \in Ops, NEW l \in Labels, Moves(o, l),
         pc[o] /= "clear",
         closed' /\ owned' => (closed /\ owned) \/ pc'[o] = "clear",
         closed /\ owned =>
           \A f \in FileIds :
             \/ disk'[f] = Absent
             \/ disk'[f].by = o /\ pc'[o] /= "done"
             \/ disk'[f] = disk[f] /\ disk[f].by /= o
  PROVE  ClosedIsCleared'
<1> SUFFICES ASSUME closed /\ owned, \A q \in Ops : pc'[q] /= "clear", NEW f \in FileIds,
                    disk'[f] /= Absent
             PROVE  pc'[disk'[f].by] /= "done"
  BY DEF ClosedIsCleared, Absent
<1>1. \A q \in Ops : pc[q] /= "clear"
  BY DEF Moves
<1>2. CASE disk'[f].by = o /\ pc'[o] /= "done"
  BY <1>2
<1>3. CASE disk'[f] = disk[f] /\ disk[f].by /= o
  <2>1. SavedBy(disk[f].by, f)
    BY <1>3 DEF FileIsSaved
  <2> QED
    BY <1>1, <1>3, <2>1 DEF ClosedIsCleared, Moves, SavedBy
<1> QED
  BY <1>2, <1>3

LEMMA ReadIsOfItsFileStays ==
  ASSUME ReadIsOfItsFile, NEW o \in Ops, NEW l \in Labels, Moves(o, l), pc[o] /= "done",
         \A f \in FileIds :
            l = "lookup" /\ call'[o].files = {f} =>
              \E p \in Ops : result'[o].content.by = p /\ Saves(p, f) /\ Succeeded(p)
  PROVE  ReadIsOfItsFile'
<1> SUFFICES ASSUME NEW q \in Ops, NEW f \in FileIds, pc'[q] = "lookup", call'[q].files = {f}
             PROVE  \E p \in Ops : result'[q].content.by = p /\ Saves(p, f)' /\ Succeeded(p)'
  BY DEF ReadIsOfItsFile, Works
<1>1. PICK p \in Ops : result'[q].content.by = p /\ Saves(p, f) /\ Succeeded(p)
  <2>1. CASE q = o
    BY <2>1 DEF Moves
  <2>2. CASE q /= o
    BY <2>2 DEF Moves, ReadIsOfItsFile, Works
  <2> QED
    BY <2>1, <2>2
<1>2. p /= o
  BY <1>1 DEF Succeeded
<1>3. pc'[p] = pc[p] /\ call'[p] = call[p] /\ result'[p] = result[p]
  BY <1>2 DEF Moves
<1> QED
  BY <1>1, <1>3 DEF Saves, Works, Succeeded

\* Only a Save that is past its creation has a file, and only one.
LEMMA NoFileOfMine ==
  ASSUME FileIsSaved, NEW o \in Ops, pc[o] \notin {"copy", "register", "undo", "dead", "done"}
  PROVE  \A f \in FileIds : disk[f] = Absent \/ disk[f].by /= o
BY DEF FileIsSaved, SavedBy, Succeeded

LEMMA OneFileOfMine ==
  ASSUME FileIsSaved, NEW o \in Ops, NEW f \in FileIds, call[o].files = {f}
  PROVE  \A g \in FileIds \ {f} : disk[g] = Absent \/ disk[g].by /= o
BY DEF FileIsSaved, SavedBy, Saves, Works

-----------------------------------------------------------------------------
(* One lemma per action: the invariant is kept.                            *)

LEMMA SaveStartInv ==
  ASSUME IInv, NEW o \in Ops, SaveStart(o)
  PROVE  IInv'
<1> USE DEF IInv, Files
<1>a. /\ pc[o] = "idle" /\ UNCHANGED <<owned, disk, root, metadata, closed, crashes>>
      /\ call' \in [Ops -> Calls] /\ \A q \in Ops \ {o} : call'[q] = call[q]
      /\ call'[o].kind = "save" /\ call'[o].files = {} /\ call'[o].tried = 0
  BY BeginEffect DEF SaveStart, Kinds, store
<1>b. \/ Moves(o, "create") /\ result' = result
      \/ Moves(o, "done") /\ ~result'[o].ok
  BY <1>a, GotoEffect, ReturnEffect DEF SaveStart, Fail, Labels
<1>c. \A g \in FileIds : disk[g] = Absent \/ disk[g].by /= o
  BY <1>a, NoFileOfMine
<1>d. /\ pc'[o] \in {"create", "done"} /\ 0 < MaxAttempts
      /\ \A q \in Ops \ {o} : pc'[q] = pc[q] /\ call'[q] = call[q]
  BY <1>a, <1>b DEF Moves
<1>1. TypeOK'
  BY <1>a, <1>b, <1>c DEF TypeOK, Moves, Calls, Results
<1>2. LabelsFit'
  BY <1>a, <1>d DEF LabelsFit
<1>3. OneSaver'
  <2>1. \A f \in FileIds : call'[o].files /= {f}
    BY <1>a
  <2>2. PICK l \in Labels : Moves(o, l)
    BY <1>b DEF Labels
  <2> QED
    BY <2>1, <2>2, OneSaverStays
<1>4. FileIsSaved'
  BY <1>a, <1>b, <1>c, FileIsSavedStays DEF Labels
<1>5. FileIsKept'
  BY <1>a, <1>b, <1>c, FileIsKeptStays DEF Moves, Labels, LabelsFit, FileIsKept,
     SameCall, Holds, Saves, Works, Succeeded
<1>6. UsersKnow'
  BY <1>a, <1>b, <1>c, UsersKnowStays DEF Labels, LabelsFit, UsersKnow, Works
<1>7. RemovedIsGone'
  BY <1>a, <1>d DEF RemovedIsGone, Works
<1>8. EntryIsSaved'
  BY <1>a, <1>b, <1>c, EntryIsSavedStays DEF Labels
<1>12. ReadIsOfItsFile'
  BY <1>a, <1>b, <1>c, ReadIsOfItsFileStays DEF Labels
<1>9. EntryHasFile'
  BY <1>a, <1>b, <1>c, EntryHasFileStays DEF Labels
<1>10. ClosedIsCleared'
  BY <1>a, <1>b, <1>c, ClosedIsClearedStays DEF Labels
<1>11. ReadIsWhole'
  BY <1>a, <1>b, <1>c DEF TypeOK, Moves, LabelsFit, ReadIsWhole, Succeeded
<1> QED
  BY <1>1, <1>2, <1>3, <1>4, <1>5, <1>6, <1>7, <1>8, <1>9, <1>10, <1>11, <1>12

LEMMA SaveCollidesInv ==
  ASSUME IInv, NEW o \in Ops, SaveCollides(o)
  PROVE  IInv'
<1> USE DEF IInv, Files
<1>a. /\ pc[o] = "create" /\ UNCHANGED <<owned, disk, root, metadata, closed, crashes>>
      /\ call' = [call EXCEPT ![o].tried = @ + 1]
  BY DEF SaveCollides, store
<1>b. call' \in [Ops -> [kind : Kinds, files : SUBSET FileIds, tried : Nat]]
  <2>1. call \in [Ops -> [kind : Kinds, files : SUBSET FileIds, tried : Nat]]
    BY DEF TypeOK
  <2>2. call[o].tried + 1 \in Nat
    BY <2>1
  <2> QED
    BY <1>a, <2>1, <2>2
<1>c. call'[o].kind = "save" /\ call'[o].files = {} /\ call'[o].tried = call[o].tried + 1
  BY <1>a DEF TypeOK, LabelsFit
<1>d. \A q \in Ops \ {o} : call'[q] = call[q]
  BY <1>a DEF TypeOK
<1>e. call' \in [Ops -> Calls] /\ call[o].tried < MaxAttempts
  BY <1>a, <1>b, <1>c, <1>d DEF TypeOK, LabelsFit, Calls
<1>f. \/ Moves(o, "create") /\ result' = result /\ call'[o].tried < MaxAttempts
      \/ Moves(o, "done") /\ ~result'[o].ok
  <2>1. CASE call[o].tried + 1 = MaxAttempts
    BY <1>d, <1>e, <2>1, ReturnEffect DEF SaveCollides, Fail
  <2>2. CASE call[o].tried + 1 /= MaxAttempts
    <3>1. pc' = pc /\ result' = result
      BY <2>2 DEF SaveCollides
    <3>2. call[o].tried \in Nat
      BY DEF TypeOK
    <3>3. call[o].tried + 1 < MaxAttempts
      BY <1>e, <2>2, <3>2
    <3> QED
      BY <1>a, <1>c, <1>d, <1>e, <3>1, <3>3 DEF TypeOK, Moves, Results
  <2> QED
    BY <2>1, <2>2
<1>g. \A g \in FileIds : disk[g] = Absent \/ disk[g].by /= o
  BY <1>a, NoFileOfMine
<1>h. pc[o] = "create" /\ UNCHANGED <<owned, disk, root, metadata, closed, crashes>>
  BY <1>a
<1>1. TypeOK'
  BY <1>c, <1>f, <1>g, <1>h DEF TypeOK, Moves, Calls, Results
<1>2. LabelsFit'
  BY <1>c, <1>f, <1>g, <1>h DEF TypeOK, Moves, LabelsFit
<1>3. OneSaver'
  BY <1>c, <1>f, <1>g, <1>h, OneSaverStays DEF Labels, LabelsFit, Saves, Works
<1>4. FileIsSaved'
  BY <1>c, <1>f, <1>g, <1>h, FileIsSavedStays DEF Labels
<1>5. FileIsKept'
  BY <1>c, <1>f, <1>g, <1>h, FileIsKeptStays DEF Moves, Labels, LabelsFit, FileIsKept,
     SameCall, Holds, Saves, Works, Succeeded
<1>6. UsersKnow'
  BY <1>c, <1>f, <1>g, <1>h, UsersKnowStays DEF Labels, LabelsFit, UsersKnow, Works
<1>7. RemovedIsGone'
  BY <1>c, <1>f, <1>g, <1>h DEF TypeOK, Moves, LabelsFit, RemovedIsGone, Works
<1>8. EntryIsSaved'
  BY <1>c, <1>f, <1>g, <1>h, EntryIsSavedStays DEF Labels
<1>12. ReadIsOfItsFile'
  BY <1>c, <1>f, <1>g, <1>h, ReadIsOfItsFileStays DEF Labels
<1>9. EntryHasFile'
  BY <1>c, <1>f, <1>g, <1>h, EntryHasFileStays DEF Labels
<1>10. ClosedIsCleared'
  BY <1>c, <1>f, <1>g, <1>h, ClosedIsClearedStays DEF Labels
<1>11. ReadIsWhole'
  BY <1>c, <1>f, <1>g, <1>h DEF TypeOK, Moves, LabelsFit, ReadIsWhole, Succeeded
<1> QED
  BY <1>1, <1>2, <1>3, <1>4, <1>5, <1>6, <1>7, <1>8, <1>9, <1>10, <1>11, <1>12

LEMMA SaveCreateFailsInv ==
  ASSUME IInv, NEW o \in Ops, SaveCreateFails(o)
  PROVE  IInv'
<1> USE DEF IInv, Files
<1>a. /\ pc[o] = "create" /\ UNCHANGED <<owned, disk, root, metadata, closed, call, crashes>>
      /\ Moves(o, "done") /\ ~result'[o].ok
  BY SameCalls, ReturnEffect DEF SaveCreateFails, Fail, store
<1>b. \A g \in FileIds : disk[g] = Absent \/ disk[g].by /= o
  BY <1>a, NoFileOfMine
<1>1. TypeOK'
  BY <1>a, <1>b DEF TypeOK, Moves, Calls, Results
<1>2. LabelsFit'
  BY <1>a, <1>b DEF TypeOK, Moves, LabelsFit
<1>3. OneSaver'
  BY <1>a, <1>b, OneSaverStays DEF Labels, LabelsFit, Saves, Works
<1>4. FileIsSaved'
  BY <1>a, <1>b, FileIsSavedStays DEF Labels
<1>5. FileIsKept'
  BY <1>a, <1>b, FileIsKeptStays DEF Moves, Labels, LabelsFit, FileIsKept, SameCall,
     Holds, Saves, Works, Succeeded
<1>6. UsersKnow'
  BY <1>a, <1>b, UsersKnowStays DEF Labels, LabelsFit, UsersKnow, Works
<1>7. RemovedIsGone'
  BY <1>a, <1>b DEF TypeOK, Moves, LabelsFit, RemovedIsGone, Works
<1>8. EntryIsSaved'
  BY <1>a, <1>b, EntryIsSavedStays DEF Labels
<1>12. ReadIsOfItsFile'
  BY <1>a, <1>b, ReadIsOfItsFileStays DEF Labels
<1>9. EntryHasFile'
  BY <1>a, <1>b, EntryHasFileStays DEF Labels
<1>10. ClosedIsCleared'
  BY <1>a, <1>b, ClosedIsClearedStays DEF Labels
<1>11. ReadIsWhole'
  BY <1>a, <1>b DEF TypeOK, Moves, LabelsFit, ReadIsWhole, Succeeded
<1> QED
  BY <1>1, <1>2, <1>3, <1>4, <1>5, <1>6, <1>7, <1>8, <1>9, <1>10, <1>11, <1>12

LEMMA SaveCopyFailsInv ==
  ASSUME IInv, NEW o \in Ops, SaveCopyFails(o)
  PROVE  IInv'
<1> USE DEF IInv, Files
<1>a. /\ pc[o] = "copy" /\ UNCHANGED <<owned, disk, root, metadata, closed, call, result, crashes>>
      /\ Moves(o, "undo")
  BY SameCalls, GotoEffect DEF SaveCopyFails, Labels, store
<1>b. \A g \in FileIds :
        disk[g] = Absent \/ disk[g].by /= o \/ (SavedBy(o, g)' /\ disk'[g].by = o)
  <2> SUFFICES ASSUME NEW g \in FileIds, disk[g] /= Absent, disk[g].by = o
               PROVE  SavedBy(o, g)' /\ disk'[g].by = o
    OBVIOUS
  <2>1. SavedBy(o, g)
    BY DEF FileIsSaved
  <2> QED
    BY <1>a, <2>1 DEF SavedBy, Saves, Works, Moves
<1>c. pc'[o] = "undo"
  BY <1>a DEF Moves
<1>1. TypeOK'
  BY <1>a, <1>b, <1>c DEF TypeOK, Moves, Calls, Results
<1>2. LabelsFit'
  BY <1>a, <1>b, <1>c DEF TypeOK, Moves, LabelsFit
<1>3. OneSaver'
  BY <1>a, <1>b, <1>c, OneSaverStays DEF Labels, LabelsFit, Saves, Works
<1>4. FileIsSaved'
  BY <1>a, <1>b, <1>c, FileIsSavedStays DEF Labels
<1>5. FileIsKept'
  BY <1>a, <1>b, <1>c, FileIsKeptStays DEF Moves, Labels, LabelsFit, FileIsKept,
     SameCall, Holds, Saves, Works, Succeeded
<1>6. UsersKnow'
  BY <1>a, <1>b, <1>c, UsersKnowStays DEF Labels, LabelsFit, UsersKnow, Works
<1>7. RemovedIsGone'
  BY <1>a, <1>b, <1>c DEF TypeOK, Moves, LabelsFit, RemovedIsGone, Works
<1>8. EntryIsSaved'
  BY <1>a, <1>b, <1>c, EntryIsSavedStays DEF Labels
<1>12. ReadIsOfItsFile'
  BY <1>a, <1>b, <1>c, ReadIsOfItsFileStays DEF Labels
<1>9. EntryHasFile'
  BY <1>a, <1>b, <1>c, EntryHasFileStays DEF Labels
<1>10. ClosedIsCleared'
  BY <1>a, <1>b, <1>c, ClosedIsClearedStays DEF Labels
<1>11. ReadIsWhole'
  BY <1>a, <1>b, <1>c DEF TypeOK, Moves, LabelsFit, ReadIsWhole, Succeeded
<1> QED
  BY <1>1, <1>2, <1>3, <1>4, <1>5, <1>6, <1>7, <1>8, <1>9, <1>10, <1>11, <1>12

LEMMA SaveCreateInv ==
  ASSUME IInv, NEW o \in Ops, SaveCreate(o)
  PROVE  IInv'
<1> USE DEF IInv, Files
<1>p. PICK f \in FileIds :
        /\ pc[o] = "create" /\ Fresh(f)
        /\ disk' = [disk EXCEPT ![f] = [by |-> o, whole |-> FALSE]]
        /\ call' = [call EXCEPT ![o].files = {f}]
        /\ Goto(o, "copy")
        /\ UNCHANGED <<owned, root, metadata, closed, result, crashes>>
  BY DEF SaveCreate
<1>a. /\ call' \in [Ops -> Calls] /\ \A q \in Ops \ {o} : call'[q] = call[q]
  BY <1>p DEF TypeOK, Calls
<1>b. call'[o].kind = "save" /\ call'[o].files = {f} /\ call'[o].tried = call[o].tried
  BY <1>p DEF TypeOK, LabelsFit
<1>c. Moves(o, "copy")
  BY <1>p, <1>a, GotoEffect DEF Labels
<1>d. \A q \in Ops : call[q].kind = "save" => call[q].files /= {f}
  BY <1>p DEF Fresh, Works
<1>e. /\ disk' \in [FileIds -> Content] /\ disk'[f].by = o /\ disk'[f] /= Absent
      /\ \A g \in FileIds \ {f} : disk'[g] = disk[g]
  BY <1>p DEF TypeOK, Content, Absent
<1>f. pc[o] = "create" /\ UNCHANGED <<owned, root, metadata, closed, result, crashes>>
  BY <1>p
<1>g. \A g \in FileIds : disk[g] = Absent \/ disk[g].by /= o
  BY <1>f, NoFileOfMine
<1>h. SavedBy(o, f)'
  BY <1>b, <1>c DEF Moves, SavedBy, Saves, Works
<1>i. \A q \in Ops : ~Saves(q, f)
  BY <1>d DEF Saves, Works
<1>j. \A q \in Ops : pc[q] = "forget" => call[q].files /= {f}
  BY <1>d DEF LabelsFit, UsersKnow, Known, Works
<1>k. \A g \in FileIds : call'[o].files = {g} => g = f
  BY <1>b
<1>l. SameCall(o)
  BY <1>b, <1>f DEF SameCall, LabelsFit
<1>m. \A g \in FileIds : (disk'[g].by = o /\ pc'[o] /= "done") \/ (disk'[g] = disk[g] /\ g /= f)
  BY <1>c, <1>e DEF Moves
<1>n. \A g \in FileIds : call'[o].files = {g} => \A q \in Ops : ~Saves(q, g)
  BY <1>i, <1>k
<1>o. \A g \in FileIds : Holds(o, g)' => disk'[g].by = o
  BY <1>e, <1>k DEF Holds, Saves, Works
<1>q. \A g \in FileIds : disk'[g].by = disk[g].by \/ \A q \in Ops : ~Saves(q, g)
  BY <1>e, <1>i
<1>1. TypeOK'
  BY <1>b, <1>c, <1>e, <1>f, <1>g, <1>h, <1>i, <1>j, <1>m DEF TypeOK, Moves, Calls,
     Results
<1>2. LabelsFit'
  BY <1>b, <1>c, <1>e, <1>f, <1>g, <1>h, <1>i, <1>j, <1>m DEF TypeOK, Moves, LabelsFit
<1>3. OneSaver'
  BY <1>c, <1>n, OneSaverStays DEF Labels
<1>4. FileIsSaved'
  BY <1>b, <1>c, <1>e, <1>f, <1>g, <1>h, <1>i, <1>j, <1>m, FileIsSavedStays DEF Labels
<1>5. FileIsKept'
  BY <1>c, <1>f, <1>l, <1>o, <1>q, FileIsKeptStays DEF Labels
<1>6. UsersKnow'
  BY <1>b, <1>c, <1>e, <1>f, <1>g, <1>h, <1>i, <1>j, <1>m, UsersKnowStays DEF Labels,
     LabelsFit, UsersKnow, Works
<1>7. RemovedIsGone'
  BY <1>b, <1>c, <1>e, <1>f, <1>g, <1>h, <1>i, <1>j, <1>m DEF TypeOK, Moves,
     LabelsFit, RemovedIsGone, Works
<1>8. EntryIsSaved'
  BY <1>b, <1>c, <1>e, <1>f, <1>g, <1>h, <1>i, <1>j, <1>m, EntryIsSavedStays DEF Labels
<1>12. ReadIsOfItsFile'
  BY <1>b, <1>c, <1>e, <1>f, <1>g, <1>h, <1>i, <1>j, <1>m, ReadIsOfItsFileStays DEF Labels
<1>9. EntryHasFile'
  BY <1>b, <1>c, <1>e, <1>f, <1>g, <1>h, <1>i, <1>j, <1>m, EntryHasFileStays DEF Labels
<1>10. ClosedIsCleared'
  BY <1>b, <1>c, <1>e, <1>f, <1>g, <1>h, <1>i, <1>j, <1>m, ClosedIsClearedStays DEF
     Labels
<1>11. ReadIsWhole'
  BY <1>b, <1>c, <1>e, <1>f, <1>g, <1>h, <1>i, <1>j, <1>m DEF TypeOK, Moves,
     LabelsFit, ReadIsWhole, Succeeded
<1> QED
  BY <1>1, <1>2, <1>3, <1>4, <1>5, <1>6, <1>7, <1>8, <1>9, <1>10, <1>11, <1>12

LEMMA SaveCopyInv ==
  ASSUME IInv, NEW o \in Ops, SaveCopy(o)
  PROVE  IInv'
<1> USE DEF IInv, Files
<1>p. PICK f \in FileIds :
        /\ pc[o] = "copy" /\ call[o].files = {f}
        /\ disk' = [disk EXCEPT ![f].whole = (disk[f] /= Absent)]
        /\ Goto(o, "register")
        /\ UNCHANGED <<owned, root, metadata, closed, call, result, crashes>>
  BY DEF SaveCopy, Works, OnDisk
<1>a. Moves(o, "register")
  BY <1>p, SameCalls, GotoEffect DEF Labels
<1>b. disk' \in [FileIds -> Content]
  <2>1. PICK b \in BOOLEAN : disk' = [disk EXCEPT ![f].whole = b]
    BY <1>p
  <2> QED
    BY <2>1 DEF TypeOK, Content
<1>c. disk'[f].by = disk[f].by
  BY <1>p DEF TypeOK, Content
<1>d. disk'[f].whole = (disk[f] /= Absent)
  BY <1>p DEF TypeOK, Content
<1>e. \A g \in FileIds \ {f} : disk'[g] = disk[g]
  BY <1>p DEF TypeOK, Content
<1>f. disk[f] = Absent => disk'[f] = Absent
  BY <1>b, <1>c, <1>d DEF TypeOK, Content, Absent
<1>g. /\ pc[o] = "copy" /\ call[o].files = {f}
      /\ UNCHANGED <<owned, root, metadata, closed, call, result, crashes>>
  BY <1>p
<1>h. \A g \in FileIds \ {f} : disk[g] = Absent \/ disk[g].by /= o
  BY <1>g, OneFileOfMine
<1>i. Saves(o, f) /\ (disk[f] = Absent \/ disk[f].by = o)
  BY <1>g DEF LabelsFit, OneSaver, FileIsSaved, SavedBy, Saves, Works
<1>k. Saves(o, f)' /\ pc'[o] = "register"
  BY <1>a, <1>g, <1>i DEF Moves, Saves, Works
<1>l. disk[f] /= Absent => disk'[f].whole /\ disk'[f].by = o
  BY <1>c, <1>d, <1>i
<1>j. disk'[f] = Absent \/ (SavedBy(o, f)' /\ disk'[f].by = o)
  BY <1>f, <1>k, <1>l DEF SavedBy
<1>m. SameCall(o) /\ \A g \in FileIds : disk'[g].by = disk[g].by
  BY <1>c, <1>e, <1>g DEF SameCall
<1>n. disk[f] /= Absent \/ MayBeGone(f)'
  <2>1. disk[f] = Absent => disk[f].by = None
    BY DEF Absent
  <2>2. disk[f] = Absent => MayBeGone(f)
    BY <1>g, <1>i, <2>1 DEF FileIsKept, Holds
  <2> QED
    BY <1>a, <1>g, <1>m, <2>2, MayBeGoneStays DEF Labels
<1>o. \A g \in FileIds : Holds(o, g)' => disk'[g].by = o \/ MayBeGone(g)'
  <2> SUFFICES ASSUME NEW g \in FileIds, Holds(o, g)' PROVE disk'[g].by = o \/ MayBeGone(g)'
    OBVIOUS
  <2>1. g = f
    BY <1>g DEF Holds, Saves, Works
  <2> QED
    BY <1>l, <1>n, <2>1
<1>q. \A g \in FileIds :
        \/ disk'[g] = Absent
        \/ disk'[g].by = o /\ pc'[o] /= "done"
        \/ disk'[g] = disk[g] /\ disk[g].by /= o
  BY <1>e, <1>h, <1>j, <1>k
<1>r. \A g \in FileIds : disk'[g] = Absent => disk[g] = Absent
  BY <1>e, <1>l DEF Absent
<1>1. TypeOK'
  BY <1>a, <1>b, <1>e, <1>f, <1>g, <1>h, <1>j, <1>m DEF TypeOK, Moves, Calls, Results
<1>2. LabelsFit'
  BY <1>a, <1>b, <1>e, <1>f, <1>g, <1>h, <1>j, <1>m DEF TypeOK, Moves, LabelsFit
<1>3. OneSaver'
  BY <1>a, <1>b, <1>e, <1>f, <1>g, <1>h, <1>j, <1>m, OneSaverStays DEF Labels,
     LabelsFit, Saves, Works
<1>4. FileIsSaved'
  BY <1>a, <1>b, <1>e, <1>f, <1>g, <1>h, <1>j, <1>m, FileIsSavedStays DEF Labels
<1>5. FileIsKept'
  BY <1>a, <1>g, <1>m, <1>o, FileIsKeptStays DEF Labels
<1>6. UsersKnow'
  BY <1>a, <1>b, <1>e, <1>f, <1>g, <1>h, <1>j, <1>m, UsersKnowStays DEF Labels,
     LabelsFit, UsersKnow, Works
<1>7. RemovedIsGone'
  BY <1>a, <1>b, <1>e, <1>f, <1>g, <1>h, <1>j, <1>m DEF TypeOK, Moves, LabelsFit,
     RemovedIsGone, Works
<1>8. EntryIsSaved'
  BY <1>a, <1>b, <1>e, <1>f, <1>g, <1>h, <1>j, <1>m, EntryIsSavedStays DEF Labels
<1>12. ReadIsOfItsFile'
  BY <1>a, <1>b, <1>e, <1>f, <1>g, <1>h, <1>j, <1>m, ReadIsOfItsFileStays DEF Labels
<1>9. EntryHasFile'
  BY <1>a, <1>g, <1>r, EntryHasFileStays DEF Labels
<1>10. ClosedIsCleared'
  BY <1>a, <1>g, <1>q, ClosedIsClearedStays DEF Labels
<1>11. ReadIsWhole'
  BY <1>a, <1>b, <1>e, <1>f, <1>g, <1>h, <1>j, <1>m DEF TypeOK, Moves, LabelsFit,
     ReadIsWhole, Succeeded
<1> QED
  BY <1>1, <1>2, <1>3, <1>4, <1>5, <1>6, <1>7, <1>8, <1>9, <1>10, <1>11, <1>12

LEMMA SaveRegisterInv ==
  ASSUME IInv, NEW o \in Ops, SaveRegister(o)
  PROVE  IInv'
<1> USE DEF IInv, Files
<1>p. PICK f \in FileIds :
        /\ pc[o] = "register" /\ call[o].files = {f}
        /\ IF closed
             THEN Goto(o, "undo") /\ UNCHANGED <<metadata, result>>
             ELSE metadata' = [metadata EXCEPT ![f] = o] /\ Return(o, TRUE)
        /\ UNCHANGED <<owned, disk, root, closed, call, crashes>>
  BY DEF SaveRegister, Works
<1>a. \/ closed /\ Moves(o, "undo") /\ UNCHANGED <<metadata, result>>
      \/ /\ ~closed /\ metadata' = [metadata EXCEPT ![f] = o]
         /\ Moves(o, "done") /\ result'[o].ok
  BY <1>p, SameCalls, GotoEffect, ReturnEffect DEF Labels
<1>b. /\ pc[o] = "register" /\ call[o].files = {f}
      /\ UNCHANGED <<owned, disk, root, closed, call, crashes>>
  BY <1>p
<1>c. \A g \in FileIds \ {f} : metadata'[g] = metadata[g]
  BY <1>a DEF TypeOK
<1>d. \A g \in FileIds \ {f} : disk[g] = Absent \/ disk[g].by /= o
  BY <1>b, OneFileOfMine
<1>e. Saves(o, f) /\ (disk[f] = Absent \/ disk[f].by = o)
  BY <1>b DEF LabelsFit, OneSaver, FileIsSaved, SavedBy, Saves, Works
<1>f. disk[f] = Absent \/ (SavedBy(o, f)' /\ disk'[f].by = o)
  <2>1. CASE disk[f] = Absent
    BY <2>1
  <2>2. disk[f] /= Absent => disk[f].whole /\ disk[f].by = o
    BY <1>b, <1>e DEF FileIsSaved, SavedBy
  <2>3. pc'[o] = "done" => metadata'[f] = o /\ result'[o].ok
    BY <1>a DEF TypeOK, Moves
  <2>4. pc'[o] \in {"undo", "done"}
    BY <1>a DEF Moves
  <2>5. CASE disk[f] /= Absent
    <3>1. SavedBy(o, f)'
      BY <1>b, <1>e, <2>2, <2>3, <2>4, <2>5 DEF SavedBy, Saves, Works, Succeeded
    <3> QED
      BY <1>b, <2>2, <2>5, <3>1
  <2> QED
    BY <2>1, <2>5
<1>g. disk[f] = Absent => MayBeGone(f)
  BY <1>b, <1>e DEF FileIsKept, Holds, Absent
<1>h. closed \/ ~MayBeGone(f)
  <2>1. ~DeleteBegun(f)
    BY <1>b DEF DeleteBegun, UsersKnow, Known, OneSaver, LabelsFit, Saves, Works
  <2> QED
    BY <2>1 DEF MayBeGone
<1>j. Saves(o, f)'
  BY <1>b, <1>e DEF Saves, Works
<1>l. \A g \in FileIds :
        \/ disk'[g] = Absent
        \/ disk'[g].by = o
        \/ disk'[g] = disk[g] /\ disk[g].by /= o
  BY <1>b
<1>m. closed => pc'[o] = "undo"
  BY <1>a DEF Moves
<1>k. ~closed => metadata'[f] = o /\ Succeeded(o)'
  BY <1>a DEF TypeOK, Moves, Succeeded
<1>n. SameCall(o)
  BY <1>b DEF SameCall
<1>o. \A g \in FileIds : Holds(o, g)' => disk'[g].by = o
  <2> SUFFICES ASSUME NEW g \in FileIds, Holds(o, g)' PROVE disk[g].by = o
    BY <1>b
  <2>1. g = f
    BY <1>b DEF Holds, Saves, Works
  <2>2. ~closed
    BY <1>m DEF Holds, Succeeded
  <2> QED
    BY <1>e, <1>g, <1>h, <2>1, <2>2
<1>i. \/ closed /\ Moves(o, "undo") /\ UNCHANGED <<metadata, result>>
      \/ /\ ~closed /\ Moves(o, "done") /\ result'[o].ok
         /\ metadata' \in [FileIds -> Ops \cup {None}]
  BY <1>a DEF TypeOK
<1>1. TypeOK'
  BY <1>b, <1>c, <1>d, <1>e, <1>f, <1>g, <1>h, <1>i, <1>j, <1>k DEF TypeOK, Moves,
     Calls, Results
<1>2. LabelsFit'
  BY <1>b, <1>c, <1>d, <1>e, <1>f, <1>g, <1>h, <1>i, <1>j, <1>k DEF TypeOK, Moves,
     LabelsFit
<1>3. OneSaver'
  BY <1>b, <1>c, <1>d, <1>e, <1>f, <1>g, <1>h, <1>i, <1>j, <1>k, OneSaverStays DEF
     Labels, LabelsFit, Saves, Works
<1>4. FileIsSaved'
  BY <1>b, <1>c, <1>d, <1>e, <1>f, <1>g, <1>h, <1>i, <1>j, <1>k, FileIsSavedStays DEF
     Labels
<1>5. FileIsKept'
  BY <1>b, <1>i, <1>n, <1>o, FileIsKeptStays DEF Labels
<1>6. UsersKnow'
  BY <1>b, <1>c, <1>d, <1>e, <1>f, <1>g, <1>h, <1>i, <1>j, <1>k, UsersKnowStays DEF
     Labels, LabelsFit, UsersKnow, Works
<1>7. RemovedIsGone'
  BY <1>b, <1>c, <1>d, <1>e, <1>f, <1>g, <1>h, <1>i, <1>j, <1>k DEF TypeOK, Moves,
     LabelsFit, RemovedIsGone, Works
<1>8. EntryIsSaved'
  BY <1>b, <1>c, <1>d, <1>e, <1>f, <1>g, <1>h, <1>i, <1>j, <1>k, EntryIsSavedStays DEF
     Labels
<1>12. ReadIsOfItsFile'
  BY <1>b, <1>c, <1>d, <1>e, <1>f, <1>g, <1>h, <1>i, <1>j, <1>k, ReadIsOfItsFileStays DEF Labels
<1>9. EntryHasFile'
  BY <1>b, <1>c, <1>d, <1>e, <1>f, <1>g, <1>h, <1>i, <1>j, <1>k, EntryHasFileStays DEF
     Labels
<1>10. ClosedIsCleared'
  BY <1>b, <1>i, <1>l, <1>m, ClosedIsClearedStays DEF Labels
<1>11. ReadIsWhole'
  BY <1>b, <1>c, <1>d, <1>e, <1>f, <1>g, <1>h, <1>i, <1>j, <1>k DEF TypeOK, Moves,
     LabelsFit, ReadIsWhole, Succeeded
<1> QED
  BY <1>1, <1>2, <1>3, <1>4, <1>5, <1>6, <1>7, <1>8, <1>9, <1>10, <1>11, <1>12

LEMMA SaveUndoInv ==
  ASSUME IInv, NEW o \in Ops, SaveUndo(o)
  PROVE  IInv'
<1> USE DEF IInv, Files
<1>p. PICK f \in FileIds :
        /\ pc[o] = "undo" /\ call[o].files = {f}
        /\ disk' = [disk EXCEPT ![f] = Absent]
        /\ UNCHANGED <<owned, root, metadata, closed, call, crashes>>
        /\ Return(o, FALSE)
  BY DEF SaveUndo, Works, Remove, Fail
<1>a. Moves(o, "done") /\ ~result'[o].ok
  BY <1>p, SameCalls, ReturnEffect
<1>b. /\ disk' \in [FileIds -> Content] /\ disk'[f] = Absent
      /\ \A g \in FileIds \ {f} : disk'[g] = disk[g]
  BY <1>p DEF TypeOK, Content, Absent
<1>c. /\ pc[o] = "undo" /\ call[o].files = {f}
      /\ UNCHANGED <<owned, root, metadata, closed, call, crashes>>
  BY <1>p
<1>d. \A g \in FileIds \ {f} : disk[g] = Absent \/ disk[g].by /= o
  BY <1>c, OneFileOfMine
<1>e. Saves(o, f) /\ \A q \in Ops \ {o} : ~Saves(q, f)
  BY <1>c DEF LabelsFit, OneSaver, Saves, Works
<1>f. metadata[f] = None
  BY <1>c, <1>e DEF EntryIsSaved, OneSaver, Succeeded
<1>g. SameCall(o) /\ \A g \in FileIds : ~Holds(o, g)'
  BY <1>a, <1>c DEF SameCall, Moves, Holds, Succeeded
<1>h. \A g \in FileIds : disk'[g].by = disk[g].by \/ \A q \in Ops \ {o} : ~Saves(q, g)
  BY <1>b, <1>e
<1>1. TypeOK'
  BY <1>a, <1>b, <1>c, <1>d, <1>e, <1>f DEF TypeOK, Moves, Calls, Results
<1>2. LabelsFit'
  BY <1>a, <1>b, <1>c, <1>d, <1>e, <1>f DEF TypeOK, Moves, LabelsFit
<1>3. OneSaver'
  BY <1>a, <1>b, <1>c, <1>d, <1>e, <1>f, OneSaverStays DEF Labels, LabelsFit, Saves,
     Works
<1>4. FileIsSaved'
  BY <1>a, <1>b, <1>c, <1>d, <1>e, <1>f, FileIsSavedStays DEF Labels
<1>5. FileIsKept'
  BY <1>a, <1>c, <1>g, <1>h, FileIsKeptStays DEF Labels
<1>6. UsersKnow'
  BY <1>a, <1>b, <1>c, <1>d, <1>e, <1>f, UsersKnowStays DEF Labels, LabelsFit,
     UsersKnow, Works
<1>7. RemovedIsGone'
  BY <1>a, <1>b, <1>c, <1>d, <1>e, <1>f DEF TypeOK, Moves, LabelsFit, RemovedIsGone,
     Works
<1>8. EntryIsSaved'
  BY <1>a, <1>b, <1>c, <1>d, <1>e, <1>f, EntryIsSavedStays DEF Labels
<1>12. ReadIsOfItsFile'
  BY <1>a, <1>b, <1>c, <1>d, <1>e, <1>f, ReadIsOfItsFileStays DEF Labels
<1>9. EntryHasFile'
  BY <1>a, <1>b, <1>c, <1>d, <1>e, <1>f, EntryHasFileStays DEF Labels
<1>10. ClosedIsCleared'
  BY <1>a, <1>b, <1>c, <1>d, <1>e, <1>f, ClosedIsClearedStays DEF Labels
<1>11. ReadIsWhole'
  BY <1>a, <1>b, <1>c, <1>d, <1>e, <1>f DEF TypeOK, Moves, LabelsFit, ReadIsWhole,
     Succeeded
<1> QED
  BY <1>1, <1>2, <1>3, <1>4, <1>5, <1>6, <1>7, <1>8, <1>9, <1>10, <1>11, <1>12

LEMMA OpenStartInv ==
  ASSUME IInv, NEW o \in Ops, NEW f \in FileIds, OpenStart(o, f)
  PROVE  IInv'
<1> USE DEF IInv, Files
<1>a. /\ Known(f)
      /\ pc[o] = "idle" /\ UNCHANGED <<owned, disk, root, metadata, closed, crashes>>
      /\ call' \in [Ops -> Calls] /\ \A q \in Ops \ {o} : call'[q] = call[q]
      /\ call'[o].kind = "open" /\ call'[o].files = {f} /\ call'[o].tried = 0
  BY BeginEffect DEF OpenStart, Kinds, store
<1>b. \/ Moves(o, "openfile") /\ result' = result
      \/ Moves(o, "done") /\ ~result'[o].ok
  BY <1>a, GotoEffect, ReturnEffect DEF OpenStart, Fail, Labels
<1>c. \A g \in FileIds : disk[g] = Absent \/ disk[g].by /= o
  BY <1>a, NoFileOfMine
<1>1. TypeOK'
  BY <1>a, <1>b, <1>c DEF TypeOK, Moves, Calls, Results
<1>2. LabelsFit'
  BY <1>a, <1>b, <1>c DEF TypeOK, Moves, LabelsFit
<1>3. OneSaver'
  BY <1>a, <1>b, <1>c, OneSaverStays DEF Labels, LabelsFit, Saves, Works
<1>4. FileIsSaved'
  BY <1>a, <1>b, <1>c, FileIsSavedStays DEF Labels
<1>5. FileIsKept'
  BY <1>a, <1>b, <1>c, FileIsKeptStays DEF Moves, Labels, LabelsFit, FileIsKept,
     SameCall, Holds, Saves, Works, Succeeded
<1>6. UsersKnow'
  BY <1>a, <1>b, <1>c, UsersKnowStays DEF Labels, LabelsFit, UsersKnow, Works
<1>7. RemovedIsGone'
  BY <1>a, <1>b, <1>c DEF TypeOK, Moves, LabelsFit, RemovedIsGone, Works
<1>8. EntryIsSaved'
  BY <1>a, <1>b, <1>c, EntryIsSavedStays DEF Labels
<1>12. ReadIsOfItsFile'
  BY <1>a, <1>b, <1>c, ReadIsOfItsFileStays DEF Labels
<1>9. EntryHasFile'
  BY <1>a, <1>b, <1>c, EntryHasFileStays DEF Labels
<1>10. ClosedIsCleared'
  BY <1>a, <1>b, <1>c, ClosedIsClearedStays DEF Labels
<1>11. ReadIsWhole'
  BY <1>a, <1>b, <1>c DEF TypeOK, Moves, LabelsFit, ReadIsWhole, Succeeded
<1> QED
  BY <1>1, <1>2, <1>3, <1>4, <1>5, <1>6, <1>7, <1>8, <1>9, <1>10, <1>11, <1>12

LEMMA OpenFileInv ==
  ASSUME IInv, NEW o \in Ops, OpenFile(o)
  PROVE  IInv'
<1> USE DEF IInv, Files
<1>p. PICK f \in FileIds :
        /\ pc[o] = "openfile" /\ call[o].files = {f}
        /\ IF disk[f] /= Absent
             THEN Goto(o, "lookup") /\ result' = [result EXCEPT ![o].content = disk[f]]
             ELSE Return(o, FALSE)
        /\ UNCHANGED <<owned, disk, root, metadata, closed, call, crashes>>
  BY DEF OpenFile, Works, OnDisk, Fail, store
<1>a. \/ /\ disk[f] /= Absent /\ Moves(o, "lookup") /\ result'[o].content = disk[f]
      \/ Moves(o, "done") /\ ~result'[o].ok
  <2>1. CASE disk[f] /= Absent
    <3>1. result' = [result EXCEPT ![o].content = disk[f]] /\ Goto(o, "lookup")
      BY <1>p, <2>1
    <3>2. result \in [Ops -> Results] /\ disk[f] \in Content
      BY DEF TypeOK, Results
    <3>3. result' \in [Ops -> Results]
      BY <3>1, <3>2 DEF Results
    <3>4. result'[o].content = disk[f]
      BY <3>1, <3>2 DEF Results
    <3>5. \A q \in Ops \ {o} : result'[q] = result[q]
      BY <3>1, <3>2 DEF Results
    <3> QED
      BY <1>p, <2>1, <3>1, <3>3, <3>4, <3>5, SameCalls DEF TypeOK, Goto, Moves, Labels
  <2>2. CASE disk[f] = Absent
    BY <1>p, <2>2, SameCalls, ReturnEffect
  <2> QED
    BY <2>1, <2>2
<1>b. disk[f] /= Absent => disk[f].whole /\ Succeeded(disk[f].by)
  <2>1. Known(f)
    BY <1>p DEF LabelsFit, UsersKnow, Works
  <2> QED
    BY <2>1 DEF Known, Works, OneSaver, FileIsSaved, SavedBy, Saves, Succeeded
<1>c. /\ pc[o] = "openfile" /\ call[o].files = {f}
      /\ UNCHANGED <<owned, disk, root, metadata, closed, call, crashes>>
  BY <1>p
<1>d. \A g \in FileIds : disk[g] = Absent \/ disk[g].by /= o
  BY <1>c, NoFileOfMine
<1>1. TypeOK'
  BY <1>a, <1>b, <1>c, <1>d DEF TypeOK, Moves, Calls, Results
<1>2. LabelsFit'
  BY <1>a, <1>b, <1>c, <1>d DEF TypeOK, Moves, LabelsFit
<1>3. OneSaver'
  BY <1>a, <1>b, <1>c, <1>d, OneSaverStays DEF Labels, LabelsFit, Saves, Works
<1>4. FileIsSaved'
  BY <1>a, <1>b, <1>c, <1>d, FileIsSavedStays DEF Labels
<1>5. FileIsKept'
  BY <1>a, <1>b, <1>c, <1>d, FileIsKeptStays DEF Moves, Labels, LabelsFit, FileIsKept,
     SameCall, Holds, Saves, Works, Succeeded
<1>6. UsersKnow'
  BY <1>a, <1>b, <1>c, <1>d, UsersKnowStays DEF Labels, LabelsFit, UsersKnow, Works
<1>7. RemovedIsGone'
  BY <1>a, <1>b, <1>c, <1>d DEF TypeOK, Moves, LabelsFit, RemovedIsGone, Works
<1>8. EntryIsSaved'
  BY <1>a, <1>b, <1>c, <1>d, EntryIsSavedStays DEF Labels
<1>12. ReadIsOfItsFile'
  <2>1. disk[f] /= Absent =>
          disk[f].by \in Ops /\ Saves(disk[f].by, f) /\ Succeeded(disk[f].by)
    BY <1>b DEF FileIsSaved, SavedBy
  <2> QED
    BY <1>a, <1>c, <2>1, ReadIsOfItsFileStays DEF Labels
<1>9. EntryHasFile'
  BY <1>a, <1>b, <1>c, <1>d, EntryHasFileStays DEF Labels
<1>10. ClosedIsCleared'
  BY <1>a, <1>b, <1>c, <1>d, ClosedIsClearedStays DEF Labels
<1>11. ReadIsWhole'
  BY <1>a, <1>b, <1>c, <1>d DEF TypeOK, Moves, LabelsFit, ReadIsWhole, Succeeded
<1> QED
  BY <1>1, <1>2, <1>3, <1>4, <1>5, <1>6, <1>7, <1>8, <1>9, <1>10, <1>11, <1>12

LEMMA LookupEffect ==
  ASSUME TypeOK, NEW o \in Ops, OpenLookup(o)
  PROVE  /\ pc[o] = "lookup" /\ UNCHANGED <<owned, disk, root, metadata, closed, call, crashes>>
         /\ Moves(o, "done") /\ result'[o].content = result[o].content
         /\ \E f \in FileIds :
              /\ Works(o, f)
              /\ \/ result'[o].ok /\ result'[o].meta = metadata[f]
                 \/ ~result'[o].ok /\ metadata[f] = None
<1>1. PICK f \in FileIds :
        /\ pc[o] = "lookup" /\ Works(o, f)
        /\ \/ /\ result' = [result EXCEPT ![o].ok = TRUE, ![o].meta = metadata[f]]
              /\ Goto(o, "done")
           \/ metadata[f] = None /\ Fail(o)
        /\ UNCHANGED <<owned, disk, root, metadata, closed, call, crashes>>
  BY DEF OpenLookup, store
<1>2. CASE result' = [result EXCEPT ![o].ok = TRUE, ![o].meta = metadata[f]] /\ Goto(o, "done")
  <2>1. result \in [Ops -> Results] /\ metadata[f] \in Ops \cup {None}
    BY DEF TypeOK, Results
  <2>2. result' \in [Ops -> Results]
    BY <1>2, <2>1 DEF Results
  <2>3. result'[o].content = result[o].content
    BY <1>2, <2>1 DEF Results
  <2>4. \A q \in Ops \ {o} : result'[q] = result[q]
    BY <1>2, <2>1 DEF Results
  <2>5. result'[o].ok /\ result'[o].meta = metadata[f]
    BY <1>2, <2>1 DEF Results
  <2> QED
    BY <1>1, <1>2, <2>2, <2>3, <2>4, <2>5, SameCalls DEF TypeOK, Goto, Moves, Labels
<1>3. CASE metadata[f] = None /\ Fail(o)
  BY <1>1, <1>3, SameCalls, ReturnEffect DEF Fail
<1> QED
  BY <1>1, <1>2, <1>3

LEMMA OpenLookupInv ==
  ASSUME IInv, NEW o \in Ops, OpenLookup(o)
  PROVE  IInv'
<1> USE DEF IInv, Files
<1>a. /\ pc[o] = "lookup" /\ UNCHANGED <<owned, disk, root, metadata, closed, call, crashes>>
      /\ Moves(o, "done") /\ result'[o].content = result[o].content
  BY LookupEffect
<1>b. \A g \in FileIds : disk[g] = Absent \/ disk[g].by /= o
  BY <1>a, NoFileOfMine
<1>1. TypeOK'
  BY <1>a, <1>b DEF TypeOK, Moves, Calls, Results
<1>2. LabelsFit'
  BY <1>a, <1>b DEF TypeOK, Moves, LabelsFit
<1>3. OneSaver'
  BY <1>a, <1>b, OneSaverStays DEF Labels, LabelsFit, Saves, Works
<1>4. FileIsSaved'
  BY <1>a, <1>b, FileIsSavedStays DEF Labels
<1>5. FileIsKept'
  BY <1>a, <1>b, FileIsKeptStays DEF Moves, Labels, LabelsFit, FileIsKept, SameCall,
     Holds, Saves, Works, Succeeded
<1>6. UsersKnow'
  BY <1>a, <1>b, UsersKnowStays DEF Labels, LabelsFit, UsersKnow, Works
<1>7. RemovedIsGone'
  BY <1>a, <1>b DEF TypeOK, Moves, LabelsFit, RemovedIsGone, Works
<1>8. EntryIsSaved'
  BY <1>a, <1>b, EntryIsSavedStays DEF Labels
<1>12. ReadIsOfItsFile'
  BY <1>a, <1>b, ReadIsOfItsFileStays DEF Labels
<1>9. EntryHasFile'
  BY <1>a, <1>b, EntryHasFileStays DEF Labels
<1>10. ClosedIsCleared'
  BY <1>a, <1>b, ClosedIsClearedStays DEF Labels
<1>11. ReadIsWhole'
  BY <1>a, <1>b DEF TypeOK, Moves, LabelsFit, ReadIsWhole, Succeeded
<1> QED
  BY <1>1, <1>2, <1>3, <1>4, <1>5, <1>6, <1>7, <1>8, <1>9, <1>10, <1>11, <1>12

LEMMA DeleteStartInv ==
  ASSUME IInv, NEW o \in Ops, NEW f \in FileIds, DeleteStart(o, f)
  PROVE  IInv'
<1> USE DEF IInv, Files
<1>a. /\ Known(f)
      /\ pc[o] = "idle" /\ UNCHANGED <<owned, disk, root, metadata, closed, crashes>>
      /\ call' \in [Ops -> Calls] /\ \A q \in Ops \ {o} : call'[q] = call[q]
      /\ call'[o].kind = "delete" /\ call'[o].files = {f} /\ call'[o].tried = 0
  BY BeginEffect DEF DeleteStart, Kinds, store
<1>b. \/ Moves(o, "remove") /\ result' = result
      \/ Moves(o, "done") /\ ~result'[o].ok
  BY <1>a, GotoEffect, ReturnEffect DEF DeleteStart, Fail, Labels
<1>c. \A g \in FileIds : disk[g] = Absent \/ disk[g].by /= o
  BY <1>a, NoFileOfMine
<1>1. TypeOK'
  BY <1>a, <1>b, <1>c DEF TypeOK, Moves, Calls, Results
<1>2. LabelsFit'
  BY <1>a, <1>b, <1>c DEF TypeOK, Moves, LabelsFit
<1>3. OneSaver'
  BY <1>a, <1>b, <1>c, OneSaverStays DEF Labels, LabelsFit, Saves, Works
<1>4. FileIsSaved'
  BY <1>a, <1>b, <1>c, FileIsSavedStays DEF Labels
<1>5. FileIsKept'
  BY <1>a, <1>b, <1>c, FileIsKeptStays DEF Moves, Labels, LabelsFit, FileIsKept,
     SameCall, Holds, Saves, Works, Succeeded
<1>6. UsersKnow'
  BY <1>a, <1>b, <1>c, UsersKnowStays DEF Labels, LabelsFit, UsersKnow, Works
<1>7. RemovedIsGone'
  BY <1>a, <1>b, <1>c DEF TypeOK, Moves, LabelsFit, RemovedIsGone, Works
<1>8. EntryIsSaved'
  BY <1>a, <1>b, <1>c, EntryIsSavedStays DEF Labels
<1>12. ReadIsOfItsFile'
  BY <1>a, <1>b, <1>c, ReadIsOfItsFileStays DEF Labels
<1>9. EntryHasFile'
  BY <1>a, <1>b, <1>c, EntryHasFileStays DEF Labels
<1>10. ClosedIsCleared'
  BY <1>a, <1>b, <1>c, ClosedIsClearedStays DEF Labels
<1>11. ReadIsWhole'
  BY <1>a, <1>b, <1>c DEF TypeOK, Moves, LabelsFit, ReadIsWhole, Succeeded
<1> QED
  BY <1>1, <1>2, <1>3, <1>4, <1>5, <1>6, <1>7, <1>8, <1>9, <1>10, <1>11, <1>12

LEMMA DeleteRemoveInv ==
  ASSUME IInv, NEW o \in Ops, DeleteRemove(o)
  PROVE  IInv'
<1> USE DEF IInv, Files
<1>p. PICK f \in FileIds :
        /\ pc[o] = "remove" /\ call[o].files = {f}
        /\ IF disk[f] /= Absent
             THEN disk' = [disk EXCEPT ![f] = Absent] /\ Goto(o, "forget") /\ UNCHANGED result
             ELSE Return(o, FALSE) /\ UNCHANGED disk
        /\ UNCHANGED <<owned, root, metadata, closed, call, crashes>>
  BY DEF DeleteRemove, Works, OnDisk, Fail, Remove
<1>a. \/ disk'[f] = Absent /\ Moves(o, "forget") /\ UNCHANGED result
      \/ disk' = disk /\ Moves(o, "done") /\ ~result'[o].ok
  BY <1>p, SameCalls, GotoEffect, ReturnEffect DEF TypeOK, Labels
<1>b. disk' \in [FileIds -> Content] /\ \A g \in FileIds \ {f} : disk'[g] = disk[g]
  <2>1. disk' = [disk EXCEPT ![f] = Absent] \/ disk' = disk
    BY <1>p
  <2>2. CASE disk' = [disk EXCEPT ![f] = Absent]
    BY <2>2 DEF TypeOK, Content, Absent
  <2>3. CASE disk' = disk
    BY <2>3 DEF TypeOK
  <2> QED
    BY <2>1, <2>2, <2>3
<1>c. /\ pc[o] = "remove" /\ call[o].files = {f}
      /\ UNCHANGED <<owned, root, metadata, closed, call, crashes>>
  BY <1>p
<1>d. \A g \in FileIds : disk[g] = Absent \/ disk[g].by /= o
  BY <1>c, NoFileOfMine
<1>e. DeleteBegun(f)' /\ MayBeGone(f)'
  BY <1>c DEF LabelsFit, MayBeGone, DeleteBegun, Works
<1>f. disk'[f] = Absent \/ disk' = disk
  BY <1>a
<1>g. \A g \in FileIds : disk[g] = Absent => disk'[g] = Absent
  BY <1>b, <1>f
<1>h. pc'[o] = "forget" => call'[o].files = {f} /\ disk'[f] = Absent
  BY <1>a, <1>c DEF Moves
<1>i. \A q \in Ops \ {o} : pc'[q] = pc[q] /\ call'[q] = call[q]
  BY <1>a DEF Moves
<1>j. \A g \in FileIds :
        disk'[g] = disk[g] \/ (pc'[o] = "forget" /\ call'[o].files = {g})
  BY <1>a, <1>b, <1>h DEF Moves
<1>1. TypeOK'
  BY <1>a, <1>b, <1>c, <1>d, <1>e, <1>f, <1>g DEF TypeOK, Moves, Calls, Results
<1>2. LabelsFit'
  BY <1>a, <1>b, <1>c, <1>d, <1>e, <1>f, <1>g DEF TypeOK, Moves, LabelsFit
<1>3. OneSaver'
  BY <1>a, <1>b, <1>c, <1>d, <1>e, <1>f, <1>g, OneSaverStays DEF Labels, LabelsFit,
     Saves, Works
<1>4. FileIsSaved'
  BY <1>a, <1>b, <1>c, <1>d, <1>e, <1>f, <1>g, FileIsSavedStays DEF Labels
<1>5. FileIsKept'
  BY <1>a, <1>b, <1>c, <1>d, <1>e, <1>f, <1>g, FileIsKeptStays DEF Moves, Labels,
     LabelsFit, FileIsKept, SameCall, Holds, Saves, Works, Succeeded
<1>6. UsersKnow'
  BY <1>a, <1>b, <1>c, <1>d, <1>e, <1>f, <1>g, UsersKnowStays DEF Labels, LabelsFit,
     UsersKnow, Works
<1>7. RemovedIsGone'
  BY <1>g, <1>h, <1>i DEF RemovedIsGone, Works
<1>8. EntryIsSaved'
  BY <1>a, <1>b, <1>c, <1>d, <1>e, <1>f, <1>g, EntryIsSavedStays DEF Labels
<1>12. ReadIsOfItsFile'
  BY <1>a, <1>b, <1>c, <1>d, <1>e, <1>f, <1>g, ReadIsOfItsFileStays DEF Labels
<1>9. EntryHasFile'
  BY <1>a, <1>c, <1>j, EntryHasFileStays DEF Labels
<1>10. ClosedIsCleared'
  BY <1>a, <1>b, <1>c, <1>d, <1>e, <1>f, <1>g, ClosedIsClearedStays DEF Labels
<1>11. ReadIsWhole'
  BY <1>a, <1>b, <1>c, <1>d, <1>e, <1>f, <1>g DEF TypeOK, Moves, LabelsFit,
     ReadIsWhole, Succeeded
<1> QED
  BY <1>1, <1>2, <1>3, <1>4, <1>5, <1>6, <1>7, <1>8, <1>9, <1>10, <1>11, <1>12

LEMMA DeleteForgetInv ==
  ASSUME IInv, NEW o \in Ops, DeleteForget(o)
  PROVE  IInv'
<1> USE DEF IInv, Files
<1>p. PICK f \in FileIds :
        /\ pc[o] = "forget" /\ call[o].files = {f}
        /\ metadata' = [metadata EXCEPT ![f] = None]
        /\ Return(o, TRUE)
        /\ UNCHANGED <<owned, disk, root, closed, call, crashes>>
  BY DEF DeleteForget, Works
<1>a. Moves(o, "done")
  BY <1>p, SameCalls, ReturnEffect
<1>b. disk[f] = Absent
  BY <1>p DEF RemovedIsGone, Works
<1>c. /\ pc[o] = "forget" /\ call[o].files = {f}
      /\ UNCHANGED <<owned, disk, root, closed, call, crashes>>
  BY <1>p
<1>d. /\ metadata' \in [FileIds -> Ops \cup {None}] /\ metadata'[f] = None
      /\ \A g \in FileIds \ {f} : metadata'[g] = metadata[g]
  BY <1>p DEF TypeOK
<1>e. \A g \in FileIds : disk[g] = Absent \/ disk[g].by /= o
  BY <1>c, NoFileOfMine
<1>f. EntryHasFile'
  <2> SUFFICES ASSUME NEW g \in FileIds, metadata'[g] /= None, disk[g] = Absent, ~(closed /\ owned)
               PROVE  \E q \in Ops : pc'[q] = "forget" /\ call'[q].files = {g}
    BY <1>c DEF EntryHasFile, Works, Absent
  <2>1. PICK q \in Ops : pc[q] = "forget" /\ call[q].files = {g}
    BY <1>d DEF EntryHasFile, Works
  <2>2. q /= o
    BY <1>c, <1>d, <2>1
  <2> QED
    BY <1>a, <2>1, <2>2 DEF Moves
<1>1. TypeOK'
  BY <1>a, <1>b, <1>c, <1>d, <1>e DEF TypeOK, Moves, Calls, Results
<1>2. LabelsFit'
  BY <1>a, <1>b, <1>c, <1>d, <1>e DEF TypeOK, Moves, LabelsFit
<1>3. OneSaver'
  BY <1>a, <1>b, <1>c, <1>d, <1>e, OneSaverStays DEF Labels, LabelsFit, Saves, Works
<1>4. FileIsSaved'
  BY <1>a, <1>b, <1>c, <1>d, <1>e, FileIsSavedStays DEF Labels
<1>5. FileIsKept'
  BY <1>a, <1>b, <1>c, <1>d, <1>e, FileIsKeptStays DEF Moves, Labels, LabelsFit,
     FileIsKept, SameCall, Holds, Saves, Works, Succeeded
<1>6. UsersKnow'
  BY <1>a, <1>b, <1>c, <1>d, <1>e, UsersKnowStays DEF Labels, LabelsFit, UsersKnow,
     Works
<1>7. RemovedIsGone'
  BY <1>a, <1>b, <1>c, <1>d, <1>e DEF TypeOK, Moves, LabelsFit, RemovedIsGone, Works
<1>8. EntryIsSaved'
  BY <1>a, <1>b, <1>c, <1>d, <1>e, EntryIsSavedStays DEF Labels
<1>12. ReadIsOfItsFile'
  BY <1>a, <1>b, <1>c, <1>d, <1>e, ReadIsOfItsFileStays DEF Labels
<1>9. EntryHasFile'
  BY <1>f
<1>10. ClosedIsCleared'
  BY <1>a, <1>b, <1>c, <1>d, <1>e, ClosedIsClearedStays DEF Labels
<1>11. ReadIsWhole'
  BY <1>a, <1>b, <1>c, <1>d, <1>e DEF TypeOK, Moves, LabelsFit, ReadIsWhole, Succeeded
<1> QED
  BY <1>1, <1>2, <1>3, <1>4, <1>5, <1>6, <1>7, <1>8, <1>9, <1>10, <1>11, <1>12

LEMMA CloseStartInv ==
  ASSUME IInv, NEW o \in Ops, CloseStart(o)
  PROVE  IInv'
<1> USE DEF IInv, Files
<1>a. /\ pc[o] = "idle" /\ closed' = TRUE /\ UNCHANGED <<owned, disk, root, metadata, crashes>>
      /\ call' \in [Ops -> Calls] /\ \A q \in Ops \ {o} : call'[q] = call[q]
      /\ call'[o].kind = "close" /\ call'[o].files = {} /\ call'[o].tried = 0
  BY BeginEffect DEF CloseStart, Kinds
<1>b. \/ (closed \/ ~owned) /\ Moves(o, "done")
      \/ owned /\ Moves(o, "clear") /\ result' = result
  BY <1>a, GotoEffect, ReturnEffect DEF CloseStart, Labels
<1>c. \A g \in FileIds : disk[g] = Absent \/ disk[g].by /= o
  BY <1>a, NoFileOfMine
<1>d. closed' /\ owned' => (closed /\ owned) \/ pc'[o] = "clear"
  BY <1>a, <1>b DEF Moves
<1>e. \A g \in FileIds : disk'[g] = Absent \/ (disk'[g] = disk[g] /\ disk[g].by /= o)
  BY <1>a, <1>c
<1>1. TypeOK'
  BY <1>a, <1>b, <1>c DEF TypeOK, Moves, Calls, Results
<1>2. LabelsFit'
  BY <1>a, <1>b, <1>c DEF TypeOK, Moves, LabelsFit
<1>3. OneSaver'
  BY <1>a, <1>b, <1>c, OneSaverStays DEF Labels, LabelsFit, Saves, Works
<1>4. FileIsSaved'
  BY <1>a, <1>b, <1>c, FileIsSavedStays DEF Labels
<1>5. FileIsKept'
  BY <1>a, <1>b, <1>c, FileIsKeptStays DEF Moves, Labels, LabelsFit, FileIsKept,
     SameCall, Holds, Saves, Works, Succeeded
<1>6. UsersKnow'
  BY <1>a, <1>b, <1>c, UsersKnowStays DEF Labels, LabelsFit, UsersKnow, Works
<1>7. RemovedIsGone'
  BY <1>a, <1>b, <1>c DEF TypeOK, Moves, LabelsFit, RemovedIsGone, Works
<1>8. EntryIsSaved'
  BY <1>a, <1>b, <1>c, EntryIsSavedStays DEF Labels
<1>12. ReadIsOfItsFile'
  BY <1>a, <1>b, <1>c, ReadIsOfItsFileStays DEF Labels
<1>9. EntryHasFile'
  BY <1>a, <1>b, <1>c, EntryHasFileStays DEF Labels
<1>10. ClosedIsCleared'
  BY <1>a, <1>b, <1>d, <1>e, ClosedIsClearedStays DEF Labels
<1>11. ReadIsWhole'
  BY <1>a, <1>b, <1>c DEF TypeOK, Moves, LabelsFit, ReadIsWhole, Succeeded
<1> QED
  BY <1>1, <1>2, <1>3, <1>4, <1>5, <1>6, <1>7, <1>8, <1>9, <1>10, <1>11, <1>12

LEMMA CloseClearInv ==
  ASSUME IInv, NEW o \in Ops, CloseClear(o)
  PROVE  IInv'
<1> USE DEF IInv, Files
<1>a. /\ pc[o] = "clear" /\ disk' = [f \in FileIds |-> Absent]
      /\ UNCHANGED <<owned, root, metadata, closed, call, result, crashes>>
      /\ Moves(o, "rmdir")
  BY SameCalls, GotoEffect DEF CloseClear, Labels
<1>b. disk' \in [FileIds -> Content] /\ owned /\ closed
  BY <1>a DEF LabelsFit, Content, Absent
<1>c. \A f \in FileIds : disk'[f] = Absent /\ MayBeGone(f)'
  BY <1>a, <1>b DEF MayBeGone
<1>d. /\ pc[o] = "clear" /\ Moves(o, "rmdir")
      /\ UNCHANGED <<owned, root, metadata, closed, call, result, crashes>>
  BY <1>a
<1>e. ClosedIsCleared'
  BY <1>c DEF ClosedIsCleared
<1>1. TypeOK'
  BY <1>b, <1>c, <1>d DEF TypeOK, Moves, Calls, Results
<1>2. LabelsFit'
  BY <1>b, <1>c, <1>d DEF TypeOK, Moves, LabelsFit
<1>3. OneSaver'
  BY <1>b, <1>c, <1>d, OneSaverStays DEF Labels, LabelsFit, Saves, Works
<1>4. FileIsSaved'
  BY <1>b, <1>c, <1>d, FileIsSavedStays DEF Labels
<1>5. FileIsKept'
  BY <1>b, <1>c, <1>d, FileIsKeptStays DEF Moves, Labels, LabelsFit, FileIsKept,
     SameCall, Holds, Saves, Works, Succeeded
<1>6. UsersKnow'
  BY <1>b, <1>c, <1>d, UsersKnowStays DEF Labels, LabelsFit, UsersKnow, Works
<1>7. RemovedIsGone'
  BY <1>b, <1>c, <1>d DEF TypeOK, Moves, LabelsFit, RemovedIsGone, Works
<1>8. EntryIsSaved'
  BY <1>b, <1>c, <1>d, EntryIsSavedStays DEF Labels
<1>12. ReadIsOfItsFile'
  BY <1>b, <1>c, <1>d, ReadIsOfItsFileStays DEF Labels
<1>9. EntryHasFile'
  BY <1>b, <1>c, <1>d, EntryHasFileStays DEF Labels
<1>10. ClosedIsCleared'
  BY <1>e
<1>11. ReadIsWhole'
  BY <1>b, <1>c, <1>d DEF TypeOK, Moves, LabelsFit, ReadIsWhole, Succeeded
<1> QED
  BY <1>1, <1>2, <1>3, <1>4, <1>5, <1>6, <1>7, <1>8, <1>9, <1>10, <1>11, <1>12

LEMMA CloseRmdirInv ==
  ASSUME IInv, NEW o \in Ops, CloseRmdir(o)
  PROVE  IInv'
<1> USE DEF IInv, Files
<1>a. /\ pc[o] = "rmdir" /\ UNCHANGED <<owned, disk, metadata, closed, call, crashes>>
      /\ root' \in BOOLEAN /\ Moves(o, "done")
  BY SameCalls, ReturnEffect DEF CloseRmdir, Fail, TypeOK
<1>b. \A g \in FileIds : disk[g] = Absent \/ disk[g].by /= o
  BY <1>a, NoFileOfMine
<1>1. TypeOK'
  BY <1>a, <1>b DEF TypeOK, Moves, Calls, Results
<1>2. LabelsFit'
  BY <1>a, <1>b DEF TypeOK, Moves, LabelsFit
<1>3. OneSaver'
  BY <1>a, <1>b, OneSaverStays DEF Labels, LabelsFit, Saves, Works
<1>4. FileIsSaved'
  BY <1>a, <1>b, FileIsSavedStays DEF Labels
<1>5. FileIsKept'
  BY <1>a, <1>b, FileIsKeptStays DEF Moves, Labels, LabelsFit, FileIsKept, SameCall,
     Holds, Saves, Works, Succeeded
<1>6. UsersKnow'
  BY <1>a, <1>b, UsersKnowStays DEF Labels, LabelsFit, UsersKnow, Works
<1>7. RemovedIsGone'
  BY <1>a, <1>b DEF TypeOK, Moves, LabelsFit, RemovedIsGone, Works
<1>8. EntryIsSaved'
  BY <1>a, <1>b, EntryIsSavedStays DEF Labels
<1>12. ReadIsOfItsFile'
  BY <1>a, <1>b, ReadIsOfItsFileStays DEF Labels
<1>9. EntryHasFile'
  BY <1>a, <1>b, EntryHasFileStays DEF Labels
<1>10. ClosedIsCleared'
  BY <1>a, <1>b, ClosedIsClearedStays DEF Labels
<1>11. ReadIsWhole'
  BY <1>a, <1>b DEF TypeOK, Moves, LabelsFit, ReadIsWhole, Succeeded
<1> QED
  BY <1>1, <1>2, <1>3, <1>4, <1>5, <1>6, <1>7, <1>8, <1>9, <1>10, <1>11, <1>12

\* A crash loses the metadata and the calls under way, and leaves the files.
LEMMA CrashInv ==
  ASSUME IInv, CrashAndRestart
  PROVE  IInv'
<1> USE DEF IInv, Files
<1>a. /\ ~owned /\ crashes' = crashes + 1 /\ crashes < MaxCrashes
      /\ metadata' = [f \in FileIds |-> None] /\ closed' = FALSE
      /\ UNCHANGED <<owned, disk, root, call, result>>
  BY DEF CrashAndRestart
<1>b. /\ pc' \in [Ops -> Labels]
      /\ \A o \in Ops : pc'[o] = IF pc[o] \in {"idle", "done"} THEN pc[o] ELSE "dead"
  BY DEF CrashAndRestart, TypeOK, Labels
<1>c. crashes' \in 0 .. MaxCrashes /\ crashes' > 0
  BY <1>a DEF TypeOK
<1>1. TypeOK'
  BY <1>a, <1>b, <1>c DEF TypeOK
<1>2. LabelsFit'
  BY <1>a, <1>b, <1>c DEF LabelsFit
<1>3. OneSaver'
  BY <1>a DEF OneSaver, Saves, Works
<1>4. FileIsSaved'
  <2> SUFFICES ASSUME NEW f \in FileIds, disk[f] /= Absent PROVE SavedBy(disk[f].by, f)'
    BY <1>a DEF FileIsSaved, Absent
  <2>1. PICK p \in Ops : p = disk[f].by /\ SavedBy(p, f)
    BY DEF FileIsSaved, SavedBy
  <2>2. pc'[p] = "dead" \/ (pc[p] = "done" /\ pc'[p] = "done")
    BY <1>b, <2>1 DEF SavedBy, Succeeded
  <2>3. SavedBy(p, f)'
    BY <1>a, <1>c, <2>1, <2>2 DEF SavedBy, Saves, Works, Succeeded
  <2> QED
    BY <1>a, <2>1, <2>3
<1>5. FileIsKept'
  <2> SUFFICES ASSUME NEW o \in Ops, NEW f \in FileIds, Holds(o, f)', ~MayBeGone(f)'
               PROVE  disk[f].by = o
    BY <1>a DEF FileIsKept
  <2>1. Holds(o, f)
    BY <1>a, <1>b DEF Holds, Saves, Works, Succeeded
  <2>2. ~MayBeGone(f)
    BY <1>a DEF MayBeGone, DeleteBegun, Works
  <2> QED
    BY <2>1, <2>2 DEF FileIsKept
<1>6. UsersKnow'
  BY <1>a, <1>b DEF UsersKnow, Known, Works
<1>7. RemovedIsGone'
  BY <1>b DEF RemovedIsGone
<1>8. EntryIsSaved' /\ EntryHasFile'
  BY <1>a DEF EntryIsSaved, EntryHasFile
<1>9. ClosedIsCleared'
  BY <1>a DEF ClosedIsCleared
<1>10. ReadIsWhole' /\ ReadIsOfItsFile'
  BY <1>a, <1>b DEF ReadIsWhole, ReadIsOfItsFile, Succeeded
<1> QED
  BY <1>1, <1>2, <1>3, <1>4, <1>5, <1>6, <1>7, <1>8, <1>9, <1>10

-----------------------------------------------------------------------------
(* The invariant of the specification.                                     *)

LEMMA InitInv == Init => IInv
<1> SUFFICES ASSUME Init PROVE IInv
  OBVIOUS
<1> USE DEF Init
<1>1. TypeOK
  <2>1. 0 \in 0 .. MaxAttempts /\ 0 \in 0 .. MaxCrashes
    OBVIOUS
  <2>2. disk \in [FileIds -> Content] /\ metadata \in [FileIds -> Ops \cup {None}]
    BY DEF Absent, Content
  <2>3. pc \in [Ops -> Labels]
    BY DEF Labels
  <2>4. call \in [Ops -> Calls]
    BY <2>1 DEF Calls, Kinds
  <2>5. result \in [Ops -> Results]
    BY DEF Results, NoResult, Absent, Content
  <2> QED
    BY <2>1, <2>2, <2>3, <2>4, <2>5 DEF TypeOK, Calls, Results
<1>2. LabelsFit
  BY DEF LabelsFit
<1>3. Files
  BY DEF Files, OneSaver, FileIsSaved, FileIsKept, UsersKnow, RemovedIsGone, Holds,
     Saves
<1>4. EntryIsSaved /\ EntryHasFile /\ ClosedIsCleared /\ ReadIsWhole /\ ReadIsOfItsFile
  BY DEF EntryIsSaved, EntryHasFile, ClosedIsCleared, ReadIsWhole, ReadIsOfItsFile
<1> QED
  BY <1>1, <1>2, <1>3, <1>4 DEF IInv

LEMMA StutterInv ==
  ASSUME IInv, UNCHANGED vars
  PROVE  IInv'
<1> USE DEF IInv, Files, vars, store
<1>1. TypeOK' /\ LabelsFit'
  BY DEF TypeOK, LabelsFit
<1>2. OneSaver'
  BY DEF OneSaver, Saves, Works
<1>3. FileIsSaved'
  BY DEF FileIsSaved, SavedBy, Saves, Works, Succeeded
<1>4. FileIsKept'
  BY DEF FileIsKept, Holds, Saves, Succeeded, MayBeGone, DeleteBegun, Works
<1>5. UsersKnow' /\ RemovedIsGone'
  BY DEF UsersKnow, RemovedIsGone, Known, Works
<1>6. EntryIsSaved' /\ EntryHasFile'
  BY DEF EntryIsSaved, EntryHasFile, Saves, Works, Succeeded
<1>7. ClosedIsCleared' /\ ReadIsWhole'
  BY DEF ClosedIsCleared, ReadIsWhole, Succeeded
<1>8. ReadIsOfItsFile'
  BY DEF ReadIsOfItsFile, Saves, Works, Succeeded
<1> QED
  BY <1>1, <1>2, <1>3, <1>4, <1>5, <1>6, <1>7, <1>8

LEMMA NextInv == IInv /\ [Next]_vars => IInv'
<1> SUFFICES ASSUME IInv, [Next]_vars PROVE IInv'
  OBVIOUS
<1>1. CASE UNCHANGED vars \/ Terminated
  BY <1>1, StutterInv DEF Terminated
<1>2. CASE CrashAndRestart
  BY <1>2, CrashInv
<1>3. ASSUME NEW o \in Ops,
             \/ SaveStart(o) \/ SaveCollides(o) \/ SaveCreate(o) \/ SaveCreateFails(o)
             \/ SaveCopy(o) \/ SaveCopyFails(o) \/ SaveRegister(o) \/ SaveUndo(o)
      PROVE  IInv'
  BY <1>3, SaveStartInv, SaveCollidesInv, SaveCreateInv, SaveCreateFailsInv,
     SaveCopyInv,
     SaveCopyFailsInv, SaveRegisterInv, SaveUndoInv
<1>4. ASSUME NEW o \in Ops,
             \/ OpenFile(o) \/ OpenLookup(o) \/ DeleteRemove(o) \/ DeleteForget(o)
             \/ \E f \in FileIds : OpenStart(o, f) \/ DeleteStart(o, f)
      PROVE  IInv'
  BY <1>4, OpenStartInv, OpenFileInv, OpenLookupInv, DeleteStartInv, DeleteRemoveInv,
     DeleteForgetInv
<1>5. ASSUME NEW o \in Ops, CloseStart(o) \/ CloseClear(o) \/ CloseRmdir(o)
      PROVE  IInv'
  BY <1>5, CloseStartInv, CloseClearInv, CloseRmdirInv
<1> QED
  BY <1>1, <1>2, <1>3, <1>4, <1>5 DEF Next

THEOREM Invariance == Spec => []IInv
<1> QED
  BY InitInv, NextInv, PTL DEF Spec

-----------------------------------------------------------------------------
(* The properties of the runs.                                             *)

\* Every variable keeps its type; Save stops at MaxAttempts ids.
THEOREM TypeCorrect == Spec => []TypeOK
<1>1. IInv => TypeOK
  BY DEF IInv
<1> QED
  BY <1>1, Invariance, PTL

\* A saved file stays as it was saved until it is deleted, or the owned store
\* closed: no concurrent or later Save, no crash, no failed call touches it.
THEOREM SavedFilesStay == Spec => []SavedFileAvailable
<1>1. IInv => SavedFileAvailable
  <2> SUFFICES ASSUME IInv, NEW o \in Ops, NEW f \in FileIds,
                      call[o].kind = "save", Works(o, f), pc[o] = "done", result[o].ok,
                      ~DeleteBegun(f), ~(closed /\ owned)
               PROVE  disk[f] = [by |-> o, whole |-> TRUE] /\ (crashes = 0 => metadata[f] = o)
    BY DEF SavedFileAvailable
  <2>1. disk[f].by = o
    BY DEF IInv, Files, FileIsKept, Holds, MayBeGone, Saves, Succeeded
  <2>2. disk[f] /= Absent
    BY <2>1 DEF Absent
  <2>3. disk[f].whole /\ (crashes = 0 => metadata[f] = o)
    BY <2>1, <2>2 DEF IInv, Files, FileIsSaved, SavedBy
  <2> QED
    BY <2>1, <2>3 DEF IInv, TypeOK, Content
<1> QED
  BY <1>1, Invariance, PTL

\* A Save that fails, at whichever step, leaves no file behind.
THEOREM FailuresLeaveNothing == Spec => []FailedSaveLeavesNothing
<1>1. IInv => FailedSaveLeavesNothing
  BY DEF IInv, Files, FileIsSaved, SavedBy, Succeeded, Absent, FailedSaveLeavesNothing
<1> QED
  BY <1>1, Invariance, PTL

\* At rest the metadata map and the directory name the same files.
THEOREM MapAndDirectoryAgree == Spec => []MapMatchesDirectory
<1>1. IInv => MapMatchesDirectory
  <2> SUFFICES ASSUME IInv, Quiet, crashes = 0, ~(closed /\ owned), NEW f \in FileIds
               PROVE  disk[f] /= Absent <=> metadata[f] /= None
    BY DEF MapMatchesDirectory, OnDisk
  <2>1. ASSUME disk[f] /= Absent PROVE metadata[f] /= None
    <3>1. PICK o \in Ops : o = disk[f].by /\ SavedBy(o, f)
      BY <2>1 DEF IInv, Files, FileIsSaved, SavedBy
    <3>2. pc[o] = "done"
      BY <3>1 DEF IInv, LabelsFit, Quiet, SavedBy, Succeeded
    <3> QED
      BY <3>1, <3>2 DEF SavedBy
  <2>2. ASSUME metadata[f] /= None PROVE disk[f] /= Absent
    BY <2>2 DEF IInv, EntryHasFile, Quiet
  <2> QED
    BY <2>1, <2>2
<1> QED
  BY <1>1, Invariance, PTL

\* After Close of an owned store, once every call has returned, nothing that
\* was uploaded is left on disk.
THEOREM ClosedStoresAreEmpty == Spec => []ClosedStoreIsEmpty
<1>1. IInv => ClosedStoreIsEmpty
  <2> SUFFICES ASSUME IInv, closed, owned, Quiet, NEW f \in FileIds, disk[f] /= Absent
               PROVE  FALSE
    BY DEF ClosedStoreIsEmpty, OnDisk
  <2>1. PICK o \in Ops : o = disk[f].by /\ SavedBy(o, f)
    BY DEF IInv, Files, FileIsSaved, SavedBy
  <2>2. pc[o] = "done"
    BY <2>1 DEF IInv, LabelsFit, Quiet, SavedBy, Succeeded
  <2> QED
    BY <2>1, <2>2 DEF IInv, ClosedIsCleared, Quiet
<1> QED
  BY <1>1, Invariance, PTL

\* Nobody is ever given a file that is not a complete copy.
THEOREM OpensAreWhole == Spec => []OpenedIsWhole
<1>1. IInv => OpenedIsWhole
  BY DEF IInv, ReadIsWhole, Succeeded, OpenedIsWhole
<1> QED
  BY <1>1, Invariance, PTL

-----------------------------------------------------------------------------
(* What a move of one call shows of it in the abstract store.              *)

LEMMA OthersLookTheSame ==
  ASSUME TypeOK, NEW o \in Ops, NEW l \in Labels, Moves(o, l)
  PROVE  \A q \in Ops \ {o} : Phase(q)' = Phase(q) /\ Outcome(q)' = Outcome(q)
BY DEF Moves, Phase, Outcome, Decided

\* A call that is decided: the abstract Decide, with what it is decided to.
LEMMA DecideShows ==
  ASSUME TypeOK, NEW o \in Ops, NEW l \in Labels, Moves(o, l),
         NEW phase, NEW kind, NEW files, NEW by,
         Phase(o) = "pending", Phase(o)' = phase,
         Outcome(o)' = Decided(kind, files, by, None)
  PROVE  Promise!Decide(o, phase, kind, files, by)
<1>1. [q \in Ops |-> Phase(q)]' = [[q \in Ops |-> Phase(q)] EXCEPT ![o] = phase]
  BY OthersLookTheSame
<1>2. [q \in Ops |-> Outcome(q)]' =
        [[q \in Ops |-> Outcome(q)] EXCEPT ![o] = Promise!Answer(kind, files, by, None)]
  BY OthersLookTheSame DEF Decided, Promise!Answer
<1> QED
  BY <1>1, <1>2 DEF Promise!Decide

\* A call that has been decided returns.
LEMMA ReturnShows ==
  ASSUME TypeOK, NEW o \in Ops, Moves(o, "done"), owned' = owned, closed' = closed,
         SavedFiles' = SavedFiles, Described' = Described, Phase(o) = "decided",
         Outcome(o).kind /= "read", Outcome(o)' = Outcome(o)
  PROVE  Promise!Return(o)
<1>1. Phase(o)' = "returned"
  BY DEF Moves, Phase
<1>2. [q \in Ops |-> Phase(q)]' = [[q \in Ops |-> Phase(q)] EXCEPT ![o] = "returned"]
  BY <1>1, OthersLookTheSame DEF Labels
<1>3. [q \in Ops |-> Outcome(q)]' = [q \in Ops |-> Outcome(q)]
  BY OthersLookTheSame DEF Labels
<1> QED
  BY <1>2, <1>3 DEF Promise!Return

\* A step nobody can see.
LEMMA NothingShows ==
  ASSUME TypeOK, NEW o \in Ops, NEW l \in Labels, Moves(o, l),
         owned' = owned, closed' = closed, SavedFiles' = SavedFiles, metadata' = metadata,
         Phase(o)' = Phase(o), Outcome(o)' = Outcome(o)
  PROVE  UNCHANGED Promise!vars
<1>1. [q \in Ops |-> Phase(q)]' = [q \in Ops |-> Phase(q)]
  BY OthersLookTheSame
<1>2. [q \in Ops |-> Outcome(q)]' = [q \in Ops |-> Outcome(q)]
  BY OthersLookTheSame
<1> QED
  BY <1>1, <1>2 DEF Promise!vars, Described

\* A call still at work, before it is decided, stays invisible.
LEMMA WorkShows ==
  ASSUME TypeOK, NEW o \in Ops, NEW l \in Labels, Moves(o, l),
         owned' = owned, closed' = closed, SavedFiles' = SavedFiles, metadata' = metadata,
         Phase(o) = "pending",
         l \in {"create", "copy", "register", "undo", "openfile", "remove"}
  PROVE  UNCHANGED Promise!vars
<1>1. Phase(o)' = Phase(o) /\ Outcome(o)' = Outcome(o)
  BY DEF Moves, Phase, Outcome, TypeOK, Labels
<1> QED
  BY <1>1, NothingShows

-----------------------------------------------------------------------------
(* Which saved files a step can disturb.                                   *)

LEMMA FilesStay ==
  ASSUME IInv, NEW o \in Ops, NEW l \in Labels, Moves(o, l),
         \A f \in FileIds : disk'[f].by = disk[f].by,
         call[o].kind /= "save" \/ (~Succeeded(o) /\ ~Succeeded(o)')
  PROVE  SavedFiles' = SavedFiles
<1>1. ASSUME NEW f \in FileIds, disk[f].by \in Ops
      PROVE  Succeeded(disk[f].by)' <=> Succeeded(disk[f].by)
  <2>1. Saves(disk[f].by, f)
    BY <1>1 DEF IInv, Files, FileIsSaved, SavedBy, Absent
  <2>2. CASE disk[f].by = o
    BY <2>1, <2>2 DEF Saves
  <2>3. CASE disk[f].by /= o
    BY <1>1, <2>3 DEF Moves, Succeeded
  <2> QED
    BY <2>2, <2>3
<1> QED
  BY <1>1 DEF SavedFiles, Succeeded

\* A file that a user of the store knows is that of the Save that returned it.
LEMMA KnownFileIsSaved ==
  ASSUME IInv, NEW o \in Ops, NEW f \in FileIds, Works(o, f),
         call[o].kind \in {"open", "delete"}, disk[f] /= Absent
  PROVE  /\ disk[f].by \in Ops /\ Succeeded(disk[f].by) /\ disk[f].whole
         /\ SavedFiles[f] = disk[f].by /\ SavedFiles[f] /= None
<1>1. disk[f].by \in Ops /\ SavedBy(disk[f].by, f)
  BY DEF IInv, Files, FileIsSaved, SavedBy
<1>2. PICK p \in Ops : Saves(p, f) /\ Succeeded(p)
  BY DEF IInv, Files, UsersKnow, Known, Saves, Succeeded
<1>3. p = disk[f].by
  BY <1>1, <1>2 DEF IInv, Files, OneSaver, SavedBy
<1> QED
  BY <1>1, <1>2, <1>3 DEF SavedBy, Succeeded, SavedFiles

\* A failing call that leaves the saved files alone.
LEMMA FailShows ==
  ASSUME TypeOK, NEW o \in Ops, Moves(o, "done"), ~result'[o].ok,
         owned' = owned, closed' = closed, SavedFiles' = SavedFiles, metadata' = metadata,
         Phase(o) = "pending", call'[o].kind /= "close"
  PROVE  Promise!Fail(o)
<1>1. Phase(o)' = "returned" /\ Outcome(o)' = Decided("failed", {}, None, None)
  BY DEF Moves, Phase, Outcome
<1>2. Promise!Decide(o, "returned", "failed", {}, None)
  BY <1>1, DecideShows DEF Labels
<1> QED
  BY <1>2 DEF Promise!Fail, Described

-----------------------------------------------------------------------------
(* Every step shows as an abstract step or as none.                        *)

Shows == [Promise!Next]_(Promise!vars)

LEMMA Moved ==
  ASSUME TypeOK, TypeOK', NEW o \in Ops, NEW l \in Labels, Goto(o, l),
         \A q \in Ops \ {o} : call'[q] = call[q] /\ result'[q] = result[q]
  PROVE  Moves(o, l)
BY DEF TypeOK, Goto, Moves, Calls, Results

LEMMA MovedOnly ==
  ASSUME TypeOK, TypeOK', NEW o \in Ops, NEW l \in Labels, Goto(o, l),
         UNCHANGED <<call, result>>
  PROVE  Moves(o, l)
BY Moved

LEMMA Returned ==
  ASSUME TypeOK, TypeOK', NEW o \in Ops, NEW ok \in BOOLEAN, Return(o, ok),
         \A q \in Ops \ {o} : call'[q] = call[q]
  PROVE  Moves(o, "done") /\ result'[o].ok = ok /\ result'[o].content = result[o].content
<1>1. call' \in [Ops -> Calls]
  BY DEF TypeOK, Calls
<1> QED
  BY <1>1, ReturnEffect

\* A step that fails, or goes on unseen, and touches no file.
LEMMA QuietStep ==
  ASSUME IInv, TypeOK', NEW o \in Ops, Phase(o) = "pending",
         UNCHANGED <<owned, disk, metadata, closed>>, \A q \in Ops \ {o} : call'[q] = call[q],
         call'[o].kind /= "close",
         \/ Fail(o)
         \/ \E l \in {"create", "copy", "register", "undo", "openfile", "remove"} :
              Goto(o, l) /\ UNCHANGED result
  PROVE  Shows
<1>1. TypeOK /\ ~Succeeded(o)
  BY DEF IInv, Phase, Succeeded
<1>2. CASE Fail(o)
  <2>1. Moves(o, "done") /\ ~result'[o].ok
    BY <1>1, <1>2, Returned DEF Fail
  <2>2. SavedFiles' = SavedFiles
    BY <1>1, <2>1, FilesStay DEF Succeeded, Labels
  <2> QED
    BY <1>1, <2>1, <2>2, FailShows DEF Shows, Promise!Next
<1>3. ASSUME NEW l \in {"create", "copy", "register", "undo", "openfile", "remove"},
             Goto(o, l), UNCHANGED result
      PROVE  Shows
  <2>1. l \in Labels /\ l /= "done" /\ Moves(o, l)
    BY <1>1, <1>3, Moved DEF Labels
  <2>2. ~Succeeded(o)'
    BY <2>1 DEF Moves, Succeeded
  <2>3. SavedFiles' = SavedFiles
    BY <1>1, <2>1, <2>2, FilesStay
  <2> QED
    BY <1>1, <2>1, <2>3, WorkShows DEF Shows
<1> QED
  BY <1>2, <1>3

LEMMA BeginsCall ==
  ASSUME TypeOK, NEW o \in Ops, NEW kind \in Kinds, NEW files \in SUBSET FileIds,
         Begin(o, kind, files)
  PROVE  /\ \A q \in Ops \ {o} : call'[q] = call[q]
         /\ call'[o].kind = kind /\ call'[o].files = files
BY BeginEffect

LEMMA SaveShows ==
  ASSUME IInv, TypeOK', NEW o \in Ops,
         \/ SaveStart(o) \/ SaveCollides(o) \/ SaveCreateFails(o) \/ SaveCopyFails(o)
  PROVE  Shows
<1>0. TypeOK
  BY DEF IInv
<1>1. CASE SaveStart(o)
  <2>1. /\ \A q \in Ops \ {o} : call'[q] = call[q]
        /\ call'[o].kind = "save"
    BY <1>0, <1>1, BeginsCall DEF SaveStart, Kinds
  <2> QED
    BY <1>1, <2>1, QuietStep DEF SaveStart, store, Phase
<1>2. CASE SaveCollides(o)
  <2>1. call[o].kind = "save" /\ \A q \in Ops \ {o} : call'[q] = call[q]
    BY <1>0, <1>2 DEF SaveCollides, IInv, LabelsFit, TypeOK
  <2>2. call'[o].kind = "save"
    BY <1>0, <1>2, <2>1 DEF SaveCollides, TypeOK
  <2>3. Fail(o) \/ (Goto(o, "create") /\ UNCHANGED result)
    BY <1>0, <1>2 DEF SaveCollides, Goto, TypeOK
  <2> QED
    BY <1>2, <2>1, <2>2, <2>3, QuietStep DEF SaveCollides, store, Phase
<1>3. CASE SaveCreateFails(o)
  BY <1>3, QuietStep DEF SaveCreateFails, store, Phase, IInv, LabelsFit
<1>4. CASE SaveCopyFails(o)
  BY <1>4, QuietStep DEF SaveCopyFails, store, Phase, IInv, LabelsFit
<1> QED
  BY <1>1, <1>2, <1>3, <1>4

\* Creating a file overwrites none: no Save of that id is there.
LEMMA SaveCreateShows ==
  ASSUME IInv, TypeOK', NEW o \in Ops, SaveCreate(o)
  PROVE  Shows
<1>1. PICK f \in FileIds :
        /\ pc[o] = "create" /\ Fresh(f)
        /\ disk' = [disk EXCEPT ![f] = [by |-> o, whole |-> FALSE]]
        /\ call' = [call EXCEPT ![o].files = {f}]
        /\ Goto(o, "copy")
        /\ UNCHANGED <<owned, metadata, closed, result>>
  BY DEF SaveCreate
<1>2. TypeOK /\ Moves(o, "copy")
  BY <1>1, Moved DEF IInv, TypeOK, Labels
<1>3. disk[f] = Absent
  BY <1>1 DEF IInv, Files, FileIsSaved, SavedBy, Saves, Fresh
<1>4. ~Succeeded(o) /\ ~Succeeded(o)'
  BY <1>1, <1>2 DEF Succeeded, Moves
<1>5. \A g \in FileIds : disk'[g].by = IF g = f THEN o ELSE disk[g].by
  BY <1>1, <1>2 DEF TypeOK, Content
<1>6. \A q \in Ops : Succeeded(q)' <=> Succeeded(q)
  BY <1>2, <1>4 DEF Moves, Succeeded
<1>7. SavedFiles' = SavedFiles
  BY <1>3, <1>4, <1>5, <1>6 DEF SavedFiles, Absent
<1> QED
  BY <1>1, <1>2, <1>7, WorkShows DEF Shows, Phase, Labels

LEMMA SaveCopyShows ==
  ASSUME IInv, TypeOK', NEW o \in Ops, SaveCopy(o)
  PROVE  Shows
<1>1. TypeOK /\ Moves(o, "register") /\ pc[o] = "copy" /\ UNCHANGED <<owned, metadata, closed>>
  BY MovedOnly DEF SaveCopy, IInv, Labels
<1>2. \A f \in FileIds : disk'[f].by = disk[f].by
  BY <1>1 DEF SaveCopy, TypeOK, Content
<1>3. ~Succeeded(o) /\ ~Succeeded(o)'
  BY <1>1 DEF Succeeded, Moves
<1>4. SavedFiles' = SavedFiles
  BY <1>1, <1>2, <1>3, FilesStay DEF Labels
<1> QED
  BY <1>1, <1>4, WorkShows DEF Shows, Phase, Labels

\* The critical section that registers a file is the abstract Save.
LEMMA SaveRegisterShows ==
  ASSUME IInv, TypeOK', NEW o \in Ops, SaveRegister(o)
  PROVE  Shows
<1>1. TypeOK /\ pc[o] = "register" /\ call[o].kind = "save" /\ Phase(o) = "pending"
  BY DEF SaveRegister, IInv, LabelsFit, Phase
<1>2. CASE closed
  BY <1>1, <1>2, QuietStep DEF SaveRegister
<1>3. CASE ~closed
  <2>1. PICK f \in FileIds :
          /\ Works(o, f) /\ Return(o, TRUE) /\ metadata' = [metadata EXCEPT ![f] = o]
          /\ UNCHANGED <<owned, disk, root, closed, call>>
    BY <1>3 DEF SaveRegister
  <2>2. Moves(o, "done") /\ result'[o].ok
    BY <1>1, <2>1, Returned
  <2>3. Saves(o, f) /\ Holds(o, f)
    BY <1>1, <2>1 DEF Saves, Holds
  <2>4. ~DeleteBegun(f)
    <3> SUFFICES ASSUME DeleteBegun(f) PROVE FALSE
      OBVIOUS
    <3>1. PICK p \in Ops : Saves(p, f) /\ pc[p] = "done"
      BY DEF DeleteBegun, IInv, Files, UsersKnow, Known, Saves
    <3> QED
      BY <1>1, <2>3, <3>1 DEF IInv, Files, OneSaver
  <2>5. disk[f].by = o
    BY <1>3, <2>3, <2>4 DEF IInv, Files, FileIsKept, MayBeGone
  <2>6. \A g \in FileIds \ {f} : disk[g].by /= o
    BY <2>1 DEF IInv, Files, FileIsSaved, SavedBy, Saves, Works, Absent
  <2>7. SavedFiles' = [SavedFiles EXCEPT ![f] = o]
    <3>1. \A q \in Ops \ {o} : Succeeded(q)' <=> Succeeded(q)
      BY <2>2 DEF Moves, Succeeded
    <3>2. Succeeded(o)'
      BY <2>2 DEF Moves, Succeeded
    <3> QED
      BY <2>1, <2>5, <2>6, <3>1, <3>2 DEF SavedFiles
  <2>8. ~Promise!Used(f)
    <3> SUFFICES ASSUME NEW q \in Ops, Outcome(q).kind = "saved", Outcome(q).files = {f}
                 PROVE  FALSE
      BY DEF Promise!Used
    <3>1. pc[q] = "done" /\ Saves(q, f)
      BY DEF Outcome, Decided, Saves, Works, IInv, LabelsFit
    <3> QED
      BY <1>1, <2>3, <3>1 DEF IInv, Files, OneSaver
  <2>9. Phase(o)' = "returned" /\ Outcome(o)' = Decided("saved", {f}, o, None)
    BY <1>1, <2>1, <2>2 DEF Moves, Phase, Outcome, Works
  <2>10. Promise!Decide(o, "returned", "saved", {f}, o)
    BY <1>1, <2>2, <2>9, DecideShows DEF Labels
  <2>11. Described' = Described \cup {f}
    BY <1>1, <2>1, <2>7, NoneAssumption DEF Described, TypeOK, SavedFiles
  <2> QED
    BY <1>3, <2>1, <2>7, <2>8, <2>10, <2>11 DEF Shows, Promise!Next, Promise!Save
<1> QED
  BY <1>2, <1>3

\* The file a failed Save removes was nobody's.
LEMMA SaveUndoShows ==
  ASSUME IInv, TypeOK', NEW o \in Ops, SaveUndo(o)
  PROVE  Shows
<1>1. PICK f \in FileIds :
        /\ pc[o] = "undo" /\ Works(o, f)
        /\ Remove(f) /\ Fail(o)
        /\ UNCHANGED <<owned, metadata, closed, call>>
  BY DEF SaveUndo
<1>2. TypeOK /\ call[o].kind = "save" /\ Phase(o) = "pending"
  BY <1>1 DEF IInv, LabelsFit, Phase
<1>3. Moves(o, "done") /\ ~result'[o].ok
  BY <1>1, <1>2, Returned DEF Fail
<1>4. disk[f] = Absent \/ disk[f].by = o
  BY <1>1, <1>2 DEF IInv, Files, FileIsSaved, SavedBy, OneSaver, Saves
<1>5. \A q \in Ops : Succeeded(q)' <=> Succeeded(q)
  BY <1>1, <1>3 DEF Moves, Succeeded
<1>6. ~Succeeded(o)
  BY <1>1 DEF Succeeded
<1>7. SavedFiles' = SavedFiles
  BY <1>1, <1>2, <1>4, <1>5, <1>6 DEF SavedFiles, Remove, Absent, TypeOK
<1> QED
  BY <1>1, <1>2, <1>3, <1>7, FailShows DEF Shows, Promise!Next

\* What Open finds is the metadata of the Save whose bytes it has, or none:
\* the file is then no longer described.
LEMMA LookupShows ==
  ASSUME IInv, NEW o \in Ops, OpenLookup(o)
  PROVE  Shows
<1>0. TypeOK
  BY DEF IInv
<1>1. /\ pc[o] = "lookup" /\ UNCHANGED <<owned, disk, metadata, closed, call>>
      /\ Moves(o, "done") /\ result'[o].content = result[o].content
  BY <1>0, LookupEffect
<1>2. PICK f \in FileIds :
        /\ Works(o, f)
        /\ \/ result'[o].ok /\ result'[o].meta = metadata[f]
           \/ ~result'[o].ok /\ metadata[f] = None
  BY <1>0, LookupEffect
<1>3. call[o].kind = "open" /\ call[o].files = {f} /\ Phase(o) = "decided"
  BY <1>1, <1>2 DEF IInv, LabelsFit, Phase, Works
<1>4. result[o].content.whole
  BY <1>1, <1>3 DEF IInv, ReadIsWhole
<1>5. PICK p \in Ops : p = result[o].content.by /\ Saves(p, f)
  BY <1>1, <1>2 DEF IInv, ReadIsOfItsFile
<1>6. metadata[f] = None \/ metadata[f] = p
  BY <1>5 DEF IInv, EntryIsSaved, Files, OneSaver
<1>7. SavedFiles' = SavedFiles /\ Described' = Described
  <2>1. SavedFiles' = SavedFiles
    BY <1>1, <1>3, FilesStay DEF Labels
  <2> QED
    BY <1>1, <2>1 DEF Described
<1>8. metadata[f] = None => f \notin Described
  BY DEF Described
<1>9. Outcome(o) = Decided("read", {f}, p, None)
  BY <1>1, <1>3, <1>4, <1>5 DEF Outcome
<1>10. \/ Outcome(o)' = Decided("read", {f}, p, p)
       \/ f \notin Described /\ Outcome(o)' = Decided("read", {f}, p, None)
       \/ f \notin Described /\ Outcome(o)' = Decided("failed", {}, None, None)
  <2>1. call'[o] = call[o] /\ pc'[o] = "done"
    BY <1>1 DEF Moves
  <2>2. CASE result'[o].ok /\ result'[o].meta = metadata[f]
    <3>1. Outcome(o)' = Decided("read", {f}, p, metadata[f])
      BY <1>1, <1>3, <1>4, <1>5, <2>1, <2>2 DEF Outcome
    <3> QED
      BY <1>6, <1>8, <3>1
  <2>3. CASE ~result'[o].ok /\ metadata[f] = None
    BY <1>3, <1>8, <2>1, <2>3 DEF Outcome
  <2> QED
    BY <1>2, <2>2, <2>3
<1>11. [q \in Ops |-> Phase(q)]' = [[q \in Ops |-> Phase(q)] EXCEPT ![o] = "returned"]
  <2>1. Phase(o)' = "returned"
    BY <1>1 DEF Moves, Phase
  <2> QED
    BY <1>0, <1>1, <2>1, OthersLookTheSame DEF Labels
<1>12. \A q \in Ops \ {o} : Outcome(q)' = Outcome(q)
  BY <1>0, <1>1, OthersLookTheSame DEF Labels
<1> DEFINE before == [q \in Ops |-> Outcome(q)]
<1>13. before[o] = Promise!Answer("read", {f}, p, None)
  BY <1>9 DEF Decided, Promise!Answer
<1>14. PICK answer \in {Promise!Answer("read", {f}, before[o].by, before[o].by)}
                        \cup IF f \in Described THEN {}
                             ELSE {before[o], Promise!Answer("failed", {}, None, None)} :
          Outcome(o)' = answer
  BY <1>9, <1>10, <1>13 DEF Decided, Promise!Answer
<1>15. [q \in Ops |-> Outcome(q)]' = [before EXCEPT ![o] = answer]
  BY <1>12, <1>14
<1>16. before[o].kind = "read" /\ before[o].files = {f}
  BY <1>13 DEF Promise!Answer
<1>17. Promise!Describe(o, f)
  BY <1>1, <1>3, <1>7, <1>11, <1>14, <1>15, <1>16 DEF Promise!Describe
<1> QED
  BY <1>17 DEF Shows, Promise!Next

LEMMA OpenShows ==
  ASSUME IInv, TypeOK', NEW o \in Ops,
         OpenFile(o) \/ OpenLookup(o) \/ \E f \in FileIds : OpenStart(o, f)
  PROVE  Shows
<1>0. TypeOK
  BY DEF IInv
<1>1. ASSUME NEW f \in FileIds, OpenStart(o, f)
      PROVE  Shows
  <2>1. /\ \A q \in Ops \ {o} : call'[q] = call[q]
        /\ call'[o].kind = "open"
    BY <1>0, <1>1, BeginsCall DEF OpenStart, Kinds
  <2> QED
    BY <1>1, <2>1, QuietStep DEF OpenStart, store, Phase
<1>2. CASE OpenFile(o)
  <2>1. PICK f \in FileIds :
          /\ pc[o] = "openfile" /\ Works(o, f)
          /\ IF OnDisk(f)
               THEN Goto(o, "lookup") /\ result' = [result EXCEPT ![o].content = disk[f]]
               ELSE Fail(o)
          /\ UNCHANGED <<owned, disk, metadata, closed, call>>
    BY <1>2 DEF OpenFile, store
  <2>2. call[o].kind = "open" /\ Phase(o) = "pending" /\ ~Succeeded(o)
    BY <2>1 DEF IInv, LabelsFit, Phase, Succeeded
  <2>3. CASE ~OnDisk(f)
    BY <2>1, <2>2, <2>3, QuietStep
  <2>4. CASE OnDisk(f)
    <3>1. Moves(o, "lookup")
      BY <1>0, <2>1, <2>4, Moved DEF TypeOK, Labels
    <3>2. /\ disk[f].whole /\ disk[f].by \in Ops
          /\ SavedFiles[f] = disk[f].by /\ SavedFiles[f] /= None
      BY <2>1, <2>2, <2>4, KnownFileIsSaved DEF OnDisk
    <3>3. result'[o].content = disk[f]
      BY <1>0, <2>1, <2>4 DEF TypeOK
    <3>4. SavedFiles' = SavedFiles
      BY <2>1, <2>2, <3>1, FilesStay DEF Labels
    <3>5. Phase(o)' = "decided" /\ Outcome(o)' = Decided("read", {f}, SavedFiles[f], None)
      BY <2>1, <2>2, <3>1, <3>2, <3>3 DEF Moves, Phase, Outcome, Works
    <3>6. Promise!Decide(o, "decided", "read", {f}, SavedFiles[f])
      BY <1>0, <2>2, <3>1, <3>5, DecideShows DEF Labels
    <3> QED
      BY <2>1, <3>2, <3>4, <3>6 DEF Shows, Promise!Next, Promise!Open, Described
  <2> QED
    BY <2>3, <2>4
<1>3. CASE OpenLookup(o)
  BY <1>3, LookupShows
<1> QED
  BY <1>1, <1>2, <1>3

\* The os.Remove of Delete is the abstract Delete.
LEMMA DeleteShows ==
  ASSUME IInv, TypeOK', NEW o \in Ops,
         DeleteRemove(o) \/ DeleteForget(o) \/ \E f \in FileIds : DeleteStart(o, f)
  PROVE  Shows
<1>0. TypeOK
  BY DEF IInv
<1>1. ASSUME NEW f \in FileIds, DeleteStart(o, f)
      PROVE  Shows
  <2>1. /\ \A q \in Ops \ {o} : call'[q] = call[q]
        /\ call'[o].kind = "delete"
    BY <1>0, <1>1, BeginsCall DEF DeleteStart, Kinds
  <2> QED
    BY <1>1, <2>1, QuietStep DEF DeleteStart, store, Phase
<1>2. CASE DeleteRemove(o)
  <2>1. PICK f \in FileIds :
          /\ pc[o] = "remove" /\ Works(o, f)
          /\ IF OnDisk(f)
               THEN Remove(f) /\ Goto(o, "forget") /\ UNCHANGED result
               ELSE Fail(o) /\ UNCHANGED disk
          /\ UNCHANGED <<owned, metadata, closed, call>>
    BY <1>2 DEF DeleteRemove
  <2>2. call[o].kind = "delete" /\ Phase(o) = "pending" /\ ~Succeeded(o)
    BY <2>1 DEF IInv, LabelsFit, Phase, Succeeded
  <2>3. CASE ~OnDisk(f)
    BY <2>1, <2>2, <2>3, QuietStep
  <2>4. CASE OnDisk(f)
    <3>1. Moves(o, "forget")
      BY <1>0, <2>1, <2>4, MovedOnly DEF Labels
    <3>2. SavedFiles[f] /= None
      BY <2>1, <2>2, <2>4, KnownFileIsSaved DEF OnDisk
    <3>3. \A q \in Ops : Succeeded(q)' <=> Succeeded(q)
      BY <2>2, <3>1 DEF Moves, Succeeded
    <3>4. SavedFiles' = [SavedFiles EXCEPT ![f] = None]
      <4>1. \A g \in FileIds :
              disk'[g].by = IF g = f THEN None ELSE disk[g].by
        BY <1>0, <2>1, <2>4 DEF Remove, Absent, TypeOK
      <4>2. \A g \in FileIds :
              SavedFiles'[g] = IF g = f THEN None ELSE SavedFiles[g]
        BY <3>3, <4>1 DEF SavedFiles
      <4> QED
        BY <4>2 DEF SavedFiles
    <3>5. Phase(o)' = "decided" /\ Outcome(o)' = Decided("deleted", {f}, None, None)
      BY <2>1, <2>2, <3>1 DEF Moves, Phase, Outcome, Works
    <3>6. Promise!Decide(o, "decided", "deleted", {f}, None)
      BY <1>0, <2>2, <3>1, <3>5, DecideShows DEF Labels
    <3>7. Described' = Described \ {f}
      BY <2>1, <3>4 DEF Described, SavedFiles
    <3> QED
      BY <2>1, <3>2, <3>4, <3>6, <3>7 DEF Shows, Promise!Next, Promise!Delete
  <2> QED
    BY <2>3, <2>4
<1>3. CASE DeleteForget(o)
  <2>1. PICK f \in FileIds :
          /\ pc[o] = "forget" /\ Works(o, f) /\ Return(o, TRUE)
          /\ metadata' = [metadata EXCEPT ![f] = None]
          /\ UNCHANGED <<owned, disk, closed, call>>
    BY <1>3 DEF DeleteForget
  <2>2. Moves(o, "done") /\ result'[o].ok
    BY <1>0, <2>1, Returned
  <2>3. call[o].kind = "delete" /\ Phase(o) = "decided"
    BY <2>1 DEF IInv, LabelsFit, Phase
  <2>4. SavedFiles' = SavedFiles
    BY <2>1, <2>2, <2>3, FilesStay DEF Labels
  <2>5. Outcome(o)' = Outcome(o) /\ Outcome(o).kind /= "read"
    BY <2>1, <2>2, <2>3 DEF Moves, Outcome, Decided
  <2>6. Described' = Described
    <3>1. SavedFiles[f] = None
      BY <2>1 DEF IInv, Files, RemovedIsGone, SavedFiles, Absent
    <3> QED
      BY <1>0, <2>1, <2>4, <3>1 DEF Described, TypeOK
  <2> QED
    BY <1>0, <2>1, <2>2, <2>3, <2>4, <2>5, <2>6, ReturnShows DEF Shows, Promise!Next
<1> QED
  BY <1>1, <1>2, <1>3

LEMMA CloseShows ==
  ASSUME IInv, TypeOK', NEW o \in Ops, CloseStart(o) \/ CloseClear(o) \/ CloseRmdir(o)
  PROVE  Shows
<1>0. TypeOK
  BY DEF IInv
<1>1. CASE CloseStart(o)
  <2>1. /\ \A q \in Ops \ {o} : call'[q] = call[q]
        /\ call'[o].kind = "close"
    BY <1>0, <1>1, BeginsCall DEF CloseStart, Kinds
  <2>2. /\ pc[o] = "idle" /\ closed' = TRUE /\ UNCHANGED <<owned, disk, metadata>>
        /\ call[o].kind = "none"
    BY <1>1 DEF CloseStart, IInv, LabelsFit
  <2>3. IF closed \/ ~owned THEN Moves(o, "done") ELSE Moves(o, "clear")
    BY <1>0, <1>1, <2>1, Moved, Returned DEF CloseStart, Labels
  <2>4. SavedFiles' = SavedFiles
    BY <2>2, <2>3, FilesStay DEF Labels
  <2>5. /\ Phase(o) = "pending"
        /\ Phase(o)' = IF ~closed /\ owned THEN "decided" ELSE "returned"
        /\ Outcome(o)' = Decided("closed", {}, None, None)
    BY <2>1, <2>2, <2>3 DEF Moves, Phase, Outcome
  <2>6. Promise!Decide(o, IF ~closed /\ owned THEN "decided" ELSE "returned", "closed", {}, None)
    BY <1>0, <2>3, <2>5, DecideShows DEF Labels
  <2> QED
    BY <2>2, <2>4, <2>6 DEF Shows, Promise!Next, Promise!Close, Described
<1>2. CASE CloseClear(o)
  <2>1. /\ pc[o] = "clear" /\ call[o].kind = "close" /\ owned /\ closed
        /\ Moves(o, "rmdir") /\ disk' = [f \in FileIds |-> Absent]
        /\ UNCHANGED <<owned, closed, call>>
    BY <1>0, <1>2, MovedOnly DEF CloseClear, IInv, LabelsFit, Labels
  <2>2. SavedFiles' = [f \in FileIds |-> None] /\ DOMAIN SavedFiles = FileIds
    BY <2>1 DEF SavedFiles, Absent
  <2>3. Phase(o)' = Phase(o) /\ Outcome(o)' = Outcome(o)
    BY <2>1 DEF Moves, Phase, Outcome
  <2>4. /\ [q \in Ops |-> Phase(q)]' = [q \in Ops |-> Phase(q)]
        /\ [q \in Ops |-> Outcome(q)]' = [q \in Ops |-> Outcome(q)]
    BY <1>0, <2>1, <2>3, OthersLookTheSame DEF Labels
  <2> QED
    BY <2>1, <2>2, <2>4 DEF Shows, Promise!Next, Promise!Clear, Described
<1>3. CASE CloseRmdir(o)
  <2>1. /\ pc[o] = "rmdir" /\ call[o].kind = "close" /\ Phase(o) = "decided"
        /\ UNCHANGED <<owned, disk, metadata, closed, call>>
        /\ Fail(o) \/ Return(o, TRUE)
    BY <1>3 DEF CloseRmdir, IInv, LabelsFit, Phase
  <2>2. Moves(o, "done")
    BY <1>0, <2>1, Returned DEF Fail
  <2>3. SavedFiles' = SavedFiles
    BY <2>1, <2>2, FilesStay DEF Labels
  <2>4. Outcome(o)' = Outcome(o) /\ Outcome(o).kind /= "read"
    BY <2>1, <2>2 DEF Moves, Outcome, Decided
  <2>5. Described' = Described
    BY <2>1, <2>3 DEF Described
  <2> QED
    BY <1>0, <2>1, <2>2, <2>3, <2>4, <2>5, ReturnShows DEF Shows, Promise!Next
<1> QED
  BY <1>1, <1>2, <1>3

LEMMA CrashShows ==
  ASSUME IInv, CrashAndRestart
  PROVE  Shows
<1> DEFINE lost == {o \in Ops : pc[o] \notin {"idle", "done", "dead"}}
<1>1. /\ ~owned /\ UNCHANGED <<owned, disk, call, result>> /\ closed' = FALSE
      /\ pc' = [o \in Ops |-> IF pc[o] \in {"idle", "done"} THEN pc[o] ELSE "dead"]
  BY DEF CrashAndRestart
<1>2. \A o \in Ops : /\ Phase(o)' = IF o \in lost THEN "lost" ELSE Phase(o)
                     /\ Outcome(o)' = IF o \in lost THEN Promise!Undecided ELSE Outcome(o)
  BY <1>1 DEF Phase, Outcome, Decided, Promise!Undecided, Promise!Answer
<1>3. lost \in SUBSET {o \in Ops : [q \in Ops |-> Phase(q)][o] \in {"pending", "decided"}}
  BY DEF Phase
<1>4. \A o \in Ops : Succeeded(o)' <=> Succeeded(o)
  BY <1>1 DEF Succeeded
<1>5. SavedFiles' = SavedFiles /\ Described' = {}
  <2>1. SavedFiles' = SavedFiles
    BY <1>1, <1>4 DEF SavedFiles
  <2> QED
    BY <2>1 DEF CrashAndRestart, Described
<1>6. /\ [o \in Ops |-> Phase(o)]' =
           [o \in Ops |-> IF o \in lost THEN "lost" ELSE [q \in Ops |-> Phase(q)][o]]
      /\ [o \in Ops |-> Outcome(o)]' =
           [o \in Ops |-> IF o \in lost THEN Promise!Undecided
                                        ELSE [q \in Ops |-> Outcome(q)][o]]
  BY <1>2
<1>7. Promise!Restart
  BY <1>1, <1>3, <1>5, <1>6 DEF Promise!Restart
<1> QED
  BY <1>7 DEF Shows, Promise!Next

LEMMA StartShows == Init => Promise!Init
<1> SUFFICES ASSUME Init PROVE Promise!Init
  OBVIOUS
<1>1. SavedFiles = [f \in FileIds |-> None] /\ Described = {}
  BY DEF Init, SavedFiles, Absent, Described
<1>2. \A o \in Ops : Phase(o) = "pending" /\ Outcome(o) = Promise!Undecided
  BY DEF Init, Phase, Outcome, Decided, Promise!Undecided, Promise!Answer
<1> QED
  BY <1>1, <1>2 DEF Init, Promise!Init

LEMMA StepShows == IInv /\ [Next]_vars => Shows
<1> SUFFICES ASSUME IInv, [Next]_vars PROVE Shows
  OBVIOUS
<1>0. TypeOK'
  BY NextInv DEF IInv
<1>1. CASE UNCHANGED vars \/ Terminated
  BY <1>1 DEF Terminated, vars, store, Shows, Promise!vars, SavedFiles, Described, Succeeded,
     Phase, Outcome
<1>2. CASE CrashAndRestart
  BY <1>2, CrashShows
<1>3. ASSUME NEW o \in Ops,
             \/ SaveStart(o) \/ SaveCollides(o) \/ SaveCreate(o) \/ SaveCreateFails(o)
             \/ SaveCopy(o) \/ SaveCopyFails(o) \/ SaveRegister(o) \/ SaveUndo(o)
      PROVE  Shows
  BY <1>0, <1>3, SaveShows, SaveCreateShows, SaveCopyShows, SaveRegisterShows,
     SaveUndoShows
<1>4. ASSUME NEW o \in Ops,
             \/ OpenFile(o) \/ OpenLookup(o) \/ DeleteRemove(o) \/ DeleteForget(o)
             \/ CloseStart(o) \/ CloseClear(o) \/ CloseRmdir(o)
             \/ \E f \in FileIds : OpenStart(o, f) \/ DeleteStart(o, f)
      PROVE  Shows
  BY <1>0, <1>4, OpenShows, DeleteShows, CloseShows
<1> QED
  BY <1>1, <1>2, <1>3, <1>4 DEF Next

\* The store implements FileStore, the atomic one: Save takes effect when it
\* registers its file, Open and Delete when they open and remove theirs, what
\* fails, comes late or is cut short by a crash leaves no trace, and Open
\* returns the metadata of the Save its bytes are from unless the file has
\* gone meanwhile or the process has restarted since.
THEOREM StoreIsAtomic == Spec => ImplementsFileStore
<1>1. Init => Promise!Init
  BY StartShows
<1>2. IInv /\ [Next]_vars => [Promise!Next]_(Promise!vars)
  BY StepShows DEF Shows
<1> QED
  BY <1>1, <1>2, Invariance, PTL DEF Spec, ImplementsFileStore, Promise!Spec

=============================================================================
