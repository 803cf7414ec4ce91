---------------------------- MODULE ResumableUpload ----------------------------
(***************************************************************************)
(* What a TUS upload is to everybody outside the handler: it receives its  *)
(* bytes, and once it has as many as it declared it is handed over, once,  *)
(* to the store or to nobody.  Whoever is given a file id for it is given  *)
(* the id of that file.                                                    *)
(*                                                                         *)
(* TusHandler implements this module; its goroutines, tables and staging   *)
(* files are invisible here.                                               *)
(***************************************************************************)
EXTENDS Naturals

CONSTANTS
  Uploads,  \* upload ids
  FileIds,  \* the ids of the store
  None      \* no upload

VARIABLES
  life,    \* absent, receiving, finishing, then done or gone for good
  length,  \* what each upload declared
  offset,  \* how much of it has been received
  origin,  \* the upload each stored file is from, or None
  told     \* the pairs of an upload and a file id that clients were given

vars == <<life, length, offset, origin, told>>

Init ==
  /\ life = [u \in Uploads |-> "absent"]
  /\ length = [u \in Uploads |-> 0]
  /\ offset = [u \in Uploads |-> 0]
  /\ origin = [f \in FileIds |-> None]
  /\ told = {}

Create(u) ==
  /\ life[u] = "absent"
  /\ life' = [life EXCEPT ![u] = "receiving"]
  /\ length' = [length EXCEPT ![u] = length'[u]]
  /\ UNCHANGED <<offset, origin, told>>

\* Only an upload that is receiving has an offset, and it never goes back.
Receive(u) ==
  /\ life[u] = "receiving"
  /\ offset'[u] >= offset[u]
  /\ offset' = [offset EXCEPT ![u] = offset'[u]]
  /\ UNCHANGED <<life, length, origin, told>>

\* Aborted by the client, by a wrong creation, or by Close, which drops all.
Drop(dropped) ==
  /\ \A u \in dropped : life[u] = "receiving"
  /\ life' = [u \in Uploads |-> IF u \in dropped THEN "gone" ELSE life[u]]
  /\ offset' = [u \in Uploads |-> IF u \in dropped THEN 0 ELSE offset[u]]
  /\ UNCHANGED <<length, origin, told>>

Finish(u) ==
  /\ life[u] = "receiving" /\ offset[u] = length[u]
  /\ life' = [life EXCEPT ![u] = "finishing"]
  /\ offset' = [offset EXCEPT ![u] = 0]
  /\ UNCHANGED <<length, origin, told>>

\* The store takes the upload under an id no other file has.
Complete(u, f) ==
  /\ life[u] = "finishing" /\ origin[f] = None
  /\ life' = [life EXCEPT ![u] = "done"]
  /\ origin' = [origin EXCEPT ![f] = u]
  /\ UNCHANGED <<length, offset, told>>

\* Handing over failed: the upload is not offered again.
Fail(u) ==
  /\ life[u] = "finishing"
  /\ life' = [life EXCEPT ![u] = "gone"]
  /\ UNCHANGED <<length, offset, origin, told>>

Tell(u, f) ==
  /\ origin[f] = u
  /\ told' = told \cup {<<u, f>>}
  /\ UNCHANGED <<life, length, offset, origin>>

Next ==
  \/ \E u \in Uploads : Create(u) \/ Receive(u) \/ Finish(u) \/ Fail(u)
  \/ \E dropped \in SUBSET Uploads : Drop(dropped)
  \/ \E u \in Uploads, f \in FileIds : Complete(u, f) \/ Tell(u, f)

Spec == Init /\ [][Next]_vars

=============================================================================
