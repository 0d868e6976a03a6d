--------------------------- MODULE AtomicDocument ---------------------------
(***************************************************************************)
(* What a FileDb promises to the sessions that edit a JSON document: the   *)
(* document is one value, a session reads the whole of the last committed  *)
(* version, and a commit replaces exactly the version its session read.    *)
(* Versions are numbered; version 0 means that no document exists yet.     *)
(***************************************************************************)
EXTENDS Naturals

CONSTANT Session

VARIABLES
    doc,    \* the number of the committed version, 0 before the first one
    view    \* view[s]: the version session s has read, 0 when it has read none

docVars == <<doc, view>>

Init ==
    /\ doc \in {0, 1}
    /\ view = [s \in Session |-> 0]

\* A session reads the committed version.
Read(s) ==
    /\ view[s] = 0
    /\ doc > 0
    /\ view' = [view EXCEPT ![s] = doc]
    /\ UNCHANGED doc

\* A session replaces the version it has read, and no other.
Update(s) ==
    /\ doc > 0
    /\ view[s] = doc
    /\ doc' = doc + 1
    /\ UNCHANGED view

\* The first version is written only where there is none.
Create(s) ==
    /\ doc = 0
    /\ doc' = 1
    /\ UNCHANGED view

\* A session ends (normally, with an error, or by the death of its process).
Finish(s) ==
    /\ view[s] > 0
    /\ view' = [view EXCEPT ![s] = 0]
    /\ UNCHANGED doc

Next == \E s \in Session : Read(s) \/ Update(s) \/ Create(s) \/ Finish(s)

Spec == Init /\ [][Next]_docVars

=============================================================================
