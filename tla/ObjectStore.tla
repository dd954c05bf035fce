------------------------------ MODULE ObjectStore ------------------------------
(***************************************************************************)
(* What packages/storage promises of one key, whatever the adapter: the    *)
(* object is always the whole stream of one writer, of the content its     *)
(* writer vouched for, and a conditional write takes effect only where     *)
(* there is none.  The in-process adapter (memory.ts) is this              *)
(* specification; StreamedObjects, the S3 adapter, implements it.          *)
(***************************************************************************)
CONSTANTS Writer, Nobody

VARIABLES
  object,    \* whose object holds the key, if anyone's
  ifAbsent,  \* the writers that write only where there is no object
  genuine    \* the writers whose content has the digest they declared, or that declared none

storeVars == <<object, ifAbsent, genuine>>

Init ==
  /\ object = Nobody
  /\ ifAbsent \in SUBSET Writer
  /\ genuine \in SUBSET Writer

\* put and putIfAbsent, streamed or not.
Put(w) ==
  /\ w \in genuine
  /\ w \in ifAbsent => object = Nobody
  /\ object' = w
  /\ UNCHANGED <<ifAbsent, genuine>>

Delete == object' = Nobody /\ UNCHANGED <<ifAbsent, genuine>>

Next == Delete \/ \E w \in Writer : Put(w)

Spec == Init /\ [][Next]_storeVars
=============================================================================
