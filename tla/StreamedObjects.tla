---------------------------- MODULE StreamedObjects ----------------------------
(***************************************************************************)
(* The streamed calls of the S3 adapter (packages/storage/src/s3.ts) on    *)
(* one key: putStream and putStreamIfAbsent, one part at a time, getStream *)
(* and the pool of sockets that bounds them all.                           *)
(*                                                                         *)
(* S3 is outside: it refuses a conditional write where an object is, and   *)
(* publishes an upload in one step.  Its answer may be lost, whether or    *)
(* not it did what it was asked; the SDK then asks again, a few times, and *)
(* gives up.  A part's bytes are left out: that it was read and sent in    *)
(* its turn is what matters.                                               *)
(***************************************************************************)
EXTENDS Naturals, FiniteSets

CONSTANTS
  Writer, Reader,   \* one call each
  Nobody,
  MaxSockets        \* STORAGE_S3_STREAM_MAX_SOCKETS

VARIABLES
  object,            \* what the key holds in S3
  upload,            \* each writer's multipart upload in S3: none, open, completed or aborted
  ifAbsent, genuine, \* as in ObjectStore
  at,                \* where a writer's call is
  ended,             \* it has read its stream to the end
  source,            \* its stream: untouched, locked by a reader, cancelled or let go
  answer,            \* what it answers, from when that is known
  wrote, unheard,    \* history: it published the object; an answer of S3 was lost
  body,              \* where a reader's call is, with the body that S3 sends
  held               \* slots: held

calls == <<at, ended, source, answer, wrote, unheard>>
streamVars == <<object, upload, ifAbsent, genuine, calls, body, held>>

\* What has been sent by now is what an upload that completes makes of the object.
SentBy(w) == [by |-> w, whole |-> ended[w]]
None == [by |-> Nobody, whole |-> TRUE]

Init ==
  /\ object = None /\ upload = [w \in Writer |-> "none"]
  /\ ifAbsent \in SUBSET Writer /\ genuine \in SUBSET Writer
  /\ at = [w \in Writer |-> "none"]
  /\ ended = [w \in Writer |-> FALSE]
  /\ source = [w \in Writer |-> "untouched"] /\ answer = [w \in Writer |-> "none"]
  /\ wrote = [w \in Writer |-> FALSE] /\ unheard = [w \in Writer |-> FALSE]
  /\ body = [r \in Reader |-> "none"]
  /\ held = 0

Goto(w, step) == at' = [at EXCEPT ![w] = step]
Heard == UNCHANGED unheard
Lost(w) == unheard' = [unheard EXCEPT ![w] = TRUE]

-----------------------------------------------------------------------------
(* A streamed write.                                                        *)

\* The call is over: its stream is let go, or cancelled over a failure, and its slot released.
Settle(w, how) ==
  /\ Goto(w, "settled")
  /\ answer' = [answer EXCEPT ![w] = how]
  /\ source' = [source EXCEPT ![w] = IF how = "ok" THEN "released" ELSE "cancelled"]
  /\ held' = held - 1

\* Wrong: an upload that fails is left as it is.
FailLeavingParts(w, how) == Settle(w, how) /\ UNCHANGED upload

\* A failure: an upload that was begun is aborted before the call answers.
Fail(w, how) ==
  IF at[w] \in {"sending", "reading", "completing"}
  THEN /\ Goto(w, "aborting")
       /\ answer' = [answer EXCEPT ![w] = how]
       /\ UNCHANGED <<upload, source, held>>
  ELSE Settle(w, how) /\ UNCHANGED upload

\* putStream and putStreamIfAbsent: a slot, or StreamPoolFull at once; then the stream's reader,
\* unless somebody else has it.
Put(w) ==
  /\ at[w] = "none"
  /\ IF held = MaxSockets
     THEN /\ Goto(w, "settled")
          /\ answer' = [answer EXCEPT ![w] = "full"]
          /\ source' = [source EXCEPT ![w] = "cancelled"]
          /\ UNCHANGED held
     ELSE /\ held' = held + 1 /\ UNCHANGED answer
          /\ \/ Goto(w, "first") /\ source' = [source EXCEPT ![w] = "locked"]
             \/ Goto(w, "lockedOut") /\ UNCHANGED source
  /\ UNCHANGED <<object, upload, ifAbsent, genuine, ended, wrote, unheard, body>>

\* The stream is left to whoever reads it.
LockedOut(w) ==
  /\ at[w] = "lockedOut"
  /\ Goto(w, "settled")
  /\ answer' = [answer EXCEPT ![w] = "interrupted"]
  /\ held' = held - 1
  /\ UNCHANGED <<object, upload, ifAbsent, genuine, ended, source, wrote, unheard, body>>

\* readPart fails with the stream; before the first part, the options may be refused.
Interrupted(w) ==
  /\ \/ at[w] = "first" /\ \E how \in {"invalid", "interrupted"} : Fail(w, how)
     \/ at[w] = "reading" /\ Fail(w, "interrupted")
  /\ UNCHANGED <<object, ifAbsent, genuine, ended, wrote, unheard, body>>

\* Wrong: the digest of a stream of one part is not asked for.
VerifiedMultipart(w) == w \in genuine \/ at[w] = "first"

\* The digest, of exactly the bytes that were read.
Verified(w) == w \in genuine

\* readPart: the whole of a short stream is one PutObject, once its digest is verified; the
\* first part of a longer one begins an upload.
ReadFirst(w) ==
  /\ at[w] = "first"
  /\ \/ /\ ended' = [ended EXCEPT ![w] = TRUE]
        /\ IF Verified(w) THEN Goto(w, "putting") /\ UNCHANGED <<answer, source, held>>
                          ELSE Settle(w, "mismatch")
     \/ /\ UNCHANGED <<ended, answer, source, held>>
        /\ Goto(w, "creating")
  /\ UNCHANGED <<object, upload, ifAbsent, genuine, wrote, unheard, body>>

\* S3 refuses a request, or takes it and is not heard, as often as the SDK asks.
RefusedOrGivenUp(w, how) ==
  /\ at[w] \in {"creating", "sending", "putting", "completing"}
  /\ Fail(w, how)
  /\ UNCHANGED <<object, ifAbsent, genuine, ended, wrote, unheard, body>>

\* CreateMultipartUpload.  Unheard, it is asked again for another upload: the one it made is
\* nobody's.
Create(w, heard) ==
  /\ at[w] = "creating"
  /\ upload' = [upload EXCEPT ![w] = "open"]
  /\ IF heard THEN Goto(w, "sending") /\ Heard ELSE Lost(w) /\ UNCHANGED at
  /\ UNCHANGED <<object, ifAbsent, genuine, ended, source, answer, wrote, body, held>>

\* UploadPart, of the part last read: then the next is read, or the digest is verified.
Sent(w) ==
  /\ at[w] = "sending"
  /\ IF ~ended[w] THEN Goto(w, "reading") /\ UNCHANGED <<upload, answer, source, held>>
     ELSE IF Verified(w) THEN Goto(w, "completing") /\ UNCHANGED <<upload, answer, source, held>>
     ELSE Fail(w, "mismatch")
  /\ UNCHANGED <<object, ifAbsent, genuine, ended, wrote, unheard, body>>

Read(w, last) ==
  /\ at[w] = "reading"
  /\ ended' = [ended EXCEPT ![w] = last]
  /\ Goto(w, "sending")
  /\ UNCHANGED <<object, upload, ifAbsent, genuine, source, answer, wrote, unheard, body, held>>

\* Wrong: the upload is begun under the condition, and completed without it.
RefusesCreated(w) == at[w] = "putting" /\ w \in ifAbsent /\ object # None

\* If-None-Match on the request that publishes the object: of a PutObject, or of
\* CompleteMultipartUpload.
Refuses(w) == w \in ifAbsent /\ object # None

Publishing(w) == at[w] = "putting" \/ (at[w] = "completing" /\ upload[w] = "open")

\* S3 publishes the object: it is heard, or asked to do it again.
Publish(w, heard) ==
  /\ Publishing(w) /\ ~Refuses(w)
  /\ object' = SentBy(w)
  /\ wrote' = [wrote EXCEPT ![w] = TRUE]
  /\ upload' = [upload EXCEPT ![w] = IF @ = "open" THEN "completed" ELSE @]
  /\ IF heard THEN Settle(w, "ok") /\ Heard ELSE Lost(w) /\ UNCHANGED <<at, answer, source, held>>
  /\ UNCHANGED <<ifAbsent, genuine, ended, body>>

\* S3 answers a repeated completion of an upload that is completed as it did the first.
PublishedAlready(w) ==
  /\ at[w] = "completing" /\ upload[w] = "completed"
  /\ Settle(w, "ok")
  /\ UNCHANGED <<object, upload, ifAbsent, genuine, ended, wrote, unheard, body>>

\* HTTP 412: ObjectExists, also of what an earlier attempt of this very call published.
PublishRefused(w) ==
  /\ Publishing(w) /\ Refuses(w)
  /\ Fail(w, "exists")
  /\ UNCHANGED <<object, ifAbsent, genuine, ended, wrote, unheard, body>>

\* AbortMultipartUpload settles, done or not; what it came to changes nothing.
Aborted(w, done) ==
  /\ at[w] = "aborting"
  /\ IF done \/ upload[w] = "completed" THEN Heard ELSE Lost(w)
  /\ upload' = [upload EXCEPT ![w] = IF done /\ @ = "open" THEN "aborted" ELSE @]
  /\ Settle(w, answer[w])
  /\ UNCHANGED <<object, ifAbsent, genuine, ended, wrote, body>>

-----------------------------------------------------------------------------
(* A streamed read.                                                         *)

Become(r, state) == body' = [body EXCEPT ![r] = state]
writes == <<object, upload, ifAbsent, genuine, calls>>

GetStream(r) ==
  /\ body[r] = "none"
  /\ IF held = MaxSockets THEN Become(r, "over") /\ UNCHANGED held
                          ELSE Become(r, "asked") /\ held' = held + 1
  /\ UNCHANGED writes

\* There is no object, or no answer.
NotFound(r) ==
  /\ body[r] = "asked"
  /\ Become(r, "over") /\ held' = held - 1
  /\ UNCHANGED writes

\* The head is in, and the body follows; it may break off before anyone looks.
Arrives(r) == body[r] = "asked" /\ Become(r, "arrived") /\ UNCHANGED <<writes, held>>
BreaksOff(r) == body[r] = "arrived" /\ Become(r, "broken") /\ UNCHANGED <<writes, held>>

\* Wrong: only the close of the body releases the slot, and that may have been.
AnsweredListening(r) ==
  /\ body[r] \in {"arrived", "broken"}
  /\ Become(r, IF body[r] = "arrived" THEN "streaming" ELSE "over")
  /\ UNCHANGED <<writes, held>>

\* The continuation: a body that is destroyed already will not close again.
Answered(r) ==
  /\ body[r] \in {"arrived", "broken"}
  /\ IF body[r] = "arrived" THEN Become(r, "streaming") /\ UNCHANGED held
                            ELSE Become(r, "over") /\ held' = held - 1
  /\ UNCHANGED writes

\* Read to its end, cancelled or broken off.
Closes(r) ==
  /\ body[r] = "streaming"
  /\ Become(r, "over") /\ held' = held - 1
  /\ UNCHANGED writes

\* delete, of any adapter and anybody.
Delete == object' = None /\ UNCHANGED <<upload, ifAbsent, genuine, calls, body, held>>

-----------------------------------------------------------------------------

Next ==
  \/ Delete
  \/ \E w \in Writer :
       \/ Put(w) \/ LockedOut(w) \/ Interrupted(w) \/ ReadFirst(w)
       \/ \E how \in {"unavailable", "mismatch"} : RefusedOrGivenUp(w, how)
       \/ \E heard \in BOOLEAN : Create(w, heard) \/ Publish(w, heard)
       \/ Sent(w) \/ \E last \in BOOLEAN : Read(w, last)
       \/ PublishedAlready(w) \/ PublishRefused(w)
       \/ \E done \in BOOLEAN : Aborted(w, done)
  \/ \E r \in Reader :
       GetStream(r) \/ NotFound(r) \/ Arrives(r) \/ BreaksOff(r) \/ Answered(r) \/ Closes(r)

Spec == Init /\ [][Next]_streamVars

-----------------------------------------------------------------------------
(* Properties.                                                              *)

TypeOK ==
  /\ object \in [by : Writer \cup {Nobody}, whole : BOOLEAN]
  /\ upload \in [Writer -> {"none", "open", "completed", "aborted"}]
  /\ held \in 0..MaxSockets

\* An upload in parts, refused, interrupted, unheard and asked again beside others, shows as
\* the store of ObjectStore does: no partial object is ever seen, nor one that is not what its
\* writer declared, and no conditional write replaces an object.
Store == INSTANCE ObjectStore WITH
  object <- IF object.whole THEN object.by ELSE "partial"
StoresWholeObjects == Store!Spec

\* What a call answers tells what became of the object, and nothing of the call is left: its
\* stream is cancelled over a failure, and its upload is over.  Only an answer of S3 that was
\* lost can leave a call that wrote told otherwise, or an upload open.
AnswersTellTheStore ==
  \A w \in Writer : at[w] = "settled" =>
    /\ answer[w] = "ok" => wrote[w]
    /\ wrote[w] /\ ~unheard[w] => answer[w] = "ok"
    /\ upload[w] = "open" => unheard[w]
    /\ answer[w] = "ok" <=> source[w] = "released"
    /\ source[w] # "locked"

\* Each streamed call holds one socket's slot, from its start until it has settled or its body
\* has closed, and however it ends the slot is back: the pool never drains away.
SlotsAreCallsUnderWay ==
  held = Cardinality({w \in Writer : at[w] \notin {"none", "settled"}})
         + Cardinality({r \in Reader : body[r] \in {"asked", "arrived", "broken", "streaming"}})

\* A streamed call that is over is over in S3, in the pool and for its caller alike.
StreamsSettle == AnswersTellTheStore /\ SlotsAreCallsUnderWay
=============================================================================
