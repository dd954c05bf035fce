----------------------------- MODULE EnvelopeKeys -----------------------------
(***************************************************************************)
(* Root keys per owner over a key-management service                       *)
(* (packages/keys/src/kms.ts, kmsEnvelopeKeys): each process unwraps a     *)
(* generation with one request, keeps it for a time, and erasing an owner  *)
(* deletes its KMS key and forgets what this process keeps of it.          *)
(*                                                                         *)
(* A request takes time to reach KMS and its answer to come back, and      *)
(* either may be lost; several processes share one KMS and nothing else.   *)
(***************************************************************************)
EXTENDS Naturals

CONSTANTS
  Process,
  Owner,
  Generation,
  OwnerOf,      \* whose key wraps each generation
  Ttl,          \* cacheTtlMs
  None,
  MaxTime       \* bound: the clock

ASSUME KeysAssumption ==
  /\ OwnerOf \in [Generation -> Owner]
  /\ Ttl \in Nat /\ MaxTime \in Nat /\ None \notin Nat

VARIABLES
  now,
  kmsKey,       \* each owner's KMS key: "none", "enabled" or "pending" deletion
  deletedAt,    \* when its deletion was scheduled
  unwraps,      \* the request under way in each process for each generation
  cached,       \* the root keys each process keeps
  erasing,      \* where each process's erase() of each owner is
  erasedAt      \* when it last answered Ok

vars == <<now, kmsKey, deletedAt, unwraps, cached, erasing, erasedAt>>

\* An unwrap has been sent, KMS has decrypted it at some time, or KMS has refused it.
Unwrap == [stage : {"sent", "refused"}] \cup [stage : {"decrypted"}, at : Nat]
Kept == [decryptedAt : Nat, arrivedAt : Nat, expiresAt : Nat]

TypeOK ==
  /\ now \in Nat
  /\ kmsKey \in [Owner -> {"none", "enabled", "pending"}]
  /\ deletedAt \in [Owner -> Nat \cup {None}]
  /\ unwraps \in [Process \X Generation -> Unwrap \cup {None}]
  /\ cached \in [Process \X Generation -> Kept \cup {None}]
  /\ erasing \in [Process \X Owner -> {"idle", "describing", "scheduling", "done"}]
  /\ erasedAt \in [Process \X Owner -> Nat \cup {None}]

Init ==
  /\ now = 0
  /\ kmsKey \in [Owner -> {"none", "enabled"}]
  /\ deletedAt = [o \in Owner |-> None]
  /\ unwraps = [pg \in Process \X Generation |-> None]
  /\ cached = [pg \in Process \X Generation |-> None]
  /\ erasing = [po \in Process \X Owner |-> "idle"]
  /\ erasedAt = [po \in Process \X Owner |-> None]

-----------------------------------------------------------------------------
(* rootKey.                                                                 *)

Expired(kept) == kept.expiresAt <= now

\* Wrong: a key is served until something purges it.
HitUntilPurged(pg) == cached[pg] # None

\* Served from memory.
Hit(pg) == cached[pg] # None /\ ~Expired(cached[pg])

\* Not kept: join the unwrap under way, or send one.
RootKey(pg) ==
  /\ ~Hit(pg)
  /\ cached' = [cached EXCEPT ![pg] = None]
  /\ unwraps' = [unwraps EXCEPT ![pg] = IF @ = None THEN [stage |-> "sent"] ELSE @]
  /\ UNCHANGED <<now, kmsKey, deletedAt, erasing, erasedAt>>

\* KMS decrypts under an enabled key, and refuses under any other.
KmsDecrypts(pg) ==
  /\ unwraps[pg] = [stage |-> "sent"]
  /\ unwraps' = [unwraps EXCEPT ![pg] =
       IF kmsKey[OwnerOf[pg[2]]] = "enabled" THEN [stage |-> "decrypted", at |-> now]
                                             ELSE [stage |-> "refused"]]
  /\ UNCHANGED <<now, kmsKey, deletedAt, cached, erasing, erasedAt>>

\* The process drops what has expired, and keeps the key it got.
Keep(pg, decryptedAt) ==
  [other \in Process \X Generation |->
     IF other = pg
     THEN [decryptedAt |-> decryptedAt, arrivedAt |-> now, expiresAt |-> now + Ttl]
     ELSE IF other[1] = pg[1] /\ cached[other] # None /\ Expired(cached[other]) THEN None
     ELSE cached[other]]

Unwrapped(pg) ==
  /\ unwraps[pg] # None /\ unwraps[pg].stage = "decrypted"
  /\ unwraps' = [unwraps EXCEPT ![pg] = None]
  /\ cached' = Keep(pg, unwraps[pg].at)
  /\ UNCHANGED <<now, kmsKey, deletedAt, erasing, erasedAt>>

\* KMS refused, or could not be asked, or was not heard: nothing is kept.
UnwrapFails(pg) ==
  /\ unwraps[pg] # None
  /\ unwraps' = [unwraps EXCEPT ![pg] = None]
  /\ UNCHANGED <<now, kmsKey, deletedAt, cached, erasing, erasedAt>>

-----------------------------------------------------------------------------
(* erase.                                                                   *)

Erase(po) ==
  /\ erasing[po] = "idle"
  /\ erasing' = [erasing EXCEPT ![po] = "describing"]
  /\ UNCHANGED <<now, kmsKey, deletedAt, unwraps, cached, erasedAt>>

\* KMS resolves the alias; one it does not have leaves nothing to erase.
KmsDescribes(po) ==
  /\ erasing[po] = "describing"
  /\ erasing' = [erasing EXCEPT ![po] = IF kmsKey[po[2]] = "none" THEN "done" ELSE "scheduling"]
  /\ UNCHANGED <<now, kmsKey, deletedAt, unwraps, cached, erasedAt>>

\* KMS schedules the deletion; a key already pending is as good as deleted.
KmsSchedules(po) ==
  /\ erasing[po] = "scheduling"
  /\ erasing' = [erasing EXCEPT ![po] = "done"]
  /\ kmsKey' = [kmsKey EXCEPT ![po[2]] = "pending"]
  /\ deletedAt' = [deletedAt EXCEPT ![po[2]] = IF @ = None THEN now ELSE @]
  /\ UNCHANGED <<now, unwraps, cached, erasedAt>>

\* Wrong: keeps what it kept of the owner.
ForgottenNothing(po) == cached

\* What a process keeps once it has forgotten an owner.
Forgotten(po) ==
  [pg \in Process \X Generation |->
     IF pg[1] = po[1] /\ OwnerOf[pg[2]] = po[2] THEN None ELSE cached[pg]]

\* erase() answers Ok.
Erased(po) ==
  /\ erasing[po] = "done"
  /\ erasing' = [erasing EXCEPT ![po] = "idle"]
  /\ erasedAt' = [erasedAt EXCEPT ![po] = now]
  /\ cached' = Forgotten(po)
  /\ UNCHANGED <<now, kmsKey, deletedAt, unwraps>>

\* KMS could not be asked or was not heard, its deletion scheduled or not.
EraseFails(po) ==
  /\ erasing[po] # "idle"
  /\ erasing' = [erasing EXCEPT ![po] = "idle"]
  /\ UNCHANGED <<now, kmsKey, deletedAt, unwraps, cached, erasedAt>>

Tick ==
  /\ now < MaxTime
  /\ now' = now + 1
  /\ UNCHANGED <<kmsKey, deletedAt, unwraps, cached, erasing, erasedAt>>

Next ==
  \/ \E pg \in Process \X Generation :
       RootKey(pg) \/ KmsDecrypts(pg) \/ Unwrapped(pg) \/ UnwrapFails(pg)
  \/ \E po \in Process \X Owner :
       Erase(po) \/ KmsDescribes(po) \/ KmsSchedules(po) \/ Erased(po) \/ EraseFails(po)
  \/ Tick

Spec == Init /\ [][Next]_vars

-----------------------------------------------------------------------------

\* An erased owner is served from memory nowhere for longer than the TTL, but for what KMS
\* unwrapped before the deletion and answered after it: that too for no longer than the TTL.
TtlBoundsErasure ==
  \A pg \in Process \X Generation :
    LET erased == deletedAt[OwnerOf[pg[2]]]
        kept == cached[pg]
    IN  Hit(pg) /\ erased # None =>
          \/ now < erased + Ttl
          \/ kept.decryptedAt <= erased /\ erased < kept.arrivedAt /\ now < kept.arrivedAt + Ttl

\* What the process that erased an owner serves of it, it did not keep when erase() answered.
EraserForgets ==
  \A po \in Process \X Owner : erasedAt[po] # None =>
    \A g \in Generation : OwnerOf[g] = po[2] /\ Hit(<<po[1], g>>) =>
      cached[<<po[1], g>>].arrivedAt >= erasedAt[po]

\* An erasure takes hold: at once in what its own process kept, and everywhere within the TTL.
ErasureTakesHold == TtlBoundsErasure /\ EraserForgets

\* The documentation's claim: the process that erased an owner forgets its keys at once, and
\* every generation answers KeyErased from then on.
EraserServesNothing ==
  \A po \in Process \X Owner : erasedAt[po] # None =>
    \A g \in Generation : OwnerOf[g] = po[2] => ~Hit(<<po[1], g>>)
=============================================================================
