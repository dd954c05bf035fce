-------------------------- MODULE CredentialsProofs --------------------------
(***************************************************************************)
(* The two stores of secrets: the root keys a process keeps of its owners  *)
(* (EnvelopeKeys), and the credentials of browser sessions (OidcLogin).    *)
(*                                                                         *)
(* KeysInv places every key kept and every answer under way in time:       *)
(* decrypted before the owner's deletion, arrived since, expiring a TTL    *)
(* after that, and arrived since this process last erased the owner.       *)
(*                                                                         *)
(* OidcInv is what the store, the issuer, the requests and the browsers'   *)
(* jars have in common: a record is locked by the one refresh of it that   *)
(* is under way, the token it carries is unused outside of that refresh,   *)
(* and one callback at most is past the grant of a flow, which its own     *)
(* browser began and which no session was created from.                    *)
(***************************************************************************)
EXTENDS EnvelopeKeys, OidcLogin, TLAPS

-----------------------------------------------------------------------------
(* EnvelopeKeys: what holds of the keys of any number of processes, owners  *)
(* and generations, for every TTL.                                          *)


Slot == Process \X Generation
Erasure == Process \X Owner
OwnerAt(pg) == OwnerOf[pg[2]]

\* What KMS decrypted at a time, it decrypted before it would have refused.
DecryptedInTime(pg, at) ==
  at <= now /\ (deletedAt[OwnerAt(pg)] # None => at <= deletedAt[OwnerAt(pg)])

KeysInv ==
  /\ \A o \in Owner : deletedAt[o] # None => kmsKey[o] = "pending" /\ deletedAt[o] <= now
  /\ \A po \in Erasure : erasedAt[po] # None => erasedAt[po] <= now
  /\ \A pg \in Slot : unwraps[pg] # None /\ unwraps[pg].stage = "decrypted" =>
       DecryptedInTime(pg, unwraps[pg].at)
  /\ \A pg \in Slot : cached[pg] # None =>
       /\ DecryptedInTime(pg, cached[pg].decryptedAt)
       /\ cached[pg].arrivedAt <= now /\ cached[pg].expiresAt = cached[pg].arrivedAt + Ttl
       /\ erasedAt[<<pg[1], OwnerAt(pg)>>] # None =>
            cached[pg].arrivedAt >= erasedAt[<<pg[1], OwnerAt(pg)>>]

-----------------------------------------------------------------------------

LEMMA OwnerType == \A pg \in Slot : OwnerAt(pg) \in Owner /\ <<pg[1], OwnerAt(pg)>> \in Erasure
BY KeysAssumption DEF OwnerAt, Slot, Erasure

LEMMA DecryptedType ==
  ASSUME TypeOK, NEW pg \in Slot, unwraps[pg] # None, unwraps[pg].stage = "decrypted"
  PROVE  unwraps[pg].at \in Nat
BY DEF TypeOK, Unwrap, Slot

LEMMA InitInv == Init => TypeOK /\ KeysInv
BY DEF Init, TypeOK, KeysInv, Slot, Erasure

LEMMA KeepType ==
  ASSUME TypeOK, NEW pg \in Slot, NEW at \in Nat
  PROVE  Keep(pg, at) \in [Slot -> Kept \cup {None}]
<1>1. now \in Nat /\ now + Ttl \in Nat  BY KeysAssumption DEF TypeOK
<1>2. [decryptedAt |-> at, arrivedAt |-> now, expiresAt |-> now + Ttl] \in Kept  BY <1>1 DEF Kept
<1>3. \A other \in Slot : cached[other] \in Kept \cup {None}  BY DEF TypeOK, Slot
<1>4. QED  BY <1>2, <1>3 DEF Keep, Slot

LEMMA TypeNext == TypeOK /\ [Next]_vars => TypeOK'
<1> SUFFICES ASSUME TypeOK, [Next]_vars PROVE TypeOK'  OBVIOUS
<1> USE DEF Slot, Erasure
<1>1. ASSUME NEW pg \in Slot, RootKey(pg) PROVE TypeOK'
  <2>1. [stage |-> "sent"] \in Unwrap  BY DEF Unwrap
  <2>2. QED  BY <1>1, <2>1 DEF RootKey, TypeOK
<1>2. ASSUME NEW pg \in Slot, KmsDecrypts(pg) PROVE TypeOK'
  <2>1. [stage |-> "refused"] \in Unwrap /\ [stage |-> "decrypted", at |-> now] \in Unwrap
    BY DEF Unwrap, TypeOK
  <2>2. QED  BY <1>2, <2>1 DEF KmsDecrypts, TypeOK
<1>3. ASSUME NEW pg \in Slot, Unwrapped(pg) PROVE TypeOK'
  <2>1. unwraps[pg].at \in Nat  BY <1>3, DecryptedType DEF Unwrapped
  <2>2. cached' \in [Slot -> Kept \cup {None}]  BY <1>3, <2>1, KeepType DEF Unwrapped
  <2>3. QED  BY <1>3, <2>2 DEF Unwrapped, TypeOK
<1>4. ASSUME NEW pg \in Slot, UnwrapFails(pg) PROVE TypeOK'  BY <1>4 DEF UnwrapFails, TypeOK
<1>5. ASSUME NEW po \in Erasure, Erase(po) PROVE TypeOK'  BY <1>5 DEF Erase, TypeOK
<1>6. ASSUME NEW po \in Erasure, KmsDescribes(po) PROVE TypeOK'  BY <1>6 DEF KmsDescribes, TypeOK
<1>7. ASSUME NEW po \in Erasure, KmsSchedules(po) PROVE TypeOK'  BY <1>7 DEF KmsSchedules, TypeOK
<1>8. ASSUME NEW po \in Erasure, Erased(po) PROVE TypeOK'  BY <1>8 DEF Erased, Forgotten, TypeOK
<1>9. ASSUME NEW po \in Erasure, EraseFails(po) PROVE TypeOK'  BY <1>9 DEF EraseFails, TypeOK
<1>10. CASE Tick  BY <1>10 DEF Tick, TypeOK
<1>11. CASE UNCHANGED vars  BY <1>11 DEF vars, TypeOK
<1>12. QED
  BY <1>1, <1>2, <1>3, <1>4, <1>5, <1>6, <1>7, <1>8, <1>9, <1>10, <1>11 DEF Next

\* Where no key is added, and no time passes, what is kept stays as KeysInv has it.
LEMMA FewerKeys ==
  ASSUME TypeOK, KeysInv, UNCHANGED <<now, kmsKey, deletedAt, erasedAt>>,
         \A pg \in Slot : unwraps'[pg] \in {unwraps[pg], None} \/ unwraps'[pg].stage # "decrypted",
         \A pg \in Slot : cached'[pg] \in {cached[pg], None}
  PROVE  KeysInv'
<1>1. ASSUME NEW pg \in Slot, unwraps'[pg] # None, unwraps'[pg].stage = "decrypted"
      PROVE  DecryptedInTime(pg, unwraps'[pg].at)
  BY <1>1 DEF KeysInv
<1>2. ASSUME NEW pg \in Slot, cached'[pg] # None
      PROVE  cached'[pg] = cached[pg] /\ cached[pg] # None
  BY <1>2
<1>3. QED  BY <1>1, <1>2 DEF KeysInv, DecryptedInTime

LEMMA InvDecrypts ==
  ASSUME TypeOK, KeysInv, NEW pg \in Slot, KmsDecrypts(pg)
  PROVE  KeysInv'
<1> DEFINE answer == IF kmsKey[OwnerAt(pg)] = "enabled" THEN [stage |-> "decrypted", at |-> now]
                                                        ELSE [stage |-> "refused"]
<1>1. /\ UNCHANGED <<now, kmsKey, deletedAt, cached, erasedAt>>
      /\ unwraps' = [unwraps EXCEPT ![pg] = answer]
  BY DEF KmsDecrypts, OwnerAt
<1>2. ASSUME NEW q \in Slot, unwraps'[q] # None, unwraps'[q].stage = "decrypted"
      PROVE  DecryptedInTime(q, unwraps'[q].at)
  <2>1. CASE q = pg
    <3>1. unwraps'[q] = answer  BY <1>1, <2>1 DEF TypeOK, Slot
    <3>2. kmsKey[OwnerAt(pg)] = "enabled" /\ unwraps'[q].at = now  BY <1>2, <3>1
    <3>3. deletedAt[OwnerAt(pg)] = None  BY <3>2, OwnerType DEF KeysInv
    <3>4. QED  BY <2>1, <3>2, <3>3 DEF DecryptedInTime, TypeOK
  <2>2. CASE q # pg
    <3>1. unwraps'[q] = unwraps[q]  BY <1>1, <2>2 DEF TypeOK, Slot
    <3>2. QED  BY <1>2, <3>1 DEF KeysInv
  <2>3. QED  BY <2>1, <2>2
<1>3. QED  BY <1>1, <1>2 DEF KeysInv, DecryptedInTime

LEMMA InvUnwrapped ==
  ASSUME TypeOK, KeysInv, NEW pg \in Slot, Unwrapped(pg)
  PROVE  KeysInv'
<1> DEFINE new == [decryptedAt |-> unwraps[pg].at, arrivedAt |-> now, expiresAt |-> now + Ttl]
<1>1. /\ UNCHANGED <<now, kmsKey, deletedAt, erasedAt>>
      /\ unwraps' = [unwraps EXCEPT ![pg] = None] /\ cached' = Keep(pg, unwraps[pg].at)
      /\ DecryptedInTime(pg, unwraps[pg].at)
  BY DEF Unwrapped, KeysInv
<1>2. \A q \in Slot : unwraps'[q] \in {unwraps[q], None}  BY <1>1 DEF TypeOK, Slot
<1>3. \A q \in Slot : IF q = pg THEN cached'[q] = new ELSE cached'[q] \in {cached[q], None}
  BY <1>1 DEF Keep, Slot
<1>4. <<pg[1], OwnerAt(pg)>> \in Erasure  BY OwnerType
<1>5. now \in Nat  BY DEF TypeOK
<1>6. ASSUME NEW q \in Slot, cached'[q] # None
      PROVE  /\ DecryptedInTime(q, cached'[q].decryptedAt)
             /\ cached'[q].arrivedAt <= now /\ cached'[q].expiresAt = cached'[q].arrivedAt + Ttl
             /\ erasedAt[<<q[1], OwnerAt(q)>>] # None =>
                  cached'[q].arrivedAt >= erasedAt[<<q[1], OwnerAt(q)>>]
  <2>1. CASE q = pg
    <3>1. cached'[q] = new  BY <1>3, <2>1
    <3>2. /\ cached'[q].decryptedAt = unwraps[pg].at /\ cached'[q].arrivedAt = now
          /\ cached'[q].expiresAt = now + Ttl
      BY <3>1
    <3>3. erasedAt[<<pg[1], OwnerAt(pg)>>] # None =>
            erasedAt[<<pg[1], OwnerAt(pg)>>] \in Nat /\ erasedAt[<<pg[1], OwnerAt(pg)>>] <= now
      BY <1>4 DEF KeysInv, TypeOK, Erasure
    <3>4. QED  BY <1>1, <1>5, <2>1, <3>2, <3>3
  <2>2. CASE q # pg
    <3>1. cached'[q] = cached[q] /\ cached[q] # None  BY <1>3, <1>6, <2>2
    <3>2. QED  BY <3>1 DEF KeysInv
  <2>3. QED  BY <2>1, <2>2
<1>7. QED  BY <1>1, <1>2, <1>6 DEF KeysInv, DecryptedInTime

LEMMA InvSchedules ==
  ASSUME TypeOK, KeysInv, NEW po \in Erasure, KmsSchedules(po)
  PROVE  KeysInv'
<1>1. /\ UNCHANGED <<now, unwraps, cached, erasedAt>>
      /\ kmsKey' = [kmsKey EXCEPT ![po[2]] = "pending"]
      /\ deletedAt' = [deletedAt EXCEPT ![po[2]] = IF @ = None THEN now ELSE @]
  BY DEF KmsSchedules
<1>2. now \in Nat /\ None \notin Nat  BY KeysAssumption DEF TypeOK
<1>3. \A o \in Owner : deletedAt'[o] = deletedAt[o] \/ (deletedAt[o] = None /\ deletedAt'[o] = now)
  BY <1>1 DEF TypeOK
<1>4. \A o \in Owner : deletedAt'[o] # None => kmsKey'[o] = "pending" /\ deletedAt'[o] <= now
  BY <1>1, <1>2 DEF TypeOK, KeysInv
<1>5. ASSUME NEW pg \in Slot, NEW at, DecryptedInTime(pg, at)
      PROVE  at <= now' /\ (deletedAt'[OwnerAt(pg)] # None => at <= deletedAt'[OwnerAt(pg)])
  BY <1>1, <1>3, <1>5, OwnerType DEF DecryptedInTime
<1>6. QED  BY <1>1, <1>4, <1>5 DEF KeysInv, DecryptedInTime, OwnerAt

LEMMA InvErased ==
  ASSUME TypeOK, KeysInv, NEW po \in Erasure, Erased(po)
  PROVE  KeysInv'
<1>1. /\ UNCHANGED <<now, kmsKey, deletedAt, unwraps>>
      /\ erasedAt' = [erasedAt EXCEPT ![po] = now] /\ cached' = Forgotten(po)
  BY DEF Erased
<1>2. now \in Nat  BY DEF TypeOK
<1>3. \A other \in Erasure : erasedAt'[other] = IF other = po THEN now ELSE erasedAt[other]
  BY <1>1 DEF TypeOK, Erasure
<1>4. ASSUME NEW pg \in Slot, cached'[pg] # None
      PROVE  cached'[pg] = cached[pg] /\ <<pg[1], OwnerAt(pg)>> # po
  BY <1>1, <1>4 DEF Forgotten, Slot, OwnerAt
<1>5. \A pg \in Slot : cached'[pg] # None =>
        erasedAt'[<<pg[1], OwnerAt(pg)>>] = erasedAt[<<pg[1], OwnerAt(pg)>>]
  BY <1>3, <1>4, OwnerType
<1>6. \A other \in Erasure : erasedAt'[other] # None => erasedAt'[other] <= now'
  BY <1>1, <1>2, <1>3 DEF KeysInv
<1>7. QED  BY <1>1, <1>4, <1>5, <1>6 DEF KeysInv, DecryptedInTime

LEMMA InvTick ==
  ASSUME TypeOK, KeysInv, Tick
  PROVE  KeysInv'
<1>1. now \in Nat /\ now' = now + 1 /\ UNCHANGED <<kmsKey, deletedAt, unwraps, cached, erasedAt>>
  BY DEF Tick, TypeOK
<1>2. \A o \in Owner : deletedAt[o] # None => deletedAt[o] \in Nat  BY DEF TypeOK
<1>3. \A po \in Erasure : erasedAt[po] # None => erasedAt[po] \in Nat  BY DEF TypeOK, Erasure
<1>4. \A pg \in Slot : cached[pg] # None => cached[pg].decryptedAt \in Nat /\ cached[pg].arrivedAt \in Nat
  BY DEF TypeOK, Kept, Slot
<1>5. \A pg \in Slot : unwraps[pg] # None /\ unwraps[pg].stage = "decrypted" => unwraps[pg].at \in Nat
  BY DecryptedType
<1>6. QED  BY <1>1, <1>2, <1>3, <1>4, <1>5 DEF KeysInv, DecryptedInTime

LEMMA InvNext == TypeOK /\ KeysInv /\ [Next]_vars => KeysInv'
<1> SUFFICES ASSUME TypeOK, KeysInv, [Next]_vars PROVE KeysInv'  OBVIOUS
<1>1. ASSUME NEW pg \in Slot, RootKey(pg) PROVE KeysInv'
  <2>1. \A q \in Slot : unwraps'[q] = unwraps[q] \/ unwraps'[q] = [stage |-> "sent"]
    BY <1>1 DEF RootKey, TypeOK, Slot
  <2>2. \A q \in Slot : cached'[q] \in {cached[q], None}  BY <1>1 DEF RootKey, TypeOK, Slot
  <2>3. QED  BY <1>1, <2>1, <2>2, FewerKeys DEF RootKey
<1>2. ASSUME NEW pg \in Slot, KmsDecrypts(pg) PROVE KeysInv'  BY <1>2, InvDecrypts
<1>3. ASSUME NEW pg \in Slot, Unwrapped(pg) PROVE KeysInv'  BY <1>3, InvUnwrapped
<1>4. ASSUME NEW pg \in Slot, UnwrapFails(pg) PROVE KeysInv'
  <2>1. \A q \in Slot : unwraps'[q] \in {unwraps[q], None}  BY <1>4 DEF UnwrapFails, TypeOK, Slot
  <2>2. QED  BY <1>4, <2>1, FewerKeys DEF UnwrapFails
<1>5. ASSUME NEW po \in Erasure, KmsSchedules(po) PROVE KeysInv'  BY <1>5, InvSchedules
<1>6. ASSUME NEW po \in Erasure, Erased(po) PROVE KeysInv'  BY <1>6, InvErased
<1>7. CASE UNCHANGED <<now, kmsKey, deletedAt, unwraps, cached, erasedAt>>
  BY <1>7, FewerKeys
<1>8. CASE Tick  BY <1>8, InvTick
<1>9. QED
  BY <1>1, <1>2, <1>3, <1>4, <1>5, <1>6, <1>7, <1>8
  DEF Next, Slot, Erasure, Erase, KmsDescribes, EraseFails, vars

-----------------------------------------------------------------------------

\* The types of kmsEnvelopeKeys' state and of what is under way to and from KMS.
THEOREM TypeCorrect == Spec => []TypeOK
<1>1. QED  BY InitInv, TypeNext, PTL DEF Spec

LEMMA KeysInvariant == Spec => [](TypeOK /\ KeysInv)
<1>1. TypeOK /\ KeysInv /\ [Next]_vars => (TypeOK /\ KeysInv)'  BY TypeNext, InvNext
<1>2. QED  BY InitInv, <1>1, PTL DEF Spec

\* rootKey() serves an erased owner from memory for no longer than the TTL after its deletion,
\* or after the arrival of what KMS had unwrapped before it.
THEOREM ErasureIsBounded == Spec => []TtlBoundsErasure
<1>1. TypeOK /\ KeysInv => TtlBoundsErasure
  <2> SUFFICES ASSUME TypeOK, KeysInv, NEW pg \in Slot, Hit(pg), deletedAt[OwnerAt(pg)] # None
      PROVE  \/ now < deletedAt[OwnerAt(pg)] + Ttl
             \/ /\ cached[pg].decryptedAt <= deletedAt[OwnerAt(pg)]
                /\ deletedAt[OwnerAt(pg)] < cached[pg].arrivedAt
                /\ now < cached[pg].arrivedAt + Ttl
    BY DEF TtlBoundsErasure, Slot, OwnerAt
  <2>1. cached[pg] # None /\ ~(cached[pg].expiresAt <= now)  BY DEF Hit, Expired
  <2>2. /\ cached[pg].expiresAt = cached[pg].arrivedAt + Ttl
        /\ cached[pg].decryptedAt <= deletedAt[OwnerAt(pg)]
    BY <2>1 DEF KeysInv, DecryptedInTime
  <2>3. cached[pg].arrivedAt \in Nat /\ now \in Nat /\ Ttl \in Nat  
    BY <2>1, KeysAssumption DEF TypeOK, Kept, Slot
  <2>4. deletedAt[OwnerAt(pg)] \in Nat  BY OwnerType DEF TypeOK
  <2>5. QED  BY <2>1, <2>2, <2>3, <2>4
<1>2. QED  BY KeysInvariant, <1>1, PTL

\* What the process that erased an owner serves of it arrived after erase() answered.
THEOREM EraserForgetsWhatItKept == Spec => []EraserForgets
<1>1. KeysInv => EraserForgets
  <2> SUFFICES ASSUME KeysInv, NEW po \in Erasure, erasedAt[po] # None,
                      NEW g \in Generation, OwnerOf[g] = po[2], Hit(<<po[1], g>>)
      PROVE  cached[<<po[1], g>>].arrivedAt >= erasedAt[po]
    BY DEF EraserForgets, Erasure
  <2>1. <<po[1], g>> \in Slot /\ po = <<po[1], po[2]>>  BY DEF Slot, Erasure
  <2>2. cached[<<po[1], g>>] # None  BY DEF Hit
  <2>3. QED  BY <2>1, <2>2 DEF KeysInv, OwnerAt
<1>2. QED  BY KeysInvariant, <1>1, PTL

\* After an erasure no process serves the owner's keys past the TTL, and the eraser at once.
THEOREM ErasuresTakeHold == Spec => []ErasureTakesHold
<1>1. TtlBoundsErasure /\ EraserForgets => ErasureTakesHold  BY DEF ErasureTakesHold
<1>2. QED  BY <1>1, ErasureIsBounded, EraserForgetsWhatItKept, PTL

-----------------------------------------------------------------------------
(* OidcLogin: what the store, the issuer and the browsers have of a session *)
(* agrees, for any sessions, logins, requests and browsers.                 *)


\* A callback whose code has been granted, and which has yet to create its session.
Past(c) ==
  /\ call[c].kind = "callback"
  /\ call[c].pc \in {"transact", "creating"} \/ (call[c].pc = "answered" /\ call[c].outcome = "ok")

RecordsInv ==
  /\ held \subseteq used /\ used \subseteq code /\ code \subseteq Ref
  /\ due \subseteq used /\ over \subseteq used
  /\ ended \subseteq used /\ ended \cap held = {}

\* A reference is locked exactly by the refresh under way of its record.
LockInv ==
  /\ \A r \in Ref : lock[r] # Nobody => call[lock[r]].pc = "refreshing" /\ call[lock[r]].ref = r
  /\ \A c \in Call : call[c].pc = "refreshing" =>
       /\ call[c].kind = "access" /\ call[c].ref \in held
       /\ lock[call[c].ref] = c

\* The token that a record carries has not been presented, unless its refresh is under way.
IssuerInv ==
  /\ \A r \in Ref, n \in Nat : <<r, n>> \in presented => r \in used /\ n <= refresh[r]
  /\ \A r \in held \ uncommitted : lock[r] = Nobody => <<r, refresh[r]>> \notin presented
  /\ reused \subseteq uncommitted

JarInv ==
  \A b \in Browser :
    /\ jar[b].session # Nobody => jar[b].session \in used /\ begun[jar[b].session] = b
    /\ jar[b].transient # Nobody => begun[jar[b].transient] = b

RequestInv(c) ==
  /\ call[c].ref \in used \cup {Nobody}
  /\ call[c].pc \in {"transact", "refreshing"} => call[c].ref \in used
  /\ call[c].pc # "answered" => call[c].outcome = "none"
  /\ call[c].pc \in {"granting", "creating"} => call[c].kind = "callback"
  /\ call[c].outcome = "signedIn" => call[c].kind = "callback"
  /\ call[c].late =>
       call[c].kind \in {"session", "access"} /\ call[c].ref \in ended /\ call[c].outcome # "served"
  /\ call[c].kind = "callback" /\ (call[c].pc = "creating" \/ call[c].outcome \in {"ok", "signedIn"}) =>
       Opened(call[c].ref, LoginOf[route[c].flow]) \cap held \subseteq over
  /\ call[c].kind = "callback" /\ (call[c].pc \in {"granting", "transact", "creating"}
                                   \/ call[c].outcome \in {"ok", "signedIn"}) =>
       /\ route[c].flow \in Ref /\ route[c].browser \in Browser
       /\ begun[route[c].flow] = route[c].browser
  /\ Past(c) => route[c].flow \in code \ used
  /\ call[c].outcome = "signedIn" => route[c].flow \in used

RequestsInv ==
  /\ \A c \in Call : RequestInv(c)
  /\ \A c, d \in Call : Past(c) /\ Past(d) /\ route[c].flow = route[d].flow => c = d

OidcInv == LoginTypeOK /\ RecordsInv /\ LockInv /\ IssuerInv /\ JarInv /\ RequestsInv

CallRecord == [kind : Kinds, ref : Ref \cup {Nobody}, pc : Points, outcome : Outcomes, late : BOOLEAN]

-----------------------------------------------------------------------------

LEMMA OidcStart == LoginInit => OidcInv
<1> SUFFICES ASSUME LoginInit PROVE OidcInv
  OBVIOUS
<1> USE DEF LoginInit, TokenInit
<1>1. \A c \in Call : /\ call[c].kind = "none" /\ call[c].ref = Nobody /\ call[c].pc = "idle"
                      /\ call[c].outcome = "none" /\ ~call[c].late
  BY DEF IdleCall
<1>2. call \in [Call -> CallRecord]
  <2>1. IdleCall \in CallRecord
    BY DEF IdleCall, CallRecord, Kinds, Points, Outcomes
  <2> QED
    BY <2>1
<1>3. LoginTypeOK
  <2>1. refresh \in [Ref -> 0..MaxRefresh] /\ lock \in [Ref -> Call \cup {Nobody}]
    BY OidcAssumption
  <2>2. jar \in [Browser -> [session : Ref \cup {Nobody}, transient : Ref \cup {Nobody}]]
    OBVIOUS
  <2>3. route \in [Call -> [browser : Browser \cup {Nobody}, flow : Ref \cup {Nobody}]]
    BY DEF NoRoute
  <2> QED
    BY <1>2, <2>1, <2>2, <2>3 DEF LoginTypeOK, CallRecord
<1>4. RecordsInv /\ LockInv /\ IssuerInv
  BY <1>1 DEF RecordsInv, LockInv, IssuerInv
<1>5. JarInv
  BY DEF JarInv
<1>6. RequestsInv
  BY <1>1 DEF RequestsInv, RequestInv, Past
<1> QED
  BY <1>3, <1>4, <1>5, <1>6 DEF OidcInv

\* What one call comes to, seen from the whole.
Alone(c, it) ==
  /\ call' = [call EXCEPT ![c] = it]
  /\ it \in CallRecord

LEMMA AloneIs ==
  ASSUME LoginTypeOK, NEW c \in Call, NEW it, Alone(c, it)
  PROVE  /\ call' \in [Call -> CallRecord] /\ call'[c] = it
         /\ \A d \in Call \ {c} : call'[d] = call[d]
BY DEF Alone, LoginTypeOK, CallRecord

\* The store and the routes move on: no reference is opened that was used, no other call's
\* session but an unlocked one is closed.
MovesOn(c) ==
  /\ used \subseteq used' /\ code \subseteq code' /\ ended \subseteq ended' /\ over \subseteq over'
  /\ \A r \in used' \ used : Past(c) /\ r = route[c].flow
  /\ \A r \in held' \ held : r \in Ref \ used
  /\ \A f \in Ref : begun[f] # Nobody => begun'[f] = begun[f]

LEMMA OthersStand ==
  ASSUME OidcInv, NEW c \in Call, MovesOn(c), NEW d \in Call \ {c},
         call'[d] = call[d], route'[d] = route[d]
  PROVE  RequestInv(d)' /\ (Past(d)' <=> Past(d))
<1>1. Past(d)' <=> Past(d)
  BY DEF Past
<1>2. RequestInv(d) /\ RecordsInv
  BY DEF OidcInv, RequestsInv
<1>3. Past(d) => route[d].flow \notin used'
  BY <1>2 DEF OidcInv, RequestsInv, RequestInv, MovesOn
<1>4. \A f \in Ref : begun[f] \in Browser => begun'[f] = begun[f]
  BY BrowserAssumption DEF MovesOn
<1>5. \A x : Opened(call[d].ref, x) \cap held' \subseteq held
  BY <1>2, OidcAssumption DEF RequestInv, MovesOn, Opened
<1> QED
  BY <1>1, <1>2, <1>3, <1>4, <1>5 DEF RequestInv, MovesOn

LEMMA CallMoves ==
  ASSUME OidcInv, NEW c \in Call, NEW it, Alone(c, it), MovesOn(c),
         \A d \in Call \ {c} : route'[d] = route[d],
         LoginTypeOK', RecordsInv', LockInv', IssuerInv', JarInv', RequestInv(c)',
         Past(c)' => (Past(c) /\ route'[c].flow = route[c].flow) \/ route'[c].flow \notin code
  PROVE  OidcInv'
<1>1. /\ \A d \in Call \ {c} : call'[d] = call[d]
  BY AloneIs DEF OidcInv
<1>2. \A d \in Call \ {c} : RequestInv(d)' /\ (Past(d)' <=> Past(d))
  BY <1>1, OthersStand
<1>3. \A d \in Call : Past(d) => route[d].flow \in code
  BY DEF OidcInv, RequestsInv, RequestInv
<1>4. ASSUME NEW a \in Call, NEW d \in Call, Past(a)', Past(d)', route'[a].flow = route'[d].flow
      PROVE  a = d
  <2>1. \A x, y \in Call : Past(x) /\ Past(y) /\ route[x].flow = route[y].flow => x = y
    BY DEF OidcInv, RequestsInv
  <2> QED
    BY <1>2, <1>3, <1>4, <2>1
<1>5. RequestsInv'
  BY <1>2, <1>4 DEF RequestsInv
<1> QED
  BY <1>5 DEF OidcInv

\* A call moves on by itself, and the store, its locks and the issuer are left as they are.
LEMMA QuietMoves ==
  ASSUME OidcInv, NEW c \in Call, NEW it, Alone(c, it),
         UNCHANGED <<storeVars, over, lock, issuerVars, uncommitted, ended, begun>>,
         jar' \in [Browser -> [session : Ref \cup {Nobody}, transient : Ref \cup {Nobody}]], JarInv',
         code \subseteq code', code' \subseteq Ref,
         call[c].pc # "refreshing", it.pc # "refreshing",
         route' \in [Call -> [browser : Browser \cup {Nobody}, flow : Ref \cup {Nobody}]],
         \A d \in Call \ {c} : route'[d] = route[d],
         RequestInv(c)',
         Past(c)' => (Past(c) /\ route'[c].flow = route[c].flow) \/ route'[c].flow \notin code
  PROVE  OidcInv'
<1>1. /\ call' \in [Call -> CallRecord] /\ call'[c] = it
      /\ \A d \in Call \ {c} : call'[d] = call[d]
  BY AloneIs DEF OidcInv
<1>2. MovesOn(c)
  BY DEF MovesOn, storeVars
<1>3. LoginTypeOK'
  BY <1>1 DEF OidcInv, LoginTypeOK, CallRecord, storeVars, issuerVars
<1>4. RecordsInv' /\ IssuerInv'
  BY DEF OidcInv, RecordsInv, IssuerInv, storeVars, issuerVars
<1>5. LockInv'
  <2> USE DEF storeVars
  <2>1. \A s \in Ref : lock'[s] # Nobody => call'[lock'[s]].pc = "refreshing" /\ call'[lock'[s]].ref = s
    <3>1. \A s \in Ref : lock[s] # Nobody => lock[s] \in Call /\ lock[s] # c
      BY DEF OidcInv, LoginTypeOK, LockInv
    <3> QED
      BY <1>1, <3>1 DEF OidcInv, LockInv
  <2>2. \A d \in Call : call'[d].pc = "refreshing" => d # c /\ call'[d] = call[d]
    BY <1>1
  <2>3. \A d \in Call : call'[d].pc = "refreshing" =>
          /\ call'[d].kind = "access" /\ call'[d].ref \in held'
          /\ lock'[call'[d].ref] = d
    BY <2>2 DEF OidcInv, LockInv
  <2> QED
    BY <2>1, <2>3 DEF LockInv
<1> QED
  BY <1>2, <1>3, <1>4, <1>5, CallMoves

\* A call answers after its transaction on r, which is no longer locked: the store is as it
\* was, or has no record of r.
Answered(c, it, r) ==
  /\ \/ call[c].pc = "transact" /\ lock[r] = Nobody /\ UNCHANGED lock
     \/ call[c].pc = "refreshing" /\ lock' = [lock EXCEPT ![r] = IF @ = c THEN Nobody ELSE @]
  /\ it.pc = "answered"
  /\ UNCHANGED storeVars \/ Delete(r)
  /\ UNCHANGED <<over, issuerVars, jar, begun, code, route>>

LEMMA AnsweredMoves ==
  ASSUME OidcInv, NEW c \in Call, NEW it, Alone(c, it), Answered(c, it, call[c].ref),
         (uncommitted' = uncommitted /\ (call[c].pc = "refreshing" => Delete(call[c].ref)))
         \/ uncommitted' = uncommitted \cup {call[c].ref},
         ended' = ended \/ (ended' = ended \cup {call[c].ref} /\ Delete(call[c].ref)),
         RequestInv(c)', Past(c)' => Past(c)
  PROVE  OidcInv'
<1> DEFINE r == call[c].ref
<1>1. /\ call' \in [Call -> CallRecord] /\ call'[c] = it
      /\ \A d \in Call \ {c} : call'[d] = call[d]
  BY AloneIs DEF OidcInv
<1>2. r \in used /\ used \subseteq Ref /\ r \in Ref
  BY DEF OidcInv, RequestsInv, RequestInv, Answered, RecordsInv
<1>3. held' \subseteq held /\ used' = used /\ due' \subseteq due /\ refresh' = refresh
      /\ held \ held' \subseteq {r} /\ over' = over
  BY DEF Answered, storeVars, Delete
<1>4. lock \in [Ref -> Call \cup {Nobody}] /\ lock' \in [Ref -> Call \cup {Nobody}]
      /\ lock'[r] = Nobody /\ \A s \in Ref \ {r} : lock'[s] = lock[s]
  BY <1>2 DEF Answered, OidcInv, LoginTypeOK, LockInv
<1>5. LockInv'
  <2>1. \A s \in Ref : lock'[s] # Nobody => call'[lock'[s]].pc = "refreshing" /\ call'[lock'[s]].ref = s
    BY <1>1, <1>2, <1>4 DEF OidcInv, LockInv
  <2>2. ASSUME NEW d \in Call, call'[d].pc = "refreshing"
        PROVE  /\ call'[d].kind = "access" /\ call'[d].ref \in held'
               /\ lock'[call'[d].ref] = d
    <3>1. d # c /\ call'[d] = call[d]
      BY <1>1, <2>2 DEF Answered
    <3>2. call[d].kind = "access" /\ call[d].ref \in held /\ lock[call[d].ref] = d
      BY <3>1, <2>2 DEF OidcInv, LockInv
    <3>3. call[d].ref # r
      BY <3>1, <3>2, OidcAssumption DEF Answered, OidcInv, LockInv
    <3>4. call[d].ref \in Ref
      BY <3>2 DEF OidcInv, RecordsInv
    <3> QED
      BY <3>1, <3>2, <3>3, <3>4, <1>3, <1>4
  <2> QED
    BY <2>1, <2>2 DEF LockInv
<1>6. RecordsInv'
  BY <1>2, <1>3 DEF OidcInv, RecordsInv, Answered, Delete
<1>7. IssuerInv'
  <2>1. presented' = presented /\ reused' = reused /\ uncommitted \subseteq uncommitted'
    BY DEF Answered, issuerVars
  <2>2. ASSUME NEW s \in held', s \notin uncommitted', lock'[s] = Nobody
        PROVE  <<s, refresh[s]>> \notin presented
    <3>1. CASE s = r
      <4>1. call[c].pc = "transact"
        BY <3>1, <2>2, <1>2 DEF Answered, Delete
      <4> QED
        BY <3>1, <4>1, <2>2, <1>2, <1>3, <2>1 DEF Answered, OidcInv, IssuerInv
    <3>2. CASE s # r
      <4>1. s \in Ref /\ s \in held
        BY <1>3 DEF OidcInv, RecordsInv
      <4> QED
        BY <3>2, <4>1, <2>1, <2>2, <1>4 DEF OidcInv, IssuerInv
    <3> QED
      BY <3>1, <3>2
  <2> QED
    BY <1>3, <2>1, <2>2 DEF OidcInv, IssuerInv
<1>8. JarInv'
  BY <1>3 DEF OidcInv, JarInv, Answered
<1>9. LoginTypeOK'
  <2>1. ended' \subseteq Ref /\ uncommitted' \subseteq Ref
    BY <1>2 DEF OidcInv, LoginTypeOK
  <2>2. held' \subseteq used' /\ used' \subseteq Ref /\ due' \subseteq used' /\ over' \subseteq used'
    BY <1>3 DEF OidcInv, LoginTypeOK
  <2>3. UNCHANGED <<refresh, presented, reused, jar, begun, code, route>>
    BY <1>3 DEF Answered, issuerVars
  <2> QED
    BY <1>1, <1>4, <2>1, <2>2, <2>3 DEF OidcInv, LoginTypeOK, CallRecord
<1>10. MovesOn(c)
  BY <1>3 DEF MovesOn, Answered
<1>11. route' = route
  BY DEF Answered
<1> QED
  BY <1>5, <1>6, <1>7, <1>8, <1>9, <1>10, <1>11, CallMoves

LEMMA JarStays ==
  ASSUME OidcInv, UNCHANGED <<jar, begun, used>>
  PROVE  /\ jar' \in [Browser -> [session : Ref \cup {Nobody}, transient : Ref \cup {Nobody}]]
         /\ JarInv'
BY DEF OidcInv, JarInv, LoginTypeOK

\* No call moves: time passes, or a browser does something of its own.
LEMMA ElsewhereMoves ==
  ASSUME OidcInv,
         UNCHANGED <<held, used, refresh, lock, call, route, issuerVars, uncommitted, ended, code>>,
         due' \subseteq used, over' \subseteq used, over \subseteq over',
         jar' \in [Browser -> [session : Ref \cup {Nobody}, transient : Ref \cup {Nobody}]], JarInv',
         begun' \in [Ref -> Browser \cup {Nobody}],
         \A f \in Ref : begun[f] # Nobody => begun'[f] = begun[f]
  PROVE  OidcInv'
<1>1. LoginTypeOK' /\ RecordsInv'
  BY DEF OidcInv, LoginTypeOK, RecordsInv, issuerVars
<1>2. LockInv' /\ IssuerInv'
  BY DEF OidcInv, LockInv, IssuerInv, issuerVars
<1>3. \A f \in Ref : begun[f] \in Browser => begun'[f] = begun[f]
  BY BrowserAssumption
<1>4. \A c \in Call : RequestInv(c)'
  BY <1>3 DEF OidcInv, RequestsInv, RequestInv, Past
<1>5. RequestsInv'
  BY <1>4 DEF OidcInv, RequestsInv, Past
<1> QED
  BY <1>1, <1>2, <1>5 DEF OidcInv

-----------------------------------------------------------------------------
(* One lemma per action.                                                    *)

LEMMA AnswerIs ==
  ASSUME LoginTypeOK, NEW c \in Call, NEW o \in Outcomes, Answer(c, o)
  PROVE  LET it == [kind |-> call[c].kind, ref |-> call[c].ref, pc |-> "answered",
                    outcome |-> o, late |-> call[c].late]
         IN  Alone(c, it) /\ call'[c] = it
<1> DEFINE it == [kind |-> call[c].kind, ref |-> call[c].ref, pc |-> "answered",
                  outcome |-> o, late |-> call[c].late]
<1>1. call \in [Call -> CallRecord] /\ call[c] \in CallRecord
  BY DEF LoginTypeOK, CallRecord
<1>2. call' \in [Call -> CallRecord]
  <2>1. \A e \in CallRecord : [e EXCEPT !.pc = "answered"] \in CallRecord
    BY DEF CallRecord, Points
  <2>2. \A e \in CallRecord : [e EXCEPT !.outcome = o] \in CallRecord
    BY DEF CallRecord
  <2> QED
    BY <1>1, <2>1, <2>2 DEF Answer
<1>3. /\ call'[c].kind = call[c].kind /\ call'[c].ref = call[c].ref /\ call'[c].pc = "answered"
      /\ call'[c].outcome = o /\ call'[c].late = call[c].late
  BY <1>1 DEF Answer, CallRecord
<1>4. call'[c] \in CallRecord
  BY <1>2
<1>5. call'[c] = it
  BY <1>3, <1>4 DEF CallRecord
<1>6. call' = [call EXCEPT ![c] = call'[c]]
  BY <1>1 DEF Answer
<1> HIDE DEF it
<1>7. call' = [call EXCEPT ![c] = it] /\ it \in CallRecord
  BY <1>4, <1>5, <1>6
<1>8. Alone(c, it) /\ call'[c] = it
  BY <1>5, <1>7 DEF Alone
<1> QED
  BY <1>8 DEF it

LEMMA StoreUnavailableMoves ==
  ASSUME OidcInv, NEW c \in Call, StoreUnavailable(c), UNCHANGED <<jar, begun, code, route>>
  PROVE  OidcInv'
<1> DEFINE it == [kind |-> call[c].kind, ref |-> call[c].ref, pc |-> "answered",
                  outcome |-> "refused", late |-> call[c].late]
<1>1. Alone(c, it) /\ call'[c] = it
  BY AnswerIs, AloneIs DEF OidcInv, StoreUnavailable, Outcomes
<1>2. RequestInv(c)' /\ ~Past(c)'
  BY <1>1 DEF OidcInv, RequestsInv, RequestInv, Past, StoreUnavailable, storeVars
<1> QED
  BY <1>1, <1>2, JarStays, QuietMoves DEF StoreUnavailable, storeVars, OidcInv, LoginTypeOK

LEMMA GrantRefusedMoves ==
  ASSUME OidcInv, NEW c \in Call, GrantRefused(c)
  PROVE  OidcInv'
<1> DEFINE it == [kind |-> call[c].kind, ref |-> call[c].ref, pc |-> "answered",
                  outcome |-> "refused", late |-> call[c].late]
<1>1. Alone(c, it) /\ call'[c] = it
  BY AnswerIs, AloneIs DEF OidcInv, GrantRefused, Outcomes
<1>2. RequestInv(c)' /\ ~Past(c)'
  BY <1>1 DEF OidcInv, RequestsInv, RequestInv, Past, GrantRefused, storeVars
<1>3. code \subseteq code' /\ code' \subseteq Ref
  BY DEF GrantRefused, OidcInv, RequestsInv, RequestInv, LoginTypeOK
<1> QED
  BY <1>1, <1>2, <1>3, JarStays, QuietMoves DEF GrantRefused, storeVars, OidcInv, LoginTypeOK

\* What a request starts as.
LEMMA StartsMoves ==
  ASSUME OidcInv, NEW c \in Call, NEW b \in Browser, NEW flow \in Ref \cup {Nobody},
         NEW kind \in Kinds, NEW ref \in used \cup {Nobody},
         NEW pc \in {"granting", "transact", "answered"}, NEW outcome \in {"none", "ok", "refused"},
         Starts(c, b, flow, kind, ref, pc, outcome),
         UNCHANGED <<storeVars, over, lock, issuerVars, uncommitted, ended, jar, begun, code>>,
         pc = "granting" => kind = "callback" /\ flow \in Ref /\ begun[flow] = b,
         pc = "transact" => ref \in used /\ kind # "callback",
         pc # "answered" => outcome = "none",
         kind = "callback" => outcome # "ok"
  PROVE  OidcInv'
<1> DEFINE late == kind \in {"session", "access"} /\ ref \in ended
           it == [kind |-> kind, ref |-> ref, pc |-> pc, outcome |-> outcome, late |-> late]
<1>1. it \in CallRecord
  BY DEF CallRecord, Points, Outcomes, OidcInv, RecordsInv
<1>2. Alone(c, it)
  BY <1>1 DEF Alone, Starts
<1>3. call'[c] = it
  BY <1>2, AloneIs DEF OidcInv
<1>4. /\ route' \in [Call -> [browser : Browser \cup {Nobody}, flow : Ref \cup {Nobody}]]
      /\ \A d \in Call \ {c} : route'[d] = route[d]
      /\ route'[c] = [browser |-> b, flow |-> flow]
  BY DEF Starts, OidcInv, LoginTypeOK
<1> HIDE DEF late
<1>5. late => kind \in {"session", "access"} /\ ref \in ended
  BY DEF late
<1>6. RequestInv(c)' /\ ~Past(c)'
  BY <1>3, <1>4, <1>5 DEF RequestInv, Past, storeVars
<1>7. call[c].pc # "refreshing" /\ it.pc # "refreshing"
  BY DEF Starts
<1>8. code \subseteq code' /\ code' \subseteq Ref
  BY DEF OidcInv, LoginTypeOK
<1> HIDE DEF it
<1> QED
  BY <1>2, <1>4, <1>6, <1>7, <1>8, JarStays, QuietMoves DEF storeVars

LEMMA CallbackRouteMoves ==
  ASSUME OidcInv, NEW c \in Call, NEW b \in Browser, NEW f \in Ref, NEW denied \in BOOLEAN,
         CallbackRoute(c, b, f, denied)
  PROVE  OidcInv'
<1>1. jar[b].session \in used \cup {Nobody}
  BY DEF OidcInv, JarInv
<1>2. "callback" \in Kinds
  BY DEF Kinds
<1>3. CASE jar[b].transient # f \/ denied
  <2>1. Starts(c, b, f, "callback", jar[b].session, "answered", "refused")
    BY <1>3 DEF CallbackRoute
  <2> QED
    BY <1>1, <1>2, <2>1, StartsMoves DEF CallbackRoute
<1>4. CASE ~(jar[b].transient # f \/ denied)
  <2>1. Starts(c, b, f, "callback", jar[b].session, "granting", "none")
    BY <1>4 DEF CallbackRoute
  <2>2. begun[f] = b
    BY <1>4, OidcAssumption DEF OidcInv, JarInv
  <2> QED
    BY <1>1, <1>2, <2>1, <2>2, StartsMoves DEF CallbackRoute
<1> QED
  BY <1>3, <1>4

LEMMA SessionRequestMoves ==
  ASSUME OidcInv, NEW c \in Call, NEW b \in Browser, NEW kind \in Kinds, NEW login \in Login,
         SessionRequest(c, b, kind, login)
  PROVE  OidcInv'
<1>1. /\ jar[b].session \in used \cup {Nobody}
      /\ \A opened : opened \in {Opened(jar[b].session, login), {}} /\ opened # {} =>
           jar[b].session \in used
  BY OidcAssumption DEF OidcInv, JarInv, RecordsInv, Opened
<1>2. PICK opened \in {Opened(jar[b].session, login), {}} :
        IF opened = {}
        THEN Starts(c, b, Nobody, kind, Nobody, "answered", IF kind = "logout" THEN "ok" ELSE "refused")
        ELSE Starts(c, b, Nobody, kind, jar[b].session, "transact", "none")
  BY DEF SessionRequest
<1>3. kind # "callback"
  BY DEF SessionRequest
<1>4. CASE opened = {}
  <2> DEFINE outcome == IF kind = "logout" THEN "ok" ELSE "refused"
  <2>1. outcome \in {"none", "ok", "refused"} /\ Starts(c, b, Nobody, kind, Nobody, "answered", outcome)
    BY <1>2, <1>4
  <2> HIDE DEF outcome
  <2> QED
    BY <1>3, <2>1, StartsMoves DEF SessionRequest
<1>5. CASE opened # {}
  <2>1. Starts(c, b, Nobody, kind, jar[b].session, "transact", "none")
    BY <1>2, <1>5
  <2>2. jar[b].session \in used
    BY <1>1, <1>2, <1>5
  <2> QED
    BY <1>1, <1>3, <2>1, <2>2, StartsMoves DEF SessionRequest
<1> QED
  BY <1>4, <1>5

LEMMA GrantedMoves ==
  ASSUME OidcInv, NEW c \in Call, Granted(c)
  PROVE  OidcInv'
<1>1. call[c] \in CallRecord /\ call \in [Call -> CallRecord]
  BY DEF OidcInv, LoginTypeOK, CallRecord
<1>2. PICK opened \in {Opened(call[c].ref, LoginOf[route[c].flow]), {}} :
        /\ opened = Opened(call[c].ref, LoginOf[route[c].flow]) \/ call[c].ref \in over
        /\ call' = [call EXCEPT ![c].pc = IF opened = {} THEN "creating" ELSE "transact"]
  BY DEF Granted
<1>3. RequestInv(c)
  BY DEF OidcInv, RequestsInv
<1>4. opened # {} => call[c].ref \in used
  BY <1>2, <1>3, OidcAssumption DEF RequestInv, Opened
<1>41. opened = {} => Opened(call[c].ref, LoginOf[route[c].flow]) \subseteq over
  BY <1>2 DEF Opened
<1> DEFINE pc == IF opened = {} THEN "creating" ELSE "transact"
           it == [kind |-> call[c].kind, ref |-> call[c].ref, pc |-> pc,
                  outcome |-> call[c].outcome, late |-> call[c].late]
<1>5. pc \in Points
  BY <1>1 DEF CallRecord, Points
<1>6. it \in CallRecord
  BY <1>1, <1>5 DEF CallRecord
<1>7. /\ call'[c].kind = call[c].kind /\ call'[c].ref = call[c].ref /\ call'[c].pc = pc
      /\ call'[c].outcome = call[c].outcome /\ call'[c].late = call[c].late
      /\ call' = [call EXCEPT ![c] = call'[c]]
  BY <1>1, <1>2 DEF CallRecord
<1>71. call'[c] \in CallRecord
  <2>1. \A e \in CallRecord : [e EXCEPT !.pc = pc] \in CallRecord
    BY <1>5 DEF CallRecord
  <2> QED
    BY <1>1, <1>2, <2>1
<1>8. call' = [call EXCEPT ![c] = it]
  BY <1>7, <1>71 DEF CallRecord
<1>9. Alone(c, it) /\ call'[c] = it
  BY <1>1, <1>6, <1>8 DEF Alone
<1>10. \/ pc = "creating" /\ Opened(call[c].ref, LoginOf[route[c].flow]) \subseteq over
       \/ pc = "transact" /\ call[c].ref \in used
  BY <1>4, <1>41
<1>11. /\ call[c].kind = "callback" /\ call[c].outcome = "none"
       /\ route[c].flow \in Ref /\ route[c].browser \in Browser /\ begun[route[c].flow] = route[c].browser
       /\ route[c].flow \notin used /\ route[c].flow \notin code
  BY <1>3 DEF Granted, RequestInv, OidcInv, RecordsInv
<1>12. code' = code \cup {route[c].flow} /\ used' = used /\ held' = held /\ over' = over
       /\ ended' = ended /\ begun' = begun /\ route' = route
  BY DEF Granted, storeVars
<1> HIDE DEF pc
<1>13. ~call[c].late
  BY <1>3, <1>11 DEF RequestInv
<1>15. RequestInv(c)'
  BY <1>9, <1>10, <1>11, <1>12, <1>13, <1>3 DEF RequestInv, Past
<1>16. call[c].pc # "refreshing" /\ it.pc # "refreshing"
  BY <1>10 DEF Granted
<1>17. code \subseteq code' /\ code' \subseteq Ref /\ route' \in [Call -> [browser : Browser \cup {Nobody}, flow : Ref \cup {Nobody}]]
  BY <1>11, <1>12 DEF OidcInv, LoginTypeOK
<1> HIDE DEF it
<1> QED
  BY <1>9, <1>11, <1>12, <1>15, <1>16, <1>17, JarStays, QuietMoves DEF Granted, storeVars

LEMMA CallbackRevokedMoves ==
  ASSUME OidcInv, NEW c \in Call, CallbackRevoked(c)
  PROVE  OidcInv'
<1>1. call[c] \in CallRecord /\ call \in [Call -> CallRecord]
  BY DEF OidcInv, LoginTypeOK, CallRecord
<1> DEFINE it == [kind |-> call[c].kind, ref |-> call[c].ref, pc |-> "creating",
                  outcome |-> "none", late |-> call[c].late]
<1>2. /\ call'[c].kind = call[c].kind /\ call'[c].ref = call[c].ref /\ call'[c].pc = "creating"
      /\ call'[c].outcome = "none" /\ call'[c].late = call[c].late
      /\ call' = [call EXCEPT ![c] = call'[c]]
  BY <1>1 DEF CallbackRevoked, CallRecord
<1>3. call'[c] \in CallRecord
  <2>1. \A e \in CallRecord : [e EXCEPT !.pc = "creating"] \in CallRecord
    BY DEF CallRecord, Points
  <2>2. \A e \in CallRecord : [e EXCEPT !.outcome = "none"] \in CallRecord
    BY DEF CallRecord, Outcomes
  <2> QED
    BY <1>1, <2>1, <2>2 DEF CallbackRevoked
<1>4. call' = [call EXCEPT ![c] = it] /\ it \in CallRecord
  BY <1>2, <1>3 DEF CallRecord
<1>5. Alone(c, it) /\ call'[c] = it
  BY <1>1, <1>4 DEF Alone
<1>6. call[c].pc = "answered" /\ call[c].kind = "callback" /\ call[c].outcome = "ok" /\ RequestInv(c)
  BY DEF CallbackRevoked, OidcInv, RequestsInv
<1>7. UNCHANGED <<used, held, over, code, ended, begun, route>>
  BY DEF CallbackRevoked, storeVars
<1>8. RequestInv(c)' /\ Past(c)
  BY <1>5, <1>6, <1>7 DEF RequestInv, Past
<1>9. call[c].pc # "refreshing" /\ it.pc # "refreshing"
  BY <1>6
<1>10. code \subseteq code' /\ code' \subseteq Ref /\ route' \in [Call -> [browser : Browser \cup {Nobody}, flow : Ref \cup {Nobody}]]
  BY <1>7 DEF OidcInv, LoginTypeOK
<1> HIDE DEF it
<1> QED
  BY <1>5, <1>7, <1>8, <1>9, <1>10, JarStays, QuietMoves DEF CallbackRevoked, storeVars

LEMMA RespondedMoves ==
  ASSUME OidcInv, NEW c \in Call, Responded(c),
         jar' \in [Browser -> [session : Ref \cup {Nobody}, transient : Ref \cup {Nobody}]], JarInv'
  PROVE  OidcInv'
<1>1. IdleCall \in CallRecord
  BY DEF IdleCall, CallRecord, Kinds, Points, Outcomes
<1>2. Alone(c, IdleCall)
  BY <1>1 DEF Responded, Alone
<1>3. call'[c] = IdleCall
  BY <1>2, AloneIs DEF OidcInv
<1>4. RequestInv(c)' /\ ~Past(c)'
  BY <1>3 DEF RequestInv, Past, IdleCall
<1>5. call[c].pc # "refreshing" /\ IdleCall.pc # "refreshing"
  BY DEF Responded, IdleCall
<1>6. /\ route' \in [Call -> [browser : Browser \cup {Nobody}, flow : Ref \cup {Nobody}]]
      /\ \A d \in Call \ {c} : route'[d] = route[d]
  BY DEF Responded, NoRoute, OidcInv, LoginTypeOK
<1>7. code \subseteq code' /\ code' \subseteq Ref
  BY DEF Responded, OidcInv, LoginTypeOK
<1> QED
  BY <1>2, <1>4, <1>5, <1>6, <1>7, QuietMoves DEF Responded

LEMMA ResponseLostMoves ==
  ASSUME OidcInv, NEW c \in Call, ResponseLost(c)
  PROVE  OidcInv'
BY JarStays, RespondedMoves DEF ResponseLost, Responded, storeVars

LEMMA DeliveredMoves ==
  ASSUME OidcInv, NEW c \in Call, Delivered(c)
  PROVE  OidcInv'
<1> DEFINE b == route[c].browser
           Jars == [session : Ref \cup {Nobody}, transient : Ref \cup {Nobody}]
<1>1. jar' = [jar EXCEPT ![b] = JarAfter(c)] /\ jar \in [Browser -> Jars] /\ b \in Browser \cup {Nobody}
  BY DEF Delivered, OidcInv, LoginTypeOK
<1>2. begun' = begun /\ used' = used
  BY DEF Delivered, Responded, storeVars
<1>3. ASSUME b \in Browser
      PROVE  /\ JarAfter(c) \in Jars
             /\ JarAfter(c).session # Nobody => JarAfter(c).session \in used /\ begun[JarAfter(c).session] = b
             /\ JarAfter(c).transient # Nobody => begun[JarAfter(c).transient] = b
  <2>1. /\ jar[b] \in Jars
        /\ jar[b].session # Nobody => jar[b].session \in used /\ begun[jar[b].session] = b
        /\ jar[b].transient # Nobody => begun[jar[b].transient] = b
    BY <1>1, <1>3 DEF OidcInv, JarInv
  <2>2. CASE call[c].kind = "callback" /\ call[c].outcome = "signedIn"
    <3>1. JarAfter(c) = [session |-> route[c].flow, transient |-> Nobody]
      BY <2>2 DEF JarAfter
    <3>2. route[c].flow \in Ref /\ begun[route[c].flow] = b /\ route[c].flow \in used
      BY <2>2 DEF OidcInv, RequestsInv, RequestInv
    <3> QED
      BY <3>1, <3>2
  <2>3. CASE call[c].kind = "callback" /\ call[c].outcome # "signedIn"
    <3>1. JarAfter(c) = [jar[b] EXCEPT !.transient = Nobody]
      BY <2>3 DEF JarAfter
    <3> QED
      BY <3>1, <2>1
  <2>4. CASE call[c].kind = "logout"
    <3>1. JarAfter(c) = [jar[b] EXCEPT !.session = Nobody]
      BY <2>4 DEF JarAfter
    <3> QED
      BY <3>1, <2>1
  <2>5. CASE call[c].kind \notin {"callback", "logout"}
    <3>1. JarAfter(c) = jar[b]
      BY <2>5 DEF JarAfter
    <3> QED
      BY <3>1, <2>1
  <2> QED
    BY <2>2, <2>3, <2>4, <2>5
<1>4. jar' \in [Browser -> Jars] /\ \A x \in Browser : jar'[x] = IF x = b THEN JarAfter(c) ELSE jar[x]
  <2>1. CASE b \in Browser
    BY <1>1, <1>3, <2>1
  <2>2. CASE b \notin Browser
    BY <1>1, <2>2
  <2> QED
    BY <2>1, <2>2
<1>5. JarInv'
  <2> HIDE DEF b, Jars
  <2> QED
    BY <1>2, <1>3, <1>4 DEF OidcInv, JarInv
<1> QED
  BY <1>4, <1>5, RespondedMoves DEF Delivered

LEMMA LoginRouteMoves ==
  ASSUME OidcInv, NEW b \in Browser, NEW f \in Ref, LoginRoute(b, f)
  PROVE  OidcInv'
<1>1. /\ begun' \in [Ref -> Browser \cup {Nobody}] /\ begun'[f] = b
      /\ \A g \in Ref : begun[g] # Nobody => begun'[g] = begun[g]
  BY DEF LoginRoute, OidcInv, LoginTypeOK
<1>2. /\ jar' \in [Browser -> [session : Ref \cup {Nobody}, transient : Ref \cup {Nobody}]]
      /\ \A x \in Browser : jar'[x].session = jar[x].session
                            /\ jar'[x].transient = IF x = b THEN f ELSE jar[x].transient
  BY DEF LoginRoute, OidcInv, LoginTypeOK
<1>3. JarInv'
  <2> SUFFICES ASSUME NEW x \in Browser
               PROVE  /\ jar'[x].session # Nobody => jar'[x].session \in used' /\ begun'[jar'[x].session] = x
                      /\ jar'[x].transient # Nobody => begun'[jar'[x].transient] = x
    BY DEF JarInv
  <2>1. jar[x] \in [session : Ref \cup {Nobody}, transient : Ref \cup {Nobody}] /\ x # Nobody
    BY BrowserAssumption DEF OidcInv, LoginTypeOK
  <2>2. /\ jar[x].session # Nobody => jar[x].session \in used /\ begun[jar[x].session] = x
        /\ jar[x].transient # Nobody => begun[jar[x].transient] = x
    BY DEF OidcInv, JarInv
  <2>3. used' = used
    BY DEF LoginRoute, tokenVars
  <2> QED
    BY <1>1, <1>2, <2>1, <2>2, <2>3
<1> QED
  <2>1. UNCHANGED <<held, used, refresh, lock, call, route, issuerVars, uncommitted, ended, code>>
    BY DEF LoginRoute, tokenVars, issuerVars
  <2>2. due' \subseteq used /\ over' \subseteq used /\ over \subseteq over'
    BY DEF LoginRoute, tokenVars, OidcInv, RecordsInv
  <2> QED
    BY <1>1, <1>2, <1>3, <2>1, <2>2, ElsewhereMoves

LEMMA TransientExpiresMoves ==
  ASSUME OidcInv, NEW b \in Browser, TransientExpires(b)
  PROVE  OidcInv'
<1>1. /\ jar' \in [Browser -> [session : Ref \cup {Nobody}, transient : Ref \cup {Nobody}]]
      /\ \A x \in Browser : jar'[x].session = jar[x].session
                            /\ jar'[x].transient = IF x = b THEN Nobody ELSE jar[x].transient
  BY DEF TransientExpires, OidcInv, LoginTypeOK
<1>2. JarInv'
  BY <1>1 DEF TransientExpires, tokenVars, OidcInv, JarInv
<1> QED
  <2>1. UNCHANGED <<held, used, refresh, lock, call, route, issuerVars, uncommitted, ended, code, begun>>
    BY DEF TransientExpires, tokenVars, issuerVars
  <2>2. due' \subseteq used /\ over' \subseteq used /\ over \subseteq over'
    BY DEF TransientExpires, tokenVars, OidcInv, RecordsInv
  <2>3. begun' \in [Ref -> Browser \cup {Nobody}]
    BY <2>1 DEF OidcInv, LoginTypeOK
  <2> QED
    BY <1>1, <1>2, <2>1, <2>2, <2>3, ElsewhereMoves

LEMMA TimeMoves ==
  ASSUME OidcInv, NEW r \in Ref, TokenAges(r) \/ SessionEnds(r), UNCHANGED <<jar, begun, code, route>>
  PROVE  OidcInv'
<1>1. UNCHANGED <<held, used, refresh, lock, call, issuerVars, uncommitted, ended>>
  BY DEF TokenAges, SessionEnds, storeVars
<1>2. due' \subseteq used /\ over' \subseteq used /\ over \subseteq over'
  BY DEF TokenAges, SessionEnds, storeVars, OidcInv, RecordsInv
<1> QED
  BY <1>1, <1>2, JarStays, ElsewhereMoves DEF OidcInv, LoginTypeOK

\* A transaction that committed, or the loss of one, is answered.
LEMMA TransactionAnswered ==
  ASSUME OidcInv, NEW c \in Call, NEW o \in {"served", "refused", "ok"}, Answer(c, o),
         Answered(c, [kind |-> call[c].kind, ref |-> call[c].ref, pc |-> "answered",
                      outcome |-> o, late |-> call[c].late], call[c].ref),
         (uncommitted' = uncommitted /\ (call[c].pc = "refreshing" => Delete(call[c].ref)))
         \/ uncommitted' = uncommitted \cup {call[c].ref},
         ended' = ended \/ (ended' = ended \cup {call[c].ref} /\ Delete(call[c].ref)),
         o = "served" => call[c].ref \notin ended,
         o = "ok" => Delete(call[c].ref)
  PROVE  OidcInv'
<1> DEFINE it == [kind |-> call[c].kind, ref |-> call[c].ref, pc |-> "answered",
                  outcome |-> o, late |-> call[c].late]
<1>1. Alone(c, it) /\ call'[c] = it
  BY AnswerIs DEF OidcInv, Outcomes
<1>2. RequestInv(c) /\ call[c].pc \in {"transact", "refreshing"}
  BY DEF OidcInv, RequestsInv, Answered
<1>3. UNCHANGED <<used, over, code, begun, route>> /\ ended \subseteq ended' /\ held' \subseteq held
  BY DEF Answered, storeVars, Delete
<1>4. o = "ok" => \A x : Opened(call[c].ref, x) \cap held' = {}
  BY DEF Delete, Opened
<1>5. call[c].outcome = "none"
  BY <1>2 DEF RequestInv
<1>6. call[c].pc = "refreshing" => call[c].kind = "access"
  BY DEF OidcInv, LockInv
<1>7. RequestInv(c)'
  BY <1>1, <1>2, <1>3, <1>4, <1>5, <1>6 DEF RequestInv, Past
<1>8. Past(c)' => Past(c)
  BY <1>1, <1>2, <1>6 DEF Past
<1> QED
  BY <1>1, <1>7, <1>8, AnsweredMoves

LEMMA HearsIs ==
  ASSUME NEW c \in Call, NEW o \in {"served", "refused", "ok"}, NEW heard \in BOOLEAN, Hears(c, o, heard)
  PROVE  \E said \in {"served", "refused", "ok"} : Answer(c, said) /\ said \in {o, "refused"}
BY DEF Hears

LEMMA SessionMoves ==
  ASSUME OidcInv, NEW c \in Call, NEW heard \in BOOLEAN, Session(c, heard), UNCHANGED <<jar, begun, code, route>>
  PROVE  OidcInv'
<1> DEFINE o == IF Live(call[c].ref) THEN "served" ELSE "refused"
<1>1. o \in {"served", "refused", "ok"} /\ Hears(c, o, heard)
  BY DEF Session
<1>2. Live(call[c].ref) => call[c].ref \notin ended
  BY DEF Live, OidcInv, RecordsInv
<1> HIDE DEF o
<1>3. PICK said \in {"served", "refused", "ok"} : Answer(c, said) /\ said \in {o, "refused"}
  BY <1>1, HearsIs
<1>4. said # "ok" /\ (said = "served" => call[c].ref \notin ended)
  BY <1>2, <1>3 DEF o
<1>5. Answered(c, [kind |-> call[c].kind, ref |-> call[c].ref, pc |-> "answered",
                   outcome |-> said, late |-> call[c].late], call[c].ref)
  BY DEF Answered, Session, Transacts
<1>6. uncommitted' = uncommitted /\ ended' = ended /\ call[c].pc # "refreshing"
  BY DEF Session, Transacts
<1> QED
  BY <1>3, <1>4, <1>5, <1>6, TransactionAnswered

LEMMA AccessDecidedMoves ==
  ASSUME OidcInv, NEW c \in Call, NEW heard \in BOOLEAN, AccessDecided(c, heard), UNCHANGED <<jar, begun, code, route>>
  PROVE  OidcInv'
<1>1. PICK o \in {"served", "refused", "ok"} :
        /\ Hears(c, o, heard) /\ o # "ok" /\ (o = "served" => Live(call[c].ref))
  BY DEF AccessDecided
<1>2. Live(call[c].ref) => call[c].ref \notin ended
  BY DEF Live, OidcInv, RecordsInv
<1>3. PICK said \in {"served", "refused", "ok"} : Answer(c, said) /\ said \in {o, "refused"}
  BY <1>1, HearsIs
<1>4. said # "ok" /\ (said = "served" => call[c].ref \notin ended)
  BY <1>1, <1>2, <1>3
<1>5. Answered(c, [kind |-> call[c].kind, ref |-> call[c].ref, pc |-> "answered",
                   outcome |-> said, late |-> call[c].late], call[c].ref)
  BY DEF Answered, AccessDecided, Transacts
<1>6. uncommitted' = uncommitted /\ ended' = ended /\ call[c].pc # "refreshing"
  BY DEF AccessDecided, Transacts
<1> QED
  BY <1>3, <1>4, <1>5, <1>6, TransactionAnswered

LEMMA RevokeMoves ==
  ASSUME OidcInv, NEW c \in Call, NEW heard \in BOOLEAN, Revoke(c, heard), UNCHANGED <<jar, begun, code, route>>
  PROVE  OidcInv'
<1>1. Hears(c, "ok", heard) /\ Delete(call[c].ref)
  BY DEF Revoke
<1>2. PICK said \in {"served", "refused", "ok"} : Answer(c, said) /\ said \in {"ok", "refused"}
  BY <1>1, HearsIs
<1>3. Answered(c, [kind |-> call[c].kind, ref |-> call[c].ref, pc |-> "answered",
                   outcome |-> said, late |-> call[c].late], call[c].ref)
  BY DEF Answered, Revoke, Transacts
<1>4. uncommitted' = uncommitted /\ ended' \in {ended, ended \cup {call[c].ref}} /\ call[c].pc # "refreshing"
  BY DEF Revoke, Transacts
<1> QED
  BY <1>1, <1>2, <1>3, <1>4, TransactionAnswered

LEMMA RefreshFailsMoves ==
  ASSUME OidcInv, NEW c \in Call, NEW heard \in BOOLEAN, RefreshFails(c, heard), UNCHANGED <<jar, begun, code, route>>
  PROVE  OidcInv'
<1>1. Hears(c, "refused", heard) /\ Delete(call[c].ref)
  BY DEF RefreshFails
<1>2. Answer(c, "refused")
  BY <1>1, HearsIs
<1>3. Answered(c, [kind |-> call[c].kind, ref |-> call[c].ref, pc |-> "answered",
                   outcome |-> "refused", late |-> call[c].late], call[c].ref)
  BY DEF Answered, RefreshFails, Holds, Unlock
<1>4. uncommitted' = uncommitted /\ ended' = ended
  BY DEF RefreshFails
<1> QED
  BY <1>1, <1>2, <1>3, <1>4, TransactionAnswered

LEMMA RefreshUncommittedMoves ==
  ASSUME OidcInv, NEW c \in Call, RefreshUncommitted(c), UNCHANGED <<jar, begun, code, route>>
  PROVE  OidcInv'
<1>1. Answer(c, "refused") /\ uncommitted' = uncommitted \cup {call[c].ref} /\ ended' = ended
  BY DEF RefreshUncommitted
<1>2. Answered(c, [kind |-> call[c].kind, ref |-> call[c].ref, pc |-> "answered",
                   outcome |-> "refused", late |-> call[c].late], call[c].ref)
  BY DEF Answered, RefreshUncommitted, Holds, Unlock
<1> QED
  BY <1>1, <1>2, TransactionAnswered

LEMMA RefreshMoves ==
  ASSUME OidcInv, NEW c \in Call, Refresh(c), UNCHANGED <<jar, begun, code, route>>
  PROVE  OidcInv'
<1> DEFINE r == call[c].ref
           it == [kind |-> call[c].kind, ref |-> r, pc |-> "refreshing",
                  outcome |-> call[c].outcome, late |-> call[c].late]
<1>1. call[c] \in CallRecord /\ call \in [Call -> CallRecord]
  BY DEF OidcInv, LoginTypeOK, CallRecord
<1>2. /\ call[c].kind = "access" /\ call[c].pc = "transact" /\ lock[r] = Nobody /\ r \in held
      /\ call' = [call EXCEPT ![c].pc = "refreshing"] /\ lock' = [lock EXCEPT ![r] = c]
      /\ UNCHANGED <<storeVars, over, uncommitted, ended>>
  BY DEF Refresh, Transacts, Live
<1>3. call'[c] = it
  <2>1. /\ call'[c].kind = call[c].kind /\ call'[c].ref = call[c].ref /\ call'[c].pc = "refreshing"
        /\ call'[c].outcome = call[c].outcome /\ call'[c].late = call[c].late
    BY <1>1, <1>2 DEF CallRecord
  <2>2. call'[c] \in CallRecord
    BY <1>1, <1>2 DEF CallRecord, Points
  <2> QED
    BY <2>1, <2>2 DEF CallRecord
<1>4. Alone(c, it)
  <2>1. call' = [call EXCEPT ![c] = call'[c]] /\ call'[c] \in CallRecord
    BY <1>1, <1>2 DEF CallRecord, Points
  <2> QED
    BY <1>3, <2>1 DEF Alone
<1>5. /\ call' \in [Call -> CallRecord] /\ \A d \in Call \ {c} : call'[d] = call[d]
  BY <1>4, AloneIs DEF OidcInv
<1>6. r \in used /\ r \in Ref /\ c # Nobody
  BY <1>2, OidcAssumption DEF OidcInv, RecordsInv
<1>7. lock' \in [Ref -> Call \cup {Nobody}] /\ lock'[r] = c /\ \A s \in Ref \ {r} : lock'[s] = lock[s]
  BY <1>2, <1>6 DEF OidcInv, LoginTypeOK
<1>8. UNCHANGED <<held, used, due, refresh, over, uncommitted, ended, jar, begun, code, route>>
  BY <1>2 DEF storeVars
<1>9. reused' \subseteq uncommitted
  BY <1>2, <1>6 DEF Refresh, OidcInv, IssuerInv
<1>10. presented' = presented \cup {<<r, refresh[r]>>} /\ refresh \in [Ref -> 0..MaxRefresh]
  BY DEF Refresh, OidcInv, LoginTypeOK
<1> HIDE DEF it
<1>11. LoginTypeOK'
  <2>1. presented' \subseteq Ref \X (0..MaxRefresh)
    BY <1>6, <1>10 DEF OidcInv, LoginTypeOK
  <2>2. reused' \subseteq Ref
    BY <1>9 DEF OidcInv, LoginTypeOK
  <2> QED
    BY <1>5, <1>7, <1>8, <2>1, <2>2 DEF OidcInv, LoginTypeOK, CallRecord
<1>12. RecordsInv' /\ JarInv'
  BY <1>8 DEF OidcInv, RecordsInv, JarInv
<1>13. LockInv'
  <2>1. \A s \in Ref : lock'[s] # Nobody => call'[lock'[s]].pc = "refreshing" /\ call'[lock'[s]].ref = s
    <3>1. call'[c].pc = "refreshing" /\ call'[c].ref = r
      BY <1>3 DEF it
    <3>2. \A s \in Ref : lock[s] # Nobody => lock[s] \in Call \ {c}
      BY <1>2 DEF OidcInv, LoginTypeOK, LockInv
    <3> QED
      BY <1>5, <1>7, <3>1, <3>2 DEF OidcInv, LockInv
  <2>2. ASSUME NEW d \in Call, call'[d].pc = "refreshing"
        PROVE  /\ call'[d].kind = "access" /\ call'[d].ref \in held'
               /\ lock'[call'[d].ref] = d
    <3>1. CASE d = c
      BY <3>1, <1>2, <1>3, <1>7, <1>8 DEF it
    <3>2. CASE d # c
      <4>1. /\ call'[d] = call[d] /\ call[d].kind = "access" /\ call[d].ref \in held
            /\ lock[call[d].ref] = d
        BY <3>2, <2>2, <1>5 DEF OidcInv, LockInv
      <4>2. call[d].ref # r /\ call[d].ref \in Ref
        BY <4>1, <1>2, OidcAssumption DEF OidcInv, RecordsInv
      <4> QED
        BY <4>1, <4>2, <1>7, <1>8
    <3> QED
      BY <3>1, <3>2
  <2> QED
    BY <2>1, <2>2 DEF LockInv
<1>14. IssuerInv'
  <2>1. refresh[r] \in Nat
    BY <1>6, <1>10
  <2>2. \A s \in Ref, n \in Nat : <<s, n>> \in presented' => s \in used /\ n <= refresh[s]
    BY <1>6, <1>10, <2>1 DEF OidcInv, IssuerInv
  <2>3. \A s \in held \ uncommitted : lock'[s] = Nobody => <<s, refresh[s]>> \notin presented'
    <3>1. \A s \in held \ uncommitted : lock'[s] = Nobody => s # r /\ lock[s] = Nobody
      BY <1>6, <1>7 DEF OidcInv, RecordsInv
    <3> QED
      BY <1>10, <3>1 DEF OidcInv, IssuerInv
  <2> QED
    BY <1>8, <1>9, <2>2, <2>3 DEF IssuerInv
<1>15. RequestInv(c)' /\ ~Past(c)'
  <2>1. RequestInv(c)
    BY DEF OidcInv, RequestsInv
  <2> QED
    BY <1>2, <1>3, <1>6, <1>8, <2>1 DEF it, RequestInv, Past
<1>16. MovesOn(c)
  BY <1>8 DEF MovesOn
<1> QED
  BY <1>4, <1>8, <1>11, <1>12, <1>13, <1>14, <1>15, <1>16, CallMoves

\* What the issuer has seen of r after it has answered a refresh: the token that the record
\* carries now is the one to present next.
LEMMA GrantIsNext ==
  ASSUME NEW r \in Ref, NEW rotates \in BOOLEAN, NEW n \in Nat, NEW m \in Nat, NEW seen, NEW next,
         m = IF rotates THEN n + 1 ELSE n,
         next = IF rotates THEN seen ELSE seen \ {<<r, n>>},
         \A k \in Nat : <<r, k>> \in seen => k <= n
  PROVE  <<r, m>> \notin next /\ n <= m /\ next \subseteq seen
<1>1. CASE rotates
  <2>1. m \in Nat /\ ~(m <= n)
    BY <1>1
  <2> QED
    BY <1>1, <2>1
<1>2. CASE ~rotates
  BY <1>2
<1> QED
  BY <1>1, <1>2

LEMMA RefreshGrantedMoves ==
  ASSUME OidcInv, NEW c \in Call, NEW rotates \in BOOLEAN, NEW stale \in BOOLEAN, NEW heard \in BOOLEAN,
         RefreshGranted(c, rotates, stale, heard), UNCHANGED <<jar, begun, code, route>>
  PROVE  /\ OidcInv'
         /\ UNCHANGED <<held, used>> /\ call[c].ref \in held
         /\ refresh' = [refresh EXCEPT ![call[c].ref] = IF rotates THEN @ + 1 ELSE @]
<1> DEFINE r == call[c].ref
           m == IF rotates THEN refresh[r] + 1 ELSE refresh[r]
<1>1. /\ call[c].kind = "access" /\ r \in held /\ lock[r] = c
  BY DEF RefreshGranted, Holds, OidcInv, LockInv
<1>2. r \in used /\ r \in Ref
  BY <1>1 DEF OidcInv, RecordsInv
<1>3. /\ held' = held /\ due' \subseteq due
      /\ refresh' = [refresh EXCEPT ![r] = IF rotates THEN @ + 1 ELSE @]
      /\ presented' = IF rotates THEN presented ELSE presented \ {<<r, refresh[r]>>}
      /\ lock' = [lock EXCEPT ![r] = IF @ = c THEN Nobody ELSE @]
      /\ UNCHANGED <<used, over, reused, uncommitted, ended>>
      /\ (rotates => refresh[r] < MaxRefresh)
  BY <1>1 DEF RefreshGranted, Unlock
<1>4. PICK o \in {"served", "refused", "ok"} : Answer(c, o) /\ o \in {"served", "refused"}
  BY HearsIs DEF RefreshGranted
<1> DEFINE it == [kind |-> call[c].kind, ref |-> call[c].ref, pc |-> "answered",
                  outcome |-> o, late |-> call[c].late]
<1>5. Alone(c, it) /\ call'[c] = it
  BY <1>4, AnswerIs DEF OidcInv, Outcomes
<1>6. /\ call' \in [Call -> CallRecord] /\ \A d \in Call \ {c} : call'[d] = call[d]
  BY <1>5, AloneIs DEF OidcInv
<1>7. refresh \in [Ref -> 0..MaxRefresh] /\ refresh[r] \in Nat /\ MaxRefresh \in Nat
  BY <1>2, OidcAssumption DEF OidcInv, LoginTypeOK
<1>8. m \in 0..MaxRefresh /\ m \in Nat
  BY <1>2, <1>3, <1>7
<1>9. refresh' \in [Ref -> 0..MaxRefresh] /\ refresh'[r] = m /\ \A s \in Ref \ {r} : refresh'[s] = refresh[s]
  BY <1>2, <1>3, <1>7, <1>8
<1>10. lock' \in [Ref -> Call \cup {Nobody}] /\ lock'[r] = Nobody /\ \A s \in Ref \ {r} : lock'[s] = lock[s]
  BY <1>1, <1>2, <1>3 DEF OidcInv, LoginTypeOK
<1>11. <<r, m>> \notin presented' /\ refresh[r] <= m /\ presented' \subseteq presented
  <2>1. \A k \in Nat : <<r, k>> \in presented => k <= refresh[r]
    BY <1>2 DEF OidcInv, IssuerInv
  <2> QED
    BY <1>2, <1>3, <1>7, <1>8, <2>1, GrantIsNext
<1> HIDE DEF it, m
<1>12. LoginTypeOK'
  <2>1. presented' \subseteq Ref \X (0..MaxRefresh) /\ held' \subseteq used' /\ used' \subseteq Ref
        /\ due' \subseteq used' /\ over' \subseteq used' /\ reused' \subseteq Ref
        /\ uncommitted' \subseteq Ref /\ ended' \subseteq Ref
    BY <1>3, <1>11 DEF OidcInv, LoginTypeOK
  <2> QED
    BY <1>6, <1>9, <1>10, <2>1 DEF OidcInv, LoginTypeOK, CallRecord
<1>13. RecordsInv' /\ JarInv'
  BY <1>3 DEF OidcInv, RecordsInv, JarInv
<1>14. LockInv'
  <2>1. \A s \in Ref : lock'[s] # Nobody => call'[lock'[s]].pc = "refreshing" /\ call'[lock'[s]].ref = s
    <3>1. \A s \in Ref \ {r} : lock[s] # Nobody => lock[s] \in Call \ {c}
      BY <1>1 DEF OidcInv, LoginTypeOK, LockInv
    <3> QED
      BY <1>6, <1>10, <3>1 DEF OidcInv, LockInv
  <2>2. ASSUME NEW d \in Call, call'[d].pc = "refreshing"
        PROVE  /\ call'[d].kind = "access" /\ call'[d].ref \in held'
               /\ lock'[call'[d].ref] = d
    <3>1. d # c
      BY <2>2, <1>5 DEF it
    <3>2. /\ call'[d] = call[d] /\ call[d].kind = "access" /\ call[d].ref \in held
          /\ lock[call[d].ref] = d
      BY <3>1, <2>2, <1>6 DEF OidcInv, LockInv
    <3>3. call[d].ref # r /\ call[d].ref \in Ref
      BY <3>1, <3>2, <1>1 DEF OidcInv, RecordsInv
    <3> QED
      BY <3>2, <3>3, <1>3, <1>10
  <2> QED
    BY <2>1, <2>2 DEF LockInv
<1>15. IssuerInv'
  <2>1. \A s \in Ref, n \in Nat : <<s, n>> \in presented' => s \in used /\ n <= refresh'[s]
    <3> SUFFICES ASSUME NEW s \in Ref, NEW n \in Nat, <<s, n>> \in presented'
                 PROVE  s \in used /\ n <= refresh'[s]
      OBVIOUS
    <3>1. s \in used /\ n <= refresh[s]
      BY <1>11 DEF OidcInv, IssuerInv
    <3>2. CASE s = r
      <4>1. n <= refresh[r] /\ refresh[r] <= m
        BY <3>1, <3>2, <1>11
      <4>2. n <= m
        BY <4>1, <1>7, <1>8
      <4> QED
        BY <3>1, <3>2, <4>2, <1>9
    <3>3. CASE s # r
      BY <3>1, <3>3, <1>9
    <3> QED
      BY <3>2, <3>3
  <2>2. \A s \in held \ uncommitted : lock'[s] = Nobody => <<s, refresh'[s]>> \notin presented'
    <3> SUFFICES ASSUME NEW s \in held \ uncommitted, lock'[s] = Nobody
                 PROVE  <<s, refresh'[s]>> \notin presented'
      OBVIOUS
    <3>1. CASE s = r
      BY <3>1, <1>9, <1>11
    <3>2. CASE s # r
      <4>1. s \in Ref /\ lock[s] = Nobody
        BY <3>2, <1>10 DEF OidcInv, RecordsInv
      <4>2. <<s, refresh[s]>> \notin presented
        BY <4>1 DEF OidcInv, IssuerInv
      <4> QED
        BY <3>2, <4>1, <4>2, <1>9, <1>11
    <3> QED
      BY <3>1, <3>2
  <2> QED
    BY <1>3, <2>1, <2>2 DEF OidcInv, IssuerInv
<1>16. RequestInv(c)' /\ ~Past(c)'
  <2>1. RequestInv(c) /\ call[c].ref \notin ended
    BY <1>1 DEF OidcInv, RequestsInv, RecordsInv
  <2> QED
    BY <1>1, <1>3, <1>4, <1>5, <2>1 DEF it, RequestInv, Past
<1>17. MovesOn(c)
  BY <1>3 DEF MovesOn
<1>18. OidcInv'
  BY <1>5, <1>12, <1>13, <1>14, <1>15, <1>16, <1>17, CallMoves
<1> QED
  BY <1>1, <1>3, <1>18

LEMMA CallbackCreatesMoves ==
  ASSUME OidcInv, NEW c \in Call, NEW refreshable \in BOOLEAN, NEW heard \in BOOLEAN,
         CallbackCreates(c, refreshable, heard)
  PROVE  /\ OidcInv'
         /\ route[c].flow \in Ref \ used
<1> DEFINE r == route[c].flow
           m == IF refreshable THEN 1 ELSE 0
           o == IF heard THEN "signedIn" ELSE "refused"
           it == [kind |-> call[c].kind, ref |-> call[c].ref, pc |-> "answered",
                  outcome |-> o, late |-> call[c].late]
<1>1. call[c].pc = "creating" /\ RequestInv(c) /\ Answer(c, o)
  BY DEF CallbackCreates, Create, Hears, OidcInv, RequestsInv
<1>2. /\ call[c].kind = "callback" /\ call[c].outcome = "none"
      /\ Opened(call[c].ref, LoginOf[r]) \cap held \subseteq over
      /\ r \in Ref /\ route[c].browser \in Browser /\ begun[r] = route[c].browser
      /\ r \in code \ used /\ call[c].ref \in used \cup {Nobody}
  BY <1>1 DEF RequestInv, Past
<1>3. /\ held' = held \cup {r} /\ used' = used \cup {r}
      /\ refresh' = [refresh EXCEPT ![r] = m]
      /\ UNCHANGED <<due, over, lock, issuerVars, uncommitted, ended, jar, begun, code, route>>
  BY DEF CallbackCreates, Create
<1>4. o \in Outcomes
  BY DEF Outcomes
<1> HIDE DEF o
<1>5. Alone(c, it) /\ call'[c] = it
  BY <1>1, <1>4, AnswerIs DEF OidcInv
<1>6. /\ call' \in [Call -> CallRecord] /\ \A d \in Call \ {c} : call'[d] = call[d]
  BY <1>5, AloneIs DEF OidcInv
<1>7. m \in 0..MaxRefresh /\ m \in Nat
  BY OidcAssumption
<1>8. refresh' \in [Ref -> 0..MaxRefresh] /\ refresh'[r] = m /\ \A s \in Ref \ {r} : refresh'[s] = refresh[s]
  BY <1>2, <1>3, <1>7 DEF OidcInv, LoginTypeOK
<1> HIDE DEF it, m
<1>9. LoginTypeOK'
  <2>1. presented' = presented /\ held' \subseteq used' /\ used' \subseteq Ref
        /\ due' \subseteq used' /\ over' \subseteq used' /\ reused' = reused
    BY <1>2, <1>3 DEF OidcInv, LoginTypeOK, issuerVars
  <2> QED
    BY <1>3, <1>6, <1>8, <2>1 DEF OidcInv, LoginTypeOK, CallRecord
<1>10. RecordsInv' /\ JarInv'
  BY <1>2, <1>3 DEF OidcInv, RecordsInv, JarInv
<1>11. LockInv'
  <2>1. \A s \in Ref : lock[s] # Nobody => lock[s] \in Call \ {c}
    BY <1>1 DEF OidcInv, LoginTypeOK, LockInv
  <2>2. \A d \in Call : call'[d].pc = "refreshing" => d # c /\ call'[d] = call[d]
    BY <1>5, <1>6 DEF it
  <2>3. \A s \in Ref : lock'[s] # Nobody => call'[lock'[s]].pc = "refreshing" /\ call'[lock'[s]].ref = s
    BY <1>3, <1>6, <2>1 DEF OidcInv, LockInv
  <2>4. \A d \in Call : call'[d].pc = "refreshing" =>
          /\ call'[d].kind = "access" /\ call'[d].ref \in held'
          /\ lock'[call'[d].ref] = d
    BY <1>3, <2>2 DEF OidcInv, LockInv
  <2> QED
    BY <2>3, <2>4 DEF LockInv
<1>12. IssuerInv'
  <2>1. presented' = presented /\ reused' = reused
    BY <1>3 DEF issuerVars
  <2>2. \A s \in Ref, n \in Nat : <<s, n>> \in presented => s \in used /\ n <= refresh[s] /\ s # r
    BY <1>2 DEF OidcInv, IssuerInv
  <2>3. \A s \in Ref, n \in Nat : <<s, n>> \in presented' => s \in used' /\ n <= refresh'[s]
    BY <1>3, <1>8, <2>1, <2>2
  <2>4. <<r, refresh'[r]>> \notin presented'
    BY <1>2, <1>7, <1>8, <2>1, <2>2
  <2>5. \A s \in held' \ uncommitted : lock'[s] = Nobody => <<s, refresh'[s]>> \notin presented'
    <3> SUFFICES ASSUME NEW s \in held' \ uncommitted, lock'[s] = Nobody, s # r
                 PROVE  <<s, refresh'[s]>> \notin presented'
      BY <2>4
    <3>1. s \in held /\ s \in Ref /\ lock[s] = Nobody
      BY <1>3 DEF OidcInv, RecordsInv
    <3>2. <<s, refresh[s]>> \notin presented
      BY <3>1 DEF OidcInv, IssuerInv
    <3> QED
      BY <3>1, <3>2, <1>8, <2>1
  <2> QED
    BY <1>3, <2>1, <2>3, <2>5 DEF OidcInv, IssuerInv
<1>13. RequestInv(c)' /\ ~Past(c)'
  <2>1. o \in {"signedIn", "refused"} /\ r \notin Opened(call[c].ref, LoginOf[r]) /\ ~call[c].late
    BY <1>1, <1>2, OidcAssumption DEF o, RequestInv, Opened
  <2> QED
    BY <1>2, <1>3, <1>5, <2>1 DEF it, RequestInv, Past
<1>14. MovesOn(c)
  BY <1>1, <1>2, <1>3 DEF MovesOn, Past
<1>15. OidcInv'
  BY <1>3, <1>5, <1>9, <1>10, <1>11, <1>12, <1>13, <1>14, CallMoves
<1> QED
  BY <1>2, <1>15

-----------------------------------------------------------------------------
(* Every step.                                                              *)

\* A step opens one session that never was, exchanges one's token, closes one, or leaves
\* every record as it is.
LifeGoesOn == Life!Next \/ UNCHANGED <<held, used, refresh>>

LEMMA ClosingIsLife ==
  ASSUME OidcInv, NEW r \in used, UNCHANGED storeVars \/ Delete(r)
  PROVE  LifeGoesOn
<1>1. CASE Delete(r) /\ r \in held
  <2>1. r \in Ref
    BY DEF OidcInv, RecordsInv
  <2>2. /\ held' = held \ {r} /\ used' \ held' = (used \ held) \cup {r}
        /\ refresh' = refresh
    BY <1>1 DEF Delete
  <2>3. Life!Close(r)
    BY <1>1, <2>2 DEF Life!Close
  <2> QED
    BY <2>1, <2>3 DEF LifeGoesOn, Life!Next
<1>2. CASE Delete(r) /\ r \notin held
  BY <1>2 DEF Delete, LifeGoesOn
<1> QED
  BY <1>1, <1>2 DEF storeVars, LifeGoesOn

LEMMA TokenStep ==
  ASSUME OidcInv, Tokens
  PROVE  OidcInv' /\ LifeGoesOn
<1>1. UNCHANGED <<jar, begun, code, route>>
  BY DEF Tokens
<1>2. ASSUME NEW c \in Call, call[c].pc \in {"transact", "refreshing"}
      PROVE  call[c].ref \in used
  BY <1>2 DEF OidcInv, RequestsInv, RequestInv
<1>3. ASSUME NEW c \in Call, NEW heard \in BOOLEAN, Session(c, heard)
      PROVE  OidcInv' /\ LifeGoesOn
  <2>1. call[c].ref \in used /\ (UNCHANGED storeVars \/ Delete(call[c].ref))
    BY <1>2, <1>3 DEF Session, Transacts
  <2> QED
    BY <1>1, <1>3, <2>1, SessionMoves, ClosingIsLife
<1>4. ASSUME NEW c \in Call, NEW heard \in BOOLEAN, AccessDecided(c, heard)
      PROVE  OidcInv' /\ LifeGoesOn
  <2>1. call[c].ref \in used /\ (UNCHANGED storeVars \/ Delete(call[c].ref))
    BY <1>2, <1>4 DEF AccessDecided, Transacts
  <2> QED
    BY <1>1, <1>4, <2>1, AccessDecidedMoves, ClosingIsLife
<1>5. ASSUME NEW c \in Call, NEW heard \in BOOLEAN, RefreshFails(c, heard)
      PROVE  OidcInv' /\ LifeGoesOn
  <2>1. call[c].ref \in used /\ (UNCHANGED storeVars \/ Delete(call[c].ref))
    BY <1>2, <1>5 DEF RefreshFails, Holds
  <2> QED
    BY <1>1, <1>5, <2>1, RefreshFailsMoves, ClosingIsLife
<1>6. ASSUME NEW c \in Call, NEW heard \in BOOLEAN, Revoke(c, heard)
      PROVE  OidcInv' /\ LifeGoesOn
  <2>1. call[c].ref \in used /\ (UNCHANGED storeVars \/ Delete(call[c].ref))
    BY <1>2, <1>6 DEF Revoke, Transacts
  <2> QED
    BY <1>1, <1>6, <2>1, RevokeMoves, ClosingIsLife
<1>7. ASSUME NEW c \in Call, NEW heard \in BOOLEAN, NEW rotates \in BOOLEAN, NEW stale \in BOOLEAN,
             RefreshGranted(c, rotates, stale, heard)
      PROVE  OidcInv' /\ LifeGoesOn
  <2>1. /\ OidcInv' /\ UNCHANGED <<held, used>> /\ call[c].ref \in held
        /\ refresh' = [refresh EXCEPT ![call[c].ref] = IF rotates THEN @ + 1 ELSE @]
    BY <1>1, <1>7, RefreshGrantedMoves
  <2>2. call[c].ref \in Ref /\ refresh \in [Ref -> 0..MaxRefresh]
    BY <2>1 DEF OidcInv, RecordsInv, LoginTypeOK
  <2>3. CASE rotates
    <3>1. Life!Exchange(call[c].ref)
      BY <2>1, <2>3 DEF Life!Exchange
    <3> QED
      BY <2>1, <2>2, <3>1 DEF LifeGoesOn, Life!Next
  <2>4. CASE ~rotates
    BY <2>1, <2>2, <2>4 DEF LifeGoesOn
  <2> QED
    BY <2>3, <2>4
<1>8. ASSUME NEW c \in Call, Refresh(c)
      PROVE  OidcInv' /\ LifeGoesOn
  BY <1>1, <1>8, RefreshMoves DEF Refresh, storeVars, LifeGoesOn
<1>9. ASSUME NEW c \in Call, RefreshUncommitted(c)
      PROVE  OidcInv' /\ LifeGoesOn
  BY <1>1, <1>9, RefreshUncommittedMoves DEF RefreshUncommitted, storeVars, LifeGoesOn
<1>10. ASSUME NEW c \in Call, StoreUnavailable(c)
      PROVE  OidcInv' /\ LifeGoesOn
  BY <1>1, <1>10, StoreUnavailableMoves DEF StoreUnavailable, storeVars, LifeGoesOn
<1>11. ASSUME NEW r \in Ref, TokenAges(r) \/ SessionEnds(r)
      PROVE  OidcInv' /\ LifeGoesOn
  BY <1>1, <1>11, TimeMoves DEF TokenAges, SessionEnds, storeVars, LifeGoesOn
<1> QED
  BY <1>3, <1>4, <1>5, <1>6, <1>7, <1>8, <1>9, <1>10, <1>11 DEF Tokens, TokenNext

LEMMA LoginStep ==
  ASSUME OidcInv, [LoginNext]_loginVars
  PROVE  OidcInv' /\ LifeGoesOn
<1>1. CASE Tokens
  BY <1>1, TokenStep
<1>2. ASSUME NEW b \in Browser, NEW f \in Ref, LoginRoute(b, f)
      PROVE  OidcInv' /\ LifeGoesOn
  BY <1>2, LoginRouteMoves DEF LoginRoute, tokenVars, LifeGoesOn
<1>3. ASSUME NEW c \in Call, NEW b \in Browser, NEW f \in Ref, NEW denied \in BOOLEAN,
             CallbackRoute(c, b, f, denied)
      PROVE  OidcInv' /\ LifeGoesOn
  BY <1>3, CallbackRouteMoves DEF CallbackRoute, storeVars, LifeGoesOn
<1>4. ASSUME NEW c \in Call, NEW b \in Browser, NEW kind \in Kinds, NEW login \in Login,
             SessionRequest(c, b, kind, login)
      PROVE  OidcInv' /\ LifeGoesOn
  BY <1>4, SessionRequestMoves DEF SessionRequest, storeVars, LifeGoesOn
<1>5. ASSUME NEW c \in Call, GrantRefused(c) \/ Granted(c) \/ CallbackRevoked(c)
      PROVE  OidcInv' /\ LifeGoesOn
  BY <1>5, GrantRefusedMoves, GrantedMoves, CallbackRevokedMoves
     DEF GrantRefused, Granted, CallbackRevoked, storeVars, LifeGoesOn
<1>6. ASSUME NEW c \in Call, NEW refreshable \in BOOLEAN, NEW heard \in BOOLEAN,
             CallbackCreates(c, refreshable, heard)
      PROVE  OidcInv' /\ LifeGoesOn
  <2> DEFINE r == route[c].flow
  <2>1. OidcInv' /\ r \in Ref \ used
    BY <1>6, CallbackCreatesMoves
  <2>2. /\ held' = held \cup {r} /\ used' = used \cup {r}
        /\ refresh' = [refresh EXCEPT ![r] = IF refreshable THEN 1 ELSE 0]
    BY <1>6 DEF CallbackCreates, Create
  <2>3. held \subseteq used
    BY DEF OidcInv, RecordsInv
  <2>4. r \in Ref \ (held \cup (used \ held)) /\ used' \ held' = used \ held
    BY <2>1, <2>2, <2>3
  <2>5. \E first \in {0, 1} : refresh' = [refresh EXCEPT ![r] = first]
    BY <2>2
  <2>6. Life!Open(r)
    BY <2>2, <2>4, <2>5 DEF Life!Open
  <2> QED
    BY <2>1, <2>6 DEF LifeGoesOn, Life!Next
<1>7. ASSUME NEW c \in Call, Delivered(c) \/ ResponseLost(c)
      PROVE  OidcInv' /\ LifeGoesOn
  BY <1>7, DeliveredMoves, ResponseLostMoves DEF Delivered, ResponseLost, Responded, storeVars, LifeGoesOn
<1>8. ASSUME NEW b \in Browser, TransientExpires(b)
      PROVE  OidcInv' /\ LifeGoesOn
  BY <1>8, TransientExpiresMoves DEF TransientExpires, tokenVars, LifeGoesOn
<1>9. CASE UNCHANGED loginVars
  <2>1. UNCHANGED <<held, used, due, over, refresh, lock, call, route, presented, reused, uncommitted, ended,
                    code, jar, begun>>
    BY <1>9 DEF loginVars, tokenVars
  <2>2. OidcInv'
    BY <2>1 DEF OidcInv, LoginTypeOK, RecordsInv, LockInv, IssuerInv, JarInv, RequestsInv, RequestInv, Past
  <2> QED
    BY <2>1, <2>2 DEF LifeGoesOn
<1> QED
  BY <1>1, <1>2, <1>3, <1>4, <1>5, <1>6, <1>7, <1>8, <1>9 DEF LoginNext

LEMMA OidcAlways == LoginSpec => []OidcInv
BY OidcStart, LoginStep, PTL DEF LoginSpec

\* A refresh token that the issuer has replaced is never presented again, unless the store
\* never committed a refresh: however many replicas serve requests of the session at once
\* (ManagerLive.accessToken, whose grant runs inside the store's transaction).
THEOREM RefreshTokensAreUsedOnce == LoginSpec => []RefreshTokenUsedOnce
<1>1. OidcInv => RefreshTokenUsedOnce
  BY DEF OidcInv, IssuerInv, RefreshTokenUsedOnce
<1> QED
  BY <1>1, OidcAlways, PTL

\* Who has been told that a session is revoked finds it without credentials for good, and no
\* request that begins later is served by it: whichever refresh was under way as it was
\* revoked (ManagerLive.revoke waits for the transaction).
THEOREM SignedOutForGood == LoginSpec => []SignedOutStaysOut
<1>1. OidcInv => SignedOutStaysOut
  BY DEF OidcInv, RecordsInv, RequestsInv, RequestInv, SignedOutStaysOut
<1> QED
  BY <1>1, OidcAlways, PTL

\* Whichever links, tabs and late responses bring it, a browser's session is of a login it
\* began itself and whose code was redeemed, and a login is reported only with the session its
\* callback was sent with closed, over, or another login's (the callback route, its transient
\* and its revocation).
THEOREM OwnLoginsEndPrevious == LoginSpec => []OwnLoginEndsPrevious
<1>1. ASSUME OidcInv PROVE ReloginEndsPrevious
  BY <1>1 DEF OidcInv, RequestsInv, RequestInv, ReloginEndsPrevious
<1>2. ASSUME OidcInv PROVE SessionIsOwnLogin
  BY <1>2 DEF OidcInv, JarInv, RecordsInv, SessionIsOwnLogin
<1> QED
  BY <1>1, <1>2, OidcAlways, PTL DEF OwnLoginEndsPrevious

\* The detailed store, with its transactions, requests and faults, implements SessionLife:
\* what a reference holds is opened once, exchanged forward and closed for good.
THEOREM SessionLifeIsImplemented == LoginSpec => SessionsOnlyGoForward
<1>1. LoginInit => Life!Init
  BY DEF LoginInit, TokenInit, Life!Init
<1>2. LifeGoesOn => [Life!Next]_(Life!lifeVars)
  BY DEF LifeGoesOn, Life!lifeVars
<1>3. OidcInv /\ [LoginNext]_loginVars => [Life!Next]_(Life!lifeVars)
  BY <1>2, LoginStep
<1> QED
  BY <1>1, <1>3, OidcAlways, PTL DEF LoginSpec, Life!Spec, SessionsOnlyGoForward
=============================================================================
