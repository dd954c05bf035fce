----------------------------- MODULE OidcTokens ------------------------------
(***************************************************************************)
(* The server-side credentials of browser sessions                         *)
(* (packages/http-server/src/oidc-tokens.ts, oidc-token-store.ts): one     *)
(* record per session in a store shared by all replicas, read and replaced *)
(* only inside the store's exclusive transactions.  A call is one request  *)
(* that holds a session cookie: it may be served by any replica, so all    *)
(* that calls share is the store and the issuer.                           *)
(*                                                                         *)
(* Time is what the decisions read of it: whether a record is due for a    *)
(* refresh (`refreshAfter`) and whether its session is over                *)
(* (`sessionExpiresAt`); either may become true at any moment.  Refresh    *)
(* tokens are numbered; 0 is a record that has none.                       *)
(***************************************************************************)
EXTENDS Naturals, FiniteSets

CONSTANTS
  Ref,          \* sessions: a random reference each, never drawn twice
  Login,        \* the logins (issuer and client) that share cookie and store
  LoginOf,      \* the login that minted a session
  Call,         \* the requests in flight at once (a bound)
  Nobody,       \* no session, no holder
  MaxRefresh    \* how many refresh tokens the issuer mints per session (a bound)

ASSUME OidcAssumption ==
  /\ LoginOf \in [Ref -> Login]
  /\ Nobody \notin Ref \cup Call
  /\ MaxRefresh \in Nat \ {0}

VARIABLES
  held,         \* references the store has a record of
  used,         \* references that were ever created
  due,          \* records whose refreshAfter has passed
  refresh,      \* per reference, the refresh token its record carries
  over,         \* sessions whose sessionExpiresAt has passed
  lock,         \* the store's transactions: who holds a reference
  call,         \* the requests
  presented,    \* the issuer: refresh tokens it was shown and has replaced
  reused,       \* the issuer: sessions of which it was shown a token twice
  uncommitted,  \* sessions a refresh of which was granted and never committed
  ended         \* sessions whose revocation was answered with success

storeVars == <<held, used, due, refresh>>
issuerVars == <<presented, reused>>
tokenVars == <<held, used, due, refresh, over, lock, call, presented, reused, uncommitted, ended>>

Kinds == {"none", "session", "access", "logout", "callback"}
Points == {"idle", "granting", "transact", "refreshing", "creating", "answered"}
Outcomes == {"none", "served", "refused", "ok", "signedIn"}

IdleCall == [kind |-> "none", ref |-> Nobody, pc |-> "idle", outcome |-> "none", late |-> FALSE]

TokenInit ==
  /\ held = {} /\ used = {} /\ due = {} /\ over = {}
  /\ refresh = [r \in Ref |-> 0]
  /\ lock = [r \in Ref |-> Nobody]
  /\ call = [c \in Call |-> IdleCall]
  /\ presented = {} /\ reused = {} /\ uncommitted = {} /\ ended = {}

-----------------------------------------------------------------------------
(* What a call reads.                                                       *)

\* opened: the cookie is unsealed, and belongs to this manager's login.  A session that is
\* over may still be opened, as the cookie's lifetime and the record's are stamped apart.
Opened(cookie, login) == {r \in {cookie} \cap Ref : LoginOf[r] = login}

\* live: the record is there, this login's, and its session is not over.
Live(r) == r \in held /\ r \notin over

Answer(c, outcome) == call' = [call EXCEPT ![c].pc = "answered", ![c].outcome = outcome]

\* What the caller hears of a transaction that committed: its value, or, when the answer is
\* lost, that the store is unavailable.  "refused" is any failure, whatever its error.
Hears(c, outcome, heard) == Answer(c, IF heard THEN outcome ELSE "refused")

\* transact: `work` runs with the reference locked, for a call that has got that far.
Transacts(c, kinds) ==
  /\ call[c].pc = "transact" /\ call[c].kind \in kinds
  /\ lock[call[c].ref] = Nobody

Delete(r) ==
  /\ held' = held \ {r} /\ due' = due \ {r}
  /\ UNCHANGED <<used, refresh>>

-----------------------------------------------------------------------------
(* The operations of a manager.                                             *)

\* session: validates without refreshing; the record of a session that is over goes.
Session(c, heard) ==
  LET r == call[c].ref IN
  /\ Transacts(c, {"session"})
  /\ IF Live(r) THEN UNCHANGED storeVars ELSE Delete(r)
  /\ Hears(c, IF Live(r) THEN "served" ELSE "refused", heard)
  /\ UNCHANGED <<over, lock, issuerVars, uncommitted, ended>>

\* accessToken, decided without the issuer: a fresh token is handed out; no record, a session
\* that is over, and a token due without a refresh token are refused, and the record goes.
AccessDecided(c, heard) ==
  LET r == call[c].ref IN
  /\ Transacts(c, {"access"})
  /\ \/ Live(r) /\ r \notin due
        /\ UNCHANGED storeVars /\ Hears(c, "served", heard)
     \/ Live(r) /\ r \in due /\ refresh[r] = 0
        /\ Delete(r) /\ Hears(c, "refused", heard)
     \/ ~Live(r)
        /\ Delete(r) /\ Hears(c, "refused", heard)
  /\ UNCHANGED <<over, lock, issuerVars, uncommitted, ended>>

\* Wrong: the grant runs before the transaction, which only stores its outcome.
RefreshUnlocked(c) ==
  LET r == call[c].ref t == <<r, refresh[r]>> IN
  /\ Transacts(c, {"access"})
  /\ Live(r) /\ r \in due /\ refresh[r] > 0
  /\ presented' = presented \cup {t}
  /\ reused' = IF t \in presented THEN reused \cup {r} ELSE reused
  /\ call' = [call EXCEPT ![c].pc = "refreshing"]
  /\ UNCHANGED <<storeVars, over, lock, uncommitted, ended>>

\* accessToken: a token that is due is exchanged inside the transaction.
Refresh(c) ==
  LET r == call[c].ref t == <<r, refresh[r]>> IN
  /\ Transacts(c, {"access"})
  /\ Live(r) /\ r \in due /\ refresh[r] > 0
  /\ presented' = presented \cup {t}
  /\ reused' = IF t \in presented THEN reused \cup {r} ELSE reused
  /\ lock' = [lock EXCEPT ![r] = c]
  /\ call' = [call EXCEPT ![c].pc = "refreshing"]
  /\ UNCHANGED <<storeVars, over, uncommitted, ended>>

Holds(c) == call[c].pc = "refreshing"
Unlock(c) == lock' = [lock EXCEPT ![call[c].ref] = IF @ = c THEN Nobody ELSE @]

\* Wrong: a response without a refresh token leaves the record without one.
RefreshForgetting(c, rotates, stale, heard) ==
  LET r == call[c].ref IN
  /\ Holds(c)
  /\ r \notin reused /\ r \notin over
  /\ rotates => refresh[r] < MaxRefresh
  /\ refresh' = [refresh EXCEPT ![r] = IF rotates THEN @ + 1 ELSE 0]
  /\ presented' = IF rotates THEN presented ELSE presented \ {<<r, refresh[r]>>}
  /\ held' = held \cup {r}
  /\ due' = IF stale THEN due ELSE due \ {r}
  /\ Unlock(c) /\ Hears(c, "served", heard)
  /\ UNCHANGED <<used, over, reused, uncommitted, ended>>

\* The grant answers with a usable token while the session runs: the replacement commits.
\* The issuer rotates the refresh token, or omits it, which keeps the previous one usable.
\* A token whose refreshAfter has passed on the way is due again, and still handed out.
RefreshGranted(c, rotates, stale, heard) ==
  LET r == call[c].ref IN
  /\ Holds(c)
  /\ r \notin reused /\ r \notin over
  /\ rotates => refresh[r] < MaxRefresh
  /\ refresh' = [refresh EXCEPT ![r] = IF rotates THEN @ + 1 ELSE @]
  /\ presented' = IF rotates THEN presented ELSE presented \ {<<r, refresh[r]>>}
  /\ held' = held \cup {r}
  /\ due' = IF stale THEN due ELSE due \ {r}
  /\ Unlock(c) /\ Hears(c, "served", heard)
  /\ UNCHANGED <<used, over, reused, uncommitted, ended>>

\* The grant fails, or its answer is no valid replacement: expired on the way, another
\* subject's, or after the session's end.  The record goes.
RefreshFails(c, heard) ==
  /\ Holds(c)
  /\ Delete(call[c].ref)
  /\ Unlock(c) /\ Hears(c, "refused", heard)
  /\ UNCHANGED <<over, issuerVars, uncommitted, ended>>

\* The issuer has been asked, and nothing is committed: the grant defects, or the store loses
\* the transaction (its lease expires, its process dies) and fences the late writer.
RefreshUncommitted(c) ==
  /\ Holds(c)
  /\ uncommitted' = uncommitted \cup {call[c].ref}
  /\ Unlock(c) /\ Answer(c, "refused")
  /\ UNCHANGED <<storeVars, over, issuerVars, ended>>

\* Wrong: logout deletes the record without waiting for the transaction in flight.
RevokeUnlocked(c, heard) ==
  LET r == call[c].ref IN
  /\ call[c].pc = "transact" /\ call[c].kind \in {"logout", "callback"}
  /\ Delete(r)
  /\ Hears(c, "ok", heard)
  /\ ended' = IF heard THEN ended \cup {r} ELSE ended
  /\ UNCHANGED <<over, lock, issuerVars, uncommitted>>

\* revoke, of invalidate and logout: the record goes, whatever it holds.
Revoke(c, heard) ==
  LET r == call[c].ref IN
  /\ Transacts(c, {"logout", "callback"})
  /\ Delete(r)
  /\ Hears(c, "ok", heard)
  /\ ended' = IF heard THEN ended \cup {r} ELSE ended
  /\ UNCHANGED <<over, lock, issuerVars, uncommitted>>

\* create: the reference is new, so nobody else can hold it.  The store may keep the record
\* and lose the answer; a response that is no usable token is refused before it is asked.
Create(c, r, refreshable, heard) ==
  /\ call[c].pc = "creating"
  /\ held' = held \cup {r} /\ used' = used \cup {r}
  /\ refresh' = [refresh EXCEPT ![r] = IF refreshable THEN 1 ELSE 0]
  /\ Hears(c, "signedIn", heard)
  /\ UNCHANGED <<due, over, lock, issuerVars, uncommitted, ended>>

\* The store fails before it has done anything.
StoreUnavailable(c) ==
  /\ call[c].pc \in {"transact", "creating"}
  /\ Answer(c, "refused")
  /\ UNCHANGED <<storeVars, over, lock, issuerVars, uncommitted, ended>>

-----------------------------------------------------------------------------
(* Time.                                                                    *)

TokenAges(r) ==
  /\ r \in held \ due
  /\ due' = due \cup {r}
  /\ UNCHANGED <<held, used, refresh, over, lock, call, issuerVars, uncommitted, ended>>

SessionEnds(r) ==
  /\ r \in used \ over
  /\ over' = over \cup {r}
  /\ UNCHANGED <<storeVars, lock, call, issuerVars, uncommitted, ended>>

TokenNext ==
  \/ \E c \in Call, heard \in BOOLEAN :
       \/ Session(c, heard) \/ AccessDecided(c, heard)
       \/ RefreshFails(c, heard) \/ Revoke(c, heard)
       \/ \E rotates, stale \in BOOLEAN : RefreshGranted(c, rotates, stale, heard)
  \/ \E c \in Call : Refresh(c) \/ RefreshUncommitted(c) \/ StoreUnavailable(c)
  \/ \E r \in Ref : TokenAges(r) \/ SessionEnds(r)

=============================================================================
