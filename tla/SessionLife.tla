----------------------------- MODULE SessionLife -----------------------------
(***************************************************************************)
(* What a server-side browser session promises whoever relies on it: a     *)
(* reference is opened once, its credentials are only exchanged forward,   *)
(* and once it has been closed (by logout, re-login, expiry or a refused   *)
(* refresh) it never opens again.  It says nothing of transactions, leases *)
(* or concurrent requests; OidcTokens implements it.                       *)
(***************************************************************************)
EXTENDS Naturals

CONSTANT Ref

VARIABLES
  live,    \* references with credentials
  spent,   \* references whose credentials are gone for good
  token    \* per reference, which refresh token it has: 0 for none

lifeVars == <<live, spent, token>>

Init ==
  /\ live = {} /\ spent = {}
  /\ token = [r \in Ref |-> 0]

Open(r) ==
  /\ r \in Ref \ (live \cup spent)
  /\ live' = live \cup {r}
  /\ \E first \in {0, 1} : token' = [token EXCEPT ![r] = first]
  /\ UNCHANGED spent

Exchange(r) ==
  /\ r \in live
  /\ token' = [token EXCEPT ![r] = @ + 1]
  /\ UNCHANGED <<live, spent>>

Close(r) ==
  /\ r \in live
  /\ live' = live \ {r} /\ spent' = spent \cup {r}
  /\ UNCHANGED token

Next == \E r \in Ref : Open(r) \/ Exchange(r) \/ Close(r)

Spec == Init /\ [][Next]_lifeVars
=============================================================================
