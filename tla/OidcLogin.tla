------------------------------ MODULE OidcLogin ------------------------------
(***************************************************************************)
(* The login routes (packages/http-server/src/oidc.ts) and the session     *)
(* scheme (session.ts) over OidcTokens, and the browsers whose cookies     *)
(* they set: the authorization-code flow of several tabs, callbacks that   *)
(* overlap or come to another browser than the one that began the login,   *)
(* re-login, logout, and responses that arrive in any order or never.      *)
(*                                                                         *)
(* A login flow and the session it may end in have one identity, as an     *)
(* authorization code is good for one grant.  The sealed cookies are what  *)
(* they carry: the transient its flow (`state`, verifier, nonce), the      *)
(* session its reference.                                                  *)
(***************************************************************************)
EXTENDS OidcTokens

CONSTANT Browser

ASSUME BrowserAssumption == Nobody \notin Browser

VARIABLES
  jar,     \* per browser, its session cookie and its transient
  begun,   \* per flow, the browser that began it
  code,    \* flows whose authorization code the provider has redeemed
  route    \* per call, the browser it came from and the flow or login it names

loginVars == <<tokenVars, jar, begun, code, route>>

NoRoute == [browser |-> Nobody, flow |-> Nobody]

LoginInit ==
  /\ TokenInit
  /\ jar = [b \in Browser |-> [session |-> Nobody, transient |-> Nobody]]
  /\ begun = [f \in Ref |-> Nobody]
  /\ code = {}
  /\ route = [c \in Call |-> NoRoute]

\* A request reaches a replica, with the cookies its browser held as it was sent.
Starts(c, b, flow, kind, ref, pc, outcome) ==
  /\ call[c].pc = "idle"
  /\ call' = [call EXCEPT ![c] =
       [kind |-> kind, ref |-> ref, pc |-> pc, outcome |-> outcome, late |-> kind \in {"session", "access"} /\ ref \in ended]]
  /\ route' = [route EXCEPT ![c] = [browser |-> b, flow |-> flow]]

-----------------------------------------------------------------------------
(* The routes.                                                              *)

\* GET /login: seals a new flow into the transient cookie, over the one that may be there.
LoginRoute(b, f) ==
  /\ begun[f] = Nobody
  /\ begun' = [begun EXCEPT ![f] = b]
  /\ jar' = [jar EXCEPT ![b].transient = f]
  /\ UNCHANGED <<tokenVars, code, route>>

\* Wrong: any transient will do for any callback.
CallbackUnmatched(c, b, f, denied) ==
  /\ IF jar[b].transient = Nobody \/ denied
     THEN Starts(c, b, f, "callback", jar[b].session, "answered", "refused")
     ELSE Starts(c, b, f, "callback", jar[b].session, "granting", "none")
  /\ UNCHANGED <<storeVars, over, lock, issuerVars, uncommitted, ended, jar, begun, code>>

\* GET /callback: the transient must be there and name this flow; the provider may have
\* refused.  A link may bring any flow's callback to any browser, any number of times, that of
\* a flow begun elsewhere included.
CallbackRoute(c, b, f, denied) ==
  /\ IF jar[b].transient # f \/ denied
     THEN Starts(c, b, f, "callback", jar[b].session, "answered", "refused")
     ELSE Starts(c, b, f, "callback", jar[b].session, "granting", "none")
  /\ UNCHANGED <<storeVars, over, lock, issuerVars, uncommitted, ended, jar, begun, code>>

\* The code grant fails, is for a code redeemed before, or the principal is refused.
GrantRefused(c) ==
  /\ call[c].pc = "granting"
  /\ code' \in {code, code \cup {route[c].flow}}
  /\ Answer(c, "refused")
  /\ UNCHANGED <<storeVars, over, lock, issuerVars, uncommitted, ended, jar, begun, route>>

\* Wrong: a re-login leaves the session it was sent with.
GrantedKeepingOld(c) ==
  /\ call[c].pc = "granting" /\ route[c].flow \notin code
  /\ code' = code \cup {route[c].flow}
  /\ call' = [call EXCEPT ![c].pc = "creating"]
  /\ UNCHANGED <<storeVars, over, lock, issuerVars, uncommitted, ended, jar, begun, route>>

\* The grant succeeds: the session the browser was sent with is revoked next, when this
\* login's manager can open it, and the new one created after that.
Granted(c) ==
  /\ call[c].pc = "granting" /\ route[c].flow \notin code
  /\ code' = code \cup {route[c].flow}
  /\ \E opened \in {Opened(call[c].ref, LoginOf[route[c].flow])} \cup
                   (IF call[c].ref \in over THEN {{}} ELSE {}) :
       call' = [call EXCEPT ![c].pc = IF opened = {} THEN "creating" ELSE "transact"]
  /\ UNCHANGED <<storeVars, over, lock, issuerVars, uncommitted, ended, jar, begun, route>>

\* The revocation was heard to succeed: go on to create; one that failed answers 503.
CallbackRevoked(c) ==
  /\ call[c].kind = "callback" /\ call[c].pc = "answered" /\ call[c].outcome = "ok"
  /\ call' = [call EXCEPT ![c].pc = "creating", ![c].outcome = "none"]
  /\ UNCHANGED <<storeVars, over, lock, issuerVars, uncommitted, ended, jar, begun, code, route>>

CallbackCreates(c, refreshable, heard) ==
  /\ Create(c, route[c].flow, refreshable, heard)
  /\ UNCHANGED <<jar, begun, code, route>>

\* POST /logout, and the requests that present the session to a login's scheme or ask for its
\* access token.  A cookie that this login cannot open names no session: such a logout
\* succeeds at once, such a request is anonymous.
SessionRequest(c, b, kind, login) ==
  /\ kind \in {"session", "access", "logout"}
  /\ \E opened \in {Opened(jar[b].session, login)} \cup
                   (IF jar[b].session \in over THEN {{}} ELSE {}) :
       IF opened = {}
       THEN Starts(c, b, Nobody, kind, Nobody, "answered", IF kind = "logout" THEN "ok" ELSE "refused")
       ELSE Starts(c, b, Nobody, kind, jar[b].session, "transact", "none")
  /\ UNCHANGED <<storeVars, over, lock, issuerVars, uncommitted, ended, jar, begun, code>>

-----------------------------------------------------------------------------
(* The browser.                                                             *)

\* What a response does to the jar: a login sets the session, every callback clears the
\* transient, whoever's it is, and every logout, 503 included, clears the session.
JarAfter(c) ==
  LET cookies == jar[route[c].browser] IN
  CASE call[c].kind = "callback" /\ call[c].outcome = "signedIn" ->
         [session |-> route[c].flow, transient |-> Nobody]
    [] call[c].kind = "callback" /\ call[c].outcome # "signedIn" -> [cookies EXCEPT !.transient = Nobody]
    [] call[c].kind = "logout" -> [cookies EXCEPT !.session = Nobody]
    [] OTHER -> cookies

Responded(c) ==
  /\ call[c].pc = "answered"
  /\ ~(call[c].kind = "callback" /\ call[c].outcome = "ok")
  /\ call' = [call EXCEPT ![c] = IdleCall]
  /\ route' = [route EXCEPT ![c] = NoRoute]
  /\ UNCHANGED <<storeVars, over, lock, issuerVars, uncommitted, ended, begun, code>>

\* The response arrives.
Delivered(c) ==
  /\ Responded(c)
  /\ jar' = [jar EXCEPT ![route[c].browser] = JarAfter(c)]

\* The connection is gone before it does.
ResponseLost(c) == Responded(c) /\ UNCHANGED jar

\* The transient's five minutes are over.
TransientExpires(b) ==
  /\ jar[b].transient # Nobody
  /\ jar' = [jar EXCEPT ![b].transient = Nobody]
  /\ UNCHANGED <<tokenVars, begun, code, route>>

-----------------------------------------------------------------------------

Tokens == TokenNext /\ UNCHANGED <<jar, begun, code, route>>

LoginNext ==
  \/ Tokens
  \/ \E b \in Browser, f \in Ref : LoginRoute(b, f)
  \/ \E c \in Call, b \in Browser, f \in Ref, denied \in BOOLEAN : CallbackRoute(c, b, f, denied)
  \/ \E c \in Call, b \in Browser, kind \in Kinds, login \in Login : SessionRequest(c, b, kind, login)
  \/ \E c \in Call : GrantRefused(c) \/ Granted(c) \/ CallbackRevoked(c)
  \/ \E c \in Call, refreshable, heard \in BOOLEAN : CallbackCreates(c, refreshable, heard)
  \/ \E c \in Call : Delivered(c) \/ ResponseLost(c)
  \/ \E b \in Browser : TransientExpires(b)

LoginSpec == LoginInit /\ [][LoginNext]_loginVars

-----------------------------------------------------------------------------
(* Properties.                                                              *)

\* Every variable holds a value of its kind.
LoginTypeOK ==
  /\ held \subseteq used /\ used \subseteq Ref /\ due \subseteq used /\ over \subseteq used
  /\ refresh \in [Ref -> 0..MaxRefresh]
  /\ lock \in [Ref -> Call \cup {Nobody}]
  /\ call \in [Call -> [kind : Kinds, ref : Ref \cup {Nobody}, pc : Points,
                        outcome : Outcomes, late : BOOLEAN]]
  /\ presented \subseteq Ref \X (0..MaxRefresh)
  /\ reused \subseteq Ref /\ uncommitted \subseteq Ref /\ ended \subseteq Ref
  /\ jar \in [Browser -> [session : Ref \cup {Nobody}, transient : Ref \cup {Nobody}]]
  /\ begun \in [Ref -> Browser \cup {Nobody}]
  /\ code \subseteq Ref
  /\ route \in [Call -> [browser : Browser \cup {Nobody}, flow : Ref \cup {Nobody}]]

\* A refresh token the issuer has replaced is never presented again, which would sign the
\* user out, whatever requests refresh at once: except after a refresh the store never
\* committed.
RefreshTokenUsedOnce == reused \subseteq uncommitted

\* A session whose revocation was reported has no credentials and never gets any again, and
\* no request that begins afterwards is served by it: a refresh in flight across the logout
\* does not bring it back.
SignedOutStaysOut ==
  /\ ended \cap held = {}
  /\ \A c \in Call : call[c].late => call[c].outcome # "served"

\* Who has signed in again is signed out of the session the callback was sent with, before
\* the new session is reported: that session holds no credentials any more, unless it is over
\* by itself or another login's, which this login's manager leaves alone.
ReloginEndsPrevious ==
  \A c \in Call :
    call[c].kind = "callback" /\ call[c].outcome = "signedIn" =>
      Opened(call[c].ref, LoginOf[route[c].flow]) \cap held \subseteq over

\* A browser's session comes of a login that this browser began, and whose code was redeemed
\* once, whatever links, tabs and late responses bring it.
SessionIsOwnLogin ==
  \A b \in Browser :
    jar[b].session # Nobody => begun[jar[b].session] = b /\ jar[b].session \in code

\* A browser's session is of a login of its own, and a login that is reported has ended the
\* session its callback was sent with.  Nothing is said of logins that overlap: callbacks sent
\* before either's response arrives end neither's session, and the browser keeps the session
\* of the response that arrives last, whichever login began first.
OwnLoginEndsPrevious == ReloginEndsPrevious /\ SessionIsOwnLogin

Life == INSTANCE SessionLife WITH live <- held, spent <- used \ held, token <- refresh

\* Whatever requests, faults and expiries meet, what the store holds of a session is opened
\* once, exchanged forward, and closed for good.
SessionsOnlyGoForward == Life!Spec
=============================================================================
