--------------------------- MODULE HttpServerProofs ---------------------------
(***************************************************************************)
(* Of any number of connections and requests: the units in flight are the  *)
(* responses open, and a draining server keeps no connection.              *)
(***************************************************************************)
EXTENDS HttpServer, TLAPS

\* A response belongs to one connection, which is busy with it or about to close.
SocketInv ==
  /\ \A u \in responses : from[u] \in Socket /\ socket[from[u]] \in {"busy", "destroyed"}
  /\ \A u \in responses, v \in responses : from[u] = from[v] => u = v
  /\ \A u \in Unit : from[u] = NoSocket => u \notin responses \cup refused \cup failed \cup challenged

UnitInv ==
  /\ UnitsAreOpenResponses
  /\ challenged \subseteq responses
  /\ challenged \cap (refused \cup failed) = {}

\* What finishes while draining takes its connection along, refusals excepted.
DrainInv ==
  /\ draining => ~listening
  /\ NoConnectionKeptWhileDraining
  /\ draining => \A u \in responses :
       u \in retired \cup refused \/ socket[from[u]] = "destroyed"

IInv == TypeOK /\ SocketInv /\ UnitInv /\ DrainInv
-----------------------------------------------------------------------------
(* What the steps share.                                                    *)

LEMMA RegistryKeepsTypes ==
  ASSUME RegistryTypeOK, NEW u \in Unit,
         OpenUnit(u) \/ CloseUnit(u) \/ AwaitIdle \/ UNCHANGED registryVars
  PROVE  RegistryTypeOK'
BY DEF RegistryTypeOK, OpenUnit, CloseUnit, AwaitIdle, registryVars, IdleStates

\* A request that has just been tracked is the only one of its connection.
LEMMA TrackedKeepsSockets ==
  ASSUME IInv, NEW c \in Socket, NEW u \in Unit, Tracked(c, u),
         NEW s \in {"busy", "destroyed"}, Become(c, s),
         refused' \subseteq refused \cup {u}, failed' \subseteq failed \cup {u},
         challenged' \subseteq challenged \cup {u}
  PROVE  /\ SocketInv'
         /\ from' \in [Unit -> Socket \cup {NoSocket}] /\ socket' \in [Socket -> SocketStates]
         /\ responses' \subseteq Unit
         /\ u \notin responses \cup refused \cup failed \cup challenged
         /\ \A v \in responses : from[v] # c /\ from'[v] = from[v] /\ socket'[from'[v]] = socket[from[v]]
<1> USE SocketAssumption
<1>1. /\ from \in [Unit -> Socket \cup {NoSocket}] /\ socket \in [Socket -> SocketStates]
      /\ responses \subseteq Unit
  BY DEF IInv, TypeOK
<1>2. /\ from' \in [Unit -> Socket \cup {NoSocket}] /\ from'[u] = c
      /\ \A v \in Unit \ {u} : from'[v] = from[v]
      /\ socket' \in [Socket -> SocketStates] /\ socket'[c] = s
      /\ \A d \in Socket \ {c} : socket'[d] = socket[d]
      /\ responses' = responses \cup {u}
  BY <1>1 DEF Tracked, Become, SocketStates
<1>3. u \notin responses \cup refused \cup failed \cup challenged
  BY DEF IInv, SocketInv, Tracked
<1>4. \A v \in responses : from[v] # c
  BY DEF IInv, SocketInv, Tracked
<1>5. \A v \in responses : from[v] \in Socket /\ from'[v] = from[v] /\ socket'[from'[v]] = socket[from[v]]
  BY <1>1, <1>2, <1>3, <1>4 DEF IInv, SocketInv
<1>6. (\A v \in responses : from[v] \in Socket /\ socket[from[v]] \in {"busy", "destroyed"})'
  BY <1>2, <1>5 DEF IInv, SocketInv
<1>7. (\A v \in responses, w \in responses : from[v] = from[w] => v = w)'
  BY <1>2, <1>4, <1>5 DEF IInv, SocketInv
<1>8. (\A v \in Unit : from[v] = NoSocket => v \notin responses \cup refused \cup failed \cup challenged)'
  BY <1>2 DEF IInv, SocketInv
<1> QED BY <1>1, <1>2, <1>3, <1>4, <1>5, <1>6, <1>7, <1>8 DEF SocketInv

\* A tracked request is retired, refused or reset whenever the server drains.
LEMMA TrackedKeepsDrain ==
  ASSUME IInv, NEW c \in Socket, NEW u \in Unit, Tracked(c, u),
         NEW s \in {"busy", "destroyed"}, Become(c, s),
         refused' \subseteq refused \cup {u}, failed' \subseteq failed \cup {u},
         challenged' \subseteq challenged \cup {u},
         refused \subseteq refused', retired \subseteq retired',
         draining => u \in retired' \cup refused'
  PROVE  DrainInv'
<1>1. \A v \in responses : from'[v] = from[v] /\ socket'[from'[v]] = socket[from[v]]
  BY TrackedKeepsSockets
<1>2. draining' = draining /\ listening' = listening /\ responses' = responses \cup {u}
  BY DEF Tracked
<1>3. \A d \in Socket : socket'[d] = "idle" => socket[d] = "idle"
  BY DEF Become, IInv, TypeOK
<1>4. \A v \in refused : from'[v] = from[v] \/ v = u
  BY DEF Tracked, IInv, TypeOK
<1>5. u \notin refused
  BY TrackedKeepsSockets
<1>6. NoConnectionKeptWhileDraining'
  BY <1>2, <1>3, <1>4, <1>5 DEF IInv, DrainInv, NoConnectionKeptWhileDraining
<1>7. (draining => \A v \in responses : v \in retired \cup refused \/ socket[from[v]] = "destroyed")'
  BY <1>1, <1>2 DEF IInv, DrainInv
<1> QED BY <1>2, <1>6, <1>7 DEF DrainInv, IInv

\* The response of a connection that has just ended, or will at once, closes.
LEMMA CloseKeepsInv ==
  ASSUME IInv, NEW u \in responses, ResponseCloses(u),
         NEW s \in {"destroyed", "idle", "closed"}, Become(from[u], s),
         s = "idle" /\ draining => u \in refused
  PROVE  IInv'
<1> DEFINE c == from[u]
<1>1. /\ from \in [Unit -> Socket \cup {NoSocket}] /\ socket \in [Socket -> SocketStates]
      /\ responses \subseteq Unit /\ c \in Socket /\ u \in Unit
  BY DEF IInv, TypeOK, SocketInv
<1>2. /\ socket' \in [Socket -> SocketStates] /\ socket'[c] = s
      /\ \A d \in Socket \ {c} : socket'[d] = socket[d]
  BY <1>1 DEF Become, SocketStates
<1>3. /\ responses' = responses \ {u} /\ challenged' = challenged \ {u} /\ from' = from
      /\ listening' = listening /\ draining' = draining /\ retired' = retired
      /\ refused' = refused /\ failed' = failed
  BY DEF ResponseCloses
<1>4. \A v \in responses' : from[v] \in Socket \ {c} /\ socket'[from[v]] = socket[from[v]]
  BY <1>2, <1>3 DEF IInv, SocketInv
<1>5. TypeOK'
  <2>1. RegistryTypeOK'
    BY <1>1, RegistryKeepsTypes DEF ResponseCloses, IInv, TypeOK
  <2> QED BY <1>2, <2>1 DEF ResponseCloses, IInv, TypeOK
<1>6. SocketInv'
  BY <1>3, <1>4 DEF IInv, SocketInv
<1>7. UnitInv'
  <2>1. open' = open \ {u}
    BY DEF ResponseCloses, CloseUnit, registryVars
  <2> QED BY <1>3, <2>1 DEF IInv, UnitInv, UnitsAreOpenResponses
<1>8. DrainInv'
  <2>1. NoConnectionKeptWhileDraining'
    BY <1>1, <1>2, <1>3 DEF IInv, DrainInv, NoConnectionKeptWhileDraining
  <2> QED BY <1>3, <1>4, <2>1 DEF IInv, DrainInv
<1> QED BY <1>5, <1>6, <1>7, <1>8 DEF IInv

\* What is left of the invariant once sockets can only go from busy to destroyed
\* and no response comes or goes.
LEMMA WritingKeepsInv ==
  ASSUME IInv, TypeOK',
         UNCHANGED <<open, draining, listening, from, responses, retired, refused, failed>>,
         challenged' \subseteq challenged,
         \A c \in Socket : socket'[c] = socket[c] \/ socket'[c] = "destroyed"
  PROVE  IInv'
<1>1. SocketInv'
  BY DEF IInv, SocketInv
<1>2. UnitInv'
  BY DEF IInv, UnitInv, UnitsAreOpenResponses
<1>3. NoConnectionKeptWhileDraining'
  BY DEF IInv, DrainInv, NoConnectionKeptWhileDraining
<1>4. DrainInv'
  BY <1>3 DEF IInv, DrainInv, SocketInv
<1> QED BY <1>1, <1>2, <1>4 DEF IInv

LEMMA FailTypes ==
  ASSUME IInv, NEW u \in Unit, from[u] \in Socket, Fail(u)
  PROVE  /\ socket' \in [Socket -> SocketStates] /\ sent' \subseteq Unit /\ ended' \subseteq sent'
         /\ \A c \in Socket : socket'[c] = socket[c] \/ socket'[c] = "destroyed"
BY DEF Fail, EndUnwritten, Become, IInv, TypeOK, SocketStates

\* Every call of stopAccepting: streams and idle connections go, the rest is retired.
LEMMA StopAcceptingKeepsInv ==
  ASSUME IInv, RegistryTypeOK', stopped' \in BOOLEAN, open' = open,
         NEW D \in SUBSET Socket, StopAccepting(D),
         \A c \in D : socket[c] \notin {"none", "closed"},
         Streaming \cup IdleSockets \subseteq D
  PROVE  IInv'
<1>1. /\ socket' \in [Socket -> SocketStates]
      /\ \A c \in Socket : socket'[c] = IF c \in D THEN "destroyed" ELSE socket[c]
      /\ responses' = responses /\ from' = from /\ retired' = retired \cup (responses \ streams)
      /\ refused' = refused /\ failed' = failed /\ challenged' = challenged
  BY DEF StopAccepting, IInv, TypeOK, SocketStates
<1>2. TypeOK'
  BY <1>1 DEF StopAccepting, IInv, TypeOK
<1>3. SocketInv'
  BY <1>1 DEF IInv, SocketInv
<1>4. UnitInv'
  BY <1>1 DEF IInv, UnitInv, UnitsAreOpenResponses
<1>5. \A c \in Socket : socket'[c] # "idle"
  BY <1>1 DEF IdleSockets
<1>6. \A u \in responses : u \in retired' \/ socket'[from[u]] = "destroyed"
  BY <1>1 DEF Streaming, IInv, SocketInv
<1>7. DrainInv'
  BY <1>1, <1>5, <1>6 DEF DrainInv, NoConnectionKeptWhileDraining, StopAccepting
<1> QED BY <1>2, <1>3, <1>4, <1>7 DEF IInv

-----------------------------------------------------------------------------
(* One lemma per kind of step.                                              *)

LEMMA ArrivalsKeepInv ==
  ASSUME IInv, NEW c \in Socket, NEW u \in Unit,
         \/ RefuseCrossSite(c, u) \/ Unrouted(c, u) \/ Challenge(c, u) \/ Dispatch(c, u)
         \/ \E written \in BOOLEAN : ThrowAtOnce(c, u, written)
  PROVE  IInv'
<1> DEFINE Routed == Unrouted(c, u) \/ Challenge(c, u) \/ Dispatch(c, u)
<1>1. Tracked(c, u)
  BY DEF RefuseCrossSite, Unrouted, Challenge, Dispatch, ThrowAtOnce
<1>2. PICK s \in {"busy", "destroyed"} : Become(c, s)
  BY DEF RefuseCrossSite, Unrouted, Challenge, Dispatch, ThrowAtOnce
<1>3. /\ refused \subseteq refused' /\ refused' \subseteq refused \cup {u}
      /\ failed' \subseteq failed \cup {u} /\ challenged' \subseteq challenged \cup {u}
      /\ retired \subseteq retired' /\ retired' \subseteq Unit
      /\ draining => u \in retired' \cup refused'
  BY DEF RefuseCrossSite, Unrouted, Challenge, Dispatch, ThrowAtOnce, RetireIfDraining, IInv, TypeOK
<1>4. /\ SocketInv'
      /\ from' \in [Unit -> Socket \cup {NoSocket}] /\ socket' \in [Socket -> SocketStates]
      /\ responses' \subseteq Unit
      /\ u \notin responses \cup refused \cup failed \cup challenged
  BY <1>1, <1>2, <1>3, TrackedKeepsSockets
<1>5. DrainInv'
  BY <1>1, <1>2, <1>3, TrackedKeepsDrain
<1>6. responses' = responses \cup {u}
  BY <1>1 DEF Tracked
<1>7. CASE RefuseCrossSite(c, u)
  <2>1. RegistryTypeOK'
    BY <1>7, RegistryKeepsTypes DEF RefuseCrossSite, IInv, TypeOK
  <2>2. TypeOK'
    BY <1>1, <1>3, <1>4, <1>7, <2>1 DEF RefuseCrossSite, Tracked, IInv, TypeOK
  <2>3. UnitInv'
    BY <1>4, <1>6, <1>7 DEF RefuseCrossSite, registryVars, IInv, UnitInv, UnitsAreOpenResponses
  <2> QED BY <1>4, <1>5, <2>2, <2>3 DEF IInv
<1>8. CASE Routed
  <2>1. OpenUnit(u) /\ RegistryTypeOK'
    BY <1>8, RegistryKeepsTypes DEF Unrouted, Challenge, Dispatch, IInv, TypeOK
  <2>2. TypeOK'
    BY <1>1, <1>3, <1>4, <1>8, <2>1 DEF Unrouted, Challenge, Dispatch, Tracked, IInv, TypeOK
  <2>3. refused' = refused /\ failed' = failed
    BY <1>8 DEF Unrouted, Challenge, Dispatch
  <2>4. UnitInv'
    BY <1>3, <1>4, <1>6, <2>1, <2>3 DEF OpenUnit, IInv, UnitInv, UnitsAreOpenResponses
  <2> QED BY <1>4, <1>5, <2>2, <2>4 DEF IInv
<1>9. CASE \E written \in BOOLEAN : ThrowAtOnce(c, u, written)
  <2>1. TypeOK'
    BY <1>1, <1>3, <1>4, <1>9 DEF ThrowAtOnce, Tracked, IInv, TypeOK, RegistryTypeOK
  <2>2. UnitInv'
    BY <1>4, <1>6, <1>9 DEF ThrowAtOnce, IInv, UnitInv, UnitsAreOpenResponses
  <2> QED BY <1>4, <1>5, <2>1, <2>2 DEF IInv
<1> QED BY <1>7, <1>8, <1>9

LEMMA SocketStepsKeepInv ==
  ASSUME IInv, NEW c \in Socket, Connect(c) \/ NextHead(c) \/ Gone(c) \/ SocketCloses(c)
  PROVE  IInv'
<1>1. CASE \E u \in responses : from[u] = c /\ ResponseCloses(u) /\ Become(c, "closed")
  BY <1>1, CloseKeepsInv
<1>2. CASE /\ Connect(c) \/ NextHead(c) \/ Gone(c) \/ SocketCloses(c)
           /\ UNCHANGED <<registryVars, listening, draining, stopped, from, responses, answering>>
  <2>1. PICK s \in {"reading", "destroyed", "closed"} :
          /\ Become(c, s)
          /\ s = "reading" => socket[c] \in {"none", "idle"}
          /\ s = "closed" => \A u \in responses : from[u] # c
    BY <1>2 DEF Connect, NextHead, Gone, SocketCloses, ResponseCloses, IInv, SocketInv
  <2>2. /\ socket' \in [Socket -> SocketStates] /\ socket'[c] = s
        /\ \A d \in Socket \ {c} : socket'[d] = socket[d]
    BY <2>1 DEF Become, SocketStates, IInv, TypeOK
  <2>3. UNCHANGED <<open, listening, draining, from, responses, retired, refused, failed, challenged>>
    BY <1>2 DEF registryVars, answering
  <2>4. TypeOK'
    <3>1. RegistryTypeOK'
      BY <1>2 DEF registryVars, RegistryTypeOK, IInv, TypeOK
    <3> QED BY <1>2, <2>2, <3>1 DEF answering, IInv, TypeOK
  <2>5. \A u \in responses : socket'[from[u]] = socket[from[u]] \/ socket'[from[u]] = "destroyed"
    BY <2>1, <2>2 DEF IInv, SocketInv
  <2>6. SocketInv'
    BY <2>3, <2>5 DEF IInv, SocketInv
  <2>7. UnitInv'
    BY <2>3 DEF IInv, UnitInv, UnitsAreOpenResponses
  <2>8. NoConnectionKeptWhileDraining'
    BY <2>2, <2>3 DEF IInv, DrainInv, NoConnectionKeptWhileDraining
  <2>9. DrainInv'
    BY <2>3, <2>5, <2>8 DEF IInv, DrainInv
  <2> QED BY <2>4, <2>6, <2>7, <2>9 DEF IInv
<1> QED BY <1>1, <1>2 DEF Connect, NextHead, Gone, SocketCloses

LEMMA AnswersKeepInv ==
  ASSUME IInv, NEW u \in Unit,
         \/ Finish(u) \/ ChallengeSettles(u) \/ ChallengeFails(u)
         \/ QueueStream(u) \/ WriteHead(u) \/ EndResponse(u)
         \/ AnswererSettles(u) \/ AnswererRejects(u)
  PROVE  IInv'
<1>1. CASE Finish(u)
  <2>1. /\ u \in responses /\ ResponseCloses(u)
        /\ Become(from[u], IF u \in retired THEN "destroyed" ELSE "idle")
    BY <1>1 DEF Finish
  <2>2. u \notin retired /\ draining => u \in refused
    BY <1>1 DEF Finish, IInv, DrainInv
  <2> QED BY <2>1, <2>2, CloseKeepsInv
<1>2. CASE ChallengeFails(u)
  <2>1. u \in challenged /\ u \in responses /\ u \in open /\ from[u] \in Socket
    BY <1>2 DEF ChallengeFails, IInv, UnitInv, UnitsAreOpenResponses, SocketInv
  <2>2. /\ socket' \in [Socket -> SocketStates] /\ sent' \subseteq Unit /\ ended' \subseteq sent'
        /\ \A c \in Socket : socket'[c] = socket[c] \/ socket'[c] = "destroyed"
    BY <1>2, <2>1, FailTypes DEF ChallengeFails
  <2>3. TypeOK'
    <3>1. RegistryTypeOK'
      BY <1>2, RegistryKeepsTypes DEF ChallengeFails, IInv, TypeOK
    <3> QED BY <1>2, <2>2, <3>1 DEF ChallengeFails, IInv, TypeOK
  <2>4. /\ UNCHANGED <<listening, draining, from, responses, retired, refused>>
        /\ challenged' = challenged \ {u} /\ failed' = failed \cup {u} /\ open' = open \ {u}
    BY <1>2 DEF ChallengeFails, CloseUnit
  <2>5. SocketInv'
    BY <2>1, <2>2, <2>4, SocketAssumption DEF IInv, SocketInv
  <2>6. UnitInv'
    BY <2>4 DEF IInv, UnitInv, UnitsAreOpenResponses
  <2>7. NoConnectionKeptWhileDraining'
    BY <2>2, <2>4 DEF IInv, DrainInv, NoConnectionKeptWhileDraining
  <2>8. DrainInv'
    BY <2>2, <2>4, <2>7 DEF IInv, DrainInv, SocketInv
  <2> QED BY <2>3, <2>5, <2>6, <2>8 DEF IInv
<1>3. CASE AnswererRejects(u)
  <2>1. CASE from[u] \in Socket
    <3>1. /\ socket' \in [Socket -> SocketStates] /\ sent' \subseteq Unit /\ ended' \subseteq sent'
          /\ \A c \in Socket : socket'[c] = socket[c] \/ socket'[c] = "destroyed"
      BY <1>3, <2>1, FailTypes DEF AnswererRejects
    <3>2. TypeOK'
      BY <1>3, <3>1 DEF AnswererRejects, registryVars, RegistryTypeOK, IInv, TypeOK
    <3> QED BY <1>3, <3>1, <3>2, WritingKeepsInv DEF AnswererRejects, registryVars
  <2>2. CASE from[u] \notin Socket
    <3>1. u \notin responses
      BY <2>2 DEF IInv, SocketInv
    <3>2. UNCHANGED <<sent, ended, socket>>
      BY <1>3, <3>1 DEF AnswererRejects, Fail, EndUnwritten
    <3>3. TypeOK'
      BY <1>3, <3>2 DEF AnswererRejects, registryVars, RegistryTypeOK, IInv, TypeOK
    <3> QED BY <1>3, <3>2, <3>3, WritingKeepsInv DEF AnswererRejects, registryVars
  <2> QED BY <2>1, <2>2
<1>4. CASE \/ ChallengeSettles(u) \/ QueueStream(u) \/ WriteHead(u) \/ EndResponse(u)
           \/ AnswererSettles(u)
  <2>1. TypeOK'
    BY <1>4 DEF ChallengeSettles, QueueStream, WriteHead, EndResponse, AnswererSettles,
                EndUnwritten, registryVars, RegistryTypeOK, IInv, TypeOK
  <2> QED BY <1>4, <2>1, WritingKeepsInv DEF ChallengeSettles, QueueStream, WriteHead,
                EndResponse, AnswererSettles, registryVars
<1> QED BY <1>1, <1>2, <1>3, <1>4

LEMMA BeatsKeepInv ==
  ASSUME IInv, Drain \/ Stop
  PROVE  IInv'
<1>1. CASE Drain
  <2>1. Streaming \cup IdleSockets \subseteq Socket
    BY DEF Streaming, IdleSockets, IInv, SocketInv
  <2>2. \A c \in Streaming \cup IdleSockets : socket[c] \notin {"none", "closed"}
    BY DEF Streaming, IdleSockets, IInv, SocketInv
  <2>3. RegistryTypeOK' /\ open' = open /\ stopped' \in BOOLEAN
    BY <1>1 DEF Drain, AwaitIdle, RegistryTypeOK, IdleStates, IInv, TypeOK
  <2> QED BY <1>1, <2>1, <2>2, <2>3, StopAcceptingKeepsInv DEF Drain
<1>2. CASE Stop
  <2> DEFINE all == {c \in Socket : socket[c] \notin {"none", "closed"}}
  <2>1. Streaming \cup IdleSockets \subseteq all
    BY DEF Streaming, IdleSockets, IInv, SocketInv
  <2>2. RegistryTypeOK' /\ open' = open /\ stopped' \in BOOLEAN
    BY <1>2 DEF Stop, registryVars, RegistryTypeOK, IInv, TypeOK
  <2> QED BY <1>2, <2>1, <2>2, StopAcceptingKeepsInv DEF Stop
<1> QED BY <1>1, <1>2

-----------------------------------------------------------------------------

LEMMA InitEstablishes == Init => IInv
<1> SUFFICES ASSUME Init PROVE IInv
  OBVIOUS
<1>1. TypeOK
  BY DEF Init, RegistryInit, RegistryTypeOK, IdleStates, SocketStates, TypeOK
<1>2. SocketInv
  BY DEF Init, SocketInv
<1>3. UnitInv
  BY DEF Init, RegistryInit, UnitInv, UnitsAreOpenResponses
<1>4. DrainInv
  BY DEF Init, DrainInv, NoConnectionKeptWhileDraining
<1> QED BY <1>1, <1>2, <1>3, <1>4 DEF IInv

LEMMA StepsPreserve == IInv /\ [Next]_vars => IInv'
<1>1. ASSUME IInv, UNCHANGED vars PROVE IInv'
  BY <1>1 DEF vars, registryVars, answering, IInv, TypeOK, RegistryTypeOK, SocketInv, UnitInv,
    UnitsAreOpenResponses, DrainInv, NoConnectionKeptWhileDraining
<1>2. ASSUME IInv, Next PROVE IInv'
  BY <1>2, ArrivalsKeepInv, SocketStepsKeepInv, AnswersKeepInv, BeatsKeepInv DEF Next
<1> QED BY <1>1, <1>2

LEMMA Invariance == Spec => []IInv
BY InitEstablishes, StepsPreserve, PTL DEF Spec

\* The variables of the server and of the registry it fills keep their types.
THEOREM TypeCorrect == Spec => []TypeOK
<1>1. IInv => TypeOK
  BY DEF IInv
<1> QED BY <1>1, Invariance, PTL

\* The kernel's units in flight are the responses open, refusals and failures
\* outside `answer` excepted: what the drain waits for is what clients wait for.
THEOREM UnitsFollowResponses == Spec => []UnitsAreOpenResponses
<1>1. IInv => UnitsAreOpenResponses
  BY DEF IInv, UnitInv
<1> QED BY <1>1, Invariance, PTL

\* A draining server keeps no connection for another request, but after a refusal.
THEOREM DrainKeepsNoConnection == Spec => []NoConnectionKeptWhileDraining
<1>1. IInv => NoConnectionKeptWhileDraining
  BY DEF IInv, DrainInv
<1> QED BY <1>1, Invariance, PTL
=============================================================================
