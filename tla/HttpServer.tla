------------------------------ MODULE HttpServer ------------------------------
(***************************************************************************)
(* The HTTP runtime (packages/http-server/src/http-runtime.ts): the        *)
(* listener, its sockets, the responses that are open, and the unit of     *)
(* work that each request opens in the kernel's registry, up to the drain  *)
(* and the stop.                                                           *)
(*                                                                         *)
(* Node (external) parses heads and closes sockets; a client may leave and *)
(* a timeout may fire at any moment; answerers are the application's, and  *)
(* answer as they like, or never.  A socket carries one request at a time. *)
(***************************************************************************)
EXTENDS UnitRegistry

CONSTANTS
  Socket,     \* the connections a run may ever accept (a bound on their number)
  NoSocket    \* where a request that has not arrived comes from

ASSUME SocketAssumption == NoSocket \notin Socket

VARIABLES
  listening,  \* server.listening
  draining,   \* listen: `draining`
  stopped,    \* Serving.stop has been called
  socket,     \* what Node holds each connection to be doing
  from,       \* the connection of each request that arrived
  responses,  \* listen: `open`, the responses not closed yet
  sent,       \* headersSent
  ended,      \* writableEnded
  streams,    \* responses whose queued content type is text/event-stream
  retired,    \* responses that take their connection along when they finish
  challenged, \* requests whose challenge is being looked up
  handling,   \* requests whose answerer has not settled
  refused,    \* cross-site requests, answered 403 without a unit
  failed      \* requests whose unit failed outside the reach of `answer`

answering == <<sent, ended, streams, retired, challenged, handling, refused, failed>>
vars == <<registryVars, listening, draining, stopped, socket, from, responses, answering>>

\* "reading": accepted, or idle no more, with a head not fully received; Node
\* does not count such a connection as idle.  "destroyed": about to close.
SocketStates == {"none", "reading", "busy", "idle", "destroyed", "closed"}

TypeOK ==
  /\ RegistryTypeOK
  /\ listening \in BOOLEAN
  /\ draining \in BOOLEAN
  /\ stopped \in BOOLEAN
  /\ socket \in [Socket -> SocketStates]
  /\ from \in [Unit -> Socket \cup {NoSocket}]
  /\ responses \subseteq Unit
  /\ sent \subseteq Unit
  /\ ended \subseteq sent
  /\ streams \subseteq Unit
  /\ retired \subseteq Unit
  /\ challenged \subseteq Unit
  /\ handling \subseteq Unit
  /\ refused \subseteq Unit
  /\ failed \subseteq Unit

Init ==
  /\ RegistryInit
  /\ listening = TRUE
  /\ draining = FALSE
  /\ stopped = FALSE
  /\ socket = [c \in Socket |-> "none"]
  /\ from = [u \in Unit |-> NoSocket]
  /\ responses = {}
  /\ sent = {} /\ ended = {} /\ streams = {} /\ retired = {}
  /\ challenged = {} /\ handling = {} /\ refused = {} /\ failed = {}

Become(c, state) == socket' = [socket EXCEPT ![c] = state]

-----------------------------------------------------------------------------
(* Sockets.                                                                *)

Connect(c) ==
  /\ listening /\ socket[c] = "none"
  /\ Become(c, "reading")
  /\ UNCHANGED <<registryVars, listening, draining, stopped, from, responses, answering>>

NextHead(c) ==
  /\ socket[c] = "idle"
  /\ Become(c, "reading")
  /\ UNCHANGED <<registryVars, listening, draining, stopped, from, responses, answering>>

\* The client leaves, or one of the listener's time budgets runs out.
Gone(c) ==
  /\ socket[c] \in {"reading", "busy", "idle"}
  /\ Become(c, "destroyed")
  /\ UNCHANGED <<registryVars, listening, draining, stopped, from, responses, answering>>

\* Wrong: a unit whose challenge is being looked up waits for the lookup alone.
ResponseClosesUnraced(u) ==
  /\ responses' = responses \ {u}
  /\ IF u \in open \ challenged THEN CloseUnit(u) ELSE UNCHANGED registryVars
  /\ UNCHANGED <<listening, draining, stopped, from, sent, ended, streams, retired, challenged,
                 handling, refused, failed>>

\* A response's 'close': it leaves `open`, and the unit that waited for it, by its
\* answerer or by the race with the challenge, settles.
ResponseCloses(u) ==
  /\ responses' = responses \ {u}
  /\ challenged' = challenged \ {u}
  /\ IF u \in open THEN CloseUnit(u) ELSE UNCHANGED registryVars
  /\ UNCHANGED <<listening, draining, stopped, from, sent, ended, streams, retired, handling,
                 refused, failed>>

SocketCloses(c) ==
  /\ socket[c] = "destroyed"
  /\ Become(c, "closed")
  /\ \/ \E u \in responses : from[u] = c /\ ResponseCloses(u)
     \/ /\ \A u \in responses : from[u] # c
        /\ UNCHANGED <<registryVars, listening, draining, stopped, from, responses, answering>>

\* The last byte is out.  A retired response ends its connection, by its
\* `Connection: close` or by the 'finish' listener; any other leaves it idle.
Finish(u) ==
  /\ u \in responses \cap ended
  /\ socket[from[u]] = "busy"
  /\ ResponseCloses(u)
  /\ Become(from[u], IF u \in retired THEN "destroyed" ELSE "idle")

-----------------------------------------------------------------------------
(* A request.                                                              *)

\* `end` writes a whole response where nothing has been written.
EndUnwritten(u) ==
  IF u \in sent \/ socket[from[u]] = "destroyed" \/ u \notin responses
  THEN UNCHANGED <<sent, ended>>
  ELSE sent' = sent \cup {u} /\ ended' = ended \cup {u}

\* `fail`: a whole 500, or the connection is reset where one is under way.
Fail(u) ==
  /\ EndUnwritten(u)
  /\ IF u \in (responses \cap sent) \ ended THEN Become(from[u], "destroyed") ELSE UNCHANGED socket

\* The request callback, up to what a request is: tracked, and a member of `open`.
Tracked(c, u) ==
  /\ socket[c] = "reading" /\ from[u] = NoSocket
  /\ from' = [from EXCEPT ![u] = c]
  /\ responses' = responses \cup {u}
  /\ UNCHANGED <<listening, draining, stopped, streams>>

RetireIfDraining(u) == retired' = IF draining THEN retired \cup {u} ELSE retired

\* A cross-site request under csrf: 403 before any unit, and before `retire`.
RefuseCrossSite(c, u) ==
  /\ Tracked(c, u)
  /\ Become(c, "busy")
  /\ refused' = refused \cup {u}
  /\ sent' = sent \cup {u} /\ ended' = ended \cup {u}
  /\ UNCHANGED <<registryVars, retired, challenged, handling, failed>>

\* No answerer owns the path: the runtime's own 404, inside the unit.
Unrouted(c, u) ==
  /\ Tracked(c, u)
  /\ Become(c, "busy")
  /\ RetireIfDraining(u) /\ OpenUnit(u)
  /\ sent' = sent \cup {u} /\ ended' = ended \cup {u}
  /\ UNCHANGED <<challenged, handling, refused, failed>>

Challenge(c, u) ==
  /\ Tracked(c, u)
  /\ Become(c, "busy")
  /\ RetireIfDraining(u) /\ OpenUnit(u)
  /\ challenged' = challenged \cup {u}
  /\ UNCHANGED <<sent, ended, handling, refused, failed>>

Dispatch(c, u) ==
  /\ Tracked(c, u)
  /\ Become(c, "busy")
  /\ RetireIfDraining(u) /\ OpenUnit(u)
  /\ handling' = handling \cup {u}
  /\ UNCHANGED <<sent, ended, challenged, refused, failed>>

\* The answerer throws before it returns a promise, with or without having
\* written: the unit opens and closes in one turn, and `recoverDefect` fails the
\* response after it.
ThrowAtOnce(c, u, written) ==
  /\ Tracked(c, u)
  /\ RetireIfDraining(u)
  /\ seen' = seen \cup {u} /\ u \notin seen
  /\ closedCount' = closedCount + 1
  /\ aborted' = aborted \cup {u}
  /\ failed' = failed \cup {u}
  /\ sent' = sent \cup {u}
  /\ ended' = IF written THEN ended ELSE ended \cup {u}
  /\ Become(c, IF written THEN "destroyed" ELSE "busy")
  /\ UNCHANGED <<open, idle, challenged, handling, refused>>

\* The challenge is settled before the response closed: the answerer is called.
ChallengeSettles(u) ==
  /\ u \in challenged
  /\ challenged' = challenged \ {u}
  /\ handling' = handling \cup {u}
  /\ UNCHANGED <<registryVars, listening, draining, stopped, socket, from, responses, sent, ended,
                 streams, retired, refused, failed>>

\* The lookup defects, or the answerer called after it throws: the unit settles
\* first and `recoverDefect` fails the response after it.
ChallengeFails(u) ==
  /\ u \in challenged
  /\ challenged' = challenged \ {u}
  /\ failed' = failed \cup {u}
  /\ CloseUnit(u)
  /\ Fail(u)
  /\ UNCHANGED <<listening, draining, stopped, from, responses, streams, retired, handling, refused>>

-----------------------------------------------------------------------------
(* An answerer writes, and settles.                                        *)

\* Unwritten or partly written, by an answerer that still may write.
Writable(u) ==
  /\ u \in responses \ ended
  /\ u \in handling \cup sent
  /\ socket[from[u]] = "busy"

QueueStream(u) ==
  /\ Writable(u) /\ u \notin sent \cup streams
  /\ streams' = streams \cup {u}
  /\ UNCHANGED <<registryVars, listening, draining, stopped, socket, from, responses, sent, ended,
                 retired, challenged, handling, refused, failed>>

WriteHead(u) ==
  /\ Writable(u) /\ u \notin sent
  /\ sent' = sent \cup {u}
  /\ UNCHANGED <<registryVars, listening, draining, stopped, socket, from, responses, ended,
                 streams, retired, challenged, handling, refused, failed>>

EndResponse(u) ==
  /\ Writable(u)
  /\ sent' = sent \cup {u} /\ ended' = ended \cup {u}
  /\ UNCHANGED <<registryVars, listening, draining, stopped, socket, from, responses, streams,
                 retired, challenged, handling, refused, failed>>

\* `answer`, when the promise resolves: a 404 unless the answerer wrote something.
AnswererSettles(u) ==
  /\ u \in handling
  /\ handling' = handling \ {u}
  /\ EndUnwritten(u)
  /\ UNCHANGED <<registryVars, listening, draining, stopped, socket, from, responses, streams,
                 retired, challenged, refused, failed>>

\* `answer`, when it rejects.
AnswererRejects(u) ==
  /\ u \in handling
  /\ handling' = handling \ {u}
  /\ Fail(u)
  /\ UNCHANGED <<registryVars, listening, draining, stopped, from, responses, streams, retired,
                 challenged, refused, failed>>

-----------------------------------------------------------------------------
(* The kernel's beats.                                                     *)

Streaming == {from[u] : u \in responses \cap streams}

IdleSockets == {c \in Socket : socket[c] = "idle"}

\* Wrong: only the responses whose head is not out are retired.
StopAcceptingUnsent(destroy) ==
  /\ draining' = TRUE
  /\ listening' = FALSE
  /\ retired' = retired \cup (responses \ (streams \cup sent))
  /\ socket' = [c \in Socket |-> IF c \in destroy THEN "destroyed" ELSE socket[c]]
  /\ UNCHANGED <<from, responses, sent, ended, streams, challenged, handling, refused, failed>>

\* stopAccepting: every open stream is reset and every other open response
\* retired; the first call closes the listener and the connections idle by then.
StopAccepting(destroy) ==
  /\ draining' = TRUE
  /\ listening' = FALSE
  /\ retired' = retired \cup (responses \ streams)
  /\ socket' = [c \in Socket |-> IF c \in destroy THEN "destroyed" ELSE socket[c]]
  /\ UNCHANGED <<from, responses, sent, ended, streams, challenged, handling, refused, failed>>

\* Serving.drain, and the kernel asking the registry to be idle.
Drain ==
  /\ ~draining
  /\ StopAccepting(Streaming \cup IdleSockets)
  /\ AwaitIdle
  /\ UNCHANGED stopped

\* Serving.stop, after the drain or without one: no socket survives it.
Stop ==
  /\ ~stopped
  /\ stopped' = TRUE
  /\ StopAccepting({c \in Socket : socket[c] \notin {"none", "closed"}})
  /\ UNCHANGED registryVars

-----------------------------------------------------------------------------

Next ==
  \/ Drain \/ Stop
  \/ \E c \in Socket :
       \/ Connect(c) \/ NextHead(c) \/ Gone(c) \/ SocketCloses(c)
       \/ \E u \in Unit :
            \/ RefuseCrossSite(c, u) \/ Unrouted(c, u) \/ Challenge(c, u) \/ Dispatch(c, u)
            \/ \E written \in BOOLEAN : ThrowAtOnce(c, u, written)
  \/ \E u \in Unit :
       \/ Finish(u)
       \/ ChallengeSettles(u) \/ ChallengeFails(u)
       \/ QueueStream(u) \/ WriteHead(u) \/ EndResponse(u)
       \/ AnswererSettles(u) \/ AnswererRejects(u)

Spec == Init /\ [][Next]_vars

-----------------------------------------------------------------------------
(* Properties.                                                             *)

\* "The unit's lifetime IS the response's": the units in flight are the responses
\* open, so the kernel waits for every answer under way and for nothing else, be
\* the client gone in the middle of a challenge or the stream reset by the drain.
\* Refusals have no unit, and a unit that failed outside `answer` precedes its 500.
UnitsAreOpenResponses == open = responses \ (refused \cup failed)

\* No connection is kept for another request while draining, whatever it was
\* doing as the drain began or has sent since; closing the idle ones alone
\* misses it.  Excepted: one that was refused a cross-site request, as that
\* answer goes out before the runtime asks whether it is draining.
NoConnectionKeptWhileDraining ==
  draining => \A c \in Socket : socket[c] = "idle" => \E u \in refused : from[u] = c
=============================================================================
