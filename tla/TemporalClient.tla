---------------------------- MODULE TemporalClient ----------------------------
(***************************************************************************)
(* The Temporal client's connection (temporal-client's index.ts): a facade *)
(* over the connection opened with the latest credentials.  Calls go to    *)
(* `inUse`; `close`, which the scope calls, stops the reloading and closes *)
(* what is then in use.                                                    *)
(***************************************************************************)
EXTENDS Reloading

CONSTANT MaxConnections   \* bound: the connections of a behaviour

ASSUME ClientAssumption == MaxConnections \in Nat \ {0}

VARIABLES
  connections,   \* every connection opened: its credentials, and how often it was closed
  inUse,         \* `current` of rotating
  closed,        \* what is in use has been closed
  brokenClose,   \* the close of a connection has failed
  closing        \* the scope's close(): "no", "waiting" for a tick in flight, "done"

facadeVars == <<connections, inUse, closed, brokenClose, closing>>
vars == <<reloadingVars, facadeVars>>

Connection == [credentials : Credentials, closes : Nat]
Opened(credentials) == <<[credentials |-> credentials, closes |-> 0]>>

TypeOK ==
  /\ ReloadingTypeOK
  /\ connections \in Seq(Connection) /\ Len(connections) \in 1..MaxConnections
  /\ inUse \in DOMAIN connections
  /\ closed \in BOOLEAN /\ brokenClose \in BOOLEAN
  /\ closing \in {"no", "waiting", "done"}

Init ==
  \E credentials \in Credentials :
    /\ ReloadingInit(credentials)
    /\ connections = Opened(credentials) /\ inUse = 1
    /\ closed = FALSE /\ brokenClose = FALSE /\ closing = "no"

CloseIn(cs, c) == [cs EXCEPT ![c].closes = @ + 1]

\* The tick is over, and leaves cs with c in use; a close() that waited for it goes on.
TickOver(cs, c, shut) ==
  /\ inUse' = c
  /\ IF closing = "waiting"
       THEN /\ closing' = "done" /\ closed' = TRUE
            /\ connections' = IF shut THEN cs ELSE CloseIn(cs, c)
       ELSE connections' = cs /\ closed' = shut /\ UNCHANGED closing

\* Wrong: a lost source is noted for the next tick, and calls go on with the previous key.
TickFailsKeepingOpen(cs, c) ==
  IF Tolerated
    THEN Unchanged /\ TickOver(cs, c, closed)
    ELSE /\ retry' = TRUE /\ Again
         /\ inUse' = c /\ connections' = cs
         /\ UNCHANGED <<source, stopped, current, next, closed, closing>>

\* It is tried again; with its source lost, nothing stays open to go on with.
TickFails(cs, c) ==
  IF Tolerated
    THEN Unchanged /\ TickOver(cs, c, closed)
    ELSE /\ retry' = TRUE /\ closed' = TRUE /\ inUse' = c
         /\ IF closed
              THEN Again /\ connections' = cs
              ELSE tick' = "losing" /\ connections' = CloseIn(cs, c)
         /\ UNCHANGED <<source, stopped, current, next, closing>>

TickIdles(reading) ==
  /\ tick = "reading" /\ (stopped \/ ChangeOf(reading) = "none")
  /\ Unchanged /\ TickOver(connections, inUse, closed)
  /\ UNCHANGED brokenClose

\* A key alone is set at once.
KeySet(reading) ==
  /\ tick = "reading" /\ ~stopped /\ ChangeOf(reading) = "key"
  /\ current' = reading /\ next' = reading /\ retry' = FALSE /\ Again
  /\ TickOver([connections EXCEPT ![inUse].credentials.key = reading.key], inUse, closed)
  /\ UNCHANGED <<source, stopped, brokenClose>>

TickConnects(reading) ==
  /\ ChangeOf(reading) = "tls" /\ StartApplying(reading)
  /\ UNCHANGED facadeVars

\* The reading failed, the key was refused, or the server was not reached.
NothingApplied ==
  /\ tick \in {"reading", "connecting"}
  /\ TickFails(connections, inUse)
  /\ UNCHANGED brokenClose

fresh == Len(connections) + 1

\* Wrong: a connection that a lost source had closed is closed again.
MoveForgettingClosed ==
  /\ tick = "connecting" /\ fresh <= MaxConnections
  /\ inUse' = fresh /\ closed' = FALSE /\ tick' = "closing"
  /\ connections' = CloseIn(connections \o Opened(next), inUse)
  /\ UNCHANGED <<source, stopped, retry, current, next, brokenClose, closing>>

\* Calls move to the new connection, and the one they leave is closed unless it was already.
Move ==
  /\ tick = "connecting" /\ fresh <= MaxConnections
  /\ UNCHANGED brokenClose
  /\ \/ closed /\ Applied /\ TickOver(connections \o Opened(next), fresh, FALSE)
     \/ /\ ~closed
        /\ inUse' = fresh /\ tick' = "closing"
        /\ connections' = CloseIn(connections \o Opened(next), inUse)
        /\ UNCHANGED <<source, stopped, retry, current, next, closed, closing>>

LeftCloses ==
  /\ tick = "closing"
  /\ Applied /\ TickOver(connections, inUse, closed)
  /\ UNCHANGED brokenClose

LeftDoesNotClose ==
  /\ tick = "closing"
  /\ brokenClose' = TRUE
  /\ TickFails(connections, inUse)

\* What a lost source left open has closed, or has failed to: the next tick is awaited.
LostCloses(ok) ==
  /\ tick = "losing"
  /\ brokenClose' = (brokenClose \/ ~ok)
  /\ Unchanged /\ TickOver(connections, inUse, closed)

\* close(), which the scope calls once.
Close ==
  /\ closing = "no"
  /\ StopReloading
  /\ IF InFlight
       THEN closing' = "waiting" /\ UNCHANGED <<connections, closed>>
       ELSE /\ closing' = "done" /\ closed' = TRUE
            /\ connections' = IF closed THEN connections ELSE CloseIn(connections, inUse)
  /\ UNCHANGED <<inUse, brokenClose>>

Next ==
  \/ TimerFires /\ UNCHANGED facadeVars
  \/ \E reading \in Credentials : TickIdles(reading) \/ KeySet(reading) \/ TickConnects(reading)
  \/ NothingApplied
  \/ Move
  \/ LeftCloses
  \/ LeftDoesNotClose
  \/ \E ok \in BOOLEAN : LostCloses(ok)
  \/ Close

Spec == Init /\ [][Next]_vars

-----------------------------------------------------------------------------

\* Every connection the facade ever used is closed once and no more by the time close() is over,
\* also one that a tick in flight opens while close() waits.
ClientClosedOnce ==
  \A c \in DOMAIN connections :
    connections[c].closes <= 1 /\ (closing = "done" => connections[c].closes = 1)

\* Calls go over an open connection that carries the credentials last applied, except from the
\* loss of the source until it is read again: then they go over a closed one and fail, and never
\* fall back to the previous key.
CallsFollowTheSource ==
  tick = "scheduled" =>
    /\ connections[inUse].closes = (IF retry THEN 1 ELSE 0)
    /\ ~retry /\ ~brokenClose => connections[inUse].credentials = current

\* The facade follows its credentials, and leaves no connection behind.
FacadeFollowsAndCloses == ClientClosedOnce /\ CallsFollowTheSource
=============================================================================
