---------------------------- MODULE TemporalWorker ----------------------------
(***************************************************************************)
(* The Temporal worker as a runtime of the kernel (temporal-runtime.ts):   *)
(* poll, whose run() the kernel's drain and stop wait for and their        *)
(* deadline abandons; rotate, which moves the worker to the connections    *)
(* that changed credentials open; and the connection of the graph, which   *)
(* is released when the scope closes.                                      *)
(*                                                                         *)
(* The worker and its connections are the SDK's: run() settles when it     *)
(* likes, and a connection that a worker holds refuses to close.           *)
(***************************************************************************)
EXTENDS Reloading

CONSTANT MaxConnections   \* bound: the connections of a behaviour

ASSUME WorkerAssumption == MaxConnections \in Nat \ {0}

VARIABLES
  connections,   \* every connection opened: its credentials, and how often it was closed
  held,          \* the worker's, which it holds until its run settles
  inUse,         \* `current` of rotate: the one keys are set on
  owned,         \* those the reloading has opened and not closed
  brokenClose,   \* the close of a connection has failed
  settling,      \* whether the reloading's own are closed: "no", "waiting" for a tick, "done"
  worker,        \* "running", "stopping", "stopped" or "failed"
  asked,         \* the kernel asked it to stop
  deadline,      \* the kernel's: "none", "given" or "aborted"
  drain, stop,   \* the kernel's calls: "none", "waiting" or "done"
  heard,         \* stopped() has settled
  released       \* the graph's connection: "no", "waiting" for the run, "done"

rotationVars == <<connections, held, inUse, owned, brokenClose, settling>>
kernelVars == <<asked, deadline, drain, stop, released>>
vars == <<reloadingVars, rotationVars, worker, heard, kernelVars>>

opened == 1   \* the connection of the graph
Connection == [credentials : Credentials, closes : Nat]
Opened(credentials) == <<[credentials |-> credentials, closes |-> 0]>>

RunSettled == worker \in {"stopped", "failed"}

TypeOK ==
  /\ ReloadingTypeOK
  /\ connections \in Seq(Connection) /\ Len(connections) \in 1..MaxConnections
  /\ held \in DOMAIN connections /\ inUse \in DOMAIN connections
  /\ owned \subseteq DOMAIN connections \ {opened}
  /\ brokenClose \in BOOLEAN /\ settling \in {"no", "waiting", "done"}
  /\ worker \in {"running", "stopping", "stopped", "failed"} /\ heard \in BOOLEAN
  /\ asked \in BOOLEAN /\ deadline \in {"none", "given", "aborted"}
  /\ {drain, stop} \subseteq {"none", "waiting", "done"}
  /\ released \in {"no", "waiting", "done"}

Init ==
  \E credentials \in Credentials :
    /\ ReloadingInit(credentials)
    /\ connections = Opened(credentials)
    /\ held = opened /\ inUse = opened /\ owned = {}
    /\ brokenClose = FALSE /\ settling = "no"
    /\ worker = "running" /\ heard = FALSE
    /\ asked = FALSE /\ deadline = "none" /\ drain = "none" /\ stop = "none" /\ released = "no"

-----------------------------------------------------------------------------
(* rotate: what a tick of the reloading applies.                            *)

Closed(cs, S) ==
  [c \in DOMAIN cs |-> IF c \in S THEN [cs[c] EXCEPT !.closes = @ + 1] ELSE cs[c]]

\* The tick is over and leaves the connections cs; a settle() that waited for it goes on.
TickOver(cs) ==
  IF settling = "waiting"
    THEN settling' = "done" /\ connections' = Closed(cs, owned')
    ELSE UNCHANGED settling /\ connections' = cs

StopPolling == worker' = IF worker = "running" THEN "stopping" ELSE worker

TickSucceeds == Applied /\ UNCHANGED <<worker, heard>>

\* It is tried again, or the source it lost takes the worker down.
TickFails ==
  \/ Tolerated /\ Unchanged /\ UNCHANGED <<worker, heard>>
  \/ /\ ~Tolerated
     /\ tick' = "off" /\ stopped' = TRUE /\ retry' = TRUE /\ heard' = TRUE
     /\ StopPolling
     /\ UNCHANGED <<source, current, next>>

TickIdles(reading) ==
  /\ tick = "reading" /\ (stopped \/ ChangeOf(reading) = "none")
  /\ Unchanged
  /\ UNCHANGED <<held, inUse, owned, brokenClose, worker, heard, kernelVars>>
  /\ TickOver(connections)

TickApplies(reading) ==
  /\ StartApplying(reading)
  /\ UNCHANGED <<rotationVars, worker, heard, kernelVars>>

\* The reading failed, no connection opened, or the key was refused.
NothingApplied ==
  /\ tick \in {"reading", "connecting", "setting"}
  /\ TickFails
  /\ UNCHANGED <<held, inUse, owned, brokenClose, kernelVars>>
  /\ TickOver(connections)

KeySet ==
  /\ tick = "setting"
  /\ TickSucceeds
  /\ UNCHANGED <<held, inUse, owned, brokenClose, kernelVars>>
  /\ TickOver([connections EXCEPT ![inUse].credentials.key = next.key])

fresh == Len(connections) + 1
Connected == tick = "connecting" /\ fresh <= MaxConnections

\* The connection left behind, if it is the reloading's to close.
Left == owned \cap {inUse}

\* Wrong: that the worker did not take the connection goes unnoticed.
MoveRefusedUnnoticed ==
  /\ Connected
  /\ inUse' = fresh /\ owned' = (owned \ Left) \cup {fresh}
  /\ TickSucceeds
  /\ UNCHANGED <<held, brokenClose, kernelVars>>
  /\ TickOver(Closed(connections \o Opened(next), Left))

\* The worker does not take the connection, which stays owned.
MoveRefused ==
  /\ Connected
  /\ owned' = owned \cup {fresh}
  /\ TickFails
  /\ UNCHANGED <<held, inUse, brokenClose, kernelVars>>
  /\ TickOver(connections \o Opened(next))

Move ==
  /\ Connected
  /\ held' = fresh /\ inUse' = fresh
  /\ owned' = (owned \ Left) \cup {fresh}
  /\ UNCHANGED <<brokenClose, worker, heard, kernelVars>>
  /\ \/ /\ Left = {}
        /\ Applied
        /\ TickOver(connections \o Opened(next))
     \/ /\ Left # {}
        /\ tick' = "closing"
        /\ connections' = Closed(connections \o Opened(next), Left)
        /\ UNCHANGED <<source, stopped, retry, current, next, settling>>

LeftCloses ==
  /\ tick = "closing"
  /\ TickSucceeds
  /\ UNCHANGED <<held, inUse, owned, brokenClose, kernelVars>>
  /\ TickOver(connections)

LeftDoesNotClose ==
  /\ tick = "closing"
  /\ brokenClose' = TRUE
  /\ TickFails
  /\ UNCHANGED <<held, inUse, owned, kernelVars>>
  /\ TickOver(connections)

-----------------------------------------------------------------------------
(* poll, and the release of the graph's connection.                         *)

\* releasedBy(deadline, running)
WaitForRun(aborted) == IF RunSettled \/ aborted THEN "done" ELSE "waiting"

Drain ==
  /\ drain = "none" /\ stop = "none"
  /\ asked' = TRUE /\ deadline' = "given"
  /\ StopPolling
  /\ drain' = WaitForRun(FALSE)
  /\ UNCHANGED <<reloadingVars, rotationVars, heard, stop, released>>

Stop ==
  /\ stop = "none" /\ drain # "waiting"
  /\ asked' = TRUE
  /\ StopPolling
  /\ stop' = WaitForRun(deadline = "aborted")
  /\ UNCHANGED <<reloadingVars, rotationVars, heard, deadline, drain, released>>

DeadlineAborts ==
  /\ deadline = "given"
  /\ deadline' = "aborted"
  /\ drain' = "done" /\ stop' = IF stop = "none" THEN "none" ELSE "done"
  /\ UNCHANGED <<reloadingVars, rotationVars, worker, heard, asked, released>>

\* The scope closes once stop() has settled; a connection the worker holds waits for its run.
Release ==
  /\ stop = "done" /\ released = "no"
  /\ IF held = opened /\ ~RunSettled
       THEN released' = "waiting" /\ UNCHANGED connections
       ELSE released' = "done" /\ connections' = Closed(connections, {opened})
  /\ UNCHANGED <<reloadingVars, held, inUse, owned, brokenClose, settling, worker, heard,
                 asked, deadline, drain, stop>>

\* Wrong: what the reloading opened is closed without waiting for the tick in flight.
SettleAtOnce(cs) == settling' = "done" /\ connections' = Closed(cs, owned)

\* The reloading is stopped, and its connections closed once no tick is in flight.
Settle(cs) ==
  IF InFlight THEN settling' = "waiting" /\ connections' = cs
              ELSE settling' = "done" /\ connections' = Closed(cs, owned)

\* run() settles: by itself only to fail, before anyone asked for it or after.
RunSettles(how) ==
  /\ worker = "stopping" \/ (worker = "running" /\ how = "failed")
  /\ worker' = how
  /\ heard' = (heard \/ ~asked)
  /\ drain' = IF drain = "waiting" THEN "done" ELSE drain
  /\ stop' = IF stop = "waiting" THEN "done" ELSE stop
  /\ released' = IF released = "waiting" THEN "done" ELSE released
  /\ StopReloading
  /\ Settle(IF released = "waiting" THEN Closed(connections, {opened}) ELSE connections)
  /\ UNCHANGED <<held, inUse, owned, brokenClose, asked, deadline>>

Tick ==
  \/ TimerFires /\ UNCHANGED <<rotationVars, worker, heard, kernelVars>>
  \/ \E reading \in Credentials : TickIdles(reading) \/ TickApplies(reading)
  \/ NothingApplied
  \/ KeySet
  \/ MoveRefused
  \/ Move
  \/ LeftCloses
  \/ LeftDoesNotClose

Next ==
  \/ Tick
  \/ Drain
  \/ Stop
  \/ DeadlineAborts
  \/ Release
  \/ \E how \in {"stopped", "failed"} : RunSettles(how)

Spec == Init /\ [][Next]_vars

-----------------------------------------------------------------------------

\* Every connection a reload opened is closed once and no more, by the time the run has settled
\* and the reloading with it, and the graph's by its release alone, whatever was refused and
\* however the run ended.
ClosedOnce ==
  \A c \in DOMAIN connections :
    /\ connections[c].closes <= 1
    /\ c # opened /\ settling = "done" => connections[c].closes = 1
    /\ c = opened => (connections[c].closes = 1 <=> released = "done")

\* A worker that polls, or winds down after the kernel has stopped waiting for it, does so over
\* a connection nobody has closed.
HeldStaysOpen == ~RunSettled => connections[held].closes = 0

\* Between ticks the worker's own connection carries the credentials last applied, unless
\* closing a connection has failed: then the worker has moved and the reading does not count.
CarriesCurrent ==
  tick = "scheduled" /\ ~brokenClose => connections[held].credentials = current

\* A reload moves the worker from one connection to the next and leaves nothing of either.
ReloadsInPlace == ClosedOnce /\ HeldStaysOpen /\ CarriesCurrent
=============================================================================
