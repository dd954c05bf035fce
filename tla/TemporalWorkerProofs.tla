------------------------- MODULE TemporalWorkerProofs -------------------------
(***************************************************************************)
(* The reloading closes what it opened once, leaves the graph's connection *)
(* to the graph, and never takes the connection from under a worker.       *)
(***************************************************************************)
EXTENDS TemporalWorker, SequenceTheorems, TLAPS

\* Of cs, all are closed but the reloading's own, `mine`, and the graph's until it is freed.
Balanced(cs, mine, freed) ==
  \A c \in DOMAIN cs : cs[c].closes = IF c \in mine \/ (c = opened /\ ~freed) THEN 0 ELSE 1

StillOpen == IF settling = "done" THEN {} ELSE owned

RotationInv ==
  /\ Balanced(connections, StillOpen, released = "done")
  /\ held = inUse
  /\ inUse = opened \/ inUse \in owned
  /\ released = "done" => inUse # opened \/ RunSettled
  /\ settling = "no" <=> ~RunSettled
  /\ settling = "waiting" => stopped /\ InFlight
  /\ settling = "done" => tick = "off"
  /\ tick = "off" => stopped
  /\ tick # "losing"
  /\ tick = "setting" => next.tls = current.tls
  /\ ~brokenClose =>
       connections[inUse].credentials = (IF tick = "closing" THEN next ELSE current)

IInv == TypeOK /\ RotationInv

-----------------------------------------------------------------------------
(* Closing connections, and opening one.                                    *)

LEMMA ClosedEach ==
  ASSUME NEW cs \in Seq(Connection), NEW S
  PROVE  /\ Closed(cs, S) \in Seq(Connection) /\ Len(Closed(cs, S)) = Len(cs)
         /\ DOMAIN Closed(cs, S) = DOMAIN cs
         /\ \A c \in DOMAIN cs :
              /\ Closed(cs, S)[c].closes = IF c \in S THEN cs[c].closes + 1 ELSE cs[c].closes
              /\ Closed(cs, S)[c].credentials = cs[c].credentials
<1>1. DOMAIN cs = 1..Len(cs) /\ Len(cs) \in Nat /\ \A c \in DOMAIN cs : cs[c] \in Connection
  BY ElementOfSeq, LenProperties
<1>2. \A c \in DOMAIN cs :
        LET one == [cs[c] EXCEPT !.closes = @ + 1] IN
        one \in Connection /\ one.closes = cs[c].closes + 1 /\ one.credentials = cs[c].credentials
  BY <1>1 DEF Connection
<1> DEFINE all == Closed(cs, S)
<1>3. all = [c \in 1..Len(cs) |-> IF c \in S THEN [cs[c] EXCEPT !.closes = @ + 1] ELSE cs[c]]
  BY <1>1 DEF Closed
<1>4. \A c \in 1..Len(cs) : all[c] \in Connection
  BY <1>1, <1>2, <1>3
<1>5. all \in [1..Len(cs) -> Connection] /\ DOMAIN all = 1..Len(cs)
  <2>1. all = [c \in 1..Len(cs) |-> all[c]]
    BY <1>3
  <2>. HIDE DEF all
  <2> QED BY <1>4, <2>1
<1>6. \A c \in DOMAIN cs :
        /\ all[c].closes = IF c \in S THEN cs[c].closes + 1 ELSE cs[c].closes
        /\ all[c].credentials = cs[c].credentials
  BY <1>1, <1>2, <1>3
<1> HIDE DEF all
<1>7. all \in Seq(Connection) /\ Len(all) = Len(cs)
  BY <1>1, <1>5, IsASeq, LenProperties
<1> QED BY <1>1, <1>5, <1>6, <1>7 DEF all

\* What the reloading closes is no longer its own.
LEMMA ClosesItsOwn ==
  ASSUME NEW cs \in Seq(Connection), NEW mine, opened \notin mine, NEW S, S \subseteq mine,
         NEW freed \in BOOLEAN, Balanced(cs, mine, freed)
  PROVE  Balanced(Closed(cs, S), mine \ S, freed)
<1> SUFFICES ASSUME NEW c \in DOMAIN cs
             PROVE  Closed(cs, S)[c].closes =
                      IF c \in mine \ S \/ (c = opened /\ ~freed) THEN 0 ELSE 1
  BY ClosedEach DEF Balanced
<1>1. /\ Closed(cs, S)[c].closes = IF c \in S THEN cs[c].closes + 1 ELSE cs[c].closes
      /\ cs[c].closes = IF c \in mine \/ (c = opened /\ ~freed) THEN 0 ELSE 1
  BY ClosedEach DEF Balanced
<1>2. CASE c \in S
  BY <1>1, <1>2
<1>3. CASE c \notin S
  BY <1>1, <1>3
<1> QED BY <1>2, <1>3

LEMMA ClosesTheGraphs ==
  ASSUME NEW cs \in Seq(Connection), NEW mine, opened \notin mine, Balanced(cs, mine, FALSE)
  PROVE  Balanced(Closed(cs, {opened}), mine, TRUE)
BY ClosedEach DEF Balanced

LEMMA OpenOne ==
  ASSUME NEW cs \in Seq(Connection), Len(cs) # 0, NEW credentials \in Credentials,
         NEW mine, NEW freed \in BOOLEAN, Balanced(cs, mine, freed), mine \subseteq DOMAIN cs
  PROVE  LET all == cs \o Opened(credentials) IN
         /\ all \in Seq(Connection) /\ Len(all) = Len(cs) + 1
         /\ DOMAIN all = DOMAIN cs \cup {Len(cs) + 1} /\ DOMAIN cs = 1..Len(cs)
         /\ all[Len(cs) + 1].credentials = credentials
         /\ \A c \in DOMAIN cs : all[c] = cs[c]
         /\ Balanced(all, mine \cup {Len(cs) + 1}, freed)
<1> DEFINE all == cs \o Opened(credentials)
<1>1. /\ all \in Seq(Connection) /\ Len(all) = Len(cs) + 1
      /\ DOMAIN all = DOMAIN cs \cup {Len(cs) + 1} /\ DOMAIN cs = 1..Len(cs)
      /\ all[Len(cs) + 1] = [credentials |-> credentials, closes |-> 0]
      /\ \A c \in DOMAIN cs : all[c] = cs[c]
  BY DEF Opened, Connection
<1>2. Len(cs) \in Nat /\ Len(cs) + 1 \notin DOMAIN cs /\ Len(cs) + 1 # opened
  BY <1>1, LenProperties DEF opened
<1> HIDE DEF all
<1>3. Balanced(all, mine \cup {Len(cs) + 1}, freed)
  <2> SUFFICES ASSUME NEW c \in DOMAIN all
               PROVE  all[c].closes =
                        IF c \in mine \cup {Len(cs) + 1} \/ (c = opened /\ ~freed) THEN 0 ELSE 1
    BY DEF Balanced
  <2>1. CASE c = Len(cs) + 1
    BY <1>1, <2>1
  <2>2. CASE c # Len(cs) + 1
    BY <1>1, <2>2 DEF Balanced
  <2> QED BY <2>1, <2>2
<1> QED BY <1>1, <1>3 DEF all

-----------------------------------------------------------------------------
(* The end of a tick.                                                       *)

\* A tick that is over leaves the connections cs, and closes the reloading's own if the end of
\* the run waited for it.
LEMMA TickOverKeeps ==
  ASSUME NEW cs \in Seq(Connection), opened \notin owned', NEW freed \in BOOLEAN,
         Balanced(cs, owned', freed), settling \in {"no", "waiting"}, TickOver(cs)
  PROVE  /\ connections' \in Seq(Connection) /\ Len(connections') = Len(cs)
         /\ DOMAIN connections' = DOMAIN cs
         /\ \A c \in DOMAIN cs : connections'[c].credentials = cs[c].credentials
         /\ Balanced(connections', StillOpen', freed)
         /\ settling = "waiting" => settling' = "done"
         /\ settling = "no" => settling' = "no"
<1>1. CASE settling = "waiting"
  <2>1. settling' = "done" /\ connections' = Closed(cs, owned') /\ StillOpen' = {}
    BY <1>1 DEF TickOver, StillOpen
  <2>2. Balanced(Closed(cs, owned'), owned' \ owned', freed) /\ owned' \ owned' = {}
    BY ClosesItsOwn
  <2> QED BY <1>1, <2>1, <2>2, ClosedEach
<1>2. CASE settling = "no"
  BY <1>2 DEF TickOver, StillOpen
<1> QED BY <1>1, <1>2

\* What a tick has to have kept when it is over.
LEMMA TickEnds ==
  ASSUME IInv, InFlight, NEW cs \in Seq(Connection), Len(cs) \in 1..MaxConnections,
         owned' \subseteq DOMAIN cs \ {opened}, Balanced(cs, owned', released = "done"),
         TickOver(cs), inUse' \in DOMAIN cs, held' = inUse', inUse' = opened \/ inUse' \in owned',
         inUse' = opened => inUse = opened, UNCHANGED kernelVars, heard' \in BOOLEAN,
         worker' \in {"running", "stopping", "stopped", "failed"}, RunSettled' <=> RunSettled,
         ReloadingTypeOK', tick' = (IF stopped' THEN "off" ELSE "scheduled"), stopped => stopped',
         brokenClose' \in BOOLEAN, ~brokenClose' => cs[inUse'].credentials = current'
  PROVE  IInv'
<1>1. settling \in {"no", "waiting"} /\ opened \notin owned' /\ (released = "done") \in BOOLEAN
  BY DEF IInv, TypeOK, RotationInv, InFlight
<1>2. /\ connections' \in Seq(Connection) /\ Len(connections') = Len(cs)
      /\ DOMAIN connections' = DOMAIN cs
      /\ \A c \in DOMAIN cs : connections'[c].credentials = cs[c].credentials
      /\ Balanced(connections', StillOpen', released = "done")
      /\ settling = "waiting" => settling' = "done"
      /\ settling = "no" => settling' = "no"
  BY <1>1, TickOverKeeps
<1>3. TypeOK'
  BY <1>1, <1>2 DEF IInv, TypeOK, kernelVars
<1>4. RotationInv'
  <2>1. released' = released
    BY DEF kernelVars
  <2>2. released' = "done" => inUse' # opened \/ RunSettled'
    BY <2>1 DEF IInv, RotationInv
  <2>3. /\ settling' = "no" <=> ~RunSettled'
        /\ settling' = "waiting" => stopped' /\ InFlight'
        /\ settling' = "done" => tick' = "off"
        /\ tick' = "off" => stopped'
        /\ tick' # "losing" /\ tick' # "setting" /\ tick' # "closing"
    BY <1>1, <1>2 DEF IInv, RotationInv
  <2>4. ~brokenClose' => connections'[inUse'].credentials = current'
    BY <1>2
  <2> QED BY <1>2, <2>1, <2>2, <2>3, <2>4 DEF RotationInv
<1> QED BY <1>3, <1>4 DEF IInv

\* The three ends of a tick: it succeeded, it applied nothing, it failed.
LEMMA EndsOfTick ==
  ASSUME IInv, InFlight,
         \/ TickSucceeds
         \/ Unchanged /\ UNCHANGED <<worker, heard>>
         \/ TickFails
  PROVE  /\ heard' \in BOOLEAN /\ worker' \in {"running", "stopping", "stopped", "failed"}
         /\ RunSettled' <=> RunSettled
         /\ ReloadingTypeOK' /\ tick' = (IF stopped' THEN "off" ELSE "scheduled")
         /\ stopped => stopped'
         /\ current' = IF TickSucceeds THEN next ELSE current
<1> USE DEF IInv, TypeOK, ReloadingTypeOK, RunSettled, InFlight
<1>1. CASE TickSucceeds
  BY <1>1 DEF TickSucceeds, Applied, Again
<1>2. CASE ~TickSucceeds /\ Unchanged /\ UNCHANGED <<worker, heard>>
  BY <1>2 DEF Unchanged, Again
<1>3. CASE ~TickSucceeds /\ TickFails
  <2>1. CASE Tolerated /\ Unchanged /\ UNCHANGED <<worker, heard>>
    BY <1>3, <2>1 DEF Unchanged, Again
  <2>2. CASE ~Tolerated
    <3>1. /\ tick' = "off" /\ stopped' = TRUE /\ retry' = TRUE /\ heard' = TRUE
          /\ UNCHANGED <<source, current, next>>
          /\ worker' = IF worker = "running" THEN "stopping" ELSE worker
      BY <1>3, <2>2 DEF TickFails, StopPolling
    <3>2. ReloadingTypeOK'
      BY <3>1
    <3>3. worker' \in {"running", "stopping", "stopped", "failed"} /\ (RunSettled' <=> RunSettled)
      BY <3>1
    <3> QED BY <1>3, <3>1, <3>2, <3>3
  <2> QED BY <1>3, <2>1, <2>2 DEF TickFails
<1> QED BY <1>1, <1>2, <1>3

-----------------------------------------------------------------------------
(* The steps of a tick.                                                     *)

LEMMA InitInv == Init => IInv
<1> SUFFICES ASSUME Init PROVE IInv
  OBVIOUS
<1>1. PICK credentials \in Credentials :
        /\ ReloadingInit(credentials)
        /\ connections = Opened(credentials) /\ held = opened /\ inUse = opened /\ owned = {}
        /\ brokenClose = FALSE /\ settling = "no" /\ worker = "running" /\ heard = FALSE
        /\ asked = FALSE /\ deadline = "none" /\ drain = "none" /\ stop = "none" /\ released = "no"
  BY DEF Init
<1>2. /\ connections \in Seq(Connection) /\ Len(connections) = 1 /\ DOMAIN connections = {opened}
      /\ connections[opened] = [credentials |-> credentials, closes |-> 0]
  BY <1>1 DEF Opened, Connection, opened
<1>3. /\ source \in BOOLEAN /\ tick = "scheduled" /\ stopped = FALSE /\ retry = FALSE
      /\ current = credentials /\ next = credentials
  BY <1>1 DEF ReloadingInit
<1>4. TypeOK
  <2>1. ReloadingTypeOK
    BY <1>3 DEF ReloadingTypeOK
  <2>2. Len(connections) \in 1..MaxConnections
    BY <1>2, WorkerAssumption
  <2> QED BY <1>1, <1>2, <2>1, <2>2 DEF TypeOK
<1>5. Balanced(connections, StillOpen, released = "done")
  BY <1>1, <1>2 DEF Balanced, StillOpen
<1>6. connections[inUse].credentials = current
  BY <1>1, <1>2, <1>3
<1>7. RotationInv
  BY <1>1, <1>3, <1>5, <1>6 DEF RotationInv, RunSettled
<1> QED BY <1>4, <1>7 DEF IInv

\* What a tick that leaves the connections alone, but for the credentials, has to show.
LEMMA TickEndsInPlace ==
  ASSUME IInv, InFlight, NEW cs \in Seq(Connection), DOMAIN cs = DOMAIN connections,
         \A c \in DOMAIN cs : cs[c].closes = connections[c].closes,
         TickOver(cs), UNCHANGED <<held, inUse, owned, kernelVars>>,
         brokenClose' \in BOOLEAN,
         \/ TickSucceeds
         \/ Unchanged /\ UNCHANGED <<worker, heard>>
         \/ TickFails,
         ~brokenClose' => cs[inUse].credentials = current'
  PROVE  IInv'
<1>1. Len(cs) \in 1..MaxConnections /\ owned \subseteq DOMAIN cs \ {opened} /\ inUse \in DOMAIN cs
  BY LenProperties DEF IInv, TypeOK
<1>2. StillOpen = owned
  BY DEF IInv, RotationInv, InFlight, StillOpen
<1>3. Balanced(cs, owned, released = "done")
  BY <1>2 DEF Balanced, IInv, RotationInv
<1>4. UNCHANGED <<held, inUse, owned>> /\ UNCHANGED kernelVars
  OBVIOUS
<1>5. held' = inUse' /\ (inUse' = opened \/ inUse' \in owned')
  BY <1>4 DEF IInv, RotationInv
<1>6. /\ heard' \in BOOLEAN /\ worker' \in {"running", "stopping", "stopped", "failed"}
      /\ RunSettled' <=> RunSettled
      /\ ReloadingTypeOK' /\ tick' = (IF stopped' THEN "off" ELSE "scheduled")
      /\ stopped => stopped'
  BY EndsOfTick
<1> QED BY <1>1, <1>3, <1>4, <1>5, <1>6, TickEnds

LEMMA IdleKeeps ==
  ASSUME IInv, NEW reading \in Credentials, TickIdles(reading) PROVE IInv'
<1>1. /\ InFlight /\ TickOver(connections) /\ UNCHANGED <<held, inUse, owned, kernelVars>>
      /\ Unchanged /\ UNCHANGED <<worker, heard>> /\ brokenClose' = brokenClose
  BY DEF TickIdles, InFlight
<1>2. tick = "reading" /\ current' = current
  BY DEF TickIdles, Unchanged
<1>3. connections \in Seq(Connection) /\ brokenClose' \in BOOLEAN
  BY <1>1 DEF IInv, TypeOK
<1>4. ~brokenClose' => connections[inUse].credentials = current'
  BY <1>1, <1>2 DEF IInv, RotationInv
<1> QED BY <1>1, <1>3, <1>4, TickEndsInPlace

LEMMA NothingAppliedKeeps ==
  ASSUME IInv, NothingApplied PROVE IInv'
<1>1. /\ InFlight /\ tick # "closing" /\ TickOver(connections)
      /\ UNCHANGED <<held, inUse, owned, kernelVars>>
      /\ TickFails /\ brokenClose' = brokenClose
  BY DEF NothingApplied, InFlight
<1>2. current' = current
  BY <1>1 DEF TickFails, Unchanged
<1>3. connections \in Seq(Connection) /\ brokenClose' \in BOOLEAN
  BY <1>1 DEF IInv, TypeOK
<1>4. ~brokenClose' => connections[inUse].credentials = current'
  BY <1>1, <1>2 DEF IInv, RotationInv
<1> QED BY <1>1, <1>3, <1>4, TickEndsInPlace

LEMMA LeftClosesKeeps ==
  ASSUME IInv, LeftCloses PROVE IInv'
<1>1. /\ InFlight /\ tick = "closing" /\ TickOver(connections)
      /\ UNCHANGED <<held, inUse, owned, kernelVars>>
      /\ TickSucceeds /\ brokenClose' = brokenClose
  BY DEF LeftCloses, InFlight
<1>2. current' = next
  BY <1>1 DEF TickSucceeds, Applied
<1>3. connections \in Seq(Connection) /\ brokenClose' \in BOOLEAN
  BY <1>1 DEF IInv, TypeOK
<1>4. ~brokenClose' => connections[inUse].credentials = current'
  BY <1>1, <1>2 DEF IInv, RotationInv
<1> QED BY <1>1, <1>3, <1>4, TickEndsInPlace

LEMMA LeftDoesNotCloseKeeps ==
  ASSUME IInv, LeftDoesNotClose PROVE IInv'
<1>1. /\ InFlight /\ TickOver(connections) /\ UNCHANGED <<held, inUse, owned, kernelVars>>
      /\ TickFails /\ brokenClose' = TRUE
  BY DEF LeftDoesNotClose, InFlight
<1>2. connections \in Seq(Connection)
  BY DEF IInv, TypeOK
<1> QED BY <1>1, <1>2, TickEndsInPlace

LEMMA KeySetKeeps ==
  ASSUME IInv, KeySet PROVE IInv'
<1> DEFINE one == [connections[inUse] EXCEPT !.credentials.key = next.key]
           keyed == [connections EXCEPT ![inUse].credentials.key = next.key]
<1>1. /\ InFlight /\ tick = "setting" /\ TickOver(keyed)
      /\ UNCHANGED <<held, inUse, owned, kernelVars>>
      /\ TickSucceeds /\ brokenClose' = brokenClose
  BY DEF KeySet, InFlight
<1>2. current' = next /\ next.tls = current.tls
  BY <1>1 DEF TickSucceeds, Applied, IInv, RotationInv
<1>3. /\ connections \in Seq(Connection) /\ inUse \in DOMAIN connections
      /\ brokenClose' \in BOOLEAN /\ next \in Credentials /\ current \in Credentials
  BY <1>1 DEF IInv, TypeOK, ReloadingTypeOK
<1>4. connections[inUse] \in Connection
  BY <1>3, ElementOfSeq, LenProperties
<1>5. one \in Connection /\ one.closes = connections[inUse].closes
  BY <1>3, <1>4 DEF Connection, Credentials
<1>6. connections[inUse].credentials = current => one.credentials = next
  BY <1>2, <1>3, <1>4 DEF Connection, Credentials
<1>7. keyed = [connections EXCEPT ![inUse] = one]
  OBVIOUS
<1> HIDE DEF one, keyed
<1>8. /\ keyed \in Seq(Connection) /\ DOMAIN keyed = DOMAIN connections
      /\ \A c \in DOMAIN keyed : keyed[c].closes = connections[c].closes
      /\ keyed[inUse] = one
  BY <1>3, <1>5, <1>7, ExceptSeq, LenProperties
<1>9. ~brokenClose' => keyed[inUse].credentials = current'
  BY <1>1, <1>2, <1>6, <1>8 DEF IInv, RotationInv
<1> QED BY <1>1, <1>3, <1>8, <1>9, TickEndsInPlace

\* Where a new connection is opened.
LEMMA Opening ==
  ASSUME IInv, Connected
  PROVE  LET all == connections \o Opened(next) IN
         /\ all \in Seq(Connection) /\ Len(all) = fresh /\ fresh \in 1..MaxConnections
         /\ DOMAIN all = DOMAIN connections \cup {fresh} /\ fresh \notin DOMAIN connections
         /\ fresh # opened
         /\ all[fresh].credentials = next
         /\ \A c \in DOMAIN connections : all[c] = connections[c]
         /\ Balanced(all, owned \cup {fresh}, released = "done")
<1> DEFINE all == connections \o Opened(next)
<1>1. /\ connections \in Seq(Connection) /\ next \in Credentials /\ owned \subseteq DOMAIN connections
      /\ Len(connections) \in 1..MaxConnections /\ (released = "done") \in BOOLEAN
  BY DEF IInv, TypeOK, ReloadingTypeOK
<1>2. StillOpen = owned
  BY DEF IInv, RotationInv, InFlight, StillOpen, Connected
<1>3. Balanced(connections, owned, released = "done")
  BY <1>2 DEF IInv, RotationInv
<1>4. Len(connections) \in Nat /\ Len(connections) # 0 /\ DOMAIN connections = 1..Len(connections)
  BY <1>1, LenProperties
<1>5. fresh \in 1..MaxConnections /\ fresh \notin DOMAIN connections /\ fresh # opened
  BY <1>4, WorkerAssumption DEF fresh, Connected, opened
<1>6. /\ all \in Seq(Connection) /\ Len(all) = Len(connections) + 1
      /\ DOMAIN all = DOMAIN connections \cup {Len(connections) + 1}
      /\ all[Len(connections) + 1].credentials = next
      /\ \A c \in DOMAIN connections : all[c] = connections[c]
      /\ Balanced(all, owned \cup {Len(connections) + 1}, released = "done")
  BY <1>1, <1>3, <1>4, OpenOne
<1> HIDE DEF all
<1>7. QED BY <1>5, <1>6 DEF all, fresh

LEMMA MoveRefusedKeeps ==
  ASSUME IInv, MoveRefused PROVE IInv'
<1> DEFINE all == connections \o Opened(next)
<1>0. Connected /\ InFlight /\ tick = "connecting"
  BY DEF MoveRefused, Connected, InFlight
<1>1. /\ TickOver(all) /\ owned' = owned \cup {fresh} /\ TickFails
      /\ UNCHANGED <<held, inUse, brokenClose>> /\ UNCHANGED kernelVars
  BY DEF MoveRefused
<1>2. /\ all \in Seq(Connection) /\ Len(all) = fresh /\ fresh \in 1..MaxConnections
      /\ DOMAIN all = DOMAIN connections \cup {fresh} /\ fresh # opened
      /\ \A c \in DOMAIN connections : all[c] = connections[c]
      /\ Balanced(all, owned \cup {fresh}, released = "done")
  BY <1>0, Opening
<1> HIDE DEF all
<1>3. /\ inUse \in DOMAIN connections /\ owned \subseteq DOMAIN connections \ {opened}
      /\ held = inUse /\ (inUse = opened \/ inUse \in owned) /\ brokenClose \in BOOLEAN
  BY DEF IInv, TypeOK, RotationInv
<1>4. owned' \subseteq DOMAIN all \ {opened}
  BY <1>1, <1>2, <1>3
<1>5. /\ heard' \in BOOLEAN /\ worker' \in {"running", "stopping", "stopped", "failed"}
      /\ RunSettled' <=> RunSettled
      /\ ReloadingTypeOK' /\ tick' = (IF stopped' THEN "off" ELSE "scheduled")
      /\ stopped => stopped'
  BY <1>0, <1>1, EndsOfTick
<1>6. current' = current
  BY <1>1 DEF TickFails, Unchanged
<1>7. ~brokenClose' => all[inUse].credentials = current'
  BY <1>0, <1>1, <1>2, <1>3, <1>6 DEF IInv, RotationInv
<1> QED
  <2>1. Balanced(all, owned', released = "done")
    BY <1>1, <1>2
  <2>2. /\ inUse' \in DOMAIN all /\ held' = inUse' /\ (inUse' = opened \/ inUse' \in owned')
        /\ (inUse' = opened => inUse = opened) /\ brokenClose' \in BOOLEAN
        /\ (~brokenClose' => all[inUse'].credentials = current')
    BY <1>1, <1>2, <1>3, <1>7
  <2>3. Len(all) \in 1..MaxConnections
    BY <1>2
  <2> QED BY <1>0, <1>1, <1>2, <1>4, <1>5, <2>1, <2>2, <2>3, TickEnds

LEMMA MoveKeeps ==
  ASSUME IInv, Move PROVE IInv'
<1> DEFINE all == connections \o Opened(next)
<1>0. Connected /\ InFlight /\ tick = "connecting"
  BY DEF Move, Connected, InFlight
<1>1. /\ held' = fresh /\ inUse' = fresh /\ owned' = (owned \ Left) \cup {fresh}
      /\ UNCHANGED <<brokenClose, worker, heard>> /\ UNCHANGED kernelVars
  BY DEF Move
<1>2. /\ all \in Seq(Connection) /\ Len(all) = fresh /\ fresh \in 1..MaxConnections
      /\ DOMAIN all = DOMAIN connections \cup {fresh} /\ fresh # opened
      /\ fresh \notin DOMAIN connections /\ all[fresh].credentials = next
      /\ Balanced(all, owned \cup {fresh}, released = "done")
  BY <1>0, Opening
<1>3. Left \subseteq owned /\ owned \subseteq DOMAIN connections \ {opened}
      /\ brokenClose \in BOOLEAN
  BY DEF Left, IInv, TypeOK
<1>4. owned' \subseteq (DOMAIN connections \cup {fresh}) \ {opened} /\ inUse' # opened
  BY <1>1, <1>2, <1>3
<1>5. CASE Left = {} /\ Applied /\ TickOver(all)
  <2>1. TickSucceeds /\ current' = next
    BY <1>1, <1>5 DEF TickSucceeds, Applied
  <2>2. /\ heard' \in BOOLEAN /\ worker' \in {"running", "stopping", "stopped", "failed"}
        /\ RunSettled' <=> RunSettled
        /\ ReloadingTypeOK' /\ tick' = (IF stopped' THEN "off" ELSE "scheduled")
        /\ stopped => stopped'
    BY <1>0, <2>1, EndsOfTick
  <2>. HIDE DEF all
  <2>3. owned' = owned \cup {fresh}
    BY <1>1, <1>5
  <2>4. Balanced(all, owned', released = "done") /\ owned' \subseteq DOMAIN all \ {opened}
    BY <1>2, <1>4, <2>3
  <2>5. /\ inUse' \in DOMAIN all /\ held' = inUse' /\ (inUse' = opened \/ inUse' \in owned')
        /\ (inUse' = opened => inUse = opened) /\ brokenClose' \in BOOLEAN
        /\ (~brokenClose' => all[inUse'].credentials = current')
        /\ Len(all) \in 1..MaxConnections
    BY <1>1, <1>2, <1>3, <1>4, <2>1
  <2> QED BY <1>0, <1>1, <1>2, <1>5, <2>2, <2>4, <2>5, TickEnds
<1>6. CASE /\ Left # {} /\ tick' = "closing" /\ connections' = Closed(all, Left)
           /\ UNCHANGED <<source, stopped, retry, current, next, settling>>
  <2>. HIDE DEF all
  <2>1. /\ connections' \in Seq(Connection) /\ Len(connections') = fresh
        /\ DOMAIN connections' = DOMAIN all
        /\ connections'[fresh].credentials = next
    BY <1>2, <1>6, ClosedEach
  <2>2. /\ opened \notin owned \cup {fresh} /\ Left \subseteq owned \cup {fresh}
        /\ (released = "done") \in BOOLEAN
    BY <1>2, <1>3
  <2>3. Balanced(Closed(all, Left), (owned \cup {fresh}) \ Left, released = "done")
    BY <1>2, <2>2, ClosesItsOwn
  <2>4. (owned \cup {fresh}) \ Left = owned'
    BY <1>1, <1>2, <1>3
  <2>5. settling \in {"no", "waiting"} /\ settling' = settling /\ released' = released
    BY <1>0, <1>1, <1>6 DEF IInv, TypeOK, RotationInv, kernelVars
  <2>6. Balanced(connections', StillOpen', released' = "done")
    BY <1>6, <2>3, <2>4, <2>5 DEF StillOpen
  <2>7. ReloadingTypeOK' /\ InFlight'
    BY <1>6 DEF IInv, TypeOK, ReloadingTypeOK, InFlight
  <2>8. TypeOK'
    BY <1>1, <1>2, <1>4, <2>1, <2>5, <2>7 DEF IInv, TypeOK, kernelVars
  <2>9. RunSettled' <=> RunSettled
    BY <1>1 DEF RunSettled
  <2>10. RotationInv'
    BY <1>0, <1>1, <1>4, <1>6, <2>1, <2>5, <2>6, <2>7, <2>9 DEF IInv, RotationInv
  <2> QED BY <2>8, <2>10 DEF IInv
<1> QED BY <1>5, <1>6 DEF Move

-----------------------------------------------------------------------------
(* The steps of poll and of the scope.                                      *)

LEMMA ReleaseKeeps ==
  ASSUME IInv, Release PROVE IInv'
<1>1. /\ released = "no"
      /\ UNCHANGED <<source, tick, stopped, retry, current, next>>
      /\ UNCHANGED <<held, inUse, owned, brokenClose, settling, worker, heard>>
      /\ UNCHANGED <<asked, deadline, drain, stop>>
  BY DEF Release, reloadingVars
<1>2. /\ connections \in Seq(Connection) /\ StillOpen' = StillOpen
      /\ Balanced(connections, StillOpen, FALSE) /\ opened \notin StillOpen
  BY <1>1 DEF IInv, TypeOK, RotationInv, StillOpen
<1>3. CASE held = opened /\ ~RunSettled
  <2>1. released' = "waiting" /\ UNCHANGED connections
    BY <1>3 DEF Release
  <2>2. TypeOK'
    BY <1>1, <2>1 DEF IInv, TypeOK, ReloadingTypeOK, InFlight
  <2>3. RotationInv'
    BY <1>1, <1>2, <2>1 DEF IInv, RotationInv, RunSettled, InFlight, Balanced
  <2> QED BY <2>2, <2>3 DEF IInv
<1>4. CASE ~(held = opened /\ ~RunSettled)
  <2>1. released' = "done" /\ connections' = Closed(connections, {opened})
    BY <1>4 DEF Release
  <2>2. /\ connections' \in Seq(Connection) /\ Len(connections') = Len(connections)
        /\ DOMAIN connections' = DOMAIN connections
        /\ \A c \in DOMAIN connections : connections'[c].credentials = connections[c].credentials
    BY <1>2, <2>1, ClosedEach
  <2>3. Balanced(connections', StillOpen', TRUE)
    BY <1>2, <2>1, ClosesTheGraphs
  <2>4. TypeOK'
    <3>1. ReloadingTypeOK'
      BY <1>1 DEF IInv, TypeOK, ReloadingTypeOK, InFlight
    <3>2. released' \in {"no", "waiting", "done"}
      BY <2>1
    <3> QED BY <1>1, <2>2, <3>1, <3>2 DEF IInv, TypeOK
  <2>5. /\ Balanced(connections', StillOpen', released' = "done")
        /\ inUse' # opened \/ RunSettled'
    <3>1. inUse # opened \/ RunSettled
      BY <1>4 DEF IInv, RotationInv
    <3> QED BY <1>1, <2>1, <2>3, <3>1 DEF RunSettled
  <2>6. ~brokenClose' =>
          connections'[inUse'].credentials = (IF tick' = "closing" THEN next' ELSE current')
    BY <1>1, <2>2 DEF IInv, RotationInv, TypeOK
  <2>7. RotationInv'
    BY <1>1, <2>5, <2>6 DEF IInv, RotationInv, RunSettled, InFlight
  <2> QED BY <2>4, <2>7 DEF IInv
<1> QED BY <1>3, <1>4

LEMMA RunSettlesKeeps ==
  ASSUME IInv, NEW how \in {"stopped", "failed"}, RunSettles(how) PROVE IInv'
<1> DEFINE cs == IF released = "waiting" THEN Closed(connections, {opened}) ELSE connections
<1>1. /\ ~RunSettled /\ RunSettled' /\ worker' = how
      /\ heard' = (heard \/ ~asked)
      /\ released' = IF released = "waiting" THEN "done" ELSE released
      /\ UNCHANGED <<held, inUse, owned, brokenClose, asked, deadline>>
      /\ stopped' = TRUE /\ tick' = IF tick = "scheduled" THEN "off" ELSE tick
      /\ UNCHANGED <<source, retry, current, next>>
      /\ Settle(cs)
  BY DEF RunSettles, RunSettled, StopReloading
<1>2. drain' \in {"none", "waiting", "done"} /\ stop' \in {"none", "waiting", "done"}
  BY DEF RunSettles, IInv, TypeOK
<1>3. /\ connections \in Seq(Connection) /\ opened \notin owned /\ settling = "no"
      /\ Balanced(connections, owned, released = "done")
  BY <1>1 DEF IInv, TypeOK, RotationInv, StillOpen
<1>4. /\ cs \in Seq(Connection) /\ Len(cs) = Len(connections) /\ DOMAIN cs = DOMAIN connections
      /\ \A c \in DOMAIN connections : cs[c].credentials = connections[c].credentials
      /\ Balanced(cs, owned, released' = "done")
  <2>1. CASE released = "waiting"
    <3>1. Balanced(connections, owned, FALSE) /\ (released' = "done") = TRUE
      BY <1>1, <1>3, <2>1
    <3>2. cs = Closed(connections, {opened})
      BY <2>1
    <3>3. Balanced(cs, owned, TRUE)
      BY <1>3, <3>1, <3>2, ClosesTheGraphs
    <3>4. Balanced(cs, owned, released' = "done")
      BY <3>1, <3>3
    <3> HIDE DEF cs
    <3> QED BY <1>3, <3>2, <3>4, ClosedEach
  <2>2. CASE released # "waiting"
    BY <1>1, <1>3, <2>2
  <2> QED BY <2>1, <2>2
<1> HIDE DEF cs
<1>5. /\ connections' \in Seq(Connection) /\ Len(connections') = Len(cs)
      /\ DOMAIN connections' = DOMAIN cs
      /\ \A c \in DOMAIN cs : connections'[c].credentials = cs[c].credentials
      /\ Balanced(connections', StillOpen', released' = "done")
      /\ settling' = IF InFlight THEN "waiting" ELSE "done"
  <2>1. CASE InFlight
    BY <1>1, <1>4, <2>1 DEF Settle, StillOpen
  <2>2. CASE ~InFlight
    <3>1. settling' = "done" /\ connections' = Closed(cs, owned) /\ StillOpen' = {}
      BY <1>1, <2>2 DEF Settle, StillOpen
    <3>2. Balanced(Closed(cs, owned), owned \ owned, released' = "done") /\ owned \ owned = {}
      BY <1>3, <1>4, ClosesItsOwn
    <3> QED BY <1>4, <2>2, <3>1, <3>2, ClosedEach
  <2> QED BY <2>1, <2>2
<1>6. ReloadingTypeOK' /\ (InFlight' <=> InFlight) /\ (~InFlight => tick' = "off")
  BY <1>1 DEF IInv, TypeOK, ReloadingTypeOK, InFlight
<1>7. TypeOK'
  <2>1. heard' \in BOOLEAN
    BY <1>1
  <2>2. worker' \in {"running", "stopping", "stopped", "failed"}
        /\ released' \in {"no", "waiting", "done"}
    BY <1>1 DEF IInv, TypeOK
  <2> QED BY <1>1, <1>2, <1>4, <1>5, <1>6, <2>1, <2>2 DEF IInv, TypeOK
<1>8. ~brokenClose' =>
        connections'[inUse'].credentials = (IF tick' = "closing" THEN next' ELSE current')
  BY <1>1, <1>4, <1>5 DEF IInv, RotationInv, TypeOK
<1>9. RotationInv'
  <2>1. /\ settling' = "no" <=> ~RunSettled'
        /\ settling' = "waiting" => stopped' /\ InFlight'
        /\ settling' = "done" => tick' = "off"
        /\ tick' = "off" => stopped'
    BY <1>1, <1>5, <1>6
  <2>2. tick' # "losing" /\ (tick' = "setting" => next'.tls = current'.tls)
    BY <1>1 DEF IInv, RotationInv
  <2>3. held' = inUse' /\ (inUse' = opened \/ inUse' \in owned')
    BY <1>1 DEF IInv, RotationInv
  <2> QED BY <1>1, <1>5, <1>8, <2>1, <2>2, <2>3 DEF RotationInv
<1> QED BY <1>7, <1>9 DEF IInv

\* A step of the kernel that asks for the end of the run, or stops waiting for it.
LEMMA AskingKeeps ==
  ASSUME IInv, UNCHANGED <<reloadingVars, rotationVars, released>>,
         RunSettled' <=> RunSettled, TypeOK'
  PROVE  IInv'
<1>1. RotationInv'
  BY DEF IInv, RotationInv, reloadingVars, rotationVars, InFlight, Balanced, StillOpen
<1> QED BY <1>1 DEF IInv

LEMMA NextInv == IInv /\ [Next]_vars => IInv'
<1> SUFFICES ASSUME IInv, [Next]_vars PROVE IInv'
  OBVIOUS
<1>1. CASE TimerFires /\ UNCHANGED <<rotationVars, worker, heard, kernelVars>>
  BY <1>1 DEF IInv, TypeOK, RotationInv, ReloadingTypeOK, TimerFires, rotationVars, kernelVars,
              InFlight, RunSettled, Balanced, StillOpen
<1>2. ASSUME NEW reading \in Credentials, TickIdles(reading) PROVE IInv'
  BY <1>2, IdleKeeps
<1>3. ASSUME NEW reading \in Credentials, TickApplies(reading) PROVE IInv'
  BY <1>3 DEF IInv, TypeOK, RotationInv, ReloadingTypeOK, TickApplies, StartApplying, ChangeOf,
              rotationVars, kernelVars, InFlight, RunSettled, Balanced, StillOpen
<1>4. CASE NothingApplied
  BY <1>4, NothingAppliedKeeps
<1>5. CASE KeySet
  BY <1>5, KeySetKeeps
<1>6. CASE MoveRefused
  BY <1>6, MoveRefusedKeeps
<1>7. CASE Move
  BY <1>7, MoveKeeps
<1>8. CASE LeftCloses
  BY <1>8, LeftClosesKeeps
<1>9. CASE LeftDoesNotClose
  BY <1>9, LeftDoesNotCloseKeeps
<1>10. CASE Drain \/ Stop \/ DeadlineAborts
  <2>1. UNCHANGED <<reloadingVars, rotationVars, released>> /\ (RunSettled' <=> RunSettled)
    BY <1>10 DEF Drain, Stop, DeadlineAborts, StopPolling, RunSettled
  <2>2. TypeOK'
    <3>1. ReloadingTypeOK'
      BY <2>1 DEF IInv, TypeOK, ReloadingTypeOK, InFlight, reloadingVars
    <3>2. worker' \in {"running", "stopping", "stopped", "failed"} /\ heard' \in BOOLEAN
      BY <1>10 DEF Drain, Stop, DeadlineAborts, StopPolling, IInv, TypeOK
    <3>3. /\ asked' \in BOOLEAN /\ deadline' \in {"none", "given", "aborted"}
          /\ {drain', stop'} \subseteq {"none", "waiting", "done"}
      <4>1. CASE Drain
        BY <4>1 DEF Drain, WaitForRun, IInv, TypeOK
      <4>2. CASE Stop
        BY <4>2 DEF Stop, WaitForRun, IInv, TypeOK
      <4>3. CASE DeadlineAborts
        BY <4>3 DEF DeadlineAborts, IInv, TypeOK
      <4> QED BY <1>10, <4>1, <4>2, <4>3
    <3> QED BY <2>1, <3>1, <3>2, <3>3 DEF IInv, TypeOK, rotationVars
  <2> QED BY <2>1, <2>2, AskingKeeps
<1>11. CASE Release
  BY <1>11, ReleaseKeeps
<1>12. ASSUME NEW how \in {"stopped", "failed"}, RunSettles(how) PROVE IInv'
  BY <1>12, RunSettlesKeeps
<1>13. CASE UNCHANGED vars
  <2>1. TypeOK' /\ (RunSettled' <=> RunSettled)
    BY <1>13 DEF IInv, TypeOK, ReloadingTypeOK, InFlight, RunSettled, vars, reloadingVars,
                 rotationVars, kernelVars
  <2> QED BY <1>13, <2>1, AskingKeeps DEF vars, kernelVars
<1> QED
  BY <1>1, <1>2, <1>3, <1>4, <1>5, <1>6, <1>7, <1>8, <1>9, <1>10, <1>11, <1>12, <1>13
  DEF Next, Tick

LEMMA Inductive == Spec => []IInv
BY InitInv, NextInv, PTL DEF Spec

-----------------------------------------------------------------------------

\* Types of the worker, its connections and the kernel's calls (temporal-runtime.ts 554-677).
THEOREM TypeCorrect == Spec => []TypeOK
BY Inductive, PTL DEF IInv

\* What a reload opened is closed once, with the reloading, and the graph's connection once, by
\* its release: whatever the worker refused, whichever close failed, wherever the run ended.
THEOREM ReloadingClosesEachOnce == Spec => []ClosedOnce
<1>1. IInv => ClosedOnce
  BY DEF IInv, RotationInv, TypeOK, Balanced, StillOpen, ClosedOnce
<1> QED BY <1>1, Inductive, PTL

\* No connection is closed under a worker whose run has not settled, also when the kernel's
\* deadline has given up on it and the scope closes.
THEOREM HeldConnectionStaysOpen == Spec => []HeldStaysOpen
<1>1. IInv => HeldStaysOpen
  BY DEF IInv, RotationInv, TypeOK, Balanced, StillOpen, HeldStaysOpen
<1> QED BY <1>1, Inductive, PTL

\* The worker's connection carries the credentials last applied, unless a close has failed.
THEOREM WorkerCarriesCurrent == Spec => []CarriesCurrent
<1>1. IInv => CarriesCurrent
  BY DEF IInv, RotationInv, CarriesCurrent
<1> QED BY <1>1, Inductive, PTL

\* A reload moves the worker onto a connection with the credentials last applied and closes
\* the one it leaves, once (temporal-runtime.ts, reload of the credentials).
THEOREM ReloadsHappenInPlace == Spec => []ReloadsInPlace
<1>1. ClosedOnce /\ HeldStaysOpen /\ CarriesCurrent => ReloadsInPlace  BY DEF ReloadsInPlace
<1>2. QED  BY <1>1, ReloadingClosesEachOnce, HeldConnectionStaysOpen, WorkerCarriesCurrent, PTL
=============================================================================
