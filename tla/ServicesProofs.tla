---------------------------- MODULE ServicesProofs ----------------------------
(***************************************************************************)
(* The services of MCServices, for every value of their constants: the     *)
(* Temporal client's facade first, then each of the others.                *)
(***************************************************************************)
EXTENDS MCServices, SequenceTheorems, FiniteSetTheorems, TLAPS

(* The Temporal client closes each connection it ever used exactly once, and what calls go
   over follows the source of the keys. *)

\* All connections of cs but c are closed, and c is or is not.
Accounted(cs, c, shut) ==
  \A d \in DOMAIN cs : cs[d].closes = IF d = c /\ ~shut THEN 0 ELSE 1

FacadeInv ==
  /\ Accounted(connections, inUse, closed)
  /\ closing # "done" => closed = retry
  /\ tick \in {"closing", "setting"} => ~closed
  /\ tick = "off" => stopped
  /\ closing = "no" => ~stopped
  /\ closing = "waiting" => stopped /\ InFlight
  /\ closing = "done" => closed /\ tick = "off"
  /\ ~brokenClose /\ ~retry /\ closing # "done" =>
       connections[inUse].credentials = (IF tick = "closing" THEN next ELSE current)

IInv == TypeOK /\ FacadeInv

-----------------------------------------------------------------------------
(* Closing a connection, and opening one.                                   *)

LEMMA CloseInEach ==
  ASSUME NEW cs \in Seq(Connection), NEW c \in DOMAIN cs
  PROVE  /\ CloseIn(cs, c) \in Seq(Connection) /\ Len(CloseIn(cs, c)) = Len(cs)
         /\ DOMAIN CloseIn(cs, c) = DOMAIN cs
         /\ \A d \in DOMAIN cs :
              /\ CloseIn(cs, c)[d].closes = IF d = c THEN cs[d].closes + 1 ELSE cs[d].closes
              /\ CloseIn(cs, c)[d].credentials = cs[d].credentials
<1> DEFINE each == [cs[c] EXCEPT !.closes = @ + 1]
<1>1. cs[c] \in Connection
  BY ElementOfSeq, LenProperties
<1>2. /\ each \in Connection
      /\ each.closes = cs[c].closes + 1 /\ each.credentials = cs[c].credentials
  BY <1>1 DEF Connection
<1>3. CloseIn(cs, c) = [cs EXCEPT ![c] = each]
  BY DEF CloseIn
<1> HIDE DEF each
<1>4. /\ [cs EXCEPT ![c] = each] \in Seq(Connection)
      /\ Len([cs EXCEPT ![c] = each]) = Len(cs)
      /\ DOMAIN [cs EXCEPT ![c] = each] = DOMAIN cs
  BY <1>2, ExceptSeq
<1> QED BY <1>2, <1>3, <1>4

LEMMA CloseInOne ==
  ASSUME NEW cs \in Seq(Connection), NEW c \in DOMAIN cs, Accounted(cs, c, FALSE)
  PROVE  /\ CloseIn(cs, c) \in Seq(Connection) /\ Len(CloseIn(cs, c)) = Len(cs)
         /\ DOMAIN CloseIn(cs, c) = DOMAIN cs
         /\ Accounted(CloseIn(cs, c), c, TRUE)
         /\ CloseIn(cs, c)[c].credentials = cs[c].credentials
<1>1. \A d \in DOMAIN cs : cs[d].closes = IF d = c THEN 0 ELSE 1
  BY DEF Accounted
<1>2. CloseIn(cs, c)[c].closes = 1
  BY <1>1, CloseInEach
<1>3. \A d \in DOMAIN cs : d # c => CloseIn(cs, c)[d].closes = 1
  BY <1>1, CloseInEach
<1>4. Accounted(CloseIn(cs, c), c, TRUE)
  BY <1>2, <1>3, CloseInEach DEF Accounted
<1> QED BY <1>4, CloseInEach

LEMMA OpenOne ==
  ASSUME NEW cs \in Seq(Connection), NEW credentials \in Credentials
  PROVE  LET all == cs \o Opened(credentials) IN
         /\ all \in Seq(Connection) /\ Len(all) = Len(cs) + 1
         /\ \A d \in DOMAIN cs : d \in DOMAIN all /\ all[d] = cs[d]
         /\ Len(cs) + 1 \in DOMAIN all
         /\ all[Len(cs) + 1] = [credentials |-> credentials, closes |-> 0]
         /\ DOMAIN all = DOMAIN cs \cup {Len(cs) + 1}
BY DEF Opened, Connection

\* The new connection takes over from one that is closed already, or with it.
LEMMA TakesOver ==
  ASSUME NEW cs \in Seq(Connection), NEW c \in DOMAIN cs, NEW credentials \in Credentials
  PROVE  LET all == cs \o Opened(credentials) IN
         /\ Accounted(cs, c, TRUE) => Accounted(all, Len(cs) + 1, FALSE)
         /\ Accounted(cs, c, FALSE) =>
              /\ Accounted(CloseIn(all, c), Len(cs) + 1, FALSE)
              /\ CloseIn(all, c) \in Seq(Connection)
              /\ Len(CloseIn(all, c)) = Len(cs) + 1
              /\ DOMAIN CloseIn(all, c) = DOMAIN all
              /\ CloseIn(all, c)[Len(cs) + 1].credentials = credentials
<1> DEFINE all == cs \o Opened(credentials)
<1>1. /\ all \in Seq(Connection) /\ Len(all) = Len(cs) + 1
      /\ \A d \in DOMAIN cs : d \in DOMAIN all /\ all[d] = cs[d]
      /\ all[Len(cs) + 1] = [credentials |-> credentials, closes |-> 0]
      /\ DOMAIN all = DOMAIN cs \cup {Len(cs) + 1}
  BY OpenOne
<1>2. Len(cs) \in Nat /\ DOMAIN cs = 1..Len(cs)
  BY LenProperties
<1> HIDE DEF all
<1>3. Accounted(cs, c, TRUE) => Accounted(all, Len(cs) + 1, FALSE)
  BY <1>1, <1>2 DEF Accounted
<1>4. ASSUME Accounted(cs, c, FALSE)
      PROVE  /\ Accounted(CloseIn(all, c), Len(cs) + 1, FALSE)
             /\ CloseIn(all, c) \in Seq(Connection)
             /\ Len(CloseIn(all, c)) = Len(cs) + 1
             /\ DOMAIN CloseIn(all, c) = DOMAIN all
             /\ CloseIn(all, c)[Len(cs) + 1].credentials = credentials
  <2>1. /\ c \in DOMAIN all /\ all[c] = cs[c] /\ c # Len(cs) + 1
        /\ \A d \in DOMAIN cs : cs[d].closes = IF d = c THEN 0 ELSE 1
    BY <1>1, <1>2, <1>4 DEF Accounted
  <2>. DEFINE one == CloseIn(all, c)
  <2>0. /\ one \in Seq(Connection) /\ Len(one) = Len(all) /\ DOMAIN one = DOMAIN all
        /\ \A d \in DOMAIN all :
             /\ one[d].closes = IF d = c THEN all[d].closes + 1 ELSE all[d].closes
             /\ one[d].credentials = all[d].credentials
    BY <1>1, <2>1, CloseInEach
  <2>. HIDE DEF one
  <2>2. one[c].closes = 1
    BY <2>0, <2>1
  <2>3. \A d \in DOMAIN cs : d # c => one[d].closes = 1
    BY <1>1, <2>0, <2>1
  <2>4. one[Len(cs) + 1].closes = 0 /\ one[Len(cs) + 1].credentials = credentials
    BY <1>1, <2>0, <2>1
  <2>5. Accounted(one, Len(cs) + 1, FALSE)
    BY <1>1, <1>2, <2>0, <2>2, <2>3, <2>4 DEF Accounted
  <2> QED BY <1>1, <2>0, <2>4, <2>5 DEF one
<1> QED BY <1>3, <1>4 DEF all

-----------------------------------------------------------------------------
(* The end of a tick.                                                       *)

\* TickOver leaves what it was given, closed if close() waited for it.
LEMMA TickOverKeeps ==
  ASSUME NEW cs \in Seq(Connection), Len(cs) \in 1..MaxConnections, NEW c \in DOMAIN cs,
         NEW shut \in BOOLEAN, Accounted(cs, c, shut), closing \in {"no", "waiting", "done"},
         TickOver(cs, c, shut)
  PROVE  /\ connections' \in Seq(Connection) /\ Len(connections') \in 1..MaxConnections
         /\ inUse' = c /\ c \in DOMAIN connections' /\ closed' \in BOOLEAN
         /\ Accounted(connections', c, closed')
         /\ connections'[c].credentials = cs[c].credentials
         /\ closing = "waiting" => closing' = "done" /\ closed'
         /\ closing # "waiting" => closing' = closing /\ closed' = shut
BY CloseInOne DEF TickOver

\* A failed tick too, with a lost source besides.
LEMMA TickFailsKeeps ==
  ASSUME IInv, InFlight, tick # "losing", TickFails(connections, inUse), brokenClose' \in BOOLEAN,
         brokenClose => brokenClose',
         tick = "closing" => brokenClose'
  PROVE  IInv'
<1>1. CASE Tolerated
  <2>1. Unchanged /\ TickOver(connections, inUse, closed)
    BY <1>1 DEF TickFails
  <2>2. /\ connections' \in Seq(Connection) /\ Len(connections') \in 1..MaxConnections
        /\ inUse' = inUse /\ inUse \in DOMAIN connections' /\ closed' \in BOOLEAN
        /\ Accounted(connections', inUse, closed')
        /\ connections'[inUse].credentials = connections[inUse].credentials
        /\ closing = "waiting" => closing' = "done" /\ closed'
        /\ closing # "waiting" => closing' = closing /\ closed' = closed
    BY <2>1, TickOverKeeps DEF IInv, TypeOK, FacadeInv
  <2> QED BY <2>1, <2>2 DEF IInv, TypeOK, FacadeInv, ReloadingTypeOK, Unchanged, Again, InFlight
<1>2. CASE ~Tolerated
  BY <1>2, CloseInOne
  DEF IInv, TypeOK, FacadeInv, ReloadingTypeOK, TickFails, Tolerated, Again, InFlight
<1> QED BY <1>1, <1>2

-----------------------------------------------------------------------------
(* The steps.                                                               *)

LEMMA InitInv == Init => IInv
<1> SUFFICES ASSUME Init PROVE IInv
  OBVIOUS
<1>1. PICK credentials \in Credentials :
        /\ ReloadingInit(credentials)
        /\ connections = Opened(credentials) /\ inUse = 1
        /\ closed = FALSE /\ brokenClose = FALSE /\ closing = "no"
  BY DEF Init
<1>2. connections \in Seq(Connection) /\ Len(connections) = 1 /\ DOMAIN connections = {1}
      /\ connections[1] = [credentials |-> credentials, closes |-> 0]
  BY <1>1 DEF Opened, Connection
<1>a. /\ source \in BOOLEAN /\ tick = "scheduled" /\ stopped = FALSE /\ retry = FALSE
      /\ current = credentials /\ next = credentials
  BY <1>1 DEF ReloadingInit
<1>b. ReloadingTypeOK
  BY <1>a DEF ReloadingTypeOK
<1>c. closed \in BOOLEAN /\ brokenClose \in BOOLEAN /\ closing \in {"no", "waiting", "done"}
  BY <1>1
<1>d. /\ connections \in Seq(Connection) /\ Len(connections) \in 1..MaxConnections
      /\ inUse \in DOMAIN connections
  BY <1>1, <1>2, ClientAssumption
<1>3. TypeOK
  BY <1>b, <1>c, <1>d DEF TypeOK
<1>e. \A d \in DOMAIN connections : d = inUse /\ connections[d].closes = 0
  BY <1>1, <1>2
<1>f. Accounted(connections, inUse, closed)
  BY <1>1, <1>e DEF Accounted
<1>g. connections[inUse].credentials = current
  BY <1>1, <1>2, <1>a
<1>4. FacadeInv
  BY <1>1, <1>a, <1>f, <1>g DEF FacadeInv, InFlight
<1> QED BY <1>3, <1>4 DEF IInv

LEMMA IdleKeeps ==
  ASSUME IInv, NEW reading \in Credentials, TickIdles(reading) PROVE IInv'
BY TickOverKeeps
DEF IInv, TypeOK, FacadeInv, ReloadingTypeOK, TickIdles, Unchanged, Again, InFlight

LEMMA KeySetKeeps ==
  ASSUME IInv, NEW reading \in Credentials, KeySet(reading) PROVE IInv'
<1> DEFINE keyed == [connections EXCEPT ![inUse].credentials.key = reading.key]
<1>1. connections[inUse] \in Connection
  BY ElementOfSeq, LenProperties DEF IInv, TypeOK
<1>2. tick = "reading" /\ ~retry /\ reading.tls = current.tls
  BY DEF KeySet, ChangeOf
<1>3. /\ [connections[inUse] EXCEPT !.credentials.key = reading.key] \in Connection
      /\ [connections[inUse] EXCEPT !.credentials.key = reading.key].closes = connections[inUse].closes
  BY <1>1 DEF Connection, Credentials
<1>4. connections[inUse].credentials = current =>
        [connections[inUse] EXCEPT !.credentials.key = reading.key].credentials = reading
  BY <1>1, <1>2 DEF Connection, Credentials, IInv, TypeOK, ReloadingTypeOK
<1> DEFINE one == [connections[inUse] EXCEPT !.credentials.key = reading.key]
<1>a. keyed = [connections EXCEPT ![inUse] = one]
  OBVIOUS
<1> HIDE DEF one, keyed
<1>5. /\ keyed \in Seq(Connection) /\ Len(keyed) = Len(connections)
      /\ DOMAIN keyed = DOMAIN connections
      /\ keyed[inUse].closes = connections[inUse].closes
      /\ connections[inUse].credentials = current => keyed[inUse].credentials = reading
      /\ \A d \in DOMAIN connections : d # inUse => keyed[d] = connections[d]
  <2>1. one \in Connection /\ one.closes = connections[inUse].closes
    BY <1>3 DEF one
  <2>2. connections[inUse].credentials = current => one.credentials = reading
    BY <1>4 DEF one
  <2>3. connections \in Seq(Connection) /\ inUse \in DOMAIN connections
    BY DEF IInv, TypeOK
  <2> QED BY <1>a, <2>1, <2>2, <2>3, ExceptSeq, LenProperties
<1>6. Accounted(keyed, inUse, closed)
  BY <1>5 DEF Accounted, IInv, FacadeInv, TypeOK
<1>7. TickOver(keyed, inUse, closed)
  BY DEF KeySet, keyed
<1>8. /\ connections' \in Seq(Connection) /\ Len(connections') \in 1..MaxConnections
      /\ inUse' = inUse /\ inUse \in DOMAIN connections' /\ closed' \in BOOLEAN
      /\ Accounted(connections', inUse, closed')
      /\ connections'[inUse].credentials = keyed[inUse].credentials
      /\ closing = "waiting" => closing' = "done" /\ closed'
      /\ closing # "waiting" => closing' = closing /\ closed' = closed
  BY <1>5, <1>6, <1>7, TickOverKeeps DEF IInv, TypeOK
<1> QED
  BY <1>2, <1>5, <1>8
  DEF IInv, TypeOK, FacadeInv, ReloadingTypeOK, KeySet, Again, InFlight

LEMMA MoveKeeps ==
  ASSUME IInv, Move PROVE IInv'
<1> DEFINE all == connections \o Opened(next)
<1>1. /\ all \in Seq(Connection) /\ Len(all) = fresh /\ fresh \in DOMAIN all
      /\ all[fresh].credentials = next /\ fresh \in 1..MaxConnections
  <2>1. connections \in Seq(Connection) /\ next \in Credentials
    BY DEF IInv, TypeOK, ReloadingTypeOK
  <2>2. fresh \in 1..MaxConnections
    BY <2>1, LenProperties, ClientAssumption DEF fresh, Move
  <2>3. /\ all \in Seq(Connection) /\ Len(all) = fresh /\ fresh \in DOMAIN all
        /\ all[fresh] = [credentials |-> next, closes |-> 0]
    BY <2>1, OpenOne DEF fresh
  <2> HIDE DEF all
  <2> QED BY <2>2, <2>3
<1>2. CASE closed
  <2>1. Applied /\ TickOver(all, fresh, FALSE) /\ UNCHANGED brokenClose
    BY <1>2 DEF Move
  <2>2. Accounted(all, fresh, FALSE)
    BY <1>2, TakesOver DEF IInv, TypeOK, ReloadingTypeOK, FacadeInv, fresh
  <2>3. /\ connections' \in Seq(Connection) /\ Len(connections') \in 1..MaxConnections
        /\ inUse' = fresh /\ fresh \in DOMAIN connections' /\ closed' \in BOOLEAN
        /\ Accounted(connections', fresh, closed')
        /\ connections'[fresh].credentials = all[fresh].credentials
        /\ closing = "waiting" => closing' = "done" /\ closed'
        /\ closing # "waiting" => closing' = closing /\ closed' = FALSE
    BY <1>1, <2>1, <2>2, TickOverKeeps DEF IInv, TypeOK
  <2> QED
    BY <1>1, <2>1, <2>3
    DEF IInv, TypeOK, FacadeInv, ReloadingTypeOK, Move, Applied, Again, InFlight
<1>3. CASE ~closed
  <2>1. /\ connections' = CloseIn(all, inUse) /\ inUse' = fresh /\ tick' = "closing"
        /\ UNCHANGED <<source, stopped, retry, current, next, closed, closing, brokenClose>>
    BY <1>3 DEF Move
  <2>2. /\ Accounted(connections', fresh, FALSE)
        /\ connections' \in Seq(Connection) /\ Len(connections') = fresh
        /\ fresh \in DOMAIN connections' /\ connections'[fresh].credentials = next
    BY <1>1, <1>3, <2>1, TakesOver DEF IInv, TypeOK, ReloadingTypeOK, FacadeInv, fresh
  <2> QED
    BY <1>1, <1>3, <2>1, <2>2
    DEF IInv, TypeOK, FacadeInv, ReloadingTypeOK, Move, InFlight
<1> QED BY <1>2, <1>3 DEF IInv, TypeOK

LEMMA CloseKeeps ==
  ASSUME IInv, Close PROVE IInv'
BY CloseInOne
DEF IInv, TypeOK, FacadeInv, ReloadingTypeOK, Close, StopReloading, InFlight

LEMMA NextInv == IInv /\ [Next]_vars => IInv'
<1> SUFFICES ASSUME IInv, [Next]_vars PROVE IInv'
  OBVIOUS
<1>1. CASE TimerFires /\ UNCHANGED facadeVars
  BY <1>1 DEF IInv, TypeOK, FacadeInv, ReloadingTypeOK, TimerFires, facadeVars, InFlight, Accounted
<1>2. ASSUME NEW reading \in Credentials, TickIdles(reading) PROVE IInv'
  BY <1>2, IdleKeeps
<1>3. ASSUME NEW reading \in Credentials, KeySet(reading) PROVE IInv'
  BY <1>3, KeySetKeeps
<1>4. ASSUME NEW reading \in Credentials, TickConnects(reading) PROVE IInv'
  BY <1>4 DEF IInv, TypeOK, FacadeInv, ReloadingTypeOK, TickConnects, StartApplying, facadeVars,
              InFlight, Accounted
<1>5. CASE NothingApplied
  BY <1>5, TickFailsKeeps DEF NothingApplied, InFlight, IInv, TypeOK
<1>6. CASE Move
  BY <1>6, MoveKeeps
<1>7. CASE LeftCloses
  <2>1. Applied /\ TickOver(connections, inUse, closed) /\ UNCHANGED brokenClose /\ tick = "closing"
    BY <1>7 DEF LeftCloses
  <2>2. /\ connections' \in Seq(Connection) /\ Len(connections') \in 1..MaxConnections
        /\ inUse' = inUse /\ inUse \in DOMAIN connections' /\ closed' \in BOOLEAN
        /\ Accounted(connections', inUse, closed')
        /\ connections'[inUse].credentials = connections[inUse].credentials
        /\ closing = "waiting" => closing' = "done" /\ closed'
        /\ closing # "waiting" => closing' = closing /\ closed' = closed
    BY <2>1, TickOverKeeps DEF IInv, TypeOK, FacadeInv
  <2> QED
    BY <2>1, <2>2 DEF IInv, TypeOK, FacadeInv, ReloadingTypeOK, Applied, Again, InFlight
<1>8. CASE LeftDoesNotClose
  BY <1>8, TickFailsKeeps DEF LeftDoesNotClose, InFlight
<1>9. ASSUME NEW ok \in BOOLEAN, LostCloses(ok) PROVE IInv'
  BY <1>9, TickOverKeeps
  DEF IInv, TypeOK, FacadeInv, ReloadingTypeOK, LostCloses, Unchanged, Again, InFlight
<1>10. CASE Close
  BY <1>10, CloseKeeps
<1>11. CASE UNCHANGED vars
  BY <1>11 DEF IInv, TypeOK, FacadeInv, ReloadingTypeOK, vars, facadeVars, reloadingVars, InFlight,
               Accounted
<1> QED
  BY <1>1, <1>2, <1>3, <1>4, <1>5, <1>6, <1>7, <1>8, <1>9, <1>10, <1>11 DEF Next

LEMMA Inductive == Spec => []IInv
BY InitInv, NextInv, PTL DEF Spec

-----------------------------------------------------------------------------

\* Types of the facade and of its reloading (temporal-client's index.ts 120-161).
THEOREM TypeCorrect == Spec => []TypeOK
BY Inductive, PTL DEF IInv

\* Each connection the facade used is closed once, whatever the ticks opened, whichever close
\* failed and wherever close() fell among them.
THEOREM FacadeClosesEachOnce == Spec => []ClientClosedOnce
<1>1. IInv => ClientClosedOnce
  BY DEF IInv, FacadeInv, Accounted, ClientClosedOnce
<1> QED BY <1>1, Inductive, PTL

\* From the loss of the source until it answers again calls go over a closed connection; at any
\* other time over an open one with the credentials last applied.
THEOREM FacadeFollowsTheSource == Spec => []CallsFollowTheSource
<1>1. IInv => CallsFollowTheSource
  BY DEF IInv, FacadeInv, TypeOK, Accounted, CallsFollowTheSource
<1> QED BY <1>1, Inductive, PTL

\* The facade's calls go over the connection of the credentials last applied, and each
\* connection it leaves is closed once.
THEOREM FacadeFollowsItsCredentials == Spec => []FacadeFollowsAndCloses
<1>1. ClientClosedOnce /\ CallsFollowTheSource => FacadeFollowsAndCloses  BY DEF FacadeFollowsAndCloses
<1>2. QED  BY <1>1, FacadeClosesEachOnce, FacadeFollowsTheSource, PTL

-----------------------------------------------------------------------------
(* UnitFork: a unit is open around its scope, and a scope's forker around its build. *)

ForkInv ==
  /\ Fork!TypeOK
  /\ \A u \in Unit :
       /\ work[u] = "none" <=> u \notin seen
       /\ work[u] = "running" => u \in open
       /\ settled[u] = "none" <=> work[u] # "returned"
       /\ forked[u] \notin {"none", "closed"} => u \in open
       /\ forked[u] = "none" => forker[u] = "none"
       /\ forker[u] = "waiting" <=> forked[u] \in {"building", "unwinding"}
       /\ forked[u] \in {"open", "closing"} => forker[u] = "given"
       /\ forked[u] \in {"closing", "closed"} /\ forker[u] = "given" =>
            told[u] = settled[u] /\ work[u] = "returned"
  /\ idle = "resolved" => open = {}

LEMMA ForkInit == Fork!Init => ForkInv
  BY DEF Fork!Init, Fork!RegistryInit, ForkInv, Fork!TypeOK, Fork!RegistryTypeOK,
         Fork!IdleStates, Fork!ScopeStates

LEMMA ForkStep == ForkInv /\ [Fork!Next]_(Fork!forkVars) => ForkInv'
<1> SUFFICES ASSUME ForkInv, [Fork!Next]_(Fork!forkVars) PROVE ForkInv'
  OBVIOUS
<1> USE DEF ForkInv, Fork!TypeOK, Fork!RegistryTypeOK, Fork!IdleStates, Fork!ScopeStates,
            Fork!registryVars
<1>1. CASE \E u \in Unit : Fork!Run(u) /\ idle = "unasked"
  BY <1>1 DEF Fork!Run, Fork!OpenUnit
<1>2. CASE \E u \in Unit : Fork!Fork(u)
  BY <1>2 DEF Fork!Fork
<1>3. CASE \E u \in Unit : Fork!Built(u)
  BY <1>3 DEF Fork!Built
<1>4. CASE \E u \in Unit : Fork!BuildFails(u)
  BY <1>4 DEF Fork!BuildFails
<1>5. CASE \E u \in Unit : Fork!Unwound(u)
  BY <1>5 DEF Fork!Unwound
<1>6. CASE \E u \in Unit, how \in {"ok", "error"} : Fork!Return(u, how)
  BY <1>6 DEF Fork!Return
<1>7. CASE \E u \in Unit : Fork!TearDown(u)
  BY <1>7 DEF Fork!TearDown
<1>8. CASE \E u \in Unit : Fork!TornDown(u)
  BY <1>8 DEF Fork!TornDown
<1>9. CASE \E u \in Unit : Fork!Close(u)
  BY <1>9 DEF Fork!Close, Fork!CloseUnit
<1>10. CASE Fork!Drain
  BY <1>10 DEF Fork!Drain, Fork!AwaitIdle
<1>11. CASE Fork!Deadline
  BY <1>11 DEF Fork!Deadline, Fork!AbortAll
<1>12. CASE UNCHANGED Fork!forkVars
  BY <1>12 DEF Fork!forkVars
<1> QED
  BY <1>1, <1>2, <1>3, <1>4, <1>5, <1>6, <1>7, <1>8, <1>9, <1>10, <1>11, <1>12 DEF Fork!Next

\* A unit is counted in flight while any of its scope is, and whoever forked the scope is
\* answered: an idle registry leaves no scope and nobody behind.
THEOREM UnitsAlwaysEndInOrder == Fork!Spec => []UnitsEndInOrder
<1>1. ForkInv => UnitsEndInOrder
  BY DEF ForkInv, UnitsEndInOrder, Fork!UnitsEndInOrder, Fork!UnitsOutliveTheirScopes,
         Fork!ForkersAnswered, Fork!TypeOK, Fork!RegistryTypeOK, Fork!ScopeStates
<1> QED
  BY <1>1, ForkInit, ForkStep, PTL DEF Fork!Spec

-----------------------------------------------------------------------------
(* CacheReadThrough: who holds a version older than the known one was overtaken. *)

CacheInv ==
  /\ truth \in Nat /\ known \in Nat /\ known <= truth
  /\ entry.held => entry.version \in Nat
  /\ call \in [Caller -> [at : {"idle", "loading", "storing", "changed"}, ttl : Cache!Ttls,
                         has : Nat]]
  /\ \A c \in Caller :
       /\ call[c].has <= truth
       /\ call[c].at \in {"storing", "changed"} /\ call[c].has < known => c \in overtaken
  /\ StaleOnlyFromOvertaken

LEMMA CacheInit == Cache!Init => CacheInv
  BY DEF Cache!Init, Cache!NoEntry, Cache!IdleCall, Cache!Ttls, CacheInv,
         StaleOnlyFromOvertaken, Cache!StaleOnlyFromOvertaken

LEMMA CacheStep == CacheInv /\ [Cache!Next]_(Cache!cacheVars) => CacheInv'
<1> SUFFICES ASSUME CacheInv, [Cache!Next]_(Cache!cacheVars) PROVE CacheInv'
  OBVIOUS
<1> USE DEF CacheInv, StaleOnlyFromOvertaken, Cache!StaleOnlyFromOvertaken, Cache!Ttls,
            Cache!IdleCall, Cache!NoEntry, Cache!Idle, Cache!Acknowledged, Cache!InHand,
            Cache!Stored
<1>1. ASSUME NEW c \in Caller, Cache!Load(c) PROVE CacheInv'
  <2> DEFINE storing == [call[c] EXCEPT !.at = "storing", !.has = truth]
  <2>1. /\ call' = [call EXCEPT ![c] = storing]
        /\ UNCHANGED <<truth, entry, known, overtaken, late>>
    BY <1>1 DEF Cache!Load
  <2>2. /\ storing \in [at : {"idle", "loading", "storing", "changed"}, ttl : Cache!Ttls, has : Nat]
        /\ storing.at = "storing" /\ storing.has = truth
    OBVIOUS
  <2> HIDE DEF storing
  <2> QED
    BY <2>1, <2>2
<1>2. ASSUME NEW c \in Caller, Cache!LoadFails(c) PROVE CacheInv'
  BY <1>2 DEF Cache!LoadFails
<1>3. ASSUME NEW c \in Caller, Cache!Change(c) PROVE CacheInv'
  BY <1>3 DEF Cache!Change
<1>4. ASSUME NEW c \in Caller, NEW ttl \in Cache!Ttls, NEW available \in BOOLEAN,
             Cache!Miss(c, ttl, available)
      PROVE  CacheInv'
  BY <1>4 DEF Cache!Miss
<1>5. ASSUME NEW c \in Caller, NEW done \in BOOLEAN, Cache!Store(c, done) PROVE CacheInv'
  BY <1>5 DEF Cache!Store
<1>6. ASSUME NEW c \in Caller, NEW done \in BOOLEAN, NEW heard \in BOOLEAN,
             Cache!Delete(c, done, heard)
      PROVE  CacheInv'
  BY <1>6 DEF Cache!Delete
<1>7. ASSUME NEW c \in Caller, NEW ttl \in Cache!Ttls, NEW done \in BOOLEAN,
             NEW heard \in BOOLEAN, Cache!Put(c, ttl, done, heard)
      PROVE  CacheInv'
  BY <1>7 DEF Cache!Put
<1>8. CASE Cache!Expire
  BY <1>8 DEF Cache!Expire
<1>9. CASE UNCHANGED Cache!cacheVars
  BY <1>9 DEF Cache!cacheVars
<1> QED
  BY <1>1, <1>2, <1>3, <1>4, <1>5, <1>6, <1>7, <1>8, <1>9 DEF Cache!Next

\* Once a delete or a set is acknowledged, what is older is found under the key only if a call
\* that had it in hand before stored it after.
THEOREM StaleAlwaysFromOvertaken == Cache!Spec => []StaleOnlyFromOvertaken
<1>1. CacheInv => StaleOnlyFromOvertaken
  BY DEF CacheInv
<1> QED
  BY <1>1, CacheInit, CacheStep, PTL DEF Cache!Spec

-----------------------------------------------------------------------------
(* Aggregate: what is stored is one history, whoever decides from what and saves it.      *)

DomainEvent == [type : Root!Types, id : Nat]

Over(s) == Root!IsTerminal(s[Len(s)])

\* A history that replay accepts, of distinct events among the first n decided.
History(s, n) ==
  /\ Root!Replayable(s)
  /\ \A i \in DOMAIN s : s[i].id \in 1..n
  /\ \A i, j \in DOMAIN s : s[i].id = s[j].id => i = j

Instance == [state : Seq(DomainEvent), version : Nat, pending : Seq(DomainEvent), ended : BOOLEAN]

RootTypes ==
  /\ style \in {"state", "events"} /\ decided \in Nat
  /\ held \in [Handler -> Instance]
  /\ log \in Seq(DomainEvent) /\ version \in Nat /\ ended \in BOOLEAN

\* An instance at the version of the store extends what is stored by what it has pending.
HeldInv ==
  \A h \in Handler : held[h] # Root!None =>
    /\ History(held[h].state, decided)
    /\ held[h].ended <=> Over(held[h].state)
    /\ held[h].version <= version
    /\ held[h].version = version => held[h].state = log \o held[h].pending

StoreInv ==
  /\ version = 0 <=> log = <<>>
  /\ style = "events" => version = Len(log)
  /\ log # <<>> =>
       /\ History(log, decided)
       /\ ended <=> Over(log)
       /\ style = "state" /\ ~ended => row = log

RootInv == RootTypes /\ HeldInv /\ StoreInv

LEMMA RootInit == Root!Init => RootInv
<1> SUFFICES ASSUME Root!Init PROVE RootInv
  OBVIOUS
<1>1. Root!None \in Instance
  BY DEF Root!None, Instance
<1>2. RootTypes
  <2>1. held \in [Handler -> Instance]
    BY <1>1 DEF Root!Init
  <2>2. style \in {"state", "events"} /\ decided \in Nat /\ version \in Nat
    BY DEF Root!Init
  <2>3. log \in Seq(DomainEvent)
    BY EmptySeq DEF Root!Init
  <2>4. ended \in BOOLEAN
    BY DEF Root!Init
  <2> QED
    BY <2>1, <2>2, <2>3, <2>4 DEF RootTypes
<1>3. HeldInv
  BY DEF Root!Init, HeldInv
<1>4. StoreInv
  BY DEF Root!Init, StoreInv
<1> QED
  BY <1>2, <1>3, <1>4 DEF RootInv

\* A history of k events and m more, by their positions.
Extends(k, m, n, s, types, all) ==
  /\ \A i \in 1..k : s[i].id \in 1..n
  /\ \A i, j \in 1..k : s[i].id = s[j].id => i = j
  /\ \A i \in 1..k : s[i].type = "open" <=> i = 1
  /\ \A i \in 1..k : s[i].type # "end"
  /\ \A i \in 1..m : types[i] # "open" /\ (types[i] = "end" => i = m)
  /\ \A i \in 1..(k + m) : i <= k => all[i] = s[i]
  /\ \A i \in 1..(k + m) : i > k => all[i].type = types[i - k] /\ all[i].id = n + (i - k)

Extended(all, k, m, n) ==
  /\ \A i \in 1..(k + m) : all[i].type = "open" <=> i = 1
  /\ \A i \in 1..(k + m) : all[i].type = "end" => i = k + m
  /\ \A i \in 1..(k + m) : all[i].id \in 1..(n + m)
  /\ \A i, j \in 1..(k + m) : all[i].id = all[j].id => i = j

LEMMA EventsExtend ==
  ASSUME NEW k \in Nat \ {0}, NEW m \in Nat \ {0}, NEW n \in Nat, NEW s, NEW types, NEW all,
         Extends(k, m, n, s, types, all)
  PROVE  Extended(all, k, m, n) /\ all[k + m].type = types[m]
<1> USE DEF Extends
<1>1. ASSUME NEW i \in 1..(k + m)
      PROVE  /\ all[i].type = "open" <=> i = 1
             /\ all[i].type = "end" => i = k + m
             /\ all[i].id \in 1..(n + m)
             /\ all[i].id \in 1..n <=> i <= k
  <2>1. CASE i <= k
    <3>1. i \in 1..k /\ all[i] = s[i]
      BY <2>1
    <3>2. all[i].id \in 1..n
      BY <3>1
    <3> QED
      BY <2>1, <3>1, <3>2
  <2>2. CASE i > k
    <3>1. i - k \in 1..m /\ all[i].type = types[i - k] /\ all[i].id = n + (i - k)
      BY <2>2
    <3> QED
      BY <2>2, <3>1
  <2> QED
    BY <2>1, <2>2
<1>2. ASSUME NEW i \in 1..(k + m), NEW j \in 1..(k + m), all[i].id = all[j].id
      PROVE  i = j
  <2>1. i <= k <=> j <= k
    BY <1>1, <1>2
  <2>2. CASE i <= k
    <3>1. i \in 1..k /\ j \in 1..k /\ all[i] = s[i] /\ all[j] = s[j]
      BY <2>1, <2>2
    <3> QED
      BY <1>2, <3>1
  <2>3. CASE i > k
    <3>1. all[i].id = n + (i - k) /\ all[j].id = n + (j - k)
      BY <2>1, <2>3
    <3>2. n + (i - k) = n + (j - k)
      BY <1>2, <3>1, Zenon
    <3>3. i \in Int /\ j \in Int
      OBVIOUS
    <3> HIDE DEF Extends
    <3> QED
      BY <3>2, <3>3
  <2> QED
    BY <2>2, <2>3
<1>3. all[k + m].type = types[m]
  <2>1. k + m \in 1..(k + m) /\ k + m > k /\ (k + m) - k = m
    OBVIOUS
  <2>2. all[k + m].type = types[(k + m) - k]
    BY <2>1
  <2> QED
    BY <2>1, <2>2
<1> QED
  BY <1>1, <1>2, <1>3 DEF Extended

\* Decided from a history that is not over, as a decision may, the events extend it.
LEMMA DecisionExtends ==
  ASSUME NEW s \in Seq(DomainEvent), NEW n \in Nat, History(s, n), ~Over(s),
         NEW types \in Seq(Root!Types), types # <<>>,
         \A i \in DOMAIN types : types[i] # "open",
         \A i \in DOMAIN types : types[i] = "end" => i = Len(types)
  PROVE  LET events == [i \in DOMAIN types |-> Root!Named(types[i], n + i)]
         IN  /\ events \in Seq(DomainEvent)
             /\ History(s \o events, n + Len(types))
             /\ Over(s \o events) <=> \E i \in DOMAIN events : Root!IsTerminal(events[i])
<1> DEFINE events == [i \in DOMAIN types |-> Root!Named(types[i], n + i)]
           all == s \o events
<1>1. /\ DOMAIN types = 1..Len(types) /\ Len(types) \in Nat \ {0}
      /\ \A i \in DOMAIN types : types[i] \in Root!Types
  OBVIOUS
<1>2. \A i \in DOMAIN types : events[i].type = types[i] /\ events[i].id = n + i
                              /\ events[i] \in DomainEvent
  BY <1>1 DEF Root!Named, DomainEvent
<1>3. events \in Seq(DomainEvent) /\ Len(events) = Len(types) /\ DOMAIN events = DOMAIN types
  BY <1>1, <1>2
<1>4. /\ Len(s) \in Nat \ {0} /\ DOMAIN s = 1..Len(s)
      /\ \A i \in 1..Len(s) : s[i].id \in 1..n
      /\ \A i, j \in 1..Len(s) : s[i].id = s[j].id => i = j
      /\ \A i \in 1..Len(s) : s[i].type = "open" <=> i = 1
      /\ \A i \in 1..Len(s) : s[i].type # "end"
  BY DEF History, Root!Replayable, Over, Root!IsTerminal
<1> HIDE DEF events
<1>5. /\ s \o events \in Seq(DomainEvent)
      /\ Len(s \o events) = Len(s) + Len(events)
      /\ \A i \in 1..(Len(s) + Len(events)) :
           (s \o events)[i] = IF i <= Len(s) THEN s[i] ELSE events[i - Len(s)]
  BY <1>3, ConcatProperties
<1>6. /\ all \in Seq(DomainEvent) /\ Len(all) = Len(s) + Len(types)
      /\ \A i \in 1..(Len(s) + Len(types)) :
           all[i] = IF i <= Len(s) THEN s[i] ELSE events[i - Len(s)]
  BY <1>3, <1>5
<1> HIDE DEF all
<1>7. DOMAIN all = 1..(Len(s) + Len(types))
  BY <1>6, LenProperties
<1> DEFINE k == Len(s)
           m == Len(types)
<1>8. /\ k \in Nat \ {0} /\ m \in Nat \ {0} /\ DOMAIN types = 1..m /\ DOMAIN all = 1..(k + m)
      /\ Len(all) = k + m
  BY <1>1, <1>4, <1>6, <1>7
<1>9. /\ \A i \in 1..k : s[i].id \in 1..n
      /\ \A i, j \in 1..k : s[i].id = s[j].id => i = j
      /\ \A i \in 1..k : s[i].type = "open" <=> i = 1
      /\ \A i \in 1..k : s[i].type # "end"
  BY <1>4
<1>10. /\ \A i \in 1..m : types[i] # "open" /\ (types[i] = "end" => i = m)
       /\ \A i \in 1..m : events[i].type = types[i] /\ events[i].id = n + i
  <2>1. \A i \in 1..m : types[i] # "open" /\ (types[i] = "end" => i = m)
    BY <1>1, Zenon
  <2>2. \A i \in 1..m : events[i].type = types[i] /\ events[i].id = n + i
    BY <1>1, <1>2
  <2> QED
    BY <2>1, <2>2
<1>11. \A i \in 1..(k + m) : all[i] = IF i <= k THEN s[i] ELSE events[i - k]
  BY <1>6
<1> HIDE DEF k, m
<1>12. \A i \in 1..(k + m) : i > k => all[i].type = types[i - k] /\ all[i].id = n + (i - k)
  <2> SUFFICES ASSUME NEW i \in 1..(k + m), i > k
               PROVE  all[i].type = types[i - k] /\ all[i].id = n + (i - k)
    OBVIOUS
  <2>1. i - k \in 1..m /\ ~(i <= k)
    BY <1>8
  <2>2. all[i] = events[i - k]
    BY <1>11, <2>1
  <2> QED
    BY <1>10, <2>1, <2>2
<1>13. \A i \in 1..(k + m) : i <= k => all[i] = s[i]
  BY <1>11
<1>14. Extends(k, m, n, s, types, all)
  BY <1>9, <1>10, <1>12, <1>13 DEF Extends
<1>15. Extended(all, k, m, n) /\ all[k + m].type = types[m]
  BY <1>8, <1>14, EventsExtend
<1>16. all # <<>>
  BY <1>6, <1>8
<1>17. History(all, n + m)
  BY <1>8, <1>16, <1>15 DEF Extended, History, Root!Replayable, Root!IsTerminal
<1>18. Over(all) <=> \E i \in DOMAIN events : Root!IsTerminal(events[i])
  <2>1. Over(all) <=> types[m] = "end"
    BY <1>8, <1>15 DEF Over, Root!IsTerminal
  <2>2. (\E i \in DOMAIN events : Root!IsTerminal(events[i])) <=> \E i \in 1..m : types[i] = "end"
    BY <1>3, <1>8, <1>10 DEF Root!IsTerminal
  <2>3. m \in 1..m
    BY <1>8
  <2>4. (\E i \in 1..m : types[i] = "end") <=> types[m] = "end"
    BY <1>10, <2>3
  <2> QED
    BY <2>1, <2>2, <2>4
<1> QED
  BY <1>3, <1>17, <1>18 DEF all, events, m

LEMMA EventsJoin ==
  \A s, t, u \in Seq(DomainEvent) : (s \o t) \o u = s \o (t \o u)
<1> SUFFICES ASSUME NEW s \in Seq(DomainEvent), NEW t \in Seq(DomainEvent),
                    NEW u \in Seq(DomainEvent)
             PROVE  (s \o t) \o u = s \o (t \o u)
  OBVIOUS
<1> QED
  BY ConcatAssociative

\* Later events do not touch a history.
LEMMA HistoryLasts ==
  ASSUME NEW s, NEW n \in Nat, NEW m \in Nat, n <= m, History(s, n)
  PROVE  History(s, m)
BY DEF History

\* An instance that a handler comes to hold, as it should be.
LEMMA HandlerHolds ==
  ASSUME RootInv, NEW h \in Handler, NEW it \in Instance,
         held' = [held EXCEPT ![h] = it], decided' \in Nat, decided <= decided',
         UNCHANGED <<style, log, version, row, ended>>,
         History(it.state, decided'), it.ended <=> Over(it.state), it.version <= version,
         it.version = version => it.state = log \o it.pending
  PROVE  RootInv'
<1>1. held' \in [Handler -> Instance] /\ held'[h] = it
      /\ \A g \in Handler \ {h} : held'[g] = held[g]
  BY DEF RootInv, RootTypes
<1>2. RootTypes'
  BY <1>1 DEF RootInv, RootTypes
<1>3. decided \in Nat
  BY DEF RootInv, RootTypes
<1>4. HeldInv'
  <2> SUFFICES ASSUME NEW g \in Handler, held'[g] # Root!None
               PROVE  /\ History(held'[g].state, decided')
                      /\ held'[g].ended <=> Over(held'[g].state)
                      /\ held'[g].version <= version
                      /\ held'[g].version = version => held'[g].state = log \o held'[g].pending
    BY DEF HeldInv
  <2>1. CASE g = h
    BY <1>1, <2>1
  <2>2. CASE g # h
    BY <1>1, <1>3, <2>2, HistoryLasts DEF RootInv, HeldInv
  <2> QED
    BY <2>1, <2>2
<1>5. StoreInv'
  BY <1>3, HistoryLasts DEF RootInv, StoreInv
<1> QED
  BY <1>2, <1>4, <1>5 DEF RootInv

LEMMA RootStep == RootInv /\ [Root!Next]_(Root!aggregateVars) => RootInv'
<1> SUFFICES ASSUME RootInv, [Root!Next]_(Root!aggregateVars) PROVE RootInv'
  OBVIOUS
<1>0. RootTypes /\ HeldInv /\ StoreInv
  BY DEF RootInv
<1>1. ASSUME NEW h \in Handler, Root!Start(h) PROVE RootInv'
  <2> DEFINE first == Root!Named("open", decided + 1)
             it == Root!Decide(Root!None, <<first>>)
  <2>1. /\ held' = [held EXCEPT ![h] = it] /\ decided' = decided + 1
        /\ UNCHANGED <<style, log, version, row, ended>>
    BY <1>1 DEF Root!Start, Root!store
  <2>2. first \in DomainEvent /\ first.type = "open" /\ first.id = decided + 1
    BY <1>0 DEF Root!Named, DomainEvent, Root!Types, RootTypes
  <2> HIDE DEF first
  <2>3. it.state = <<first>> /\ it.pending = <<first>> /\ it.version = 0 /\ ~it.ended
        /\ it \in Instance
    <3>1. it = [state |-> <<>> \o <<first>>, version |-> 0, pending |-> <<>> \o <<first>>,
                ended |-> FALSE \/ \E i \in DOMAIN <<first>> : Root!IsTerminal(<<first>>[i])]
      BY DEF Root!Decide, Root!None
    <3>2. <<>> \o <<first>> = <<first>> /\ <<first>> \in Seq(DomainEvent)
      BY <2>2
    <3>3. (FALSE \/ \E i \in DOMAIN <<first>> : Root!IsTerminal(<<first>>[i])) = FALSE
      BY <2>2 DEF Root!IsTerminal
    <3>4. it = [state |-> <<first>>, version |-> 0, pending |-> <<first>>, ended |-> FALSE]
      BY <3>1, <3>2, <3>3, Zenon
    <3> HIDE DEF it
    <3> QED
      BY <3>2, <3>4 DEF Instance
  <2> HIDE DEF it
  <2>4. History(<<first>>, decided + 1) /\ ~Over(<<first>>)
    BY <1>0, <2>2 DEF History, Over, Root!Replayable, Root!IsTerminal, RootTypes
  <2>5. version = 0 => <<first>> = log \o <<first>>
    BY <1>0 DEF StoreInv
  <2>6. decided' \in Nat /\ decided <= decided' /\ 0 <= version
    BY <1>0, <2>1 DEF RootTypes
  <2> QED
    BY <2>1, <2>3, <2>4, <2>5, <2>6, HandlerHolds
<1>2. ASSUME NEW h \in Handler, Root!Replay(h) PROVE RootInv'
  <2> DEFINE it == [state |-> log, version |-> Len(log), pending |-> <<>>,
                    ended |-> Root!IsTerminal(log[Len(log)])]
  <2>1. /\ held' = [held EXCEPT ![h] = it] /\ decided' = decided
        /\ UNCHANGED <<style, log, version, row, ended>>
        /\ style = "events" /\ log # <<>>
    BY <1>2 DEF Root!Replay, Root!store, Root!Replayable
  <2>2. it \in Instance
    BY <1>0 DEF Instance, RootTypes, Root!IsTerminal
  <2>3. it.state = log /\ it.version = version /\ it.pending = <<>> /\ (it.ended <=> Over(log))
    BY <1>0, <2>1 DEF StoreInv, Over
  <2> HIDE DEF it
  <2>4. log = log \o <<>> /\ History(log, decided)
    BY <1>0, <2>1 DEF StoreInv, RootTypes
  <2>5. decided' \in Nat /\ decided <= decided' /\ version <= version
    BY <1>0, <2>1 DEF RootTypes
  <2> QED
    BY <2>1, <2>2, <2>3, <2>4, <2>5, HandlerHolds
<1>3. ASSUME NEW h \in Handler, Root!Make(h) PROVE RootInv'
  <2> DEFINE it == [state |-> row, version |-> version, pending |-> <<>>, ended |-> FALSE]
  <2>1. /\ held' = [held EXCEPT ![h] = it] /\ decided' = decided
        /\ UNCHANGED <<style, log, version, row, ended>>
        /\ style = "state" /\ version > 0 /\ ~ended
    BY <1>3 DEF Root!Make, Root!store
  <2>2. row = log /\ log # <<>> /\ History(log, decided) /\ ~Over(log)
    BY <1>0, <2>1 DEF StoreInv, RootTypes
  <2>3. it \in Instance /\ it.state = log /\ it.version = version /\ it.pending = <<>> /\ ~it.ended
    BY <1>0, <2>2 DEF Instance, RootTypes
  <2> HIDE DEF it
  <2>4. log = log \o <<>>
    BY <1>0 DEF RootTypes
  <2>5. decided' \in Nat /\ decided <= decided' /\ version <= version
    BY <1>0, <2>1 DEF RootTypes
  <2> QED
    BY <2>1, <2>2, <2>3, <2>4, <2>5, HandlerHolds
<1>4. ASSUME NEW from \in Handler, NEW to \in Handler, NEW types \in Root!Batches,
             Root!Emit(from, to, types)
      PROVE  RootInv'
  <2> DEFINE s == held[from]
             events == [i \in DOMAIN types |-> Root!Named(types[i], decided + i)]
             it == Root!Decide(s, events)
  <2>1. /\ held' = [held EXCEPT ![to] = it] /\ decided' = decided + Len(types)
        /\ UNCHANGED <<style, log, version, row, ended>>
        /\ s # Root!None /\ ~s.ended
        /\ \A i \in DOMAIN types : types[i] # "open"
        /\ \A i \in DOMAIN types : types[i] = "end" => i = Len(types)
    BY <1>4 DEF Root!Emit, Root!store, Root!CanDecide
  <2>2. types \in Seq(Root!Types) /\ types # <<>> /\ Len(types) \in Nat
    <3>1. ASSUME NEW t \in Root!Types, types = <<t>>
          PROVE  types \in Seq(Root!Types) /\ types # <<>> /\ Len(types) \in Nat
      BY <3>1
    <3>2. ASSUME NEW t \in Root!Types, NEW u \in Root!Types, types = <<t, u>>
          PROVE  types \in Seq(Root!Types) /\ types # <<>> /\ Len(types) \in Nat
      BY <3>2
    <3> QED
      BY <3>1, <3>2 DEF Root!Batches
  <2>3. /\ s \in Instance /\ s.state \in Seq(DomainEvent) /\ s.pending \in Seq(DomainEvent)
        /\ s.version \in Nat
    BY <1>0 DEF RootTypes, Instance
  <2>4. /\ History(s.state, decided) /\ ~Over(s.state) /\ s.version <= version
        /\ s.version = version => s.state = log \o s.pending
    BY <1>0, <2>1 DEF HeldInv
  <2>5. /\ events \in Seq(DomainEvent)
        /\ History(s.state \o events, decided + Len(types))
        /\ Over(s.state \o events) <=> \E i \in DOMAIN events : Root!IsTerminal(events[i])
    BY <1>0, <2>1, <2>2, <2>3, <2>4, DecisionExtends DEF RootTypes
  <2> HIDE DEF events, s
  <2>6. /\ it.state = s.state \o events /\ it.pending = s.pending \o events
        /\ it.version = s.version
        /\ it.ended <=> \E i \in DOMAIN events : Root!IsTerminal(events[i])
        /\ it \in Instance
    <3>1. s.ended \/ (\E i \in DOMAIN events : Root!IsTerminal(events[i])) \in BOOLEAN
      BY <2>3 DEF Instance
    <3>2. s.state \o events \in Seq(DomainEvent) /\ s.pending \o events \in Seq(DomainEvent)
      BY <2>3, <2>5
    <3> QED
      BY <2>1, <2>3, <3>1, <3>2 DEF Root!Decide, Instance
  <2> HIDE DEF it
  <2>7. (log \o s.pending) \o events = log \o (s.pending \o events)
    <3>1. /\ log \in Seq(DomainEvent) /\ s.pending \in Seq(DomainEvent)
          /\ events \in Seq(DomainEvent)
      BY <1>0, <2>3, <2>5 DEF RootTypes
    <3> QED
      BY <3>1, EventsJoin, Zenon
  <2>8. decided' \in Nat /\ decided <= decided'
    BY <1>0, <2>1, <2>2 DEF RootTypes
  <2> QED
    BY <2>1, <2>4, <2>5, <2>6, <2>7, <2>8, HandlerHolds
<1>5. ASSUME NEW h \in Handler, Root!Save(h) PROVE RootInv'
  <2> DEFINE s == held[h]
  <2>1. /\ s.pending # <<>> /\ s.version = version /\ log' = log \o s.pending
        /\ version' = (IF style = "state" THEN version + 1 ELSE Len(log'))
        /\ row' = (IF s.ended \/ style = "events" THEN <<>> ELSE s.state)
        /\ ended' = s.ended
        /\ UNCHANGED <<style, decided, held>>
    BY <1>5 DEF Root!Save
  <2>2. s # Root!None
    BY <2>1 DEF Root!None
  <2>3. s.pending \in Seq(DomainEvent) /\ s.ended \in BOOLEAN /\ s.state \in Seq(DomainEvent)
    BY <1>0 DEF RootTypes, Instance
  <2>4. /\ log' = s.state /\ History(log', decided) /\ (s.ended <=> Over(log')) /\ log' # <<>>
    <3>1. /\ History(s.state, decided) /\ (s.ended <=> Over(s.state))
          /\ s.state = log \o s.pending
      BY <1>0, <2>1, <2>2 DEF HeldInv
    <3>2. s.state # <<>>
      BY <3>1 DEF History, Root!Replayable
    <3> QED
      BY <2>1, <3>1, <3>2
  <2>5. log' \in Seq(DomainEvent) /\ Len(log') > Len(log) /\ Len(log) \in Nat /\ Len(log') \in Nat
    BY <1>0, <2>1, <2>3 DEF RootTypes
  <2>6. version' \in Nat /\ version' > version /\ version \in Nat
    BY <1>0, <2>1, <2>5 DEF RootTypes, StoreInv
  <2>7. RootTypes'
    BY <1>0, <2>1, <2>3, <2>5, <2>6 DEF RootTypes
  <2>8. HeldInv'
    <3>1. ASSUME NEW g \in Handler, held[g] # Root!None
          PROVE  held[g].version <= version' /\ held[g].version # version'
      <4>1. held[g].version \in Nat /\ held[g].version <= version
        BY <1>0, <3>1 DEF HeldInv, RootTypes, Instance
      <4> QED
        BY <2>6, <4>1
    <3>2. \A g \in Handler : held[g] # Root!None =>
            /\ History(held[g].state, decided)
            /\ held[g].ended <=> Over(held[g].state)
            /\ held[g].version <= version'
            /\ held[g].version = version' => held[g].state = log' \o held[g].pending
      BY <1>0, <3>1 DEF HeldInv
    <3>3. held' = held /\ decided' = decided
      BY <2>1
    <3> QED
      BY <3>2, <3>3 DEF HeldInv
  <2>9. StoreInv'
    BY <1>0, <2>1, <2>4, <2>6 DEF StoreInv, RootTypes
  <2> QED
    BY <2>7, <2>8, <2>9 DEF RootInv
<1>6. CASE UNCHANGED Root!aggregateVars
  BY <1>0, <1>6 DEF Root!aggregateVars, RootInv, RootTypes, HeldInv, StoreInv
<1> QED
  BY <1>1, <1>2, <1>3, <1>4, <1>5, <1>6 DEF Root!Next

\* Whatever instances are chained, kept and saved again, what is stored is one history.
THEOREM HistoryStaysOne == Root!Spec => []OneHistory
<1>1. RootInv => OneHistory
  <2> SUFFICES ASSUME RootInv PROVE OneHistory
    OBVIOUS
  <2>1. Root!EachEventStoredOnce
    <3>1. \A i, j \in DOMAIN log : log[i].id = log[j].id => i = j
      BY DEF RootInv, RootTypes, StoreInv, History
    <3> QED
      BY <3>1 DEF Root!EachEventStoredOnce, Root!IsInjective
  <2>2. Root!StoredReplays
    BY DEF RootInv, StoreInv, History, Over, Root!StoredReplays
  <2> QED
    BY <2>1, <2>2 DEF OneHistory, Root!OneHistory
<1> QED
  BY <1>1, RootInit, RootStep, PTL DEF Root!Spec

-----------------------------------------------------------------------------
(* HttpExchange: what is armed belongs to a request nobody has answered yet. *)

ExchangeInv ==
  /\ size \in Nat /\ (wire # "reading" /\ reply = "none" => size = 0)
  /\ wire = "reading" => size <= MaxResponse
  /\ wire \in {"none", "resolving", "connecting", "waiting", "reading", "closed"}
  /\ wire = "none" => ~timer /\ ~listening
  /\ reply = "none" => wire # "closed"
  /\ reply # "none" => wire \in {"none", "closed"}
  /\ wire \in {"connecting", "waiting", "reading"} => reached # "none"
  /\ AnswersLeaveNothing

LEMMA ExchangeInit == Exchange!Init => ExchangeInv
  BY ServicesAssumption
  DEF Exchange!Init, ExchangeInv, AnswersLeaveNothing, Exchange!AnswersLeaveNothing

LEMMA ExchangeStep == ExchangeInv /\ [Exchange!Next]_(Exchange!exchangeVars) => ExchangeInv'
<1> SUFFICES ASSUME ExchangeInv, [Exchange!Next]_(Exchange!exchangeVars) PROVE ExchangeInv'
  OBVIOUS
<1> USE ServicesAssumption
    DEF ExchangeInv, AnswersLeaveNothing, Exchange!AnswersLeaveNothing, Exchange!Finish
<1>1. CASE Exchange!Refused
  BY <1>1 DEF Exchange!Refused
<1>2. CASE Exchange!Begin
  BY <1>2 DEF Exchange!Begin, Exchange!AllowedAddress
<1>3. CASE Exchange!Connected
  BY <1>3 DEF Exchange!Connected
<1>4. CASE Exchange!Broken
  BY <1>4 DEF Exchange!Broken
<1>5. CASE Exchange!Head
  BY <1>5 DEF Exchange!Head
<1>6. CASE Exchange!End
  BY <1>6 DEF Exchange!End
<1>7. CASE Exchange!Deadline
  BY <1>7 DEF Exchange!Deadline
<1>8. CASE Exchange!Abort
  BY <1>8 DEF Exchange!Abort
<1>9. ASSUME NEW addresses \in SUBSET Exchange!Address, Exchange!Resolve(addresses)
      PROVE  ExchangeInv'
  BY <1>9 DEF Exchange!Resolve, Exchange!Permitted, Exchange!AllowedAddress, Exchange!Address
<1>10. ASSUME NEW chunk \in 1..2, Exchange!Data(chunk) PROVE ExchangeInv'
  BY <1>10 DEF Exchange!Data
<1>11. CASE UNCHANGED Exchange!exchangeVars
  BY <1>11 DEF Exchange!exchangeVars
<1> QED
  BY <1>1, <1>2, <1>3, <1>4, <1>5, <1>6, <1>7, <1>8, <1>9, <1>10, <1>11 DEF Exchange!Next

\* However lookup, peer, deadline and signal race, an answered request leaves nothing behind,
\* and only an allowed address is ever connected to.
THEOREM AnswersAlwaysLeaveNothing == Exchange!Spec => []AnswersLeaveNothing
<1>1. ExchangeInv => AnswersLeaveNothing
  BY DEF ExchangeInv
<1> QED
  BY <1>1, ExchangeInit, ExchangeStep, PTL DEF Exchange!Spec

-----------------------------------------------------------------------------
(* TenantPin: a session is never set, so a transaction starts from none of another's settings. *)

PinInv ==
  /\ wants \in [Task -> Tenant \cup {NoTenant}] /\ mode \in [Task -> Pinned!Modes]
  /\ \A t \in Task : wants[t] = NoTenant => mode[t] = "default"
  /\ stage \in [Task -> {"none", "begun", "characterised", "pinned", "ended"}]
  /\ on \in [Task -> SUBSET Pooled] /\ read \in [Task -> SUBSET [tenant : Tenant \cup {NoTenant}, mode : Pinned!Modes]]
  /\ session = [c \in Pooled |-> Pinned!Fresh]
  /\ local \in [Pooled -> [tenant : Tenant \cup {NoTenant}, mode : Pinned!Modes]]
  /\ \A t, u \in Task, c \in Pooled : c \in on[t] /\ c \in on[u] => t = u
  /\ \A t \in Task, c, d \in Pooled : c \in on[t] /\ d \in on[t] => c = d
  /\ \A t \in Task, c \in Pooled : c \in on[t] =>
       /\ stage[t] = "begun" => local[c] = Pinned!Fresh
       /\ stage[t] = "characterised" => local[c].mode = mode[t]
       /\ stage[t] = "pinned" => local[c] = [tenant |-> wants[t], mode |-> mode[t]]
       /\ stage[t] # "none"
  /\ QueriesRunAsTheirTenant

LEMMA PinInit == Pinned!Init => PinInv
  BY DEF Pinned!Init, PinInv, Pinned!Modes, Pinned!Fresh, QueriesRunAsTheirTenant,
         Pinned!QueriesRunAsTheirTenant

LEMMA PinStep == PinInv /\ [Pinned!Next]_(Pinned!tenantVars) => PinInv'
<1> SUFFICES ASSUME PinInv, [Pinned!Next]_(Pinned!tenantVars) PROVE PinInv'
  OBVIOUS
<1> USE DEF PinInv, Pinned!Modes, Pinned!Fresh, QueriesRunAsTheirTenant,
            Pinned!QueriesRunAsTheirTenant, Pinned!Goto
<1>1. ASSUME NEW t \in Task, NEW c \in Pooled, Pinned!Begin(t, c) PROVE PinInv'
  BY <1>1 DEF Pinned!Begin, Pinned!Free
<1>2. ASSUME NEW t \in Task, NEW c \in Pooled, Pinned!Characterise(t, c) PROVE PinInv'
  <2> DEFINE set == [local[c] EXCEPT !.mode = IF mode[t] = "default" THEN @ ELSE mode[t]]
  <2>1. /\ stage[t] = "begun" /\ c \in on[t]
        /\ local' = [local EXCEPT ![c] = set]
        /\ stage' = [stage EXCEPT ![t] = "characterised"]
        /\ UNCHANGED <<wants, mode, on, session, read>>
    BY <1>2 DEF Pinned!Characterise
  <2>2. set \in [tenant : Tenant \cup {NoTenant}, mode : Pinned!Modes] /\ set.mode = mode[t]
    BY <1>2 DEF Pinned!Characterise
  <2> HIDE DEF set
  <2>3. /\ local'[c] = set /\ \A d \in Pooled : d # c => local'[d] = local[d]
        /\ local' \in [Pooled -> [tenant : Tenant \cup {NoTenant}, mode : Pinned!Modes]]
    BY <2>1, <2>2
  <2>4. /\ stage' \in [Task -> {"none", "begun", "characterised", "pinned", "ended"}]
        /\ stage'[t] = "characterised" /\ \A u \in Task : u # t => stage'[u] = stage[u]
    BY <2>1
  <2>5. ASSUME NEW u \in Task, NEW d \in Pooled, d \in on[u]
        PROVE  /\ stage'[u] = "begun" => local'[d] = Pinned!Fresh
               /\ stage'[u] = "characterised" => local'[d].mode = mode[u]
               /\ stage'[u] = "pinned" => local'[d] = [tenant |-> wants[u], mode |-> mode[u]]
               /\ stage'[u] # "none"
    BY <2>1, <2>2, <2>3, <2>4, <2>5
  <2> QED
    BY <2>1, <2>3, <2>4, <2>5
<1>3. ASSUME NEW t \in Task, NEW c \in Pooled, Pinned!Pin(t, c) PROVE PinInv'
  <2> DEFINE set == [local[c] EXCEPT !.tenant = wants[t]]
  <2>1. /\ stage[t] = "characterised" /\ c \in on[t]
        /\ local' = [local EXCEPT ![c] = set]
        /\ stage' = [stage EXCEPT ![t] = "pinned"]
        /\ UNCHANGED <<wants, mode, on, session, read>>
    BY <1>3 DEF Pinned!Pin
  <2>2. set = [tenant |-> wants[t], mode |-> mode[t]]
    BY <1>3 DEF Pinned!Pin
  <2> HIDE DEF set
  <2>3. /\ local'[c] = set /\ \A d \in Pooled : d # c => local'[d] = local[d]
        /\ local' \in [Pooled -> [tenant : Tenant \cup {NoTenant}, mode : Pinned!Modes]]
    BY <2>1, <2>2
  <2>4. /\ stage' \in [Task -> {"none", "begun", "characterised", "pinned", "ended"}]
        /\ stage'[t] = "pinned" /\ \A u \in Task : u # t => stage'[u] = stage[u]
    BY <2>1
  <2>5. ASSUME NEW u \in Task, NEW d \in Pooled, d \in on[u]
        PROVE  /\ stage'[u] = "begun" => local'[d] = Pinned!Fresh
               /\ stage'[u] = "characterised" => local'[d].mode = mode[u]
               /\ stage'[u] = "pinned" => local'[d] = [tenant |-> wants[u], mode |-> mode[u]]
               /\ stage'[u] # "none"
    BY <2>1, <2>2, <2>3, <2>4, <2>5
  <2> QED
    BY <2>1, <2>3, <2>4, <2>5
<1>4. ASSUME NEW t \in Task, NEW c \in Pooled, Pinned!Query(t, c) PROVE PinInv'
  BY <1>4 DEF Pinned!Query
<1>5. ASSUME NEW t \in Task, NEW c \in Pooled, Pinned!Over(t, c) PROVE PinInv'
  BY <1>5 DEF Pinned!Over
<1>6. ASSUME NEW t \in Task, NEW c \in Pooled, Pinned!Lost(t, c) PROVE PinInv'
  BY <1>6 DEF Pinned!Lost
<1>7. CASE UNCHANGED Pinned!tenantVars
  BY <1>7 DEF Pinned!tenantVars
<1> QED
  BY <1>1, <1>2, <1>3, <1>4, <1>5, <1>6, <1>7 DEF Pinned!Next

\* A query runs under the tenant and the mode its own call asked for, whatever tasks its
\* connection has served before.
THEOREM QueriesAlwaysRunAsTheirTenant == Pinned!Spec => []QueriesRunAsTheirTenant
<1>1. PinInv => QueriesRunAsTheirTenant
  BY DEF PinInv
<1> QED
  BY <1>1, PinInit, PinStep, PTL DEF Pinned!Spec

-----------------------------------------------------------------------------
(* AmqpConsumer: the close is begun by the first call, and over only when no handler is left. *)

CloseInv ==
  /\ close \in {"none", "running", "closed", "defected"}
  /\ closes = IF close = "none" THEN 0 ELSE 1
  /\ close \in {"closed", "defected"} => handling = {}
  /\ answer \in [{"drain", "stop"} -> {"none", "waiting", "ok", "defect"}]

LEMMA CloseInit == Consumer!Init => CloseInv
  BY DEF Consumer!Init, Consumer!Calls, CloseInv

CloseHeardStep ==
  /\ closes' <= 1
  /\ \A c \in Consumer!Calls :
       answer[c] = "waiting" /\ answer'[c] # "waiting" /\ deadline # "aborted" =>
         /\ handling = {} /\ Consumer!CloseOver
         /\ answer'[c] = "defect" <=> close = "defected"

LEMMA CloseStep ==
  CloseInv /\ [Consumer!Next]_(Consumer!amqpVars) => CloseInv' /\ CloseHeardStep
<1> SUFFICES ASSUME CloseInv, [Consumer!Next]_(Consumer!amqpVars)
             PROVE  CloseInv' /\ CloseHeardStep
  OBVIOUS
<1> USE DEF CloseInv, CloseHeardStep, Consumer!messages, Consumer!Calls, Consumer!CloseOver,
            Consumer!BeginClose
<1>1. ASSUME NEW d \in Delivery, Consumer!Deliver(d) PROVE CloseInv' /\ CloseHeardStep
  BY <1>1 DEF Consumer!Deliver
<1>2. ASSUME NEW d \in Delivery, NEW ok \in BOOLEAN, Consumer!Handled(d, ok)
      PROVE  CloseInv' /\ CloseHeardStep
  BY <1>2 DEF Consumer!Handled
<1>3. ASSUME NEW how \in {"closed", "defected"}, Consumer!CloseEnds(how)
      PROVE  CloseInv' /\ CloseHeardStep
  BY <1>3 DEF Consumer!CloseEnds
<1>4. CASE Consumer!Drain
  BY <1>4 DEF Consumer!Drain
<1>5. CASE Consumer!Stop
  BY <1>5 DEF Consumer!Stop
<1>6. CASE Consumer!Abort
  BY <1>6 DEF Consumer!Abort
<1>7. ASSUME NEW c \in Consumer!Calls, Consumer!Answer(c) PROVE CloseInv' /\ CloseHeardStep
  BY <1>7 DEF Consumer!Answer
<1>8. ASSUME NEW c \in Consumer!Calls, Consumer!Release(c) PROVE CloseInv' /\ CloseHeardStep
  BY <1>8 DEF Consumer!Release
<1>9. CASE UNCHANGED Consumer!amqpVars
  BY <1>9 DEF Consumer!amqpVars
<1> QED
  BY <1>1, <1>2, <1>3, <1>4, <1>5, <1>6, <1>7, <1>8, <1>9 DEF Consumer!Next

\* The safety half of ClosedInTime: the consumer is closed once, and within the deadline nobody
\* hears that it is while a message is still handled, or without hearing how.
THEOREM CloseAlwaysHeard == Consumer!Spec => Consumer!CloseHeard
<1>1. CloseInv /\ [Consumer!Next]_(Consumer!amqpVars) => [CloseHeardStep]_(Consumer!amqpVars)
  BY CloseStep
<1>2. CloseInv /\ [Consumer!Next]_(Consumer!amqpVars) => CloseInv'
  BY CloseStep
<1>3. Consumer!Spec => [][CloseHeardStep]_(Consumer!amqpVars)
  BY <1>1, <1>2, CloseInit, PTL DEF Consumer!Spec
<1> QED
  BY <1>3 DEF CloseHeardStep, Consumer!CloseHeard

-----------------------------------------------------------------------------
(* AuthWalk: what the alternatives before the turn came to. *)

Passed == 1..(turn - 1)

WalkInv ==
  /\ alternatives \in Seq(Auth!Alternative)
  /\ says \in [Scheme -> Auth!Identity \cup Auth!Refusal]
  /\ turn \in Nat \ {0} /\ turn <= Len(alternatives) + 1
  /\ underScoped \in BOOLEAN
  /\ \A i \in Passed : ~Auth!Met(i, says) /\ ~Auth!Broken(i)
  /\ underScoped <=> \E i \in Passed : says[alternatives[i].scheme] # [refusal |-> "unauthenticated"]
  /\ \A needed \in scopes : \E i \in Passed :
       /\ alternatives[i].scheme \in bearer /\ alternatives[i].required = needed
       /\ Auth!Recognised(says[alternatives[i].scheme])
  /\ verdict # "pending" => VerdictIsTheRequirements

LEMMA SayIsOneOf ==
  ASSUME NEW say \in Auth!Identity \cup Auth!Refusal
  PROVE  /\ Auth!Recognised(say) <=> say \in Auth!Identity
         /\ ~Auth!Recognised(say) =>
              say.refusal \in {"unauthenticated", "refused", "unavailable", "defect"}
         /\ say = [refusal |-> "unauthenticated"] <=>
              ~Auth!Recognised(say) /\ say.refusal = "unauthenticated"
  BY DEF Auth!Identity, Auth!Refusal, Auth!Recognised

LEMMA WalkInit == Auth!Init => WalkInv
<1> SUFFICES ASSUME Auth!Init PROVE WalkInv
  OBVIOUS
<1>1. PICK n \in 1..MaxAlternatives : alternatives \in [1..n -> Auth!Alternative]
  BY DEF Auth!Init
<1>2. n \in Nat /\ alternatives \in Seq(Auth!Alternative)
  BY <1>1, ServicesAssumption, IsASeq
<1>3. Passed = {} /\ turn = 1
  BY DEF Auth!Init, Passed
<1>4. Len(alternatives) \in Nat
  BY <1>2, LenProperties
<1>5. /\ says \in [Scheme -> Auth!Identity \cup Auth!Refusal]
      /\ underScoped = FALSE /\ scopes = {} /\ verdict = "pending"
  BY DEF Auth!Init, Auth!Pending
<1>6. /\ turn \in Nat \ {0} /\ turn <= Len(alternatives) + 1 /\ underScoped \in BOOLEAN
  <2>1. 1 \in Nat \ {0} /\ \A m \in Nat : 1 <= m + 1
    OBVIOUS
  <2>2. turn <= Len(alternatives) + 1
    BY <1>3, <1>4, <2>1, Zenon
  <2> QED
    BY <1>3, <1>5, <2>1, <2>2, Zenon
<1>7. underScoped <=> \E i \in Passed : says[alternatives[i].scheme] # [refusal |-> "unauthenticated"]
  BY <1>3, <1>5, Zenon
<1> QED
  BY <1>2, <1>3, <1>5, <1>6, <1>7, Zenon DEF WalkInv

LEMMA AlternativeTried ==
  ASSUME WalkInv, turn <= Len(alternatives)
  PROVE  /\ turn \in DOMAIN alternatives /\ Len(alternatives) \in Nat
         /\ alternatives[turn] \in Auth!Alternative /\ alternatives[turn].scheme \in Scheme
         /\ says[alternatives[turn].scheme] \in Auth!Identity \cup Auth!Refusal
<1>1. /\ alternatives \in Seq(Auth!Alternative) /\ turn \in Nat \ {0}
      /\ says \in [Scheme -> Auth!Identity \cup Auth!Refusal]
  BY DEF WalkInv
<1>2. turn \in DOMAIN alternatives /\ Len(alternatives) \in Nat
  BY <1>1, LenProperties
<1>3. alternatives[turn] \in Auth!Alternative
  BY <1>1, <1>2, ElementOfSeq, LenProperties
<1>4. alternatives[turn].scheme \in Scheme
  BY <1>3 DEF Auth!Alternative
<1> QED
  BY <1>1, <1>2, <1>3, <1>4

\* A turn that settles the walk settles it as the requirements have it.
LEMMA WalkSettles ==
  ASSUME WalkInv, verdict = "pending", Auth!Try, turn <= Len(alternatives), verdict' # "pending",
         UNCHANGED <<alternatives, says, bearer>>
  PROVE  WalkInv'
<1> DEFINE tried == alternatives[turn]
           say == says[tried.scheme]
<1>1. /\ turn \in DOMAIN alternatives /\ tried \in Auth!Alternative /\ tried.scheme \in Scheme
      /\ say \in Auth!Identity \cup Auth!Refusal
  BY AlternativeTried
<1>2. UNCHANGED <<turn, underScoped, scopes, alternatives, says, bearer>>
  BY DEF Auth!Try, Auth!Settled
<1>3. \A j \in 1..(turn - 1) : ~Auth!Met(j, says) /\ ~Auth!Broken(j)
  BY DEF WalkInv, Passed
<1>4. CASE Auth!Satisfies(say, tried.required)
  <2>1. verdict' = tried.scheme /\ Auth!Met(turn, says)
    BY <1>4 DEF Auth!Try, Auth!Settled, Auth!Met
  <2>2. VerdictIsTheRequirements'
    BY <1>1, <1>2, <1>3, <2>1, ServicesAssumption
    DEF VerdictIsTheRequirements, Auth!VerdictIsTheRequirements, Auth!Tried, Auth!Met, Auth!Broken
  <2> QED
    BY <1>2, <2>2 DEF WalkInv, Passed, Auth!Met, Auth!Broken
<1>5. CASE ~Auth!Satisfies(say, tried.required)
  <2>1. /\ Auth!Breaks(say) /\ verdict' = say.refusal
        /\ verdict' \in {"unavailable", "defect"} /\ say = [refusal |-> verdict']
    BY <1>1, <1>5 DEF Auth!Try, Auth!Settled, Auth!Breaks, Auth!Recognised, Auth!Identity, Auth!Refusal
  <2>2. VerdictIsTheRequirements'
    BY <1>1, <1>2, <1>3, <2>1, ServicesAssumption
    DEF VerdictIsTheRequirements, Auth!VerdictIsTheRequirements, Auth!Tried, Auth!Met, Auth!Broken
  <2> QED
    BY <1>2, <2>2 DEF WalkInv, Passed, Auth!Met, Auth!Broken
<1> QED
  BY <1>4, <1>5

\* A turn that goes on to the next alternative.
LEMMA WalkGoesOn ==
  ASSUME WalkInv, verdict = "pending", Auth!Try, turn <= Len(alternatives), verdict' = "pending",
         UNCHANGED <<alternatives, says, bearer>>
  PROVE  WalkInv'
<1> DEFINE tried == alternatives[turn]
           say == says[tried.scheme]
<1>1. /\ turn \in DOMAIN alternatives /\ tried \in Auth!Alternative /\ tried.scheme \in Scheme
      /\ say \in Auth!Identity \cup Auth!Refusal /\ Len(alternatives) \in Nat
  BY AlternativeTried
<1>2. ~Auth!Satisfies(say, tried.required) /\ ~Auth!Breaks(say)
  BY <1>1, ServicesAssumption
  DEF Auth!Try, Auth!Settled, Auth!Breaks, Auth!Recognised, Auth!Identity, Auth!Refusal
<1>3. /\ turn' = turn + 1
      /\ underScoped' = (underScoped \/ Auth!Recognised(say) \/ say.refusal = "refused")
      /\ scopes' = IF scopes = {} /\ Auth!Recognised(say) /\ tried.scheme \in bearer
                   THEN {tried.required} ELSE scopes
  BY <1>2 DEF Auth!Try
<1>4. /\ Passed' = Passed \cup {turn} /\ turn' \in Nat \ {0} /\ turn' <= Len(alternatives) + 1
  BY <1>1, <1>3 DEF WalkInv, Passed
<1>5. ~Auth!Met(turn, says) /\ ~Auth!Broken(turn)
  BY <1>2 DEF Auth!Met, Auth!Broken
<1>6. say # [refusal |-> "unauthenticated"] <=> Auth!Recognised(say) \/ say.refusal = "refused"
  BY <1>1, <1>2, SayIsOneOf DEF Auth!Breaks
<1>7. underScoped' <=> \E i \in Passed' : says[alternatives[i].scheme] # [refusal |-> "unauthenticated"]
  BY <1>3, <1>4, <1>6 DEF WalkInv
<1>8. \A needed \in scopes' : \E i \in Passed' :
        /\ alternatives[i].scheme \in bearer /\ alternatives[i].required = needed
        /\ Auth!Recognised(says[alternatives[i].scheme])
  BY <1>3, <1>4 DEF WalkInv
<1>9. underScoped' \in BOOLEAN
  BY <1>1, <1>3, <1>6 DEF WalkInv
<1> QED
  BY <1>4, <1>5, <1>7, <1>8, <1>9 DEF WalkInv, Auth!Met, Auth!Broken

\* No alternative is left.
LEMMA WalkEnds ==
  ASSUME WalkInv, verdict = "pending", turn > Len(alternatives),
         Auth!Settled(IF underScoped THEN "underScoped" ELSE "unauthenticated"),
         UNCHANGED <<alternatives, says, bearer>>
  PROVE  WalkInv'
<1>1. /\ DOMAIN alternatives = Passed /\ UNCHANGED <<turn, underScoped, scopes, alternatives, says, bearer>>
      /\ verdict' = IF underScoped THEN "underScoped" ELSE "unauthenticated"
  BY LenProperties DEF WalkInv, Passed, Auth!Settled
<1>2. \A i \in Passed : ~Auth!Met(i, says) /\ ~Auth!Broken(i)
  BY DEF WalkInv
<1>3. underScoped <=> \E i \in Passed : says[alternatives[i].scheme] # [refusal |-> "unauthenticated"]
  BY DEF WalkInv
<1>4. \A i \in Passed : alternatives[i] \in Auth!Alternative
  BY <1>1, ElementOfSeq, LenProperties DEF WalkInv
<1>5. ASSUME NEW needed \in scopes
      PROVE  /\ underScoped
             /\ \E s \in bearer, i \in Passed :
                  /\ alternatives[i] = [scheme |-> s, required |-> needed]
                  /\ Auth!Recognised(says[s])
                  /\ Auth!Met(i, [says EXCEPT ![s] = [granted |-> needed]])
  <2>1. PICK i \in Passed : /\ alternatives[i].scheme \in bearer /\ alternatives[i].required = needed
                            /\ Auth!Recognised(says[alternatives[i].scheme])
    BY DEF WalkInv
  <2>2. /\ alternatives[i] = [scheme |-> alternatives[i].scheme, required |-> needed]
        /\ alternatives[i].scheme \in Scheme
    BY <1>4, <2>1 DEF Auth!Alternative
  <2>3. Auth!Met(i, [says EXCEPT ![alternatives[i].scheme] = [granted |-> needed]])
    BY <2>1, <2>2 DEF Auth!Met, Auth!Satisfies, Auth!Recognised, WalkInv
  <2>4. says[alternatives[i].scheme] # [refusal |-> "unauthenticated"]
    BY <2>1 DEF Auth!Recognised
  <2> QED
    BY <1>3, <2>1, <2>2, <2>3, <2>4
<1>6. VerdictIsTheRequirements'
  BY <1>1, <1>2, <1>3, <1>5, ServicesAssumption
  DEF VerdictIsTheRequirements, Auth!VerdictIsTheRequirements, Auth!Tried, Auth!Met, Auth!Broken
<1> QED
  BY <1>1, <1>6 DEF WalkInv, Passed, Auth!Met, Auth!Broken

LEMMA WalkStep == WalkInv /\ [Auth!Next]_(Auth!authVars) => WalkInv'
<1> SUFFICES ASSUME WalkInv, [Auth!Next]_(Auth!authVars) PROVE WalkInv'
  OBVIOUS
<1>1. CASE Auth!Walk
  BY <1>1, WalkSettles, WalkGoesOn, WalkEnds, LenProperties DEF Auth!Walk, Auth!Pending, WalkInv
<1>2. CASE UNCHANGED Auth!authVars
  BY <1>2 DEF Auth!authVars, WalkInv, Passed, VerdictIsTheRequirements,
              Auth!VerdictIsTheRequirements, Auth!Tried, Auth!Met, Auth!Broken
<1> QED
  BY <1>1, <1>2 DEF Auth!Next

\* The verdict of the walk is what the declared alternatives mean together.
THEOREM VerdictAlwaysTheRequirements == Auth!Spec => []VerdictIsTheRequirements
<1>1. WalkInv => VerdictIsTheRequirements
  BY ServicesAssumption DEF WalkInv, VerdictIsTheRequirements, Auth!VerdictIsTheRequirements
<1> QED
  BY <1>1, WalkInit, WalkStep, PTL DEF Auth!Spec

-----------------------------------------------------------------------------
(* Probes: a gating check runs while its slot is taken, and what makes a probe unready stays. *)

MonitorInv ==
  /\ pending \subseteq Gating
  /\ running \in [Listener!Check -> Int]
  /\ \A k \in Gating : running[k] = IF k \in pending THEN 1 ELSE 0

ReadyInv ==
  /\ ready => phase = "serving"
  /\ ready \in BOOLEAN /\ monitored \in BOOLEAN /\ refused \subseteq Gating
  /\ cached \in [Listener!Check -> {"none", "healthy", "unhealthy"}]
  /\ phase \in {"starting", "serving"} => monitored
  /\ probe \in [Probe -> [asks : {"none", "livez", "readyz", "healthz"},
                          got : [Listener!Check -> {"none", "healthy", "unhealthy"}],
                          awaits : SUBSET Listener!Check,
                          answer : {"none", "ok", "unavailable"}]]
  /\ \A p \in Probe : probe[p].asks = "readyz" /\ probe[p].answer = "none" =>
       \A k \in refused : probe[p].got[k] = "unhealthy" /\ k \notin probe[p].awaits

NeverReadyStep ==
  \A p \in Probe :
    probe'[p].asks = "readyz" /\ probe'[p].answer = "ok" /\ probe[p].answer = "none" =>
      ready /\ phase = "serving" /\ (monitored => refused = {})

LEMMA ProbesInit == Listener!Init => MonitorInv /\ ReadyInv
<1> SUFFICES ASSUME Listener!Init PROVE MonitorInv /\ ReadyInv
  OBVIOUS
<1>1. MonitorInv
  BY DEF Listener!Init, Listener!Check, MonitorInv
<1>2. probe \in [Probe -> [asks : {"none", "livez", "readyz", "healthz"},
                          got : [Listener!Check -> {"none", "healthy", "unhealthy"}],
                          awaits : SUBSET Listener!Check,
                          answer : {"none", "ok", "unavailable"}]]
  <2>1. Listener!IdleProbe \in [asks : {"none", "livez", "readyz", "healthz"},
                               got : [Listener!Check -> {"none", "healthy", "unhealthy"}],
                               awaits : SUBSET Listener!Check,
                               answer : {"none", "ok", "unavailable"}]
    BY DEF Listener!IdleProbe
  <2> QED
    BY <2>1 DEF Listener!Init
<1>3. \A p \in Probe : probe[p].asks = "none"
  BY DEF Listener!Init, Listener!IdleProbe
<1> QED
  BY <1>1, <1>2, <1>3 DEF Listener!Init, Listener!App!Init, ReadyInv

LEMMA MonitorStep == MonitorInv /\ [Listener!Next]_(Listener!probesVars) => MonitorInv'
<1> SUFFICES ASSUME MonitorInv, [Listener!Next]_(Listener!probesVars) PROVE MonitorInv'
  OBVIOUS
<1> USE DEF MonitorInv, Listener!Check, Listener!monitorVars, Listener!lifecycle
<1>1. CASE Listener!Lives
  BY <1>1 DEF Listener!Lives
<1>2. ASSUME NEW p \in Probe, NEW kind, NEW asked \in SUBSET Listener!Check,
             Listener!Asks(p, kind, asked)
      PROVE  MonitorInv'
  BY <1>2 DEF Listener!Asks, Listener!Started
<1>3. ASSUME NEW p \in Probe, Listener!Readyz(p) \/ Listener!Healthz(p) PROVE MonitorInv'
  BY <1>2, <1>3 DEF Listener!Readyz, Listener!Healthz
<1>4. ASSUME NEW p \in Probe, Listener!Livez(p) \/ Listener!ReadyzUnready(p) \/ Listener!Answer(p)
                              \/ Listener!Gone(p)
      PROVE  MonitorInv'
  BY <1>4 DEF Listener!Livez, Listener!ReadyzUnready, Listener!Answer, Listener!Gone
<1>5. ASSUME NEW k \in Listener!Check, NEW report \in Listener!Reports, NEW answered \in BOOLEAN,
             Listener!SettleShared(k, report, answered)
      PROVE  MonitorInv'
  BY <1>5 DEF Listener!SettleShared
<1>6. ASSUME NEW p \in Probe, NEW k \in Listener!Check, NEW report \in Listener!Reports,
             NEW answered \in BOOLEAN, Listener!SettleOwn(p, k, report, answered)
      PROVE  MonitorInv'
  BY <1>6 DEF Listener!SettleOwn
<1>7. ASSUME NEW k \in Listener!Check, Listener!IntervalEnds(k) PROVE MonitorInv'
  BY <1>7 DEF Listener!IntervalEnds
<1>8. CASE UNCHANGED Listener!probesVars
  BY <1>8 DEF Listener!probesVars
<1> QED
  BY <1>1, <1>3, <1>4, <1>5, <1>6, <1>7, <1>8 DEF Listener!Next

\* However many probes come at once, a check that gates readiness is asked once at a time.
THEOREM ChecksAreAskedOnce == Listener!Spec => []OneEvaluationPerCheck
<1>1. MonitorInv => OneEvaluationPerCheck
  BY DEF MonitorInv, OneEvaluationPerCheck, Listener!OneEvaluationPerCheck
<1> QED
  BY <1>1, ProbesInit, MonitorStep, PTL DEF Listener!Spec

LEMMA AtOnceTells ==
  ASSUME MonitorInv, ReadyInv, NEW k \in Listener!Check
  PROVE  /\ Listener!AtOnce(k) \in {"none", "healthy", "unhealthy"}
         /\ k \in refused => Listener!AtOnce(k) = "unhealthy"
  BY DEF Listener!AtOnce, ReadyInv

LEMMA StandingStill ==
  ASSUME ReadyInv, phase' = phase, ready' = ready, refused' = refused, monitored' = monitored,
         cached' = cached, probe' = probe
  PROVE  ReadyInv' /\ NeverReadyStep
<1>1. ReadyInv'
  <2>1. /\ ready' => phase' = "serving"
        /\ ready' \in BOOLEAN /\ monitored' \in BOOLEAN /\ refused' \subseteq Gating
        /\ phase' \in {"starting", "serving"} => monitored'
    BY DEF ReadyInv
  <2>2. cached' \in [Listener!Check -> {"none", "healthy", "unhealthy"}]
    BY DEF ReadyInv
  <2>3. probe' \in [Probe -> [asks : {"none", "livez", "readyz", "healthz"},
                             got : [Listener!Check -> {"none", "healthy", "unhealthy"}],
                             awaits : SUBSET Listener!Check,
                             answer : {"none", "ok", "unavailable"}]]
    BY DEF ReadyInv
  <2>4. \A p \in Probe : probe'[p].asks = "readyz" /\ probe'[p].answer = "none" =>
          \A k \in refused' : probe'[p].got[k] = "unhealthy" /\ k \notin probe'[p].awaits
    BY DEF ReadyInv
  <2> QED
    BY <2>1, <2>2, <2>3, <2>4 DEF ReadyInv
<1> QED
  BY <1>1 DEF NeverReadyStep

LEMMA ReadyStep ==
  MonitorInv /\ ReadyInv /\ [Listener!Next]_(Listener!probesVars) => ReadyInv' /\ NeverReadyStep
<1> SUFFICES ASSUME MonitorInv, ReadyInv, [Listener!Next]_(Listener!probesVars)
             PROVE  ReadyInv' /\ NeverReadyStep
  OBVIOUS
<1> DEFINE Asking == [asks : {"none", "livez", "readyz", "healthz"},
                      got : [Listener!Check -> {"none", "healthy", "unhealthy"}],
                      awaits : SUBSET Listener!Check, answer : {"none", "ok", "unavailable"}]
<1>1. CASE Listener!Lives
  <2>1. UNCHANGED <<refused, cached, probe>> /\ monitored' = (monitored \/ phase' = "starting")
    BY <1>1 DEF Listener!Lives
  <2>2. Listener!App!Next
    BY <1>1 DEF Listener!Lives
  <2>3. /\ ready' => phase' = "serving"
        /\ ready' \in BOOLEAN
    <3>1. CASE Listener!App!Serve
      BY <3>1 DEF Listener!App!Serve
    <3>2. CASE Listener!App!Start
      BY <3>2 DEF Listener!App!Start, ReadyInv
    <3>3. CASE \/ Listener!App!LoseReadiness \/ Listener!App!Drain \/ Listener!App!Stop
               \/ Listener!App!Exit
      BY <3>3
      DEF Listener!App!LoseReadiness, Listener!App!Drain, Listener!App!Stop, Listener!App!Exit
    <3> QED
      BY <2>2, <3>1, <3>2, <3>3 DEF Listener!App!Next
  <2>4. phase' \in {"starting", "serving"} => phase' = "starting" \/ phase \in {"starting", "serving"}
    BY <2>2
    DEF Listener!App!Next, Listener!App!Start, Listener!App!Serve,
        Listener!App!LoseReadiness, Listener!App!Drain, Listener!App!Stop, Listener!App!Exit
  <2>5. monitored' \in BOOLEAN /\ (phase' \in {"starting", "serving"} => monitored')
    BY <2>1, <2>4 DEF ReadyInv
  <2> QED
    BY <2>1, <2>3, <2>5 DEF ReadyInv, NeverReadyStep
\* What moves one probe by itself.
<1>2. ASSUME NEW p \in Probe, NEW is \in Asking, probe' = [probe EXCEPT ![p] = is],
             UNCHANGED <<phase, ready, refused, monitored>>,
             cached' \in [Listener!Check -> {"none", "healthy", "unhealthy"}],
             is.asks = "readyz" /\ is.answer = "none" =>
               \A k \in refused : is.got[k] = "unhealthy" /\ k \notin is.awaits,
             is.asks = "readyz" /\ is.answer = "ok" /\ probe[p].answer = "none" =>
               ready /\ (monitored => refused = {})
      PROVE  ReadyInv' /\ NeverReadyStep
  <2>1. /\ probe' \in [Probe -> Asking] /\ probe'[p] = is
        /\ \A q \in Probe : q # p => probe'[q] = probe[q]
    BY <1>2 DEF ReadyInv
  <2> QED
    BY <1>2, <2>1 DEF ReadyInv, NeverReadyStep
<1>3. ASSUME NEW p \in Probe, Listener!Livez(p) PROVE ReadyInv' /\ NeverReadyStep
  <2>1. [Listener!IdleProbe EXCEPT !.asks = "livez", !.answer = "ok"] \in Asking
    BY DEF Listener!IdleProbe
  <2> QED
    BY <1>2, <1>3, <2>1
    DEF Listener!Livez, Listener!IdleProbe, Listener!lifecycle, Listener!monitorVars, ReadyInv
<1>4. ASSUME NEW p \in Probe, Listener!ReadyzUnready(p) PROVE ReadyInv' /\ NeverReadyStep
  <2>1. [Listener!IdleProbe EXCEPT !.asks = "readyz", !.answer = "unavailable"] \in Asking
    BY DEF Listener!IdleProbe
  <2> QED
    BY <1>2, <1>4, <2>1
    DEF Listener!ReadyzUnready, Listener!IdleProbe, Listener!lifecycle, Listener!monitorVars, ReadyInv
<1>5. ASSUME NEW p \in Probe, NEW kind \in {"readyz", "healthz"},
             NEW asked \in SUBSET Listener!Check, Listener!Asks(p, kind, asked),
             UNCHANGED <<phase, ready>>, kind = "readyz" => refused \subseteq asked
      PROVE  ReadyInv' /\ NeverReadyStep
  <2> DEFINE is == [asks |-> kind, awaits |-> {k \in asked : Listener!AtOnce(k) = "none"},
                    answer |-> "none",
                    got |-> [k \in Listener!Check |->
                               IF k \in asked THEN Listener!AtOnce(k) ELSE "none"]]
  <2>1. /\ probe' = [probe EXCEPT ![p] = is]
        /\ UNCHANGED <<refused, monitored, cached>>
    BY <1>5 DEF Listener!Asks
  <2>2. is \in Asking
    BY AtOnceTells
  <2>3. kind = "readyz" => \A k \in refused : is.got[k] = "unhealthy" /\ k \notin is.awaits
    BY <1>5, AtOnceTells DEF ReadyInv, Listener!Check
  <2>4. is.asks = kind /\ is.answer = "none"
    OBVIOUS
  <2> HIDE DEF is
  <2> QED
    BY <1>2, <1>5, <2>1, <2>2, <2>3, <2>4 DEF ReadyInv
<1>6. ASSUME NEW p \in Probe, Listener!Readyz(p) PROVE ReadyInv' /\ NeverReadyStep
  BY <1>5, <1>6 DEF Listener!Readyz, Listener!lifecycle, ReadyInv, Listener!Check
<1>7. ASSUME NEW p \in Probe, Listener!Healthz(p) PROVE ReadyInv' /\ NeverReadyStep
  BY <1>5, <1>7 DEF Listener!Healthz, Listener!lifecycle, Listener!Check
<1>8. ASSUME NEW p \in Probe, Listener!Answer(p) PROVE ReadyInv' /\ NeverReadyStep
  <2> DEFINE ok == /\ \A k \in Listener!Check : probe[p].got[k] # "unhealthy"
                   /\ probe[p].asks = "readyz" => ready
             answered == IF ok THEN "ok" ELSE "unavailable"
             is == [probe[p] EXCEPT !.answer = answered, !.awaits = {}]
  <2>1. probe' = [probe EXCEPT ![p] = is] /\ UNCHANGED <<phase, ready, refused, monitored, cached>>
    BY <1>8 DEF Listener!Answer, Listener!Respond, Listener!lifecycle, Listener!monitorVars
  <2>2. probe[p] \in Asking /\ probe[p].answer = "none"
    BY <1>8 DEF Listener!Answer, ReadyInv
  <2>3. /\ is \in Asking /\ is.answer # "none" /\ is.asks = probe[p].asks
        /\ is.answer = "ok" => ok
    <3>1. answered \in {"ok", "unavailable"} /\ (answered = "ok" => ok)
      OBVIOUS
    <3> HIDE DEF answered, ok
    <3> QED
      BY <2>2, <3>1
  <2>4. probe[p].asks = "readyz" /\ ok => ready /\ refused = {}
    BY <2>2 DEF ReadyInv, Listener!Check
  <2> HIDE DEF is, ok
  <2> QED
    BY <1>2, <2>1, <2>3, <2>4 DEF ReadyInv
<1>9. ASSUME NEW p \in Probe, Listener!Gone(p) PROVE ReadyInv' /\ NeverReadyStep
  <2>1. Listener!IdleProbe \in Asking
    BY DEF Listener!IdleProbe
  <2> QED
    BY <1>2, <1>9, <2>1
    DEF Listener!Gone, Listener!IdleProbe, Listener!lifecycle, Listener!monitorVars, ReadyInv
\* A report that is in: what probes were told of refused checks stands.
<1>10. ASSUME NEW p \in Probe, NEW k \in probe[p].awaits, NEW report \in Listener!Reports
       PROVE  /\ Listener!Told(p, k, report) \in Asking
              /\ Listener!Told(p, k, report).asks = probe[p].asks
              /\ Listener!Told(p, k, report).answer = probe[p].answer
              /\ probe[p].asks = "readyz" /\ probe[p].answer = "none" =>
                   \A j \in refused : /\ Listener!Told(p, k, report).got[j] = "unhealthy"
                                     /\ j \notin Listener!Told(p, k, report).awaits
  <2>1. probe[p] \in Asking /\ k \in Listener!Check
    BY DEF ReadyInv
  <2>2. [probe[p].got EXCEPT ![k] = report] \in [Listener!Check -> {"none", "healthy", "unhealthy"}]
    BY <2>1 DEF Listener!Reports
  <2>3. /\ Listener!Told(p, k, report) \in Asking
        /\ Listener!Told(p, k, report).asks = probe[p].asks
        /\ Listener!Told(p, k, report).answer = probe[p].answer
        /\ Listener!Told(p, k, report).got = [probe[p].got EXCEPT ![k] = report]
        /\ Listener!Told(p, k, report).awaits = probe[p].awaits \ {k}
    BY <2>1, <2>2 DEF Listener!Told
  <2> QED
    BY <2>1, <2>3 DEF ReadyInv, Listener!Check
<1>11. ASSUME NEW k \in Listener!Check, NEW report \in Listener!Reports, NEW answered \in BOOLEAN,
              Listener!SettleShared(k, report, answered)
       PROVE  ReadyInv' /\ NeverReadyStep
  <2>1. /\ probe' = [p \in Probe |-> IF k \in probe[p].awaits
                                     THEN Listener!Told(p, k, report) ELSE probe[p]]
        /\ cached' = [cached EXCEPT ![k] = report]
        /\ UNCHANGED <<phase, ready, refused, monitored>>
    BY <1>11 DEF Listener!SettleShared, Listener!lifecycle
  <2>2. cached' \in [Listener!Check -> {"none", "healthy", "unhealthy"}]
    BY <2>1 DEF ReadyInv, Listener!Reports
  <2>3. \A p \in Probe : probe[p] \in Asking
    BY DEF ReadyInv
  <2>4. /\ probe' \in [Probe -> Asking]
        /\ \A p \in Probe : probe'[p].asks = probe[p].asks /\ probe'[p].answer = probe[p].answer
        /\ \A p \in Probe : probe'[p].asks = "readyz" /\ probe'[p].answer = "none" =>
             \A j \in refused : probe'[p].got[j] = "unhealthy" /\ j \notin probe'[p].awaits
    BY <1>10, <2>1, <2>3 DEF ReadyInv
  <2> QED
    BY <2>1, <2>2, <2>4 DEF ReadyInv, NeverReadyStep
<1>12. ASSUME NEW p \in Probe, NEW k \in Listener!Check, NEW report \in Listener!Reports,
              NEW answered \in BOOLEAN, Listener!SettleOwn(p, k, report, answered)
       PROVE  ReadyInv' /\ NeverReadyStep
  <2>1. /\ k \in probe[p].awaits /\ probe' = [probe EXCEPT ![p] = Listener!Told(p, k, report)]
        /\ UNCHANGED <<phase, ready, refused, monitored, cached>>
    BY <1>12 DEF Listener!SettleOwn, Listener!lifecycle
  <2> DEFINE is == Listener!Told(p, k, report)
  <2>2. /\ is \in Asking /\ is.asks = probe[p].asks /\ is.answer = probe[p].answer
        /\ probe[p].asks = "readyz" /\ probe[p].answer = "none" =>
             \A j \in refused : is.got[j] = "unhealthy" /\ j \notin is.awaits
    BY <1>10, <2>1
  <2>3. cached' \in [Listener!Check -> {"none", "healthy", "unhealthy"}]
    BY <2>1 DEF ReadyInv
  <2>4. probe' = [probe EXCEPT ![p] = is]
    BY <2>1
  <2>5. is.answer = "ok" => probe[p].answer # "none"
    BY <2>2
  <2> HIDE DEF is, Asking
  <2> QED
    BY <1>2, <2>1, <2>2, <2>3, <2>4, <2>5
<1>13. ASSUME NEW k \in Listener!Check, Listener!IntervalEnds(k) PROVE ReadyInv' /\ NeverReadyStep
  <2>1. UNCHANGED <<phase, ready, refused, monitored, cached, probe>>
    BY <1>13 DEF Listener!IntervalEnds, Listener!lifecycle
  <2> QED
    BY <2>1, StandingStill
<1>14. CASE UNCHANGED Listener!probesVars
  <2>1. UNCHANGED <<phase, ready, refused, monitored, cached, probe>>
    BY <1>14 DEF Listener!probesVars, Listener!lifecycle, Listener!monitorVars
  <2> QED
    BY <2>1, StandingStill
<1> QED
  BY <1>1, <1>3, <1>4, <1>6, <1>7, <1>8, <1>9, <1>11, <1>12, <1>13, <1>14 DEF Listener!Next

\* No /readyz calls an application ready that has lost its readiness, though it asked before,
\* or that has a check at no valid interval.
THEOREM ReadinessIsNotRegained == Listener!Spec => NeverReadyAgain
<1>1. /\ MonitorInv /\ ReadyInv /\ [Listener!Next]_(Listener!probesVars) => MonitorInv' /\ ReadyInv'
      /\ MonitorInv /\ ReadyInv /\ [Listener!Next]_(Listener!probesVars) =>
           [NeverReadyStep]_(Listener!probesVars)
  BY MonitorStep, ReadyStep
<1>2. Listener!Spec => [][NeverReadyStep]_(Listener!probesVars)
  BY <1>1, ProbesInit, PTL DEF Listener!Spec
<1> QED
  BY <1>2 DEF NeverReadyStep, NeverReadyAgain, Listener!NeverReadyAgain

-----------------------------------------------------------------------------
(* StreamedObjects: what is published is whole, and a call that is over leaves nothing.  *)

Steps == {"none", "lockedOut", "first", "putting", "creating", "sending", "reading",
          "completing", "aborting", "settled"}
Results == {"none", "full", "interrupted", "invalid", "mismatch", "unavailable", "exists", "ok"}
Sources == {"untouched", "locked", "cancelled", "released"}
Bodies == {"none", "over", "asked", "arrived", "broken", "streaming"}

StreamTypes ==
  /\ object \in [by : Writer \cup {Nobody}, whole : BOOLEAN]
  /\ ifAbsent \subseteq Writer /\ genuine \subseteq Writer
  /\ at \in [Writer -> Steps]
  /\ streamEnded \in [Writer -> BOOLEAN]
  /\ upload \in [Writer -> {"none", "open", "completed", "aborted"}]
  /\ wrote \in [Writer -> BOOLEAN] /\ unheard \in [Writer -> BOOLEAN]
  /\ result \in [Writer -> Results] /\ stream \in [Writer -> Sources]
  /\ body \in [Reader -> Bodies]

\* What may be published is whole, and what it was declared to be.
WholeInv ==
  /\ object.whole
  /\ \A w \in Writer : at[w] \in {"putting", "completing"} => streamEnded[w] /\ w \in genuine

\* How a call stands, wherever it is.
CallInv(w) ==
  /\ at[w] \in {"none", "lockedOut", "first"} =>
       result[w] = "none" /\ upload[w] = "none" /\ ~wrote[w]
  /\ at[w] = "lockedOut" => stream[w] \notin {"locked", "released"}
  /\ at[w] = "putting" => upload[w] = "none" /\ (wrote[w] => unheard[w])
  /\ at[w] = "creating" => ~wrote[w] /\ (upload[w] = "open" => unheard[w])
  /\ at[w] \in {"sending", "reading"} => ~wrote[w] /\ upload[w] = "open"
  /\ at[w] = "completing" => /\ wrote[w] => unheard[w]
                             /\ upload[w] = "completed" => wrote[w]
                             /\ wrote[w] => upload[w] # "open"
  /\ at[w] = "aborting" => result[w] # "ok" /\ (wrote[w] => unheard[w])
  /\ at[w] \in {"none", "lockedOut"} => stream[w] = "untouched"
  /\ at[w] = "settled" =>
       /\ result[w] = "ok" => wrote[w]
       /\ wrote[w] /\ ~unheard[w] => result[w] = "ok"
       /\ upload[w] = "open" => unheard[w]
       /\ result[w] = "ok" <=> stream[w] = "released"
       /\ stream[w] # "locked"

BusyWriters == {w \in Writer : at[w] \notin {"none", "settled"}}
BusyReaders == {r \in Reader : body[r] \in {"asked", "arrived", "broken", "streaming"}}
SlotsInv == slots = Cardinality(BusyWriters) + Cardinality(BusyReaders)

StreamInv == StreamTypes /\ WholeInv /\ (\A w \in Writer : CallInv(w)) /\ SlotsInv

LEMMA StreamsInit == Streams!Init => StreamInv
<1> SUFFICES ASSUME Streams!Init PROVE StreamInv
  OBVIOUS
<1>0. object = [by |-> Nobody, whole |-> TRUE]
  BY DEF Streams!Init, Streams!None
<1>1. StreamTypes /\ WholeInv
  <2>1. object \in [by : Writer \cup {Nobody}, whole : BOOLEAN] /\ object.whole
    BY <1>0
  <2>2. \A w \in Writer : at[w] = "none"
    BY DEF Streams!Init
  <2>3. at \in [Writer -> Steps] /\ upload \in [Writer -> {"none", "open", "completed", "aborted"}]
    BY DEF Streams!Init, Steps
  <2>4. streamEnded \in [Writer -> BOOLEAN] /\ wrote \in [Writer -> BOOLEAN]
    BY DEF Streams!Init
  <2>5. unheard \in [Writer -> BOOLEAN] /\ result \in [Writer -> Results]
    BY DEF Streams!Init, Results
  <2>6. stream \in [Writer -> Sources] /\ body \in [Reader -> Bodies]
    BY DEF Streams!Init, Sources, Bodies
  <2>7. ifAbsent \subseteq Writer /\ genuine \subseteq Writer
    BY DEF Streams!Init
  <2>8. WholeInv
    BY <2>1, <2>2 DEF WholeInv
  <2> QED
    BY <2>1, <2>3, <2>4, <2>5, <2>6, <2>7, <2>8 DEF StreamTypes
<1>2. \A w \in Writer : CallInv(w)
  BY DEF Streams!Init, CallInv
<1>3. BusyWriters = {} /\ BusyReaders = {} /\ slots = 0
  BY DEF Streams!Init, BusyWriters, BusyReaders
<1>4. SlotsInv
  BY <1>3, FS_EmptySet DEF SlotsInv
<1> QED
  BY <1>1, <1>2, <1>4 DEF StreamInv

\* The writers and the readers that hold a slot.
LEMMA BusyAreFinite ==
  /\ IsFiniteSet(BusyWriters) /\ Cardinality(BusyWriters) \in Nat
  /\ IsFiniteSet(BusyReaders) /\ Cardinality(BusyReaders) \in Nat
<1>1. BusyWriters \subseteq Writer /\ BusyReaders \subseteq Reader
  BY DEF BusyWriters, BusyReaders
<1> QED
  BY <1>1, ServicesAssumption, FS_Subset, FS_CardinalityType DEF ServicesAssumption

LEMMA WriterMoves ==
  ASSUME StreamTypes, SlotsInv, NEW w \in Writer, NEW step \in Steps,
         at' = [at EXCEPT ![w] = step], UNCHANGED body,
         slots' = slots + (IF step \in {"none", "settled"} THEN 0 ELSE 1)
                        - (IF at[w] \in {"none", "settled"} THEN 0 ELSE 1)
  PROVE  SlotsInv'
<1> DEFINE Busy == BusyWriters
           Now == BusyWriters'
<1>1. BusyReaders' = BusyReaders
  BY DEF BusyReaders
<1>2. w \in Busy <=> at[w] \notin {"none", "settled"}
  BY DEF BusyWriters
<1>3. w \in Now <=> step \notin {"none", "settled"}
  BY DEF BusyWriters, StreamTypes
<1>4. \A x : x # w => (x \in Now <=> x \in Busy)
  BY DEF BusyWriters, StreamTypes
<1>5. IsFiniteSet(Busy) /\ Cardinality(Busy) \in Nat
  BY BusyAreFinite
<1>6. slots = Cardinality(Busy) + Cardinality(BusyReaders) /\ Cardinality(BusyReaders) \in Nat
  BY BusyAreFinite DEF SlotsInv
<1> HIDE DEF Busy, Now
<1>7. CASE (w \in Busy) <=> (w \in Now)
  <2>1. Now = Busy
    BY <1>4, <1>7
  <2>2. slots' = slots
    BY <1>2, <1>3, <1>6, <1>7, <1>5
  <2> QED
    BY <1>1, <1>6, <2>1, <2>2 DEF SlotsInv, Now
<1>8. CASE w \notin Busy /\ w \in Now
  <2>1. Now = Busy \cup {w}
    BY <1>4, <1>8
  <2>2. Cardinality(Now) = Cardinality(Busy) + 1
    BY <1>5, <1>8, <2>1, FS_AddElement
  <2>3. slots' = slots + 1
    BY <1>2, <1>3, <1>6, <1>8, <1>5
  <2> QED
    BY <1>1, <1>5, <1>6, <2>2, <2>3 DEF SlotsInv, Now
<1>9. CASE w \in Busy /\ w \notin Now
  <2>1. Now = Busy \ {w}
    BY <1>4, <1>9
  <2>2. Cardinality(Now) = Cardinality(Busy) - 1
    BY <1>5, <1>9, <2>1, FS_RemoveElement
  <2>3. slots' = slots - 1
    BY <1>2, <1>3, <1>6, <1>9, <1>5
  <2> QED
    BY <1>1, <1>5, <1>6, <2>2, <2>3 DEF SlotsInv, Now
<1> QED
  BY <1>7, <1>8, <1>9

LEMMA ReaderMoves ==
  ASSUME StreamTypes, SlotsInv, NEW r \in Reader, NEW state \in Bodies,
         body' = [body EXCEPT ![r] = state], UNCHANGED at,
         slots' = slots + (IF state \in {"none", "over"} THEN 0 ELSE 1)
                        - (IF body[r] \in {"none", "over"} THEN 0 ELSE 1),
         state \in {"over", "asked", "arrived", "broken", "streaming"},
         body[r] \in {"none", "asked", "arrived", "broken", "streaming"}
  PROVE  SlotsInv'
<1> DEFINE Busy == BusyReaders
           Now == BusyReaders'
<1>1. BusyWriters' = BusyWriters
  BY DEF BusyWriters
<1>2. r \in Busy <=> body[r] \notin {"none", "over"}
  BY DEF BusyReaders
<1>3. r \in Now <=> state \notin {"none", "over"}
  BY DEF BusyReaders, StreamTypes
<1>4. \A x : x # r => (x \in Now <=> x \in Busy)
  BY DEF BusyReaders, StreamTypes
<1>5. IsFiniteSet(Busy) /\ Cardinality(Busy) \in Nat
  BY BusyAreFinite
<1>6. slots = Cardinality(BusyWriters) + Cardinality(Busy) /\ Cardinality(BusyWriters) \in Nat
  BY BusyAreFinite DEF SlotsInv
<1> HIDE DEF Busy, Now
<1>7. CASE (r \in Busy) <=> (r \in Now)
  <2>1. Now = Busy
    BY <1>4, <1>7
  <2>2. slots' = slots
    BY <1>2, <1>3, <1>5, <1>6, <1>7
  <2> QED
    BY <1>1, <1>6, <2>1, <2>2 DEF SlotsInv, Now
<1>8. CASE r \notin Busy /\ r \in Now
  <2>1. Now = Busy \cup {r}
    BY <1>4, <1>8
  <2>2. Cardinality(Now) = Cardinality(Busy) + 1
    BY <1>5, <1>8, <2>1, FS_AddElement
  <2>3. slots' = slots + 1
    BY <1>2, <1>3, <1>5, <1>6, <1>8
  <2> QED
    BY <1>1, <1>5, <1>6, <2>2, <2>3 DEF SlotsInv, Now
<1>9. CASE r \in Busy /\ r \notin Now
  <2>1. Now = Busy \ {r}
    BY <1>4, <1>9
  <2>2. Cardinality(Now) = Cardinality(Busy) - 1
    BY <1>5, <1>9, <2>1, FS_RemoveElement
  <2>3. slots' = slots - 1
    BY <1>2, <1>3, <1>5, <1>6, <1>9
  <2> QED
    BY <1>1, <1>5, <1>6, <2>2, <2>3 DEF SlotsInv, Now
<1> QED
  BY <1>7, <1>8, <1>9

\* A step of one writer's call leaves the others as they are.
Others(w) ==
  \A v \in Writer \ {w} : /\ at'[v] = at[v] /\ result'[v] = result[v]
                          /\ upload'[v] = upload[v] /\ wrote'[v] = wrote[v]
                          /\ unheard'[v] = unheard[v] /\ stream'[v] = stream[v]
                          /\ streamEnded'[v] = streamEnded[v]

LEMMA OneCallMoves ==
  ASSUME StreamInv, NEW w \in Writer, Others(w), CallInv(w)', StreamTypes', object'.whole,
         UNCHANGED genuine, at'[w] \in {"putting", "completing"} => streamEnded'[w] /\ w \in genuine,
         SlotsInv'
  PROVE  StreamInv'
<1>1. \A v \in Writer \ {w} : CallInv(v)'
  BY DEF StreamInv, CallInv, Others
<1>2. WholeInv'
  BY DEF StreamInv, WholeInv, Others
<1> QED
  BY <1>1, <1>2 DEF StreamInv

\* How a step of the store looks in one of ObjectStore.
StoreStep == [Streams!Store!Next]_(Streams!Store!storeVars)

\* A call comes to its end, with or without the upload it began.
LEMMA CallSettles ==
  ASSUME StreamInv, NEW w \in Writer, NEW how \in Results, Streams!Settle(w, how),
         at[w] \notin {"none", "settled"},
         UNCHANGED <<ifAbsent, genuine, body>>, streamEnded' \in [Writer -> BOOLEAN],
         upload' \in [Writer -> {"none", "open", "completed", "aborted"}],
         wrote' \in [Writer -> BOOLEAN], unheard' \in [Writer -> BOOLEAN],
         \A v \in Writer \ {w} : upload'[v] = upload[v] /\ wrote'[v] = wrote[v]
                                /\ unheard'[v] = unheard[v]
                                /\ streamEnded'[v] = streamEnded[v],
         object' \in [by : Writer \cup {Nobody}, whole : BOOLEAN], object'.whole,
         how = "ok" => wrote'[w],
         wrote'[w] /\ ~unheard'[w] => how = "ok",
         upload'[w] = "open" => unheard'[w]
  PROVE  StreamInv'
<1>1. /\ at' = [at EXCEPT ![w] = "settled"]
      /\ result' = [result EXCEPT ![w] = how]
      /\ stream' = [stream EXCEPT ![w] = IF how = "ok" THEN "released" ELSE "cancelled"]
      /\ slots' = slots - 1
  BY DEF Streams!Settle, Streams!Goto
<1>2. StreamTypes'
  <2>1. at' \in [Writer -> Steps]
    BY <1>1 DEF StreamInv, StreamTypes, Steps
  <2>2. result' \in [Writer -> Results]
    BY <1>1 DEF StreamInv, StreamTypes
  <2>3. stream' \in [Writer -> Sources]
    BY <1>1 DEF StreamInv, StreamTypes, Sources
  <2> QED
    BY <2>1, <2>2, <2>3 DEF StreamInv, StreamTypes
<1>3. /\ at'[w] = "settled" /\ result'[w] = how
      /\ stream'[w] = IF how = "ok" THEN "released" ELSE "cancelled"
  BY <1>1 DEF StreamInv, StreamTypes
<1>4. CallInv(w)'
  BY <1>3 DEF CallInv
<1>5. Others(w)
  BY <1>1 DEF Others, StreamInv, StreamTypes
<1>6. SlotsInv'
  <2>1. "settled" \in Steps /\ slots \in Int
    BY BusyAreFinite DEF Steps, StreamInv, SlotsInv
  <2>2. slots' = slots + 0 - 1
    BY <1>1, <2>1
  <2> QED
    BY <1>1, <2>1, <2>2, WriterMoves DEF StreamInv
<1> QED
  BY <1>2, <1>3, <1>4, <1>5, <1>6, OneCallMoves

\* A call goes on, its slot held.
LEMMA CallGoesOn ==
  ASSUME StreamInv, NEW w \in Writer, NEW step \in Steps \ {"none", "settled"},
         at' = [at EXCEPT ![w] = step], at[w] \notin {"none", "settled"},
         UNCHANGED <<ifAbsent, genuine, stream, slots, body>>, Others(w), CallInv(w)',
         result' \in [Writer -> Results], streamEnded' \in [Writer -> BOOLEAN],
         upload' \in [Writer -> {"none", "open", "completed", "aborted"}],
         wrote' \in [Writer -> BOOLEAN], unheard' \in [Writer -> BOOLEAN],
         object' \in [by : Writer \cup {Nobody}, whole : BOOLEAN], object'.whole,
         step \in {"putting", "completing"} => streamEnded'[w] /\ w \in genuine
  PROVE  StreamInv'
<1>1. at' \in [Writer -> Steps] /\ at'[w] = step
  BY DEF StreamInv, StreamTypes
<1>2. StreamTypes'
  BY <1>1 DEF StreamInv, StreamTypes
<1>3. SlotsInv'
  <2>1. slots \in Int
    BY BusyAreFinite DEF StreamInv, SlotsInv
  <2>2. slots' = slots + 1 - 1
    BY <2>1
  <2> QED
    BY <2>2, WriterMoves DEF StreamInv
<1> QED
  BY <1>1, <1>2, <1>3, OneCallMoves

\* A failure of a request, of the stream or of the digest.
LEMMA CallFails ==
  ASSUME StreamInv, NEW w \in Writer, NEW how \in Results \ {"ok"}, Streams!Fail(w, how),
         at[w] \notin {"none", "lockedOut", "aborting", "settled"},
         UNCHANGED <<object, ifAbsent, genuine, wrote, unheard, body>>,
         streamEnded' \in [Writer -> BOOLEAN],
         \A v \in Writer \ {w} : streamEnded'[v] = streamEnded[v]
  PROVE  StreamInv'
<1>0. CallInv(w) /\ object.whole
  BY DEF StreamInv, WholeInv
<1>1. CASE at[w] \in {"sending", "reading", "completing"}
  <2>1. /\ at' = [at EXCEPT ![w] = "aborting"] /\ result' = [result EXCEPT ![w] = how]
        /\ UNCHANGED <<upload, stream, slots>>
    BY <1>1 DEF Streams!Fail, Streams!Goto
  <2>2. at'[w] = "aborting" /\ result'[w] = how /\ "aborting" \in Steps \ {"none", "settled"}
    BY <2>1 DEF StreamInv, StreamTypes, Steps
  <2>3. CallInv(w)'
    BY <1>0, <1>1, <2>1, <2>2 DEF CallInv
  <2>4. result' \in [Writer -> Results]
    BY <2>1 DEF StreamInv, StreamTypes
  <2>5. Others(w)
    BY <2>1 DEF Others, StreamInv, StreamTypes
  <2> QED
    BY <1>0, <1>1, <2>1, <2>2, <2>3, <2>4, <2>5, CallGoesOn DEF StreamInv, StreamTypes
<1>2. CASE at[w] \notin {"sending", "reading", "completing"}
  <2>1. Streams!Settle(w, how) /\ UNCHANGED upload
    BY <1>2 DEF Streams!Fail
  <2>2. /\ wrote[w] /\ ~unheard[w] => how = "ok"
        /\ upload[w] = "open" => unheard[w]
    BY <1>0, <1>2 DEF CallInv, StreamInv, StreamTypes, Steps
  <2> QED
    BY <1>0, <2>1, <2>2, CallSettles DEF StreamInv, StreamTypes
<1> QED
  BY <1>1, <1>2

\* A step of a writer that goes on or fails publishes nothing; one that publishes is a Put.
LEMMA WriterStep ==
  ASSUME StreamInv, NEW w \in Writer,
         \/ Streams!LockedOut(w) \/ Streams!Interrupted(w) \/ Streams!ReadFirst(w)
         \/ \E how \in {"unavailable", "mismatch"} : Streams!RefusedOrGivenUp(w, how)
         \/ \E heard \in BOOLEAN : Streams!Create(w, heard)
         \/ Streams!Sent(w) \/ \E last \in BOOLEAN : Streams!Read(w, last)
         \/ Streams!PublishedAlready(w) \/ Streams!PublishRefused(w)
         \/ \E done \in BOOLEAN : Streams!Aborted(w, done)
  PROVE  StreamInv' /\ UNCHANGED <<object, ifAbsent, genuine>>
<1>0. StreamTypes /\ CallInv(w) /\ object.whole
  BY DEF StreamInv, WholeInv
<1>1. CASE Streams!LockedOut(w)
  <2>1. /\ at[w] = "lockedOut" /\ at' = [at EXCEPT ![w] = "settled"]
        /\ result' = [result EXCEPT ![w] = "interrupted"] /\ slots' = slots - 1
        /\ UNCHANGED <<object, upload, ifAbsent, genuine, streamEnded, stream, wrote, unheard, body>>
    BY <1>1 DEF Streams!LockedOut, Streams!Goto
  <2>2. at'[w] = "settled" /\ result'[w] = "interrupted" /\ "settled" \in Steps
    BY <1>0, <2>1 DEF StreamTypes, Steps
  <2>3. CallInv(w)'
    BY <1>0, <2>1, <2>2 DEF CallInv
  <2>4. Others(w)
    BY <1>0, <2>1 DEF Others, StreamTypes
  <2>5. at' \in [Writer -> Steps] /\ result' \in [Writer -> Results]
    BY <1>0, <2>1, <2>2 DEF StreamTypes, Results
  <2>6. StreamTypes'
    BY <1>0, <2>1, <2>5 DEF StreamTypes
  <2>7. slots \in Int
    BY BusyAreFinite DEF StreamInv, SlotsInv
  <2>8. slots' = slots + 0 - 1
    BY <2>1, <2>7
  <2>9. SlotsInv'
    BY <2>1, <2>2, <2>8, WriterMoves DEF StreamInv
  <2> QED
    BY <1>0, <2>1, <2>2, <2>3, <2>4, <2>6, <2>9, OneCallMoves
<1>2. CASE Streams!Interrupted(w)
  BY <1>0, <1>2, CallFails DEF Streams!Interrupted, StreamTypes, Results
<1>3. CASE Streams!ReadFirst(w)
  <2>1. CASE w \notin genuine /\ Streams!Settle(w, "mismatch")
             /\ streamEnded' = [streamEnded EXCEPT ![w] = TRUE]
    <3>1. at[w] = "first" /\ UNCHANGED <<object, upload, ifAbsent, genuine, wrote, unheard, body>>
      BY <1>3 DEF Streams!ReadFirst
    <3>2. upload[w] = "none" /\ ~wrote[w] /\ "mismatch" \in Results
      BY <1>0, <3>1 DEF CallInv, Results
    <3> QED
      BY <1>0, <2>1, <3>1, <3>2, CallSettles DEF StreamTypes
  <2>2. ASSUME NEW step \in {"putting", "creating"}, at' = [at EXCEPT ![w] = step],
               step = "putting" => w \in genuine /\ streamEnded' = [streamEnded EXCEPT ![w] = TRUE],
               step = "creating" => UNCHANGED streamEnded,
               UNCHANGED <<result, stream, slots>>
        PROVE  StreamInv' /\ UNCHANGED <<object, ifAbsent, genuine>>
    <3>1. at[w] = "first" /\ UNCHANGED <<object, upload, ifAbsent, genuine, wrote, unheard, body>>
      BY <1>3 DEF Streams!ReadFirst
    <3>2. /\ streamEnded' \in [Writer -> BOOLEAN] /\ Others(w)
          /\ step = "putting" => streamEnded'[w]
          /\ at'[w] = step /\ step \in Steps \ {"none", "settled"}
      BY <1>0, <2>2, <3>1 DEF StreamTypes, Others, Steps
    <3>3. CallInv(w)'
      BY <1>0, <2>2, <3>1, <3>2 DEF CallInv
    <3> QED
      BY <1>0, <2>2, <3>1, <3>2, <3>3, CallGoesOn DEF StreamTypes
  <2> QED
    BY <1>3, <2>1, <2>2 DEF Streams!ReadFirst, Streams!Verified, Streams!Goto
<1>4. ASSUME NEW how \in {"unavailable", "mismatch"}, Streams!RefusedOrGivenUp(w, how)
      PROVE  StreamInv' /\ UNCHANGED <<object, ifAbsent, genuine>>
  BY <1>0, <1>4, CallFails DEF Streams!RefusedOrGivenUp, StreamTypes, Results
<1>5. ASSUME NEW heard \in BOOLEAN, Streams!Create(w, heard)
      PROVE  StreamInv' /\ UNCHANGED <<object, ifAbsent, genuine>>
  <2>1. /\ at[w] = "creating" /\ upload' = [upload EXCEPT ![w] = "open"]
        /\ UNCHANGED <<object, ifAbsent, genuine, streamEnded, stream, result, wrote, body, slots>>
    BY <1>5 DEF Streams!Create
  <2>2. \/ at' = [at EXCEPT ![w] = "sending"] /\ UNCHANGED unheard
        \/ UNCHANGED at /\ unheard' = [unheard EXCEPT ![w] = TRUE]
    BY <1>5 DEF Streams!Create, Streams!Goto, Streams!Heard, Streams!Lost
  <2>3. PICK step \in {"sending", "creating"} :
          /\ at' = [at EXCEPT ![w] = step]
          /\ step = "sending" => UNCHANGED unheard
          /\ step = "creating" => unheard' = [unheard EXCEPT ![w] = TRUE]
    BY <1>0, <2>1, <2>2 DEF StreamTypes
  <2>4. /\ upload' \in [Writer -> {"none", "open", "completed", "aborted"}] /\ upload'[w] = "open"
        /\ at'[w] = step /\ step \in Steps \ {"none", "settled"}
    BY <1>0, <2>1, <2>3 DEF StreamTypes, Steps
  <2>5. step = "creating" => unheard'[w]
    BY <1>0, <2>3 DEF StreamTypes
  <2>6. unheard' \in [Writer -> BOOLEAN]
    <3>1. CASE UNCHANGED unheard
      BY <1>0, <3>1 DEF StreamTypes
    <3>2. CASE unheard' = [unheard EXCEPT ![w] = TRUE]
      BY <1>0, <3>2 DEF StreamTypes
    <3> QED
      BY <2>3, <3>1, <3>2
  <2>7. Others(w)
    BY <1>0, <2>1, <2>3 DEF StreamTypes, Others
  <2>8. CallInv(w)'
    BY <1>0, <2>1, <2>4, <2>5 DEF CallInv
  <2> QED
    BY <1>0, <2>1, <2>3, <2>4, <2>6, <2>7, <2>8, CallGoesOn DEF StreamTypes
<1>6. CASE Streams!Sent(w)
  <2>1. at[w] = "sending" /\ UNCHANGED <<object, ifAbsent, genuine, streamEnded, wrote, unheard, body>>
    BY <1>6 DEF Streams!Sent
  <2>2. CASE Streams!Fail(w, "mismatch")
    BY <1>0, <2>1, <2>2, CallFails DEF StreamTypes, Results
  <2>3. ASSUME NEW step \in {"reading", "completing"}, at' = [at EXCEPT ![w] = step],
               step = "completing" => streamEnded[w] /\ w \in genuine,
               UNCHANGED <<upload, result, stream, slots>>
        PROVE  StreamInv'
    <3>1. Others(w) /\ at'[w] = step /\ step \in Steps \ {"none", "settled"}
      BY <1>0, <2>1, <2>3 DEF StreamTypes, Others, Steps
    <3>2. CallInv(w)'
      BY <1>0, <2>1, <2>3, <3>1 DEF CallInv
    <3> QED
      BY <1>0, <2>1, <2>3, <3>1, <3>2, CallGoesOn DEF StreamTypes
  <2> QED
    BY <1>6, <2>1, <2>2, <2>3 DEF Streams!Sent, Streams!Verified, Streams!Goto
<1>7. ASSUME NEW last \in BOOLEAN, Streams!Read(w, last)
      PROVE  StreamInv' /\ UNCHANGED <<object, ifAbsent, genuine>>
  <2>1. /\ at[w] = "reading" /\ at' = [at EXCEPT ![w] = "sending"]
        /\ streamEnded' = [streamEnded EXCEPT ![w] = last]
        /\ UNCHANGED <<object, upload, ifAbsent, genuine, stream, result, wrote, unheard, body, slots>>
    BY <1>7 DEF Streams!Read, Streams!Goto
  <2>2. /\ streamEnded' \in [Writer -> BOOLEAN] /\ Others(w)
        /\ at'[w] = "sending" /\ "sending" \in Steps \ {"none", "settled"}
    BY <1>0, <2>1 DEF StreamTypes, Others, Steps
  <2>3. CallInv(w)'
    BY <1>0, <2>1, <2>2 DEF CallInv
  <2> QED
    BY <1>0, <2>1, <2>2, <2>3, CallGoesOn DEF StreamTypes
<1>8. CASE Streams!PublishedAlready(w)
  <2>1. /\ at[w] = "completing" /\ upload[w] = "completed" /\ Streams!Settle(w, "ok")
        /\ UNCHANGED <<object, upload, ifAbsent, genuine, streamEnded, wrote, unheard, body>>
    BY <1>8 DEF Streams!PublishedAlready
  <2>2. wrote[w] /\ "ok" \in Results
    BY <1>0, <2>1 DEF CallInv, Results
  <2> QED
    BY <1>0, <2>1, <2>2, CallSettles DEF StreamTypes
<1>9. CASE Streams!PublishRefused(w)
  BY <1>0, <1>9, CallFails DEF Streams!PublishRefused, Streams!Publishing, StreamTypes, Results
<1>10. ASSUME NEW done \in BOOLEAN, Streams!Aborted(w, done)
       PROVE  StreamInv' /\ UNCHANGED <<object, ifAbsent, genuine>>
  <2>1. /\ at[w] = "aborting" /\ Streams!Settle(w, result[w])
        /\ upload' = [upload EXCEPT ![w] = IF done /\ upload[w] = "open" THEN "aborted"
                                           ELSE upload[w]]
        /\ UNCHANGED <<object, ifAbsent, genuine, streamEnded, wrote, body>>
        /\ IF done \/ upload[w] = "completed" THEN UNCHANGED unheard
           ELSE unheard' = [unheard EXCEPT ![w] = TRUE]
    BY <1>10 DEF Streams!Aborted, Streams!Heard, Streams!Lost
  <2>2. /\ result[w] \in Results /\ result[w] # "ok" /\ (wrote[w] => unheard[w])
    BY <1>0, <2>1 DEF CallInv, StreamTypes
  <2>3. /\ upload' \in [Writer -> {"none", "open", "completed", "aborted"}]
        /\ upload'[w] = "open" => ~done
        /\ \A v \in Writer \ {w} : upload'[v] = upload[v]
    BY <1>0, <2>1 DEF StreamTypes
  <2>4. /\ unheard' \in [Writer -> BOOLEAN] /\ (unheard[w] => unheard'[w])
        /\ ~done /\ upload[w] # "completed" => unheard'[w]
        /\ \A v \in Writer \ {w} : unheard'[v] = unheard[v]
    BY <1>0, <2>1 DEF StreamTypes
  <2>5. upload'[w] = "open" => unheard'[w]
    BY <1>0, <2>1, <2>3, <2>4 DEF StreamTypes
  <2> QED
    BY <1>0, <2>1, <2>2, <2>3, <2>4, <2>5, CallSettles DEF StreamTypes
<1> QED
  BY <1>1, <1>2, <1>3, <1>4, <1>5, <1>6, <1>7, <1>8, <1>9, <1>10

LEMMA PutStep ==
  ASSUME StreamInv, NEW w \in Writer, Streams!Put(w)
  PROVE  StreamInv' /\ UNCHANGED <<object, ifAbsent, genuine>>
<1>0. StreamTypes /\ CallInv(w) /\ object.whole /\ at[w] = "none"
  BY DEF StreamInv, WholeInv, Streams!Put
<1>1. UNCHANGED <<object, upload, ifAbsent, genuine, streamEnded, wrote, unheard, body>>
  BY DEF Streams!Put
<1>2. PICK step \in {"settled", "first", "lockedOut"}, how \in Sources :
        /\ at' = [at EXCEPT ![w] = step]
        /\ result' = [result EXCEPT ![w] = IF step = "settled" THEN "full" ELSE "none"]
        /\ stream' = [stream EXCEPT ![w] = how]
        /\ step = "settled" => how = "cancelled"
        /\ step = "lockedOut" => how = "untouched"
        /\ slots' = IF step = "settled" THEN slots ELSE slots + 1
  <2>1. CASE slots = MaxSockets
    BY <2>1, <1>0 DEF Streams!Put, Streams!Goto, Sources
  <2>2. CASE slots # MaxSockets
    <3>1. result' = [result EXCEPT ![w] = "none"] /\ slots' = slots + 1
      BY <1>0, <2>2 DEF Streams!Put, CallInv, StreamTypes
    <3>2. \/ at' = [at EXCEPT ![w] = "first"] /\ stream' = [stream EXCEPT ![w] = "locked"]
          \/ at' = [at EXCEPT ![w] = "lockedOut"] /\ stream' = [stream EXCEPT ![w] = "untouched"]
      BY <1>0, <2>2 DEF Streams!Put, Streams!Goto, CallInv, StreamTypes
    <3> QED
      BY <3>1, <3>2 DEF Sources
  <2> QED
    BY <2>1, <2>2
<1>3. /\ at' \in [Writer -> Steps] /\ at'[w] = step /\ step \in Steps
      /\ result' \in [Writer -> Results]
      /\ result'[w] = IF step = "settled" THEN "full" ELSE "none"
      /\ stream' \in [Writer -> Sources] /\ stream'[w] = how
  BY <1>0, <1>2 DEF StreamTypes, Steps, Results
<1>4. StreamTypes'
  BY <1>0, <1>1, <1>3 DEF StreamTypes
<1>5. CallInv(w)'
  BY <1>0, <1>1, <1>2, <1>3 DEF CallInv
<1>6. Others(w)
  BY <1>0, <1>1, <1>2 DEF Others, StreamTypes
<1>7. SlotsInv'
  <2>1. slots \in Int
    BY BusyAreFinite DEF StreamInv, SlotsInv
  <2>2. slots' = slots + (IF step \in {"none", "settled"} THEN 0 ELSE 1) - 0
    BY <1>2, <2>1
  <2> QED
    BY <1>0, <1>1, <1>2, <1>3, <2>2, WriterMoves DEF StreamInv
<1> QED
  BY <1>0, <1>1, <1>2, <1>3, <1>4, <1>5, <1>6, <1>7, OneCallMoves

\* What is published is the whole content of its writer.
LEMMA PublishStep ==
  ASSUME StreamInv, NEW w \in Writer, NEW heard \in BOOLEAN, Streams!Publish(w, heard)
  PROVE  /\ StreamInv' /\ UNCHANGED <<ifAbsent, genuine>>
         /\ object' = [by |-> w, whole |-> TRUE] /\ w \in genuine
         /\ w \in ifAbsent => object = [by |-> Nobody, whole |-> TRUE]
<1>0. /\ StreamTypes /\ CallInv(w) /\ object.whole
      /\ at[w] \in {"putting", "completing"} /\ (at[w] = "completing" => upload[w] = "open")
      /\ streamEnded[w] /\ w \in genuine
  BY DEF StreamInv, WholeInv, Streams!Publish, Streams!Publishing
<1>1. /\ object' = [by |-> w, whole |-> streamEnded[w]]
      /\ wrote' = [wrote EXCEPT ![w] = TRUE]
      /\ upload' = [upload EXCEPT ![w] = IF upload[w] = "open" THEN "completed" ELSE upload[w]]
      /\ UNCHANGED <<ifAbsent, genuine, streamEnded, body>>
      /\ w \in ifAbsent => object = [by |-> Nobody, whole |-> TRUE]
  BY DEF Streams!Publish, Streams!SentBy, Streams!Refuses, Streams!None
<1>2. object' = [by |-> w, whole |-> TRUE]
  <2>1. streamEnded[w] = TRUE
    BY <1>0 DEF StreamTypes
  <2> QED
    BY <1>1, <2>1
<1>3. /\ object' \in [by : Writer \cup {Nobody}, whole : BOOLEAN] /\ object'.whole
  BY <1>2
<1>4. /\ wrote' \in [Writer -> BOOLEAN] /\ wrote'[w]
      /\ \A v \in Writer \ {w} : wrote'[v] = wrote[v]
  BY <1>0, <1>1 DEF StreamTypes
<1>5. /\ upload' \in [Writer -> {"none", "open", "completed", "aborted"}]
      /\ upload'[w] = (IF upload[w] = "open" THEN "completed" ELSE upload[w])
      /\ \A v \in Writer \ {w} : upload'[v] = upload[v]
  BY <1>0, <1>1 DEF StreamTypes
<1>6. CASE Streams!Settle(w, "ok") /\ UNCHANGED unheard
  <2>1. /\ "ok" \in Results /\ at[w] \notin {"none", "settled"}
        /\ upload'[w] # "open"
        /\ unheard' \in [Writer -> BOOLEAN] /\ streamEnded' \in [Writer -> BOOLEAN]
        /\ \A v \in Writer \ {w} : unheard'[v] = unheard[v] /\ streamEnded'[v] = streamEnded[v]
    BY <1>0, <1>1, <1>5, <1>6 DEF StreamTypes, Results
  <2>2. Streams!Settle(w, "ok") /\ UNCHANGED <<ifAbsent, genuine, body>>
    BY <1>1, <1>6
  <2>3. StreamInv'
    BY <1>3, <1>4, <1>5, <2>1, <2>2, CallSettles
  <2> QED
    BY <1>0, <1>1, <1>2, <2>3
<1>7. CASE unheard' = [unheard EXCEPT ![w] = TRUE] /\ UNCHANGED <<at, result, stream, slots>>
  <2>1. unheard' \in [Writer -> BOOLEAN] /\ unheard'[w]
    BY <1>0, <1>7 DEF StreamTypes
  <2>2. Others(w)
    BY <1>1, <1>4, <1>5, <1>7 DEF Others, StreamTypes
  <2>3. CallInv(w)'
    BY <1>0, <1>4, <1>5, <1>7, <2>1 DEF CallInv
  <2>4. at' = [at EXCEPT ![w] = at[w]] /\ at[w] \in Steps \ {"none", "settled"}
    BY <1>0, <1>7 DEF StreamTypes, Steps
  <2>5. result' \in [Writer -> Results] /\ streamEnded' \in [Writer -> BOOLEAN]
    BY <1>0, <1>1, <1>7 DEF StreamTypes
  <2>6. StreamInv'
    BY <1>0, <1>1, <1>3, <1>4, <1>5, <1>7, <2>1, <2>2, <2>3, <2>4, <2>5, CallGoesOn
  <2> QED
    BY <1>0, <1>1, <1>2, <2>6
<1>8. \/ Streams!Settle(w, "ok") /\ UNCHANGED unheard
      \/ unheard' = [unheard EXCEPT ![w] = TRUE] /\ UNCHANGED <<at, result, stream, slots>>
  BY DEF Streams!Publish, Streams!Heard, Streams!Lost
<1> QED
  BY <1>0, <1>1, <1>2, <1>6, <1>7, <1>8

LEMMA ReaderStep ==
  ASSUME StreamInv, NEW r \in Reader,
         \/ Streams!GetStream(r) \/ Streams!NotFound(r) \/ Streams!Arrives(r)
         \/ Streams!BreaksOff(r) \/ Streams!Answered(r) \/ Streams!Closes(r)
  PROVE  StreamInv' /\ UNCHANGED <<object, ifAbsent, genuine>>
<1>0. StreamTypes /\ slots \in Int
  BY BusyAreFinite DEF StreamInv, SlotsInv
<1>1. UNCHANGED <<object, upload, ifAbsent, genuine, at, streamEnded, stream, result, wrote, unheard>>
  BY DEF Streams!GetStream, Streams!NotFound, Streams!Arrives, Streams!BreaksOff, Streams!Answered,
         Streams!Closes, Streams!writes, Streams!calls
<1>2. PICK state \in {"over", "asked", "arrived", "broken", "streaming"} :
        /\ body' = [body EXCEPT ![r] = state]
        /\ body[r] \in {"none", "asked", "arrived", "broken", "streaming"}
        /\ slots' = slots + (IF state \in {"none", "over"} THEN 0 ELSE 1)
                          - (IF body[r] \in {"none", "over"} THEN 0 ELSE 1)
  BY <1>0
  DEF Streams!GetStream, Streams!NotFound, Streams!Arrives, Streams!BreaksOff, Streams!Answered,
      Streams!Closes, Streams!Become
<1>3. body' \in [Reader -> Bodies] /\ state \in Bodies
  BY <1>0, <1>2 DEF StreamTypes, Bodies
<1>4. StreamTypes'
  BY <1>0, <1>1, <1>3 DEF StreamTypes
<1>5. SlotsInv'
  BY <1>0, <1>1, <1>2, <1>3, ReaderMoves DEF StreamInv
<1>6. WholeInv' /\ \A w \in Writer : CallInv(w)'
  BY <1>1 DEF StreamInv, WholeInv, CallInv
<1> QED
  BY <1>1, <1>4, <1>5, <1>6 DEF StreamInv

LEMMA DeleteStep ==
  ASSUME StreamInv, Streams!Delete
  PROVE  /\ StreamInv' /\ UNCHANGED <<ifAbsent, genuine>>
         /\ object' = [by |-> Nobody, whole |-> TRUE]
<1>1. /\ object' = [by |-> Nobody, whole |-> TRUE]
      /\ UNCHANGED <<upload, ifAbsent, genuine, at, streamEnded, stream, result, wrote, unheard,
                     body, slots>>
  BY DEF Streams!Delete, Streams!calls, Streams!None
<1>2. StreamTypes' /\ object'.whole
  BY <1>1 DEF StreamInv, StreamTypes
<1>3. WholeInv' /\ (\A w \in Writer : CallInv(w)') /\ SlotsInv'
  BY <1>1, <1>2 DEF StreamInv, WholeInv, CallInv, SlotsInv, BusyWriters, BusyReaders
<1> QED
  BY <1>1, <1>2, <1>3 DEF StreamInv

LEMMA StreamStep ==
  StreamInv /\ [Streams!Next]_(Streams!streamVars) => StreamInv' /\ StoreStep
<1> SUFFICES ASSUME StreamInv, [Streams!Next]_(Streams!streamVars)
             PROVE  StreamInv' /\ StoreStep
  OBVIOUS
<1> USE DEF StoreStep, Streams!Store!Next, Streams!Store!storeVars
<1>0. object.whole /\ object \in [by : Writer \cup {Nobody}, whole : BOOLEAN]
  BY DEF StreamInv, WholeInv, StreamTypes
<1>1. CASE Streams!Delete
  BY <1>0, <1>1, DeleteStep DEF Streams!Store!Delete
<1>2. ASSUME NEW w \in Writer, NEW heard \in BOOLEAN, Streams!Publish(w, heard)
      PROVE  StreamInv' /\ StoreStep
  <2>1. Streams!Store!Put(w)
    BY <1>0, <1>2, PublishStep DEF Streams!Store!Put
  <2> QED
    BY <1>2, <2>1, PublishStep
<1>3. ASSUME StreamInv' /\ UNCHANGED <<object, ifAbsent, genuine>>
      PROVE  StreamInv' /\ StoreStep
  BY <1>3
<1>4. CASE UNCHANGED Streams!streamVars
  <2>1. UNCHANGED <<object, upload, ifAbsent, genuine, at, streamEnded, stream, result, wrote,
                    unheard, body, slots>>
    BY <1>4 DEF Streams!streamVars, Streams!calls
  <2>2. StreamTypes' /\ WholeInv' /\ (\A w \in Writer : CallInv(w)') /\ SlotsInv'
    BY <2>1 DEF StreamInv, StreamTypes, WholeInv, CallInv, SlotsInv, BusyWriters, BusyReaders
  <2> QED
    BY <1>3, <2>1, <2>2 DEF StreamInv
<1>5. ASSUME NEW w \in Writer,
             \/ Streams!Put(w) \/ Streams!LockedOut(w) \/ Streams!Interrupted(w)
             \/ Streams!ReadFirst(w)
             \/ \E how \in {"unavailable", "mismatch"} : Streams!RefusedOrGivenUp(w, how)
             \/ \E heard \in BOOLEAN : Streams!Create(w, heard)
             \/ Streams!Sent(w) \/ \E last \in BOOLEAN : Streams!Read(w, last)
             \/ Streams!PublishedAlready(w) \/ Streams!PublishRefused(w)
             \/ \E done \in BOOLEAN : Streams!Aborted(w, done)
      PROVE  StreamInv' /\ StoreStep
  BY <1>3, <1>5, PutStep, WriterStep
<1>6. ASSUME NEW r \in Reader,
             \/ Streams!GetStream(r) \/ Streams!NotFound(r) \/ Streams!Arrives(r)
             \/ Streams!BreaksOff(r) \/ Streams!Answered(r) \/ Streams!Closes(r)
      PROVE  StreamInv' /\ StoreStep
  BY <1>3, <1>6, ReaderStep
<1> QED
  BY <1>1, <1>2, <1>4, <1>5, <1>6 DEF Streams!Next

\* Whatever fails, is lost or is asked again, a streamed call that is over is over in S3, in the
\* pool and for its caller alike.
THEOREM StreamsAlwaysSettle == Streams!Spec => []StreamsSettle
<1>1. StreamInv => StreamsSettle
  <2> SUFFICES ASSUME StreamInv PROVE StreamsSettle
    OBVIOUS
  <2>1. Streams!AnswersTellTheStore
    BY DEF StreamInv, CallInv, Streams!AnswersTellTheStore
  <2>2. Streams!SlotsAreCallsUnderWay
    <3>1. \A S : Streams!Cardinality(S) = Cardinality(S)
      BY DEF Streams!Cardinality, Cardinality
    <3> QED
      BY <3>1 DEF StreamInv, SlotsInv, BusyWriters, BusyReaders, Streams!SlotsAreCallsUnderWay
  <2> QED
    BY <2>1, <2>2 DEF StreamsSettle, Streams!StreamsSettle
<1> QED
  BY <1>1, StreamsInit, StreamStep, PTL DEF Streams!Spec

\* S3, its uploads in parts and its lost answers implement the store that packages/storage
\* promises: only whole objects, of the content that was declared, under the condition asked.
THEOREM StoreIsImplemented == Streams!Spec => StoresWholeObjects
<1>1. Streams!Init => Streams!Store!Init
  BY DEF Streams!Init, Streams!None, Streams!Store!Init
<1>2. StreamInv /\ [Streams!Next]_(Streams!streamVars) =>
        [Streams!Store!Next]_(Streams!Store!storeVars)
  BY StreamStep DEF StoreStep
<1> QED
  BY <1>1, <1>2, StreamsInit, StreamStep, PTL
  DEF Streams!Spec, StoresWholeObjects, Streams!StoresWholeObjects, Streams!Store!Spec

=============================================================================
