--------------------------- MODULE TokenSourceProofs ---------------------------
(***************************************************************************)
(* What holds of the token source for every set of requests, any number of *)
(* overlapping fetches and any capacity.                                   *)
(*                                                                         *)
(* FetchInv says what the maps of the code remember of the fetches: whom a *)
(* caller would join, which fetch is a pair's newest, and which fetch      *)
(* brought each token kept.                                                *)
(***************************************************************************)
EXTENDS TokenSource, FiniteSetTheorems, SequenceTheorems, WellFoundedInduction, TLAPS

-----------------------------------------------------------------------------
(* The oldest token kept exists, so evicting it makes room.                 *)

Less == {ij \in Nat \X Nat : ij[1] < ij[2]}

LEMMA Least ==
  ASSUME NEW S \in SUBSET Nat, S # {}
  PROVE  \E i \in S : \A j \in S : i <= j
<1>1. IsWellFoundedOn(Less, Nat)  BY NatLessThanWellFounded DEF OpToRel, Less
<1>2. PICK i \in S : \A j \in S : ~(<<j, i>> \in Less)  BY <1>1, WFMin
<1>3. ASSUME NEW j \in S PROVE i <= j
  <2>1. <<j, i>> \in Nat \X Nat /\ ~(<<j, i>> \in Less)  BY <1>2, <1>3
  <2>2. ~(j < i)  BY <2>1 DEF Less
  <2>3. QED  BY <2>1, <2>2
<1>4. QED  BY <1>3

LEMMA KeepsWithinCapacity ==
  ASSUME cached \in [Request -> Entry \cup {None}], Cardinality(Kept) <= Capacity,
         NEW r \in Request, NEW entry \in Entry, Keep(r, entry)
  PROVE  /\ cached' \in [Request -> Entry \cup {None}]
         /\ Cardinality(Kept') <= Capacity
         /\ \A q \in Request : cached'[q] \in {cached[q], None} \/ (q = r /\ cached'[q] = entry)
<1> DEFINE filled == [cached EXCEPT ![r] = entry]
           held == {q \in Request : filled[q] # None}
           oldest == {q \in held : \A o \in held : filled[q].place <= filled[o].place}
<1>1. filled \in [Request -> Entry \cup {None}]  OBVIOUS
<1>2. None \notin Entry /\ IsFiniteSet(Request) /\ Capacity \in Nat  BY TokenAssumption
<1>3. held = Kept \cup {r}  BY <1>2 DEF Kept
<1>4. IsFiniteSet(Kept)  BY <1>2, FS_Subset DEF Kept
<1>5. IsFiniteSet(held) /\ Cardinality(held) <= Capacity + 1
  <2>1. Cardinality(Kept) \in Nat  BY <1>4, FS_CardinalityType
  <2>2. IsFiniteSet(Kept \cup {r}) /\ Cardinality(Kept \cup {r}) <= Cardinality(Kept) + 1
    <3>1. IsFiniteSet(Kept \cup {r})
          /\ Cardinality(Kept \cup {r}) = IF r \in Kept THEN Cardinality(Kept) ELSE Cardinality(Kept) + 1
      BY <1>4, FS_AddElement
    <3>2. QED  BY <2>1, <3>1
  <2>3. Cardinality(Kept \cup {r}) \in Nat  BY <2>2, FS_CardinalityType
  <2>4. QED  BY <1>2, <1>3, <2>1, <2>2, <2>3
<1>6. cached' = IF Cardinality(held) <= Capacity THEN filled
                ELSE [q \in Request |-> IF q \in oldest THEN None ELSE filled[q]]
  BY DEF Keep
<1>7. CASE Cardinality(held) <= Capacity
  <2>1. cached' = filled  BY <1>6, <1>7
  <2>2. Kept' = held  BY <2>1 DEF Kept
  <2>3. QED  BY <1>1, <1>7, <2>1, <2>2
<1>8. CASE ~(Cardinality(held) <= Capacity)
  <2>1. cached' = [q \in Request |-> IF q \in oldest THEN None ELSE filled[q]]  BY <1>6, <1>8
  <2>2. PICK q \in oldest : TRUE
    <3> DEFINE places == {filled[q].place : q \in held}
    <3>1. \A q \in held : filled[q] \in Entry  BY <1>1
    <3>2. places \in SUBSET Nat  BY <3>1 DEF Entry
    <3>3. places # {}  BY <1>3
    <3>4. PICK i \in places : \A j \in places : i <= j
      <4> HIDE DEF places
      <4>1. QED  BY <3>2, <3>3, Least
    <3>5. PICK q \in held : filled[q].place = i  BY <3>4
    <3>6. \A o \in held : filled[o].place \in places  OBVIOUS
    <3>7. q \in oldest  BY <3>4, <3>5, <3>6
    <3>8. QED  BY <3>7
  <2>3. Kept' \subseteq held \ {q}  BY <2>1, <2>2 DEF Kept
  <2>4. IsFiniteSet(held \ {q}) /\ Cardinality(held \ {q}) = Cardinality(held) - 1
    BY <1>5, <2>2, FS_RemoveElement
  <2>5. Cardinality(Kept') <= Cardinality(held \ {q})  BY <2>3, <2>4, FS_Subset
  <2>6. Cardinality(held) \in Nat /\ IsFiniteSet(Kept')  BY <1>5, <2>3, <2>4, FS_CardinalityType, FS_Subset
  <2>7. Cardinality(Kept') \in Nat  BY <2>6, FS_CardinalityType
  <2>8. Cardinality(Kept') <= Capacity  BY <1>2, <1>5, <2>4, <2>5, <2>6, <2>7
  <2>9. cached' \in [Request -> Entry \cup {None}]  BY <1>1, <2>1
  <2>10. QED  BY <2>1, <2>8, <2>9
<1>9. QED  BY <1>7, <1>8

-----------------------------------------------------------------------------
(* What each action does to the fetches.                                    *)

\* No fetch has started, and those there are were started as they were.
Steady ==
  /\ fetches' \in Seq(Fetch) /\ DOMAIN fetches' = DOMAIN fetches
  /\ \A f \in DOMAIN fetches : /\ fetches'[f].request = fetches[f].request
                               /\ fetches'[f].asked = fetches[f].asked

LEMMA FetchTypes ==
  ASSUME fetches \in Seq(Fetch)
  PROVE  /\ Len(fetches) \in Nat /\ DOMAIN fetches = 1..Len(fetches)
         /\ \A f \in DOMAIN fetches : fetches[f] \in Fetch
BY LenProperties, ElementOfSeq

LEMMA StartedFetches ==
  ASSUME TypeOK, NEW r \in Request, FetchToken(r)
  PROVE  /\ fetches' \in Seq(Fetch)
         /\ DOMAIN fetches' = DOMAIN fetches \cup {Len(fetches) + 1}
         /\ Len(fetches) + 1 \notin DOMAIN fetches
         /\ \A f \in DOMAIN fetches : fetches'[f] = fetches[f] /\ f < Len(fetches) + 1
         /\ fetches'[Len(fetches) + 1].request = r
         /\ fetches'[Len(fetches) + 1].asked = now
         /\ fetches'[Len(fetches) + 1].phase \in {"asking", "discovering"}
<1> DEFINE new == [request |-> r, asked |-> now, issuedAt |-> 0, lifetime |-> 0,
                   phase |-> IF configuration = "known" THEN "asking" ELSE "discovering"]
<1>1. fetches \in Seq(Fetch) /\ now \in Nat  BY DEF TypeOK
<1>2. new \in Fetch  BY <1>1 DEF Fetch, Waiting
<1>3. fetches' = Append(fetches, new)  BY DEF FetchToken
<1>4. Len(fetches) \in Nat /\ DOMAIN fetches = 1..Len(fetches)  BY <1>1, FetchTypes
<1> HIDE DEF new
<1>5. /\ fetches' \in Seq(Fetch) /\ Len(fetches') = Len(fetches) + 1
      /\ \A f \in 1..Len(fetches) : fetches'[f] = fetches[f]
      /\ fetches'[Len(fetches) + 1] = new
  BY <1>1, <1>2, <1>3, AppendProperties
<1>6. DOMAIN fetches' = 1..(Len(fetches) + 1)  BY <1>5, LenProperties
<1>7. QED  BY <1>4, <1>5, <1>6 DEF new

LEMMA DiscoveredFetches ==
  ASSUME TypeOK, NEW ok \in BOOLEAN, Discovered(ok)
  PROVE  /\ Steady /\ Outstanding' = Outstanding
         /\ \A f \in DOMAIN fetches :
              /\ fetches'[f].issuedAt = fetches[f].issuedAt /\ fetches'[f].lifetime = fetches[f].lifetime
              /\ fetches'[f].phase = fetches[f].phase \/ fetches'[f].phase \in {"asking", "undiscovered"}
              /\ fetches[f].phase \notin Waiting => fetches'[f] = fetches[f]
<1> DEFINE of(f) == IF fetches[f].phase # "discovering" THEN fetches[f]
                    ELSE [fetches[f] EXCEPT !.phase = IF ok THEN "asking" ELSE "undiscovered"]
<1>1. /\ Len(fetches) \in Nat /\ DOMAIN fetches = 1..Len(fetches)
      /\ \A f \in DOMAIN fetches : fetches[f] \in Fetch
  BY FetchTypes DEF TypeOK
<1>2. \A f \in DOMAIN fetches : of(f) \in Fetch  BY <1>1 DEF Fetch, Waiting
<1>3. fetches' = [f \in DOMAIN fetches |-> of(f)]  BY DEF Discovered
<1>4. DOMAIN fetches' = DOMAIN fetches /\ \A f \in DOMAIN fetches : fetches'[f] = of(f)  BY <1>3
<1>5. fetches' \in Seq(Fetch)
  <2> HIDE DEF of
  <2>1. fetches' \in [1..Len(fetches) -> Fetch]  BY <1>1, <1>2, <1>3
  <2>2. QED  BY <1>1, <2>1, SeqDef
<1>6. \A f \in DOMAIN fetches :
        /\ fetches'[f].request = fetches[f].request /\ fetches'[f].asked = fetches[f].asked
        /\ fetches'[f].issuedAt = fetches[f].issuedAt /\ fetches'[f].lifetime = fetches[f].lifetime
        /\ fetches'[f].phase = fetches[f].phase \/ fetches'[f].phase \in {"asking", "undiscovered"}
        /\ fetches[f].phase \notin Waiting => fetches'[f] = fetches[f]
        /\ fetches'[f].phase \in Waiting <=> fetches[f].phase \in Waiting
  BY <1>1, <1>4 DEF Fetch, Waiting
<1>7. QED  BY <1>4, <1>5, <1>6 DEF Steady, Outstanding

\* One fetch is replaced by another record of its request and start.
LEMMA ReplacedFetch ==
  ASSUME fetches \in Seq(Fetch), NEW g \in DOMAIN fetches, NEW new \in Fetch,
         fetches' = [fetches EXCEPT ![g] = new],
         new.request = fetches[g].request, new.asked = fetches[g].asked
  PROVE  /\ Steady /\ fetches'[g] = new
         /\ \A f \in DOMAIN fetches \ {g} : fetches'[f] = fetches[f]
<1>1. DOMAIN fetches = 1..Len(fetches)  BY FetchTypes
<1>2. fetches' \in Seq(Fetch)  BY <1>1, ExceptSeq
<1>3. QED  BY <1>2 DEF Steady

LEMMA IssuedFetch ==
  ASSUME TypeOK, NEW g \in DOMAIN fetches, NEW lifetime \in Lifetimes, Issue(g, lifetime)
  PROVE  /\ Steady /\ Outstanding' = Outstanding
         /\ fetches'[g].phase = "issued" /\ fetches'[g].issuedAt = now /\ fetches[g].phase = "asking"
         /\ \A f \in DOMAIN fetches \ {g} : fetches'[f] = fetches[f]
<1> DEFINE new == [fetches[g] EXCEPT !.phase = "issued", !.issuedAt = now, !.lifetime = lifetime]
<1>1. fetches \in Seq(Fetch) /\ now \in Nat /\ fetches[g] \in Fetch  BY FetchTypes DEF TypeOK
<1>2. /\ new \in Fetch /\ new.request = fetches[g].request /\ new.asked = fetches[g].asked
      /\ new.phase = "issued" /\ new.issuedAt = now
  BY <1>1 DEF Fetch, Waiting
<1>3. fetches' = [fetches EXCEPT ![g] = new] /\ fetches[g].phase = "asking"  BY DEF Issue
<1> HIDE DEF new
<1>4. /\ Steady /\ fetches'[g] = new
      /\ \A f \in DOMAIN fetches \ {g} : fetches'[f] = fetches[f]
  BY <1>1, <1>2, <1>3, ReplacedFetch
<1>5. QED  BY <1>2, <1>3, <1>4 DEF Outstanding, Waiting, Steady

LEMMA EndedFetch ==
  ASSUME TypeOK, NEW g \in DOMAIN fetches, NEW phase \in {"ok", "failed"}, Ended(g, phase)
  PROVE  /\ Steady /\ Outstanding' = Outstanding \ {g}
         /\ fetches'[g].phase = phase
         /\ fetches'[g].issuedAt = fetches[g].issuedAt /\ fetches'[g].lifetime = fetches[g].lifetime
         /\ \A f \in DOMAIN fetches \ {g} : fetches'[f] = fetches[f]
<1> DEFINE new == [fetches[g] EXCEPT !.phase = phase]
<1>1. fetches \in Seq(Fetch) /\ fetches[g] \in Fetch  BY FetchTypes DEF TypeOK
<1>2. /\ new \in Fetch /\ new.request = fetches[g].request /\ new.asked = fetches[g].asked
      /\ new.phase = phase /\ new.issuedAt = fetches[g].issuedAt /\ new.lifetime = fetches[g].lifetime
  BY <1>1 DEF Fetch, Waiting
<1>3. fetches' = [fetches EXCEPT ![g] = new]  BY DEF Ended
<1> HIDE DEF new
<1>4. /\ Steady /\ fetches'[g] = new
      /\ \A f \in DOMAIN fetches \ {g} : fetches'[f] = fetches[f]
  BY <1>1, <1>2, <1>3, ReplacedFetch
<1>5. QED  BY <1>2, <1>4 DEF Outstanding, Waiting, Steady

-----------------------------------------------------------------------------
(* Types.                                                                   *)

LEMMA InitType == Init => TypeOK
<1>1. ASSUME Init PROVE TypeOK
  <2>1. Kept = {}  BY <1>1 DEF Init, Kept
  <2>2. Cardinality(Kept) = 0 /\ Capacity \in Nat  BY <2>1, FS_EmptySet, TokenAssumption
  <2>3. fetches \in Seq(Fetch)  BY <1>1 DEF Init
  <2>4. QED  BY <1>1, <2>2, <2>3 DEF Init, TypeOK
<1>2. QED  BY <1>1

LEMMA TokenType ==
  ASSUME TypeOK, NEW r \in Request, Token(r)
  PROVE  TypeOK'
<1>1. cached' \in [Request -> Entry \cup {None}] /\ Cardinality(Kept') <= Capacity
  <2>1. cached' = [cached EXCEPT ![r] = None]  BY DEF Token
  <2>2. Kept' \subseteq Kept  BY <2>1 DEF Kept, TypeOK
  <2>3. IsFiniteSet(Kept)  BY TokenAssumption, FS_Subset DEF Kept
  <2>4. IsFiniteSet(Kept') /\ Cardinality(Kept') <= Cardinality(Kept)  BY <2>2, <2>3, FS_Subset
  <2>5. Cardinality(Kept) \in Nat /\ Cardinality(Kept') \in Nat /\ Capacity \in Nat
    BY <2>3, <2>4, FS_CardinalityType, TokenAssumption
  <2>6. Cardinality(Kept') <= Capacity  BY <2>4, <2>5 DEF TypeOK
  <2>7. QED  BY <2>1, <2>6 DEF TypeOK
<1>2. CASE inFlight[r] # None
  <2>1. UNCHANGED <<now, configuration, fetches, inserted, inFlight, latestFetch, failing>>
    BY <1>2 DEF Token
  <2>2. QED  BY <1>1, <2>1 DEF TypeOK
<1>3. CASE inFlight[r] = None
  <2>1. FetchToken(r) /\ UNCHANGED <<now, inserted, failing>>  BY <1>3 DEF Token
  <2>2. fetches' \in Seq(Fetch) /\ DOMAIN fetches' = DOMAIN fetches \cup {Len(fetches) + 1}
    BY <2>1, StartedFetches
  <2>3. inFlight' \in [Request -> DOMAIN fetches' \cup {None}]
    BY <2>1, <2>2 DEF FetchToken, TypeOK
  <2>4. latestFetch' \in [Pair -> DOMAIN fetches' \cup {None}]
    BY <2>1, <2>2, TokenAssumption DEF FetchToken, TypeOK
  <2>5. configuration' \in {"none", "asked", "known"}  BY <2>1 DEF FetchToken, TypeOK
  <2>6. QED  BY <1>1, <2>1, <2>2, <2>3, <2>4, <2>5 DEF TypeOK
<1>4. QED  BY <1>2, <1>3

LEMMA ReportType ==
  ASSUME TypeOK, Steady, NEW p \in Pair, NEW f, NEW failed \in BOOLEAN, Report(p, f, failed)
  PROVE  latestFetch' \in [Pair -> DOMAIN fetches' \cup {None}] /\ failing' \subseteq Pair
BY DEF Report, TypeOK, Steady

LEMMA EndedType ==
  ASSUME TypeOK, NEW f \in DOMAIN fetches, NEW phase \in {"ok", "failed"}, Ended(f, phase)
  PROVE  /\ Steady /\ PairOf[fetches[f].request] \in Pair
         /\ now' \in Nat /\ configuration' \in {"none", "asked", "known"}
         /\ inFlight' \in [Request -> DOMAIN fetches' \cup {None}]
<1>1. Steady  BY EndedFetch
<1>2. fetches[f].request \in Request  BY FetchTypes DEF TypeOK, Fetch
<1>3. QED  BY <1>1, <1>2, TokenAssumption DEF Ended, TypeOK, Steady

LEMMA RefreshAtType ==
  ASSUME NEW fetch \in Fetch
  PROVE  /\ RefreshAt(fetch) \in Int
         /\ Margin(fetch.lifetime) \in Nat /\ 2 * Margin(fetch.lifetime) <= fetch.lifetime
         /\ Margin(fetch.lifetime) = Skew \/ 2 * Margin(fetch.lifetime) = fetch.lifetime
<1>1. fetch.lifetime \in Nat /\ fetch.lifetime % 2 = 0 /\ fetch.asked \in Nat /\ Skew \in Nat
  BY TokenAssumption DEF Fetch
<1>2. 2 * (fetch.lifetime \div 2) = fetch.lifetime /\ fetch.lifetime \div 2 \in Nat  BY <1>1
<1>3. QED  BY <1>1, <1>2 DEF RefreshAt, Margin

LEMMA FetchedType ==
  ASSUME TypeOK, NEW f \in DOMAIN fetches, Fetched(f)
  PROVE  TypeOK'
<1> DEFINE r == fetches[f].request
           entry == [fetch |-> f, refreshAt |-> RefreshAt(fetches[f]),
                     place |-> IF cached[r] = None THEN inserted ELSE cached[r].place]
<1>1. Ended(f, "ok") /\ Report(PairOf[r], f, FALSE) /\ Keep(r, entry) /\ inserted' = inserted + 1
  BY DEF Fetched
<1>2. f \in Nat /\ fetches[f] \in Fetch /\ r \in Request  BY FetchTypes DEF TypeOK, Fetch
<1>3. cached[r] \in Entry \cup {None} /\ inserted \in Nat  BY <1>2 DEF TypeOK
<1>4. entry \in Entry
  <2>1. RefreshAt(fetches[f]) \in Int  BY <1>2, RefreshAtType
  <2>2. QED  BY <1>2, <1>3, <2>1 DEF Entry
<1>5. cached' \in [Request -> Entry \cup {None}] /\ Cardinality(Kept') <= Capacity
  <2> HIDE DEF entry, r
  <2>1. QED  BY <1>1, <1>2, <1>4, KeepsWithinCapacity DEF TypeOK
<1>6. /\ Steady /\ PairOf[r] \in Pair /\ now' \in Nat /\ configuration' \in {"none", "asked", "known"}
      /\ inFlight' \in [Request -> DOMAIN fetches' \cup {None}]
  BY <1>1, EndedType
<1>7. latestFetch' \in [Pair -> DOMAIN fetches' \cup {None}] /\ failing' \subseteq Pair
  BY <1>1, <1>6, ReportType
<1>8. QED  BY <1>1, <1>3, <1>5, <1>6, <1>7 DEF TypeOK, Steady

LEMMA FailedType ==
  ASSUME TypeOK, NEW f \in DOMAIN fetches, Failed(f)
  PROVE  TypeOK'
<1> DEFINE r == fetches[f].request
<1>1. Ended(f, "failed") /\ Report(PairOf[r], f, TRUE) /\ UNCHANGED <<cached, inserted>>
  BY DEF Failed
<1>2. /\ Steady /\ PairOf[r] \in Pair /\ now' \in Nat /\ configuration' \in {"none", "asked", "known"}
      /\ inFlight' \in [Request -> DOMAIN fetches' \cup {None}]
  BY <1>1, EndedType
<1>3. latestFetch' \in [Pair -> DOMAIN fetches' \cup {None}] /\ failing' \subseteq Pair
  BY <1>1, <1>2, ReportType
<1>4. Kept' = Kept  BY <1>1 DEF Kept
<1>5. QED  BY <1>1, <1>2, <1>3, <1>4 DEF TypeOK, Steady

LEMMA NextType == TypeOK /\ [Next]_vars => TypeOK'
<1> SUFFICES ASSUME TypeOK, [Next]_vars PROVE TypeOK'  OBVIOUS
<1>1. ASSUME NEW r \in Request, Token(r) PROVE TypeOK'  BY <1>1, TokenType
<1>2. ASSUME NEW ok \in BOOLEAN, Discovered(ok) PROVE TypeOK'
  <2>1. Steady  BY <1>2, DiscoveredFetches
  <2>2. Kept' = Kept  BY <1>2 DEF Discovered, Kept
  <2>3. QED  BY <1>2, <2>1, <2>2 DEF Discovered, Steady, TypeOK
<1>3. ASSUME NEW f \in DOMAIN fetches, NEW lifetime \in Lifetimes, Issue(f, lifetime) PROVE TypeOK'
  <2>1. Steady  BY <1>3, IssuedFetch
  <2>2. Kept' = Kept  BY <1>3 DEF Issue, Kept
  <2>3. QED  BY <1>3, <2>1, <2>2 DEF Issue, Steady, TypeOK
<1>4. ASSUME NEW f \in DOMAIN fetches, Fetched(f) PROVE TypeOK'  BY <1>4, FetchedType
<1>5. ASSUME NEW f \in DOMAIN fetches, Failed(f) PROVE TypeOK'  BY <1>5, FailedType
<1>6. CASE Tick
  <2>1. Kept' = Kept  BY <1>6 DEF Tick, Kept
  <2>2. QED  BY <1>6, <2>1 DEF Tick, TypeOK
<1>7. CASE UNCHANGED vars
  <2>1. Kept' = Kept  BY <1>7 DEF vars, Kept
  <2>2. QED  BY <1>7, <2>1 DEF vars, TypeOK
<1>8. QED  BY <1>1, <1>2, <1>3, <1>4, <1>5, <1>6, <1>7 DEF Next

\* The types of tokenFetches' state, and a cache never past its capacity, whatever the order
\* fetches settle in.
THEOREM TypeCorrect == Spec => []TypeOK
<1>1. QED  BY InitType, NextType, PTL DEF Spec

-----------------------------------------------------------------------------
(* Whom a caller joins.                                                     *)

OutstandingFor(r) == {f \in Outstanding : fetches[f].request = r}

LEMMA JoinInit == Init => OneFetchPerRequest
BY DEF Init, OneFetchPerRequest, Outstanding

LEMMA JoinSteady ==
  ASSUME Steady, Outstanding' = Outstanding, inFlight' = inFlight, OneFetchPerRequest
  PROVE  OneFetchPerRequest'
<1>1. \A r \in Request : OutstandingFor(r)' = OutstandingFor(r)
  BY DEF OutstandingFor, Outstanding, Steady
<1>2. QED  BY <1>1 DEF OneFetchPerRequest, OutstandingFor

LEMMA JoinToken ==
  ASSUME TypeOK, OneFetchPerRequest, NEW r \in Request, Token(r)
  PROVE  OneFetchPerRequest'
<1>1. CASE inFlight[r] # None
  <2>1. UNCHANGED <<fetches, inFlight>>  BY <1>1 DEF Token
  <2>2. QED  BY <2>1 DEF OneFetchPerRequest, Outstanding
<1>2. CASE inFlight[r] = None
  <2> DEFINE n == Len(fetches) + 1
  <2>1. FetchToken(r)  BY <1>2 DEF Token
  <2>2. /\ DOMAIN fetches' = DOMAIN fetches \cup {n} /\ n \notin DOMAIN fetches /\ n \in Nat
        /\ \A f \in DOMAIN fetches : fetches'[f] = fetches[f]
        /\ fetches'[n].request = r /\ fetches'[n].phase \in {"asking", "discovering"}
    <3>1. n \in Nat  BY FetchTypes DEF TypeOK
    <3>2. /\ DOMAIN fetches' = DOMAIN fetches \cup {n} /\ n \notin DOMAIN fetches
          /\ \A f \in DOMAIN fetches : fetches'[f] = fetches[f] /\ f < n
          /\ fetches'[n].request = r /\ fetches'[n].phase \in {"asking", "discovering"}
      BY <2>1, StartedFetches
    <3>3. QED  BY <3>1, <3>2
  <2> HIDE DEF n
  <2>3. Outstanding' = Outstanding \cup {n}  BY <2>2 DEF Outstanding, Waiting
  <2>4. inFlight' = [inFlight EXCEPT ![r] = n]  BY <2>1 DEF FetchToken, n
  <2>5. ASSUME NEW q \in Request
        PROVE  OutstandingFor(q)' = {inFlight'[q]} \ {None}
    <3>1. OutstandingFor(q) = {inFlight[q]} \ {None}  BY DEF OneFetchPerRequest, OutstandingFor
    <3>2. n # None  BY <2>2, TokenAssumption
    <3>3. CASE q = r
      <4>1. OutstandingFor(q) = {}  BY <1>2, <3>1, <3>3
      <4>2. OutstandingFor(q)' = {n}  BY <2>2, <2>3, <3>3, <4>1 DEF OutstandingFor, Outstanding
      <4>3. QED  BY <2>4, <3>2, <3>3, <4>2 DEF TypeOK
    <3>4. CASE q # r
      <4>1. OutstandingFor(q)' = OutstandingFor(q)
        BY <2>2, <2>3, <3>4 DEF OutstandingFor, Outstanding
      <4>2. QED  BY <2>4, <3>1, <3>4, <4>1 DEF TypeOK
    <3>5. QED  BY <3>3, <3>4
  <2>6. QED  BY <2>5 DEF OneFetchPerRequest, OutstandingFor
<1>3. QED  BY <1>1, <1>2

LEMMA JoinEnded ==
  ASSUME TypeOK, OneFetchPerRequest, NEW f \in Outstanding, NEW phase \in {"ok", "failed"},
         Ended(f, phase)
  PROVE  OneFetchPerRequest'
<1>1. f \in DOMAIN fetches  BY DEF Outstanding
<1>2. Steady /\ Outstanding' = Outstanding \ {f}  BY <1>1, EndedFetch
<1>3. inFlight' = [inFlight EXCEPT ![fetches[f].request] = None]  BY DEF Ended
<1>4. fetches[f].request \in Request  BY <1>1, FetchTypes DEF TypeOK, Fetch
<1>5. ASSUME NEW q \in Request
      PROVE  OutstandingFor(q)' = {inFlight'[q]} \ {None}
  <2>1. OutstandingFor(q) = {inFlight[q]} \ {None}  BY DEF OneFetchPerRequest, OutstandingFor
  <2>2. OutstandingFor(q)' = OutstandingFor(q) \ {f}
    BY <1>2 DEF OutstandingFor, Outstanding, Steady
  <2>3. CASE q = fetches[f].request
    <3>1. f \in OutstandingFor(q)  BY <2>3 DEF OutstandingFor
    <3>2. OutstandingFor(q) = {f}  BY <2>1, <3>1
    <3>3. QED  BY <1>3, <1>4, <2>2, <2>3, <3>2 DEF TypeOK
  <2>4. CASE q # fetches[f].request
    <3>1. f \notin OutstandingFor(q)  BY <2>4 DEF OutstandingFor
    <3>2. QED  BY <1>3, <2>1, <2>2, <2>4, <3>1 DEF TypeOK
  <2>5. QED  BY <2>3, <2>4
<1>6. QED  BY <1>5 DEF OneFetchPerRequest, OutstandingFor

LEMMA JoinNext == TypeOK /\ OneFetchPerRequest /\ [Next]_vars => OneFetchPerRequest'
<1> SUFFICES ASSUME TypeOK, OneFetchPerRequest, [Next]_vars PROVE OneFetchPerRequest'  OBVIOUS
<1>1. ASSUME NEW r \in Request, Token(r) PROVE OneFetchPerRequest'  BY <1>1, JoinToken
<1>2. ASSUME NEW ok \in BOOLEAN, Discovered(ok) PROVE OneFetchPerRequest'
  <2>1. Steady /\ Outstanding' = Outstanding  BY <1>2, DiscoveredFetches
  <2>2. QED  BY <1>2, <2>1, JoinSteady DEF Discovered
<1>3. ASSUME NEW f \in DOMAIN fetches, NEW lifetime \in Lifetimes, Issue(f, lifetime)
      PROVE  OneFetchPerRequest'
  <2>1. Steady /\ Outstanding' = Outstanding  BY <1>3, IssuedFetch
  <2>2. QED  BY <1>3, <2>1, JoinSteady DEF Issue
<1>4. ASSUME NEW f \in DOMAIN fetches, Fetched(f) PROVE OneFetchPerRequest'
  <2>1. f \in Outstanding /\ Ended(f, "ok")  BY <1>4 DEF Fetched, Outstanding, Waiting
  <2>2. QED  BY <2>1, JoinEnded
<1>5. ASSUME NEW f \in DOMAIN fetches, Failed(f) PROVE OneFetchPerRequest'
  <2>1. f \in Outstanding /\ Ended(f, "failed")  BY <1>5 DEF Failed, Outstanding, Waiting
  <2>2. QED  BY <2>1, JoinEnded
<1>6. CASE Tick  BY <1>6 DEF Tick, OneFetchPerRequest, Outstanding
<1>7. CASE UNCHANGED vars  BY <1>7 DEF vars, OneFetchPerRequest, Outstanding
<1>8. QED  BY <1>1, <1>2, <1>3, <1>4, <1>5, <1>6, <1>7 DEF Next

\* Callers of token() for one request share one fetch for exactly as long as it is outstanding.
THEOREM FetchesAreShared == Spec => []OneFetchPerRequest
<1>1. TypeOK /\ OneFetchPerRequest /\ [Next]_vars => (TypeOK /\ OneFetchPerRequest)'
  BY NextType, JoinNext
<1>2. Init => TypeOK /\ OneFetchPerRequest  BY InitType, JoinInit
<1>3. QED  BY <1>1, <1>2, PTL DEF Spec

-----------------------------------------------------------------------------
(* What the health check names.                                             *)

NewestInv ==
  \A p \in Pair :
    /\ OfPair(p) # {} => Newest(p) \in OfPair(p)
    /\ latestFetch[p] # None =>
         /\ latestFetch[p] \in OfPair(p) \cap Outstanding
         /\ \A g \in OfPair(p) : g <= latestFetch[p]
    /\ Newest(p) \in OfPair(p) \cap Outstanding => latestFetch[p] = Newest(p)

HealthInv == NewestInv /\ HealthIsNewest

LEMMA NewestIs ==
  ASSUME TypeOK, NEW p \in Pair, NEW f \in OfPair(p), \A g \in OfPair(p) : g <= f
  PROVE  Newest(p) = f
<1>1. OfPair(p) \subseteq Nat  BY FetchTypes DEF OfPair, TypeOK
<1>2. \A h \in OfPair(p) : (\A g \in OfPair(p) : g <= h) => h = f  BY <1>1
<1>3. QED  BY <1>2 DEF Newest

LEMMA HealthInit == Init => HealthInv
<1>1. ASSUME Init PROVE HealthInv
  <2>1. DOMAIN fetches = {}  BY <1>1 DEF Init
  <2>2. \A p \in Pair : OfPair(p) = {} /\ latestFetch[p] = None  BY <1>1, <2>1 DEF Init, OfPair
  <2>3. QED  BY <2>2 DEF HealthInv, NewestInv, HealthIsNewest
<1>2. QED  BY <1>1

LEMMA SteadyPairs ==
  ASSUME Steady, NEW p \in Pair
  PROVE  OfPair(p)' = OfPair(p) /\ Newest(p)' = Newest(p)
<1>1. OfPair(p)' = OfPair(p)  BY DEF Steady, OfPair
<1>2. QED  BY <1>1 DEF Newest

\* An action that settles no fetch leaves the health check alone.
LEMMA HealthSteady ==
  ASSUME HealthInv, Steady, Outstanding' = Outstanding,
         latestFetch' = latestFetch, failing' = failing,
         \A f \in DOMAIN fetches : f \notin Outstanding => fetches'[f] = fetches[f]
  PROVE  HealthInv'
<1>1. \A p \in Pair : OfPair(p)' = OfPair(p) /\ Newest(p)' = Newest(p)  BY SteadyPairs
<1>2. NewestInv'  BY <1>1 DEF HealthInv, NewestInv
<1>3. ASSUME NEW p \in Pair, OfPair(p)' # {}, Newest(p)' \notin Outstanding'
      PROVE  p \in failing' <=> fetches'[Newest(p)'].phase = "failed"
  <2>1. OfPair(p) # {} /\ Newest(p) \notin Outstanding  BY <1>1, <1>3
  <2>2. Newest(p) \in DOMAIN fetches  BY <2>1 DEF HealthInv, NewestInv, OfPair
  <2>3. fetches'[Newest(p)'] = fetches[Newest(p)]  BY <1>1, <2>1, <2>2
  <2>4. QED  BY <2>1, <2>3 DEF HealthInv, HealthIsNewest
<1>4. QED  BY <1>2, <1>3 DEF HealthInv, HealthIsNewest

LEMMA HealthIdle ==
  ASSUME TypeOK, HealthInv, UNCHANGED <<fetches, latestFetch, failing>>
  PROVE  HealthInv'
<1>1. Steady /\ Outstanding' = Outstanding  BY DEF Steady, Outstanding, TypeOK
<1>2. QED  BY <1>1, HealthSteady

LEMMA HealthToken ==
  ASSUME TypeOK, TypeOK', HealthInv, NEW r \in Request, Token(r)
  PROVE  HealthInv'
<1>1. CASE inFlight[r] # None
  <2>1. UNCHANGED <<fetches, latestFetch, failing>>  BY <1>1 DEF Token
  <2>2. QED  BY <2>1, HealthIdle
<1>2. CASE inFlight[r] = None
  <2> DEFINE n == Len(fetches) + 1
  <2>1. FetchToken(r) /\ failing' = failing  BY <1>2 DEF Token
  <2>2. /\ DOMAIN fetches' = DOMAIN fetches \cup {n} /\ n \notin DOMAIN fetches /\ n \in Nat
        /\ \A f \in DOMAIN fetches : fetches'[f] = fetches[f] /\ f < n
        /\ fetches'[n].request = r /\ fetches'[n].phase \in {"asking", "discovering"}
    <3>1. n \in Nat  BY FetchTypes DEF TypeOK
    <3>2. /\ DOMAIN fetches' = DOMAIN fetches \cup {n} /\ n \notin DOMAIN fetches
          /\ \A f \in DOMAIN fetches : fetches'[f] = fetches[f] /\ f < n
          /\ fetches'[n].request = r /\ fetches'[n].phase \in {"asking", "discovering"}
      BY <2>1, StartedFetches
    <3>3. QED  BY <3>1, <3>2
  <2> HIDE DEF n
  <2>3. Outstanding' = Outstanding \cup {n}  BY <2>2 DEF Outstanding, Waiting
  <2>4. latestFetch' = [latestFetch EXCEPT ![PairOf[r]] = n]  BY <2>1 DEF FetchToken, n
  <2>5. n # None  BY <2>2, TokenAssumption
  <2>6. ASSUME NEW p \in Pair
        PROVE  /\ OfPair(p)' # {} => Newest(p)' \in OfPair(p)'
               /\ latestFetch'[p] # None =>
                    /\ latestFetch'[p] \in OfPair(p)' \cap Outstanding'
                    /\ \A g \in OfPair(p)' : g <= latestFetch'[p]
               /\ Newest(p)' \in OfPair(p)' \cap Outstanding' => latestFetch'[p] = Newest(p)'
               /\ OfPair(p)' # {} /\ Newest(p)' \notin Outstanding' =>
                    (p \in failing' <=> fetches'[Newest(p)'].phase = "failed")
    <3>1. CASE p = PairOf[r]
      <4>1. OfPair(p)' = OfPair(p) \cup {n}  BY <2>2, <3>1 DEF OfPair
      <4>2. \A g \in OfPair(p)' : g <= n  BY <2>2, <4>1, FetchTypes DEF OfPair, TypeOK
      <4>3. Newest(p)' = n
        <5>1. OfPair(p)' \subseteq Nat  BY FetchTypes, <2>2, <4>1 DEF OfPair, TypeOK
        <5>2. \A h \in OfPair(p)' : (\A g \in OfPair(p)' : g <= h) => h = n
          BY <2>2, <4>1, <4>2, <5>1
        <5>3. QED  BY <4>1, <4>2, <5>2 DEF Newest
      <4>4. latestFetch'[p] = n  BY <2>4, <3>1 DEF TypeOK
      <4>5. QED  BY <2>3, <4>1, <4>2, <4>3, <4>4
    <3>2. CASE p # PairOf[r]
      <4>1. OfPair(p)' = OfPair(p)  BY <2>2, <3>2 DEF OfPair
      <4>2. Newest(p)' = Newest(p)  BY <4>1 DEF Newest
      <4>3. latestFetch'[p] = latestFetch[p]  BY <2>4, <3>2 DEF TypeOK
      <4>4. OfPair(p) # {} => Newest(p) \in DOMAIN fetches  BY DEF HealthInv, NewestInv, OfPair
      <4>5. n \notin OfPair(p)  BY <2>2 DEF OfPair
      <4>6. OfPair(p) # {} => fetches'[Newest(p)] = fetches[Newest(p)] /\ Newest(p) # n
        BY <2>2, <4>4
      <4>7. QED  BY <2>1, <2>3, <4>1, <4>2, <4>3, <4>5, <4>6 DEF HealthInv, NewestInv, HealthIsNewest
    <3>3. QED  BY <3>1, <3>2
  <2>7. QED  BY <2>6 DEF HealthInv, NewestInv, HealthIsNewest
<1>3. QED  BY <1>1, <1>2

LEMMA HealthEnded ==
  ASSUME TypeOK, HealthInv, NEW f \in Outstanding, NEW failed \in BOOLEAN,
         Ended(f, IF failed THEN "failed" ELSE "ok"), Report(PairOf[fetches[f].request], f, failed)
  PROVE  HealthInv'
<1> DEFINE own == PairOf[fetches[f].request]
<1>1. f \in DOMAIN fetches /\ f \in Nat  BY FetchTypes DEF Outstanding, TypeOK
<1>2. /\ Steady /\ Outstanding' = Outstanding \ {f}
      /\ fetches'[f].phase = IF failed THEN "failed" ELSE "ok"
      /\ \A g \in DOMAIN fetches \ {f} : fetches'[g] = fetches[g]
  BY <1>1, EndedFetch
<1>3. fetches[f].request \in Request /\ own \in Pair
  BY <1>1, FetchTypes, TokenAssumption DEF TypeOK, Fetch
<1>4. f # None  BY <1>1, TokenAssumption
<1>5. f \in OfPair(own)  BY <1>1 DEF OfPair
<1>6. Report(own, f, failed)  OBVIOUS
<1>7. \A p \in Pair \ {own} : f \notin OfPair(p)  BY DEF OfPair
<1> HIDE DEF own
<1>8. ASSUME NEW p \in Pair
      PROVE  /\ OfPair(p)' # {} => Newest(p)' \in OfPair(p)'
             /\ latestFetch'[p] # None =>
                  /\ latestFetch'[p] \in OfPair(p)' \cap Outstanding'
                  /\ \A g \in OfPair(p)' : g <= latestFetch'[p]
             /\ Newest(p)' \in OfPair(p)' \cap Outstanding' => latestFetch'[p] = Newest(p)'
             /\ OfPair(p)' # {} /\ Newest(p)' \notin Outstanding' =>
                  (p \in failing' <=> fetches'[Newest(p)'].phase = "failed")
  <2>1. OfPair(p)' = OfPair(p) /\ Newest(p)' = Newest(p)  BY <1>2, SteadyPairs
  <2>2. /\ OfPair(p) # {} => Newest(p) \in OfPair(p)
        /\ latestFetch[p] # None =>
             latestFetch[p] \in OfPair(p) \cap Outstanding /\ \A g \in OfPair(p) : g <= latestFetch[p]
        /\ Newest(p) \in OfPair(p) \cap Outstanding => latestFetch[p] = Newest(p)
        /\ OfPair(p) # {} /\ Newest(p) \notin Outstanding =>
             (p \in failing <=> fetches[Newest(p)].phase = "failed")
    BY DEF HealthInv, NewestInv, HealthIsNewest
  <2>3. OfPair(p) \subseteq DOMAIN fetches  BY DEF OfPair
  <2>4. CASE p = own /\ latestFetch[own] = f
    <3>1. Newest(p) = f  BY <2>2, <2>4, <1>4, <1>5, NewestIs
    <3>2. latestFetch'[p] = None /\ (p \in failing' <=> failed)
      BY <1>3, <1>6, <2>4 DEF Report, TypeOK
    <3>3. QED  BY <1>2, <1>5, <2>1, <2>4, <3>1, <3>2
  <2>5. CASE ~(p = own /\ latestFetch[own] = f)
    <3>1. latestFetch'[p] = latestFetch[p] /\ (p \in failing' <=> p \in failing)
      BY <1>3, <1>6, <2>5 DEF Report, TypeOK
    <3>2. OfPair(p) # {} => Newest(p) # f  BY <1>7, <2>2, <2>5
    <3>3. latestFetch[p] # None => latestFetch[p] # f  BY <1>7, <2>2, <2>5
    <3>4. OfPair(p) # {} => fetches'[Newest(p)] = fetches[Newest(p)]  BY <1>2, <2>2, <2>3, <3>2
    <3>5. QED  BY <1>2, <2>1, <2>2, <3>1, <3>2, <3>3, <3>4
  <2>6. QED  BY <2>4, <2>5
<1>9. QED  BY <1>8 DEF HealthInv, NewestInv, HealthIsNewest

LEMMA HealthNext == TypeOK /\ HealthInv /\ [Next]_vars => HealthInv'
<1> SUFFICES ASSUME TypeOK, HealthInv, [Next]_vars PROVE HealthInv'  OBVIOUS
<1>0. TypeOK'  BY NextType
<1>1. ASSUME NEW r \in Request, Token(r) PROVE HealthInv'  BY <1>0, <1>1, HealthToken
<1>2. ASSUME NEW ok \in BOOLEAN, Discovered(ok) PROVE HealthInv'
  <2>1. /\ Steady /\ Outstanding' = Outstanding
        /\ \A f \in DOMAIN fetches : f \notin Outstanding => fetches'[f] = fetches[f]
    BY <1>2, DiscoveredFetches DEF Outstanding
  <2>2. QED  BY <1>2, <2>1, HealthSteady DEF Discovered
<1>3. ASSUME NEW f \in DOMAIN fetches, NEW lifetime \in Lifetimes, Issue(f, lifetime) PROVE HealthInv'
  <2>1. /\ Steady /\ Outstanding' = Outstanding
        /\ \A g \in DOMAIN fetches : g \notin Outstanding => fetches'[g] = fetches[g]
    BY <1>3, IssuedFetch DEF Outstanding, Waiting
  <2>2. QED  BY <1>3, <2>1, HealthSteady DEF Issue
<1>4. ASSUME NEW f \in DOMAIN fetches, Fetched(f) PROVE HealthInv'
  <2>1. /\ f \in Outstanding /\ Ended(f, IF FALSE THEN "failed" ELSE "ok")
        /\ Report(PairOf[fetches[f].request], f, FALSE)
    BY <1>4 DEF Fetched, Outstanding, Waiting
  <2>2. QED  BY <2>1, HealthEnded
<1>5. ASSUME NEW f \in DOMAIN fetches, Failed(f) PROVE HealthInv'
  <2>1. /\ f \in Outstanding /\ Ended(f, IF TRUE THEN "failed" ELSE "ok")
        /\ Report(PairOf[fetches[f].request], f, TRUE)
    BY <1>5 DEF Failed, Outstanding, Waiting
  <2>2. QED  BY <2>1, HealthEnded
<1>6. CASE UNCHANGED <<fetches, latestFetch, failing>>  BY <1>6, HealthIdle
<1>7. QED  BY <1>1, <1>2, <1>3, <1>4, <1>5, <1>6 DEF Next, Tick, vars

\* The health check says of each audience and scope what its newest-started fetch came to,
\* however many fetches overlap and whatever order they settle in.
THEOREM HealthFollowsTheNewest == Spec => []HealthIsNewest
<1>1. TypeOK /\ HealthInv /\ [Next]_vars => (TypeOK /\ HealthInv)'  BY NextType, HealthNext
<1>2. Init => TypeOK /\ HealthInv  BY InitType, HealthInit
<1>3. HealthInv => HealthIsNewest  BY DEF HealthInv
<1>4. QED  BY <1>1, <1>2, <1>3, PTL DEF Spec

-----------------------------------------------------------------------------
(* What is served from memory.                                              *)

FreshInv ==
  /\ \A f \in DOMAIN fetches : fetches[f].asked <= now
       /\ (fetches[f].phase \in {"issued", "ok"} => fetches[f].asked <= fetches[f].issuedAt)
  /\ \A r \in Kept :
       /\ cached[r].fetch \in DOMAIN fetches
       /\ fetches[cached[r].fetch].request = r /\ fetches[cached[r].fetch].phase = "ok"
       /\ cached[r].refreshAt = RefreshAt(fetches[cached[r].fetch])

LEMMA FreshMeansFresh == TypeOK /\ FreshInv => ServedFresh
<1> SUFFICES ASSUME TypeOK, FreshInv, NEW r \in Request, Hit(r)
    PROVE  LET fetch == fetches[cached[r].fetch] IN
             /\ fetch.request = r /\ fetch.phase = "ok"
             /\ \/ now + Skew < fetch.issuedAt + fetch.lifetime
                \/ 2 * (fetch.issuedAt + fetch.lifetime - now) > fetch.lifetime
  BY DEF ServedFresh
<1> DEFINE fetch == fetches[cached[r].fetch]
<1>1. r \in Kept /\ now < cached[r].refreshAt  BY DEF Hit, Kept
<1>2. fetch.request = r /\ fetch.phase = "ok" /\ now < RefreshAt(fetch) /\ fetch.asked <= fetch.issuedAt
  BY <1>1 DEF FreshInv
<1>3. fetch \in Fetch  BY <1>1, FetchTypes DEF FreshInv, TypeOK
<1>4. fetch.asked \in Nat /\ fetch.issuedAt \in Nat /\ fetch.lifetime \in Nat /\ now \in Nat /\ Skew \in Nat
  BY <1>3, TokenAssumption DEF Fetch, TypeOK
<1>5. /\ Margin(fetch.lifetime) \in Nat
      /\ Margin(fetch.lifetime) = Skew \/ 2 * Margin(fetch.lifetime) = fetch.lifetime
  BY <1>3, RefreshAtType
<1>6. now + Margin(fetch.lifetime) < fetch.issuedAt + fetch.lifetime
  BY <1>2, <1>4, <1>5 DEF RefreshAt
<1> HIDE DEF fetch
<1>7. QED  BY <1>2, <1>4, <1>5, <1>6 DEF fetch

LEMMA FreshNext == TypeOK /\ FreshInv /\ [Next]_vars => FreshInv'
<1> SUFFICES ASSUME TypeOK, FreshInv, [Next]_vars PROVE FreshInv'  OBVIOUS
<1>0. /\ now \in Nat /\ \A f \in DOMAIN fetches : fetches[f] \in Fetch
      /\ \A f \in DOMAIN fetches : fetches[f].asked \in Nat
  BY FetchTypes DEF TypeOK, Fetch
<1>1. ASSUME NEW r \in Request, Token(r) PROVE FreshInv'
  <2>1. now' = now /\ cached' = [cached EXCEPT ![r] = None]  BY <1>1 DEF Token
  <2>2. Kept' \subseteq Kept /\ \A q \in Kept' : cached'[q] = cached[q]  BY <2>1 DEF Kept, TypeOK
  <2>3. CASE inFlight[r] # None
    <3>1. fetches' = fetches  BY <1>1, <2>3 DEF Token
    <3>2. QED  BY <2>1, <2>2, <3>1 DEF FreshInv, RefreshAt
  <2>4. CASE inFlight[r] = None
    <3>1. FetchToken(r)  BY <1>1, <2>4 DEF Token
    <3>2. /\ DOMAIN fetches' = DOMAIN fetches \cup {Len(fetches) + 1}
          /\ \A f \in DOMAIN fetches : fetches'[f] = fetches[f]
          /\ fetches'[Len(fetches) + 1].asked = now
          /\ fetches'[Len(fetches) + 1].phase \in {"asking", "discovering"}
      BY <3>1, StartedFetches
    <3>3. QED  BY <1>0, <2>1, <2>2, <3>2 DEF FreshInv, RefreshAt
  <2>5. QED  BY <2>3, <2>4
<1>2. ASSUME NEW ok \in BOOLEAN, Discovered(ok) PROVE FreshInv'
  <2>1. /\ Steady
        /\ \A f \in DOMAIN fetches :
             /\ fetches'[f].issuedAt = fetches[f].issuedAt
             /\ fetches'[f].phase = fetches[f].phase \/ fetches'[f].phase \in {"asking", "undiscovered"}
             /\ fetches[f].phase \notin Waiting => fetches'[f] = fetches[f]
    BY <1>2, DiscoveredFetches
  <2>2. now' = now /\ cached' = cached /\ Kept' = Kept  BY <1>2 DEF Discovered, Kept
  <2>3. QED  BY <2>1, <2>2 DEF FreshInv, Steady, RefreshAt, Waiting
<1>3. ASSUME NEW g \in DOMAIN fetches, NEW lifetime \in Lifetimes, Issue(g, lifetime) PROVE FreshInv'
  <2>1. /\ Steady /\ fetches'[g].issuedAt = now /\ fetches[g].phase = "asking"
        /\ \A f \in DOMAIN fetches \ {g} : fetches'[f] = fetches[f]
    BY <1>3, IssuedFetch
  <2>2. now' = now /\ cached' = cached /\ Kept' = Kept  BY <1>3 DEF Issue, Kept
  <2>3. QED  BY <2>1, <2>2 DEF FreshInv, Steady, RefreshAt
<1>4. ASSUME NEW g \in DOMAIN fetches, Fetched(g) PROVE FreshInv'
  <2> DEFINE r == fetches[g].request
             entry == [fetch |-> g, refreshAt |-> RefreshAt(fetches[g]),
                       place |-> IF cached[r] = None THEN inserted ELSE cached[r].place]
  <2>1. fetches[g].phase = "issued" /\ Ended(g, "ok") /\ Keep(r, entry)  BY <1>4 DEF Fetched
  <2>2. /\ Steady /\ fetches'[g].phase = "ok"
        /\ fetches'[g].issuedAt = fetches[g].issuedAt /\ fetches'[g].lifetime = fetches[g].lifetime
        /\ \A f \in DOMAIN fetches \ {g} : fetches'[f] = fetches[f]
    BY <2>1, EndedFetch
  <2>3. r \in Request /\ entry \in Entry
    <3>1. g \in Nat /\ r \in Request /\ fetches[g] \in Fetch  BY FetchTypes DEF TypeOK, Fetch
    <3>2. RefreshAt(fetches[g]) \in Int  BY <3>1, RefreshAtType
    <3>3. cached[r] \in Entry \cup {None} /\ inserted \in Nat  BY <3>1 DEF TypeOK
    <3>4. QED  BY <3>1, <3>2, <3>3 DEF Entry
  <2>4. \A q \in Request : cached'[q] \in {cached[q], None} \/ (q = r /\ cached'[q] = entry)
    <3> HIDE DEF entry, r
    <3>1. QED  BY <2>1, <2>3, KeepsWithinCapacity DEF TypeOK
  <2>5. now' = now  BY <2>1 DEF Ended
  <2>6. \A f \in DOMAIN fetches : fetches[f].phase = "ok" => fetches'[f] = fetches[f]  BY <2>1, <2>2
  <2>7. entry.fetch = g /\ entry.refreshAt = RefreshAt(fetches'[g])
    BY <2>2 DEF RefreshAt, Steady
  <2>8. ASSUME NEW q \in Kept'
        PROVE  /\ cached'[q].fetch \in DOMAIN fetches'
               /\ fetches'[cached'[q].fetch].request = q /\ fetches'[cached'[q].fetch].phase = "ok"
               /\ cached'[q].refreshAt = RefreshAt(fetches'[cached'[q].fetch])
    <3>1. CASE q = r /\ cached'[q] = entry  BY <2>2, <2>7, <3>1 DEF Steady
    <3>2. CASE cached'[q] = cached[q]
      <4>1. q \in Kept  BY <3>2 DEF Kept
      <4>2. QED  BY <2>2, <2>6, <3>2, <4>1 DEF FreshInv, Steady
    <3>3. QED  BY <2>4, <3>1, <3>2 DEF Kept
  <2>9. \A f \in DOMAIN fetches' : fetches'[f].asked <= now'
           /\ (fetches'[f].phase \in {"issued", "ok"} => fetches'[f].asked <= fetches'[f].issuedAt)
    BY <2>1, <2>2, <2>5 DEF FreshInv, Steady
  <2>10. QED  BY <2>8, <2>9 DEF FreshInv, RefreshAt
<1>5. ASSUME NEW g \in DOMAIN fetches, Failed(g) PROVE FreshInv'
  <2>1. Ended(g, "failed") /\ cached' = cached /\ fetches[g].phase # "ok" /\ now' = now /\ Kept' = Kept
    BY <1>5 DEF Failed, Ended, Kept
  <2>2. /\ Steady /\ fetches'[g].phase = "failed"
        /\ \A f \in DOMAIN fetches \ {g} : fetches'[f] = fetches[f]
    BY <2>1, EndedFetch
  <2>3. QED  BY <2>1, <2>2 DEF FreshInv, Steady, RefreshAt
<1>6. CASE Tick
  <2>1. now' = now + 1 /\ UNCHANGED <<fetches, cached>> /\ Kept' = Kept  BY <1>6 DEF Tick, Kept
  <2>2. QED  BY <1>0, <2>1 DEF FreshInv, RefreshAt
<1>7. CASE UNCHANGED vars  BY <1>7 DEF vars, FreshInv, RefreshAt, Kept
<1>8. QED  BY <1>1, <1>2, <1>3, <1>4, <1>5, <1>6, <1>7 DEF Next

\* A token served from memory is the request's own, and outlives the call it is served for.
THEOREM ServesFreshTokens == Spec => []ServedFresh
<1>1. TypeOK /\ FreshInv /\ [Next]_vars => (TypeOK /\ FreshInv)'  BY NextType, FreshNext
<1>2. Init => TypeOK /\ FreshInv
  <2>1. ASSUME Init PROVE FreshInv
    <3>1. DOMAIN fetches = {} /\ Kept = {}  BY <2>1 DEF Init, Kept
    <3>2. QED  BY <3>1 DEF FreshInv
  <2>2. QED  BY <2>1, InitType
<1>3. QED  BY <1>1, <1>2, FreshMeansFresh, PTL DEF Spec

\* The health check tells of the newest exchange that ended, and what is served from memory is
\* fresh (client.ts of oauth-client).
THEOREM CallersAreToldTheNewest == Spec => []ToldTheNewest
<1>1. HealthIsNewest /\ ServedFresh => ToldTheNewest  BY DEF ToldTheNewest
<1>2. QED  BY <1>1, HealthFollowsTheNewest, ServesFreshTokens, PTL
=============================================================================
