------------------------------ MODULE TokenSource ------------------------------
(***************************************************************************)
(* Tokens for the services an application calls                            *)
(* (packages/oauth-client/src/client.ts, tokenFetches): kept until shortly *)
(* before they expire, fetched once however many callers wait for the same *)
(* one, and a health check that reads what the newest fetch of each        *)
(* audience and scope came to.                                             *)
(*                                                                         *)
(* A fetch discovers the issuer, unless that is known, then asks it for a  *)
(* token.  The issuer may refuse, fail, or take any time; fetches overlap  *)
(* and settle in any order.                                                *)
(***************************************************************************)
EXTENDS Integers, Sequences, FiniteSets

CONSTANTS
  Request,      \* what distinguishes one kept token from another
  Pair,         \* an audience and a scope
  PairOf,       \* the pair of each request: subjects share one
  Lifetimes,    \* what an issuer may give a token
  Skew,         \* SKEW_MS
  Capacity,     \* CACHE_CAPACITY
  None,
  MaxFetches,   \* bound: the fetches of a behaviour
  MaxTime       \* bound: the clock

\* A fetch still waited for: for the discovery, for the callers of a failed one to hear, for the
\* issuer, or for a minted token to arrive.
Waiting == {"discovering", "undiscovered", "asking", "issued"}

Fetch ==
  [request : Request, asked : Nat, phase : Waiting \cup {"ok", "failed"},
   issuedAt : Nat, lifetime : {0} \cup Lifetimes]
Entry == [fetch : Nat, refreshAt : Int, place : Nat]

ASSUME TokenAssumption ==
  /\ PairOf \in [Request -> Pair]
  /\ \A lifetime \in Lifetimes : lifetime \in Nat /\ lifetime % 2 = 0   \* whole seconds
  /\ Skew \in Nat /\ Capacity \in Nat \ {0} /\ MaxFetches \in Nat /\ MaxTime \in Nat
  /\ None \notin Nat /\ None \notin Entry /\ IsFiniteSet(Request)

VARIABLES
  now,
  configuration,  \* "none", "asked" or "known": the discovery every fetch shares
  fetches,        \* every fetch started, in the order they started
  cached,         \* the token kept for each request, by the fetch that brought it
  inserted,       \* the insertions so far, which order a Map's keys
  inFlight,       \* the fetch callers of each request share
  latestFetch,    \* the newest fetch of each pair, until it settles
  failing         \* the pairs the health check names

vars == <<now, configuration, fetches, cached, inserted, inFlight, latestFetch, failing>>

Kept == {r \in Request : cached[r] # None}

TypeOK ==
  /\ now \in Nat /\ configuration \in {"none", "asked", "known"}
  /\ fetches \in Seq(Fetch)
  /\ cached \in [Request -> Entry \cup {None}] /\ inserted \in Nat
  /\ inFlight \in [Request -> DOMAIN fetches \cup {None}]
  /\ latestFetch \in [Pair -> DOMAIN fetches \cup {None}]
  /\ failing \subseteq Pair
  /\ Cardinality(Kept) <= Capacity

Init ==
  /\ now = 0 /\ configuration = "none" /\ fetches = <<>>
  /\ cached = [r \in Request |-> None] /\ inserted = 0
  /\ inFlight = [r \in Request |-> None]
  /\ latestFetch = [p \in Pair |-> None] /\ failing = {}

-----------------------------------------------------------------------------
(* What a caller does.                                                      *)

\* A token is served from memory, which changes nothing.
Hit(r) == cached[r] # None /\ now < cached[r].refreshAt

\* A fetch starts: it shares the discovery under way, or starts one.
FetchToken(r) ==
  /\ Len(fetches) < MaxFetches
  /\ fetches' = Append(fetches,
       [request |-> r, asked |-> now, issuedAt |-> 0, lifetime |-> 0,
        phase |-> IF configuration = "known" THEN "asking" ELSE "discovering"])
  /\ configuration' = IF configuration = "none" THEN "asked" ELSE configuration
  /\ latestFetch' = [latestFetch EXCEPT ![PairOf[r]] = Len(fetches) + 1]
  /\ inFlight' = [inFlight EXCEPT ![r] = Len(fetches) + 1]

\* Wrong: a caller who finds no fresh token always fetches one.
TokenUnshared(r) ==
  /\ ~Hit(r)
  /\ cached' = [cached EXCEPT ![r] = None]
  /\ FetchToken(r)
  /\ UNCHANGED <<now, inserted, failing>>

\* token(): no fresh token is kept, so the caller joins the fetch under way or starts one.
Token(r) ==
  /\ ~Hit(r)
  /\ cached' = [cached EXCEPT ![r] = None]
  /\ IF inFlight[r] # None THEN UNCHANGED <<fetches, configuration, latestFetch, inFlight>>
                           ELSE FetchToken(r)
  /\ UNCHANGED <<now, inserted, failing>>

-----------------------------------------------------------------------------
(* What becomes of a fetch.                                                 *)

\* The discovery every waiting fetch shares settles; a failed one is forgotten.
Discovered(ok) ==
  /\ configuration = "asked"
  /\ configuration' = IF ok THEN "known" ELSE "none"
  /\ fetches' = [f \in DOMAIN fetches |->
       IF fetches[f].phase # "discovering" THEN fetches[f]
       ELSE [fetches[f] EXCEPT !.phase = IF ok THEN "asking" ELSE "undiscovered"]]
  /\ UNCHANGED <<now, cached, inserted, inFlight, latestFetch, failing>>

\* The issuer mints a token, which takes time to arrive.
Issue(f, lifetime) ==
  /\ fetches[f].phase = "asking"
  /\ fetches' = [fetches EXCEPT ![f] = [@ EXCEPT !.phase = "issued", !.issuedAt = now,
                                                 !.lifetime = lifetime]]
  /\ UNCHANGED <<now, configuration, cached, inserted, inFlight, latestFetch, failing>>

Ended(f, phase) ==
  /\ fetches' = [fetches EXCEPT ![f] = [@ EXCEPT !.phase = phase]]
  /\ inFlight' = [inFlight EXCEPT ![fetches[f].request] = None]
  /\ UNCHANGED <<now, configuration>>

\* Wrong: any fetch that settles says how its pair fares.
ReportAny(p, f, failed) ==
  /\ latestFetch' = [latestFetch EXCEPT ![p] = IF @ = f THEN None ELSE @]
  /\ failing' = IF failed THEN failing \cup {p} ELSE failing \ {p}

\* Only the newest fetch of a pair says how the pair fares.
Report(p, f, failed) ==
  IF latestFetch[p] = f
  THEN /\ latestFetch' = [latestFetch EXCEPT ![p] = None]
       /\ failing' = IF failed THEN failing \cup {p} ELSE failing \ {p}
  ELSE UNCHANGED <<latestFetch, failing>>

\* How long before its expiry a token stops being handed out.
Margin(lifetime) == IF Skew < lifetime \div 2 THEN Skew ELSE lifetime \div 2

\* Wrong: a lifetime counted from when the token arrived.
RefreshAtArrival(fetch) == now + fetch.lifetime - Margin(fetch.lifetime)

\* Counted from when it was asked for, the issuer having minted it since.
RefreshAt(fetch) == fetch.asked + fetch.lifetime - Margin(fetch.lifetime)

\* A Map orders its keys by when each was first inserted; past the limit the oldest goes.
Keep(r, entry) ==
  LET filled == [cached EXCEPT ![r] = entry]
      held == {q \in Request : filled[q] # None}
      oldest == {q \in held : \A o \in held : filled[q].place <= filled[o].place}
  IN  cached' = IF Cardinality(held) <= Capacity THEN filled
                ELSE [q \in Request |-> IF q \in oldest THEN None ELSE filled[q]]

\* The token arrives.
Fetched(f) ==
  LET r == fetches[f].request IN
  /\ fetches[f].phase = "issued"
  /\ Ended(f, "ok") /\ Report(PairOf[r], f, FALSE)
  /\ Keep(r, [fetch |-> f, refreshAt |-> RefreshAt(fetches[f]),
              place |-> IF cached[r] = None THEN inserted ELSE cached[r].place])
  /\ inserted' = inserted + 1

\* It was refused, or an answer never came; nothing is kept of the failure.
Failed(f) ==
  /\ fetches[f].phase \in {"undiscovered", "asking", "issued"}
  /\ Ended(f, "failed") /\ Report(PairOf[fetches[f].request], f, TRUE)
  /\ UNCHANGED <<cached, inserted>>

Tick ==
  /\ now < MaxTime
  /\ now' = now + 1
  /\ UNCHANGED <<configuration, fetches, cached, inserted, inFlight, latestFetch, failing>>

Next ==
  \/ \E r \in Request : Token(r)
  \/ \E ok \in BOOLEAN : Discovered(ok)
  \/ \E f \in DOMAIN fetches :
       \/ \E lifetime \in Lifetimes : Issue(f, lifetime)
       \/ Fetched(f)
       \/ Failed(f)
  \/ Tick

Spec == Init /\ [][Next]_vars

-----------------------------------------------------------------------------

Outstanding == {f \in DOMAIN fetches : fetches[f].phase \in Waiting}
OfPair(p) == {f \in DOMAIN fetches : PairOf[fetches[f].request] = p}
Newest(p) == CHOOSE f \in OfPair(p) : \A g \in OfPair(p) : g <= f

\* Callers of one request share one fetch for as long as it is outstanding and no longer: no two
\* fetches are ever outstanding for it, and a settled one, failed above all, is joined by nobody.
OneFetchPerRequest ==
  \A r \in Request : {f \in Outstanding : fetches[f].request = r} = {inFlight[r]} \ {None}

\* The health check tells what the newest-started fetch of each audience and scope came to, as
\* soon as it has settled and however late older ones settle.
HealthIsNewest ==
  \A p \in Pair : OfPair(p) # {} /\ Newest(p) \notin Outstanding =>
    (p \in failing <=> fetches[Newest(p)].phase = "failed")

\* A token served from memory outlives the call it is served for by Skew or half its lifetime,
\* counted from when the issuer minted it, however long it was under way.
ServedFresh ==
  \A r \in Request : Hit(r) =>
    LET fetch == fetches[cached[r].fetch] IN
    /\ fetch.request = r /\ fetch.phase = "ok"
    /\ \/ now + Skew < fetch.issuedAt + fetch.lifetime
       \/ 2 * (fetch.issuedAt + fetch.lifetime - now) > fetch.lifetime

\* What callers and the health check are told is what the newest exchange came to, in time.
ToldTheNewest == HealthIsNewest /\ ServedFresh
=============================================================================
