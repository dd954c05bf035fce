------------------------------ MODULE HttpExchange ------------------------------
(***************************************************************************)
(* One request of the outbound client (packages/http-client/src/client.ts) *)
(* from the caller's `request` to its answer: the lookup, the connection,  *)
(* the response, the deadline and the caller's signal race, and the first  *)
(* of them finishes the exchange.                                          *)
(*                                                                         *)
(* An address is public, a private one the policy approves for the origin, *)
(* or forbidden.  DNS and the peer are outside, and may answer anything or *)
(* nothing at all.  A response is counted in chunks.                       *)
(***************************************************************************)
EXTENDS Naturals

CONSTANT MaxResponse   \* policy.maxResponseBytes, in chunks

VARIABLES
  wire,       \* the request: none, resolving, connecting, waiting, reading, closed
  reached,    \* history: the kind of address it connected to
  size,       \* what it has received
  timer,      \* the deadline is set
  listening,  \* to the caller's signal
  signalled,  \* the caller has aborted
  reply       \* what the caller is answered

exchangeVars == <<wire, reached, size, timer, listening, signalled, reply>>

Address == {"public", "approved", "forbidden"}
AllowedAddress == {"public", "approved"}

Init ==
  /\ wire = "none" /\ reached = "none" /\ size = 0
  /\ timer = FALSE /\ listening = FALSE /\ signalled \in BOOLEAN
  /\ reply = "none"

\* Wrong: the request lives on when somebody else has answered.
FinishKeepingRequest(how) ==
  /\ reply' = how
  /\ timer' = FALSE /\ listening' = FALSE
  /\ UNCHANGED wire

\* finish: once, and whatever is still under way is taken down.
Finish(how) ==
  /\ reply' = how
  /\ timer' = FALSE /\ listening' = FALSE
  /\ wire' = IF wire = "none" THEN "none" ELSE "closed"

\* request: the policy refuses it before anything is opened.
Refused ==
  /\ reply = "none" /\ wire = "none"
  /\ \E how \in {"rejected", "forbidden"} : reply' = how
  /\ UNCHANGED <<wire, reached, size, timer, listening, signalled>>

\* exchange: to a host by name, or to an address that `destination` let through.
Begin ==
  /\ reply = "none" /\ wire = "none"
  /\ IF signalled
     THEN Finish("cancelled") /\ UNCHANGED reached
     ELSE \/ Finish("unavailable") /\ UNCHANGED reached   \* no identity to present
          \/ /\ timer' = TRUE /\ listening' = TRUE /\ UNCHANGED reply
             /\ \/ wire' = "resolving" /\ UNCHANGED reached
                \/ wire' = "connecting" /\ reached' \in AllowedAddress
  /\ UNCHANGED <<size, signalled>>

\* Wrong: only some of the addresses are looked at.
Trusted(addresses) == addresses \cap AllowedAddress # {}

\* Every address has to be allowed, the one to connect to and the others.
Permitted(addresses) == addresses \subseteq AllowedAddress

\* dns.lookup answers.
Resolve(addresses) ==
  /\ wire = "resolving"
  /\ IF addresses = {} THEN Finish("unavailable") /\ UNCHANGED reached
     ELSE IF ~Permitted(addresses) THEN Finish("forbidden") /\ UNCHANGED reached
     ELSE /\ wire' = "connecting" /\ reached' \in addresses
          /\ UNCHANGED <<timer, listening, reply>>
  /\ UNCHANGED <<size, signalled>>

Connected ==
  /\ wire = "connecting"
  /\ wire' = "waiting"
  /\ UNCHANGED <<reached, size, timer, listening, signalled, reply>>

\* The request's error event, or the response's.
Broken ==
  /\ wire \notin {"none", "closed"}
  /\ Finish("unavailable")
  /\ UNCHANGED <<reached, size, signalled>>

\* Wrong: the deadline is the head's alone.
HeadDisarming ==
  /\ wire = "waiting"
  /\ \/ \E how \in {"redirect", "encoding"} : Finish(how)
     \/ wire' = "reading" /\ timer' = FALSE /\ UNCHANGED <<listening, reply>>
  /\ UNCHANGED <<reached, size, signalled>>

Head ==
  /\ wire = "waiting"
  /\ \/ \E how \in {"redirect", "encoding"} : Finish(how)
     \/ wire' = "reading" /\ UNCHANGED <<timer, listening, reply>>
  /\ UNCHANGED <<reached, size, signalled>>

Data(chunk) ==
  /\ wire = "reading"
  /\ size' = size + chunk
  /\ IF size + chunk > MaxResponse THEN Finish("tooLarge")
                                   ELSE UNCHANGED <<wire, timer, listening, reply>>
  /\ UNCHANGED <<reached, signalled>>

End ==
  /\ wire = "reading"
  /\ Finish("ok")
  /\ UNCHANGED <<reached, size, signalled>>

Deadline ==
  /\ timer
  /\ Finish("deadline")
  /\ UNCHANGED <<reached, size, signalled>>

Abort ==
  /\ ~signalled /\ signalled' = TRUE
  /\ IF listening THEN Finish("cancelled") ELSE UNCHANGED <<wire, timer, listening, reply>>
  /\ UNCHANGED <<reached, size>>

Next ==
  \/ Refused \/ Begin \/ Connected \/ Broken \/ Head \/ End \/ Deadline \/ Abort
  \/ \E addresses \in SUBSET Address : Resolve(addresses)
  \/ \E chunk \in 1..2 : Data(chunk)

\* A timer fires; nobody promises that the peer, DNS or the caller ever does anything.
Fairness == WF_exchangeVars(Deadline)

Spec == Init /\ [][Next]_exchangeVars /\ Fairness

-----------------------------------------------------------------------------
(* Properties.                                                              *)

\* However the races end, an answer is final and leaves nothing behind: no timer, no listener
\* on the caller's signal, no socket.  A body is answered only within the policy's limit, and
\* only of a peer at an allowed address, whatever DNS says.
AnswersLeaveNothing ==
  /\ reply # "none" => ~timer /\ ~listening /\ wire \in {"none", "closed"}
  /\ reply = "ok" => size <= MaxResponse
  /\ reached # "forbidden"
  /\ wire \in {"waiting", "reading"} \/ reply = "ok" => reached # "none"

\* An exchange that has begun is answered, whatever the peer does: by the deadline at the
\* latest, which runs until the last byte.
EveryExchangeAnswers == wire # "none" ~> reply # "none"
=============================================================================
