----------------------------- MODULE AmqpConsumer -----------------------------
(***************************************************************************)
(* The serving consumer of the AMQP runtime (amqp-worker's consume, over   *)
(* releasedBy of packages/core/src/runtime.ts), as the kernel uses it:     *)
(* drain with the signal of its deadline and then stop, or stop alone.     *)
(*                                                                         *)
(* The library's worker and the broker are outside: closing the worker     *)
(* stops deliveries, waits for the handlers under way without a limit of   *)
(* its own, and may fail.  A handler need never end.                       *)
(***************************************************************************)
EXTENDS Naturals

CONSTANT Delivery   \* the messages on the queue (a bound)

VARIABLES
  queued, handling, acked,   \* the messages: at the broker, handled by a unit, settled for good
  close,    \* the memoised close: not begun, running, closed, or defected
  closes,     \* how often the worker was told to close
  deadline,   \* the signal kept from drain: none, pending or aborted
  answer      \* drain and stop: not asked, waiting, or what they answered

messages == <<queued, handling, acked>>
amqpVars == <<messages, close, closes, deadline, answer>>

Calls == {"drain", "stop"}
CloseOver == close \in {"closed", "defected"}

Init ==
  /\ queued = Delivery /\ handling = {} /\ acked = {}
  /\ close = "none" /\ closes = 0 /\ deadline = "none"
  /\ answer = [c \in Calls |-> "none"]

-----------------------------------------------------------------------------
(* The library and the broker.                                              *)

\* A message is delivered to a consumer that is not closing: a unit opens around its handler.
Deliver(d) ==
  /\ d \in queued /\ close = "none"
  /\ queued' = queued \ {d} /\ handling' = handling \cup {d}
  /\ UNCHANGED <<acked, close, closes, deadline, answer>>

\* Its handler is over: acknowledged or dead-lettered, or handed back to be delivered again.
Handled(d, ok) ==
  /\ d \in handling
  /\ handling' = handling \ {d}
  /\ IF ok THEN acked' = acked \cup {d} /\ UNCHANGED queued
           ELSE queued' = queued \cup {d} /\ UNCHANGED acked
  /\ UNCHANGED <<close, closes, deadline, answer>>

\* The close ends when no handler is left; it is over for every call that holds its result.
CloseEnds(how) ==
  /\ close = "running" /\ handling = {}
  /\ close' = how
  /\ UNCHANGED <<messages, closes, deadline, answer>>

-----------------------------------------------------------------------------
(* The serving.                                                             *)

\* Wrong: each call closes the worker.
BeginCloseAgain == close' = "running" /\ closes' = closes + 1

\* beginClose
BeginClose ==
  IF close = "none" THEN close' = "running" /\ closes' = closes + 1
                      ELSE UNCHANGED <<close, closes>>

\* drain: the signal is kept, for stop too.
Drain ==
  /\ answer["drain"] = "none" /\ answer["stop"] = "none"
  /\ deadline' = "pending"
  /\ BeginClose
  /\ answer' = [answer EXCEPT !["drain"] = "waiting"]
  /\ UNCHANGED messages

\* stop, at once or after a drain that was not waited for beyond its deadline.  A drain that
\* ends in a defect has already failed the application.
Stop ==
  /\ answer["stop"] = "none"
  /\ deadline \in {"none", "aborted"} /\ answer["drain"] # "defect"
  /\ BeginClose
  /\ answer' = [answer EXCEPT !["stop"] = "waiting"]
  /\ UNCHANGED <<messages, deadline>>

\* The drain is over or out of time: the kernel aborts the signal either way.
Abort ==
  /\ deadline = "pending"
  /\ deadline' = "aborted"
  /\ UNCHANGED <<messages, close, closes, answer>>

\* A call is answered with the result of the close.
Answer(c) ==
  /\ answer[c] = "waiting" /\ CloseOver
  /\ answer' = [answer EXCEPT ![c] = IF close = "closed" THEN "ok" ELSE "defect"]
  /\ UNCHANGED <<messages, close, closes, deadline>>

\* Wrong: only the drain is released.
ReleaseDrain(c) ==
  /\ c = "drain" /\ answer[c] = "waiting" /\ deadline = "aborted"
  /\ answer' = [answer EXCEPT ![c] = "ok"]
  /\ UNCHANGED <<messages, close, closes, deadline>>

\* Or it is released by the deadline, and what becomes of the close is nobody's any more.
Release(c) ==
  /\ answer[c] = "waiting" /\ deadline = "aborted"
  /\ answer' = [answer EXCEPT ![c] = "ok"]
  /\ UNCHANGED <<messages, close, closes, deadline>>

-----------------------------------------------------------------------------

Next ==
  \/ \E d \in Delivery : Deliver(d) \/ \E ok \in BOOLEAN : Handled(d, ok)
  \/ \E how \in {"closed", "defected"} : CloseEnds(how)
  \/ Drain \/ Stop \/ Abort
  \/ \E c \in Calls : Answer(c) \/ Release(c)

Spec == Init /\ [][Next]_amqpVars

\* The kernel's deadline passes, it stops what it has drained, and continuations run; nobody
\* need drain at all, and no handler and no close need end.
Fairness ==
  /\ WF_amqpVars(Abort)
  /\ WF_amqpVars(deadline = "aborted" /\ Stop)
  /\ \A c \in Calls : WF_amqpVars(Release(c))

FairSpec == Spec /\ Fairness

-----------------------------------------------------------------------------
(* Properties.                                                              *)

TypeOK ==
  /\ queued \cup handling \cup acked = Delivery
  /\ close \in {"none", "running", "closed", "defected"} /\ closes \in Nat
  /\ deadline \in {"none", "pending", "aborted"}
  /\ answer \in [Calls -> {"none", "waiting", "ok", "defect"}]

\* The worker is closed once however often it is asked for, and until the deadline has passed
\* nobody hears that it is closed while a message is still handled, or without hearing how.
CloseHeard ==
  [][/\ closes' <= 1
     /\ \A c \in Calls : answer[c] = "waiting" /\ answer'[c] # "waiting" /\ deadline # "aborted" =>
          /\ handling = {} /\ CloseOver
          /\ answer'[c] = "defect" <=> close = "defected"]_amqpVars

\* Once the application drains, it is stopped within its deadline, or has failed: no handler
\* that never ends can hold it.
StoppedByTheDeadline ==
  answer["drain"] = "waiting" ~> answer["stop"] \in {"ok", "defect"} \/ answer["drain"] = "defect"

\* The consumer is closed exactly once and in time, and both the kernel's calls hear of it.
ClosedInTime == CloseHeard /\ StoppedByTheDeadline

=============================================================================
