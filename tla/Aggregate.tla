------------------------------ MODULE Aggregate ------------------------------
(***************************************************************************)
(* One aggregate of packages/entity (aggregate.ts) and the repository that *)
(* stores it, in the two styles of examples/entity-billing-persistence:    *)
(* the state with its events in an outbox, or the stream of its events.    *)
(*                                                                         *)
(* Handlers hold instances, which are immutable: a command gives another   *)
(* instance, and the earlier one can decide again.  An instance carries    *)
(* every event decided since it was loaded and the version the store must  *)
(* still be at; the repository compares it, and nothing else orders saves. *)
(***************************************************************************)
EXTENDS Naturals, Sequences, Functions

CONSTANTS
  Handler,    \* the instances held at once (a bound)
  MaxEvents   \* a bound on the events ever decided


VARIABLES
  style,     \* how the repository stores: "state" or "events"; never changes
  decided,   \* the events decided so far
  held,      \* the instance each handler holds, if any
  log,       \* the outbox, or the stream
  version,   \* the version of the row, or the length of the stream; 0 if there is neither
  row,       \* the stored state, which is here the events it folds
  ended      \* whether the repository keeps a tombstone

aggregateVars == <<style, decided, held, log, version, row, ended>>

Types == {"open", "step", "end"}
None == [state |-> <<>>, version |-> 0, pending |-> <<>>, ended |-> FALSE]
Named(type, n) == [type |-> type, id |-> n]
IsTerminal(e) == e.type = "end"

Init ==
  /\ style \in {"state", "events"}
  /\ decided = 0
  /\ held = [h \in Handler |-> None]
  /\ log = <<>> /\ version = 0 /\ row = <<>> /\ ended = FALSE

store == <<style, log, version, row, ended>>

-----------------------------------------------------------------------------
(* The aggregate.                                                           *)

\* Wrong: only the events of the last command are carried.
DecideLast(from, events) ==
  [state |-> from.state \o events, version |-> from.version, pending |-> events,
   ended |-> from.ended \/ \E i \in DOMAIN events : IsTerminal(events[i])]

\* Wrong: the expected version follows the events, before they are stored.
DecideAhead(from, events) ==
  [state |-> from.state \o events, version |-> from.version + Len(from.pending),
   pending |-> from.pending \o events,
   ended |-> from.ended \/ \E i \in DOMAIN events : IsTerminal(events[i])]

\* decide: the folded state, every event since the load, and the version of the load.
Decide(from, events) ==
  [state |-> from.state \o events, version |-> from.version, pending |-> from.pending \o events,
   ended |-> from.ended \/ \E i \in DOMAIN events : IsTerminal(events[i])]

\* start: an opening event, of an aggregate that was never stored.
Start(h) ==
  /\ decided < MaxEvents
  /\ decided' = decided + 1
  /\ held' = [held EXCEPT ![h] = Decide(None, <<Named("open", decided + 1)>>)]
  /\ UNCHANGED store

\* Wrong: what was decided before is not asked whether it ended the aggregate.
CanDecideAnew(from, types) ==
  /\ from # None
  /\ \A i \in DOMAIN types : types[i] # "open"
  /\ \A i \in DOMAIN types : types[i] = "end" => i = Len(types)

\* An instance of start, emit, make or replay decides on events that open nothing, of which
\* only the last may end the aggregate, if nothing has ended it; anything else is a defect.
CanDecide(from, types) ==
  /\ from # None /\ ~from.ended
  /\ \A i \in DOMAIN types : types[i] # "open"
  /\ \A i \in DOMAIN types : types[i] = "end" => i = Len(types)

\* emit, on the instance `from` holds; what it gives is another instance.
Emit(from, to, types) ==
  /\ CanDecide(held[from], types)
  /\ decided + Len(types) <= MaxEvents
  /\ decided' = decided + Len(types)
  /\ held' = [held EXCEPT ![to] =
       Decide(held[from], [i \in DOMAIN types |-> Named(types[i], decided + i)])]
  /\ UNCHANGED store

\* A stream replay accepts: it opens the aggregate once, and stops at its terminal event.
Replayable(s) ==
  /\ s # <<>>
  /\ \A i \in DOMAIN s : (s[i].type = "open") <=> (i = 1)
  /\ \A i \in DOMAIN s : IsTerminal(s[i]) => i = Len(s)

\* replay: the version is the length of the stream.
Replay(h) ==
  /\ style = "events" /\ Replayable(log)
  /\ held' = [held EXCEPT ![h] =
       [state |-> log, version |-> Len(log), pending |-> <<>>, ended |-> IsTerminal(log[Len(log)])]]
  /\ UNCHANGED <<decided, store>>

\* make, of a row that is no tombstone, at the version it was loaded at.
Make(h) ==
  /\ style = "state" /\ version > 0 /\ ~ended
  /\ held' = [held EXCEPT ![h] =
       [state |-> row, version |-> version, pending |-> <<>>, ended |-> FALSE]]
  /\ UNCHANGED <<decided, store>>

-----------------------------------------------------------------------------
(* The repository.                                                          *)

\* save: the decision's events, and its state or a tombstone, in one step, if the store is
\* still at the version the decision expects; otherwise a conflict, and nothing changes.
Save(h) ==
  /\ held[h].pending # <<>>
  /\ held[h].version = version
  /\ log' = log \o held[h].pending
  /\ version' = IF style = "state" THEN version + 1 ELSE Len(log')
  /\ row' = IF held[h].ended \/ style = "events" THEN <<>> ELSE held[h].state
  /\ ended' = held[h].ended
  /\ UNCHANGED <<style, decided, held>>

-----------------------------------------------------------------------------

Batches == {<<t>> : t \in Types} \cup {<<t, u>> : t, u \in Types}

Next ==
  \/ \E h \in Handler : Start(h) \/ Replay(h) \/ Make(h) \/ Save(h)
  \/ \E from, to \in Handler, types \in Batches : Emit(from, to, types)

Spec == Init /\ [][Next]_aggregateVars

-----------------------------------------------------------------------------
(* Properties.                                                              *)

Event == [type : Types, id : 1..MaxEvents]

TypeOK ==
  /\ style \in {"state", "events"} /\ decided \in 0..MaxEvents
  /\ version \in Nat /\ ended \in BOOLEAN
  /\ \A s \in {log, row} \cup UNION {{held[h].state, held[h].pending} : h \in Handler} :
       s \in Seq(Event)
  /\ \A h \in Handler : held[h].version \in Nat /\ held[h].ended \in BOOLEAN

\* Whatever instances the handlers decide from, chain, keep and save again, each event is
\* stored at most once: a save of what is stored already is a conflict.
EachEventStoredOnce == IsInjective([i \in DOMAIN log |-> log[i].id])

\* What is stored is always a stream that replay accepts, it is over exactly when the
\* repository says so, and the row is the state its events give.
StoredReplays ==
  log # <<>> =>
    /\ Replayable(log)
    /\ ended <=> IsTerminal(log[Len(log)])
    /\ style = "state" /\ ~ended => row = log

\* The stored history is one history: no event twice, and one that the class itself accepts.
OneHistory == EachEventStoredOnce /\ StoredReplays

=============================================================================
