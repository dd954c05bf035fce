--------------------------- MODULE CacheReadThrough ---------------------------
(***************************************************************************)
(* One key of the cache (packages/cache/src: readThrough over the memory   *)
(* and the Redis backend): get, set, delete, and getOrSet, which reads,    *)
(* loads on a miss and writes what it loaded.                              *)
(*                                                                         *)
(* What the key stands for lives elsewhere and changes: an application     *)
(* changes it and then deletes or sets the key.  The cache does not        *)
(* coordinate those calls, and any of them may fail: a command whose       *)
(* failure is reported may have been executed all the same.                *)
(***************************************************************************)
EXTENDS Naturals

CONSTANTS
  Caller,       \* the calls that may be under way at once (a bound)
  MaxVersion    \* a bound on the changes of what the key stands for


VARIABLES
  truth,    \* the version of what the key stands for
  entry,     \* what the backend holds: its version, and whether it expires
  call,      \* the calls: where each stands, its ttl, and the version it has in hand
  known,     \* the newest version whose write or delete was acknowledged
  overtaken, \* calls that had a version in hand when that was acknowledged
  late       \* whether the entry was stored by one of those

cacheVars == <<truth, entry, call, known, overtaken, late>>

Versions == 0..MaxVersion
\* The ttlMs of a call: none, a whole millisecond or more, or less than one.
Ttls == {"forever", "some", "less"}

NoEntry == [version |-> 0, expires |-> FALSE, held |-> FALSE]
IdleCall == [at |-> "idle", ttl |-> "forever", has |-> 0]

Init ==
  /\ truth = 0
  /\ entry = NoEntry
  /\ call = [c \in Caller |-> IdleCall]
  /\ known = 0 /\ overtaken = {} /\ late = FALSE

-----------------------------------------------------------------------------
(* The backend.                                                             *)

\* set: a ttl of less than a millisecond stores nothing, and leaves what there is.
Stored(version, ttl) ==
  IF ttl = "less" THEN UNCHANGED entry
  ELSE entry' = [version |-> version, expires |-> ttl = "some", held |-> TRUE]

\* The ttl of an entry has passed: the next get finds none.
Expire ==
  /\ entry.held /\ entry.expires
  /\ entry' = NoEntry /\ late' = FALSE
  /\ UNCHANGED <<truth, call, known, overtaken>>

\* The calls that hold a version from before this instant, and may store it after.
InHand == {c \in Caller : call[c].at \in {"storing", "changed"}}

\* A version is known to every caller that asks from now on.
Acknowledged(c, version) ==
  /\ known' = IF version > known THEN version ELSE known
  /\ overtaken' = IF version >= known THEN InHand \ {c} ELSE overtaken \ {c}

Idle(c) == call' = [call EXCEPT ![c] = IdleCall]

-----------------------------------------------------------------------------
(* getOrSet.  A hit is answered with the entry, and changes nothing.        *)

\* No entry, an unavailable backend, or bytes it did not write: the loader is called.
Miss(c, ttl, available) ==
  /\ call[c].at = "idle"
  /\ available => ~entry.held
  /\ call' = [call EXCEPT ![c] = [at |-> "loading", ttl |-> ttl, has |-> 0]]
  /\ UNCHANGED <<truth, entry, known, overtaken, late>>

\* The loader reads what the key stands for.
Load(c) ==
  /\ call[c].at = "loading"
  /\ call' = [call EXCEPT ![c].at = "storing", ![c].has = truth]
  /\ UNCHANGED <<truth, entry, known, overtaken, late>>

\* The loader fails: its error is the answer, and nothing is stored.
LoadFails(c) ==
  /\ call[c].at = "loading"
  /\ Idle(c)
  /\ UNCHANGED <<truth, entry, known, overtaken, late>>

\* The value is stored if it can be, and is the answer either way.
Store(c, done) ==
  /\ call[c].at = "storing"
  /\ IF done THEN Stored(call[c].has, call[c].ttl) ELSE UNCHANGED entry
  /\ late' = IF entry' # entry THEN c \in overtaken ELSE late
  /\ overtaken' = overtaken \ {c}
  /\ Idle(c)
  /\ UNCHANGED <<truth, known>>

-----------------------------------------------------------------------------
(* A change of what the key stands for, and the set or delete that follows. *)

Change(c) ==
  /\ call[c].at = "idle" /\ truth < MaxVersion
  /\ truth' = truth + 1
  /\ call' = [call EXCEPT ![c] = [at |-> "changed", ttl |-> "forever", has |-> truth + 1]]
  /\ UNCHANGED <<entry, known, overtaken, late>>

\* Wrong: a failure of the delete is left out, as that of a read is.
DeleteBestEffort(c, done, told) ==
  /\ call[c].at = "changed"
  /\ IF done THEN entry' = NoEntry /\ late' = FALSE ELSE UNCHANGED <<entry, late>>
  /\ Acknowledged(c, call[c].has)
  /\ Idle(c)
  /\ UNCHANGED truth

\* delete: done or not, and acknowledged or failed.
Delete(c, done, told) ==
  /\ call[c].at = "changed"
  /\ told => done
  /\ IF done THEN entry' = NoEntry /\ late' = FALSE ELSE UNCHANGED <<entry, late>>
  /\ IF told THEN Acknowledged(c, call[c].has)
     ELSE overtaken' = overtaken \ {c} /\ UNCHANGED known
  /\ Idle(c)
  /\ UNCHANGED truth

\* set of the changed value, with a ttl that stores it.
Put(c, ttl, done, told) ==
  /\ call[c].at = "changed" /\ ttl # "less"
  /\ told => done
  /\ IF done THEN Stored(call[c].has, ttl) /\ late' = (c \in overtaken)
     ELSE UNCHANGED <<entry, late>>
  /\ IF told THEN Acknowledged(c, call[c].has)
     ELSE overtaken' = overtaken \ {c} /\ UNCHANGED known
  /\ Idle(c)
  /\ UNCHANGED truth

-----------------------------------------------------------------------------

Next ==
  \/ \E c \in Caller :
       \/ Load(c) \/ LoadFails(c) \/ Change(c)
       \/ \E ttl \in Ttls, available \in BOOLEAN : Miss(c, ttl, available)
       \/ \E done \in BOOLEAN : Store(c, done)
       \/ \E done, told \in BOOLEAN : Delete(c, done, told)
       \/ \E ttl \in Ttls, done, told \in BOOLEAN : Put(c, ttl, done, told)
  \/ Expire

Spec == Init /\ [][Next]_cacheVars

-----------------------------------------------------------------------------
(* Properties.                                                              *)

TypeOK ==
  /\ truth \in Versions /\ known \in Versions
  /\ entry \in [version : Versions, expires : BOOLEAN, held : BOOLEAN]
  /\ call \in [Caller -> [at : {"idle", "loading", "storing", "changed"}, ttl : Ttls, has : Versions]]
  /\ overtaken \subseteq Caller /\ late \in BOOLEAN

\* After a delete or a set has been acknowledged, an older value is found under the key only
\* if a call that had it in hand before that stored it after: there is no other stale entry,
\* whatever failed in between.
StaleOnlyFromOvertaken == entry.held /\ entry.version < known => late

=============================================================================
