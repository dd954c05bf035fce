------------------------------ MODULE Reloading ------------------------------
(***************************************************************************)
(* The periodic re-reading of a Temporal connection's credentials          *)
(* (connection-security.ts of temporal-worker and of temporal-client, the  *)
(* same code in both): a tick reads them, applies what changed, and only   *)
(* then schedules the next one.                                            *)
(*                                                                         *)
(* What applying does, and what a lost source brings down, is the user's:  *)
(* TemporalWorker and TemporalClient.                                      *)
(***************************************************************************)
EXTENDS Naturals, Sequences, FiniteSets

CONSTANTS Tls, Key   \* TLS files and API keys, by content

VARIABLES
  source,     \* the application provides the keys (TemporalApiKeySource): settled at boot
  tick,       \* the timer, or how far the tick in flight is
  stopped,
  retry,      \* the next reading rebuilds the connection whatever it reads
  current,    \* the credentials last applied
  next        \* those being applied

reloadingVars == <<source, tick, stopped, retry, current, next>>

Credentials == [tls : Tls, key : Key]

InFlight == tick \in {"reading", "connecting", "setting", "closing", "losing"}

ReloadingTypeOK ==
  /\ source \in BOOLEAN
  /\ InFlight \/ tick \in {"scheduled", "off"}
  /\ stopped \in BOOLEAN /\ retry \in BOOLEAN
  /\ current \in Credentials /\ next \in Credentials

ReloadingInit(credentials) ==
  /\ source \in BOOLEAN
  /\ tick = "scheduled" /\ stopped = FALSE /\ retry = FALSE
  /\ current = credentials /\ next = credentials

\* Wrong: the key is looked at first.
ChangeOfKeyFirst(reading) ==
  CASE ~retry /\ reading.key # current.key -> "key"
    [] retry \/ (reading.tls # current.tls /\ reading.key = current.key) -> "tls"
    [] OTHER -> "none"

\* A TLS change takes a new connection; a key alone is set on the one there is.
ChangeOf(reading) ==
  CASE retry \/ reading.tls # current.tls -> "tls"
    [] ~retry /\ reading.tls = current.tls /\ reading.key # current.key -> "key"
    [] OTHER -> "none"

TimerFires ==
  /\ tick = "scheduled"
  /\ tick' = "reading"
  /\ UNCHANGED <<source, stopped, retry, current, next>>

\* The reading changed something, and is handed on to be applied.
StartApplying(reading) ==
  /\ tick = "reading" /\ ~stopped /\ ChangeOf(reading) # "none"
  /\ tick' = IF ChangeOf(reading) = "tls" THEN "connecting" ELSE "setting"
  /\ next' = reading
  /\ UNCHANGED <<source, stopped, retry, current>>

\* again()
Again == tick' = IF stopped THEN "off" ELSE "scheduled"

\* A tick that applied nothing, and one that applied what it read.
Unchanged == Again /\ UNCHANGED <<source, stopped, retry, current, next>>
Applied == Again /\ current' = next /\ retry' = FALSE /\ UNCHANGED <<source, stopped, next>>

\* A failed tick costs nothing but that tick, unless the source is what failed.
Tolerated == ~source \/ stopped

\* stop(), and what it leaves of the timer; a tick in flight goes on, and the caller waits for it.
StopReloading ==
  /\ stopped' = TRUE
  /\ tick' = IF tick = "scheduled" THEN "off" ELSE tick
  /\ UNCHANGED <<source, retry, current, next>>
=============================================================================
