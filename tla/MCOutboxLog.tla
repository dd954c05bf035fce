------------------------------ MODULE MCOutboxLog ------------------------------
(* The replicas of MCOutbox, with the history of their commits. *)
EXTENDS MCOutbox, OutboxHistory
=============================================================================
