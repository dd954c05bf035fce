---------------------------- MODULE MCTokenSource ----------------------------
(***************************************************************************)
(* Two subjects of one audience and scope, and one request of another.     *)
(***************************************************************************)
EXTENDS TokenSource, TLC

CONSTANTS alice, bob, service, delegated, own

MCPairOf == [r \in Request |-> IF r = service THEN own ELSE delegated]

\* The two subjects are alike.
Subjects == Permutations({alice, bob})
=============================================================================
