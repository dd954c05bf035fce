--------------------------- MODULE MCEnvelopeKeys ---------------------------
(***************************************************************************)
(* Two processes, and two generations of one owner.                        *)
(***************************************************************************)
EXTENDS EnvelopeKeys, TLC

CONSTANTS p1, p2, tenant, g1, g2

MCOwnerOf == [g \in Generation |-> tenant]

Alike == {f @@ h : f \in Permutations({p1, p2}), h \in Permutations({g1, g2})}
=============================================================================
