-------------------------------- MODULE MCOidc --------------------------------
(* One browser, to which links also bring the flows that others began; the sessions of one
   login, beside the manager of another.  References are drawn at random, and all sessions are
   one login's, so references are interchangeable. *)
EXTENDS OidcLogin, TLC

CONSTANTS s1, s2, web, staff

OneLogin == [r \in Ref |-> web]

Alike == Permutations(Browser) \cup Permutations(Call) \cup Permutations(Ref)
=============================================================================
