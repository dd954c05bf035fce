--------------------------------- MODULE MCDi ---------------------------------
(* Trees of three providers: over two ports and a set port, and over seeded ones. *)
EXTENDS DiBuild

ThreeProviders == 1..3
Ports == {"a", "b", "set", "Scope", "seeded"}

Trees(provided, needed) ==
  [port : [ThreeProviders -> provided], deps : [ThreeProviders -> SUBSET needed],
   overrides : {{}, {1}, {2}, {3}, {2, 3}}, many : {{"set"}}, seed : {{"Scope", "seeded"}}]

\* Every shape of dependency, and the ports that come from outside the tree.
AllWirings ==
  Trees({"a", "b", "set"}, {"a", "b", "set"}) \cup Trees({"set", "seeded", "Scope"}, {"seeded", "Scope"})
=============================================================================
