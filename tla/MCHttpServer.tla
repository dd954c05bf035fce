----------------------------- MODULE MCHttpServer -----------------------------
(* Connections and requests are interchangeable. *)
EXTENDS HttpServer, TLC

Symmetry == Permutations(Socket) \cup Permutations(Unit)
=============================================================================
