----------------------------- MODULE MCSessions -----------------------------
(* Sessions for TLC: two connects at a time and one request, any of Ops. *)
EXTENDS Sessions, TLC

Symmetric == Permutations(Clients) \cup Permutations(Runtimes) \cup Permutations(Requests)
=============================================================================
