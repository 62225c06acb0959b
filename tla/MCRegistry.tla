----------------------------- MODULE MCRegistry -----------------------------
(* Small instances of Registry for TLC. *)
EXTENDS Registry, TLC

\* One session whose id has a prefix of Prefixes.
OnePrefixed == [s \in Sessions |-> IF s = "a" THEN "p" ELSE None]
\* What lives beside sessions does so apart: each part is asked for together with what
\* happens to sessions.
Parts ==
  {{"create", "register", "unregister", "delete", "purge", "reload"},
   {"set", "add", "remove", "delete"},
   {"create", "delete", "mint", "revoke", "use"}}
\* The requests may change places.
SymmetricRequests == Permutations(Requests)
=============================================================================
