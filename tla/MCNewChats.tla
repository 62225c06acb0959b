---------------------------- MODULE MCNewChats ----------------------------
(* Small instances of NewChats for TLC. *)
EXTENDS NewChats, TLC

\* Chats and sends are interchangeable.
Symmetry == Permutations(Chats) \cup Permutations(Sends)

\* One chat, in a window that outlasts the instance.
OneChat == {[max |-> 1, window |-> 2]}
=============================================================================
