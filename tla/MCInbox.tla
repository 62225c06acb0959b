------------------------------ MODULE MCInbox ------------------------------
(* Small instances of Inbox for TLC. *)
EXTENDS Inbox

\* A text, an image as it comes in a chat with disappearing messages, a tap on a button.
ThreeForms == [m \in Messages |->
  CASE m % 3 = 0 -> [kind |-> "conversation", wrapped |-> FALSE, has |-> {"text"},
                     quotes |-> "nothing"]
    [] m % 3 = 1 -> [kind |-> "image", wrapped |-> TRUE, has |-> {"caption", "pointer"},
                     quotes |-> "sender"]
    [] OTHER     -> [kind |-> "buttons_response", wrapped |-> FALSE, has |-> {"id"},
                     quotes |-> "id"]]
=============================================================================
