---------------------------- MODULE RequestReply ----------------------------
(***************************************************************************)
(* What both servers promise a client: its requests are answered in the    *)
(* order they were sent and each at most once, and nothing is answered     *)
(* once the connection is closed.  The message server answers every        *)
(* request before the next one, the HTTP server may leave one without an   *)
(* answer.  MessageConnection and HttpSession are shown to implement this. *)
(***************************************************************************)
EXTENDS Naturals, Sequences

CONSTANT Skips  \* whether a request may be left without an answer

VARIABLES
  asked,     \* how many requests the client has sent
  replies,   \* the requests that were answered, by their numbers
  closed

vars == <<asked, replies, closed>>

Init == asked = 0 /\ replies = <<>> /\ closed = FALSE

Ask == asked' = asked + 1 /\ UNCHANGED <<replies, closed>>

Reply ==
  /\ ~closed
  /\ \E id \in 1 .. asked :
       /\ \A i \in 1 .. Len(replies) : replies[i] < id
       /\ Skips \/ id = Len(replies) + 1
       /\ replies' = Append(replies, id)
  /\ closed' \in BOOLEAN  \* the last answer may close the connection
  /\ UNCHANGED asked

Close == closed' = TRUE /\ UNCHANGED <<asked, replies>>

Next == Ask \/ Reply \/ Close

Spec == Init /\ [][Next]_vars
=============================================================================
