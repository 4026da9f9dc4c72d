----------------------------- MODULE HttpSession -----------------------------
(***************************************************************************)
(* A session of the HTTP server over TLS (HttpServer.cpp): requests are    *)
(* read while answers to earlier ones are still written, up to a limit of  *)
(* answers in the queue, and one timer watches the session.                *)
(*                                                                         *)
(* Every completion runs in the session's strand and is one step.  The     *)
(* session lives as long as an operation that will call back, or a wait of *)
(* its timer, holds it.                                                    *)
(***************************************************************************)
EXTENDS Integers, Sequences

CONSTANTS Limit,        \* Queue::Limit
          MaxRequests,  \* bounds the requests of the client
          MaxThrows     \* bounds the requests whose handling throws

ASSUME LimitAssumption == Limit \in Nat \ {0}
ASSUME BoundsAssumption == MaxRequests \in Nat /\ MaxThrows \in Nat

VARIABLES
  peer,      \* the client: open, closed (its end of stream was sent), broken
  sent,      \* its requests, by what they say of the connection
  rd, wr,    \* where reading and writing are
  reads, writes, shutdowns,  \* operations that will call back
  taken,     \* requests that were read
  throws,    \* how many of them threw
  items,     \* Queue::items_: the answers, by the number of the request
  replies,   \* the requests whose answers were written
  eof,       \* TlsSession::eof_
  deadline,  \* timer_.expiry(): never, ahead, passed
  wait       \* of timer_: none, pending, called (canceled or expired)

vars == <<peer, sent, rd, wr, reads, writes, shutdowns, taken, throws, items, replies,
          eof, deadline, wait>>
opVars    == <<rd, wr, reads, writes>>
queueVars == <<taken, throws, items, replies>>
timerVars == <<eof, shutdowns, deadline, wait>>

Requests == {"keep-alive", "close"}

TypeOK ==
  /\ peer \in {"open", "closed", "broken"}
  /\ sent \in Seq(Requests)
  /\ rd \in {"handshake", "failed", "on", "over"} /\ wr \in {"on", "over"}
  /\ reads \in Nat /\ writes \in Nat /\ shutdowns \in Nat
  /\ taken \in Nat /\ throws \in 0 .. MaxThrows
  /\ items \in Seq(Nat) /\ Len(items) <= Limit
  /\ replies \in Seq(Nat)
  /\ eof \in {"no", "yes"}
  /\ deadline \in {"never", "ahead", "passed"}
  /\ wait \in {"none", "pending", "called"}

\* TlsSession::run: the wait that on_timer began is canceled by expires_after.
Init ==
  /\ peer = "open" /\ sent = <<>>
  /\ rd = "handshake" /\ wr = "on"
  /\ reads = 0 /\ writes = 0 /\ shutdowns = 0
  /\ taken = 0 /\ throws = 0 /\ items = <<>> /\ replies = <<>>
  /\ eof = "no" /\ deadline = "ahead" /\ wait = "called"

(***************************************************************************)
(* The client.                                                             *)
(***************************************************************************)
SendRequest ==
  /\ peer = "open" /\ Len(sent) < MaxRequests
  /\ \E r \in Requests : sent' = Append(sent, r)
  /\ UNCHANGED <<peer, opVars, queueVars, timerVars>>

PeerEnds ==
  /\ peer # "broken"
  /\ peer' \in {"closed", "broken"} \ {peer}
  /\ UNCHANGED <<sent, opVars, queueVars, timerVars>>

-----------------------------------------------------------------------------
\* expires_after: a wait that is pending is canceled, which calls its handler.
SetTimer ==
  /\ deadline' = "ahead"
  /\ wait' = IF wait = "pending" THEN "called" ELSE wait

\* TlsSession::do_close
DoClose == SetTimer /\ eof' = "yes" /\ shutdowns' = shutdowns + 1

\* Reading goes on if it may, and then the timer is set anew.
ReadOn(left, may) ==
  IF may
    THEN reads' = left + 1 /\ SetTimer /\ UNCHANGED <<eof, shutdowns>>
    ELSE reads' = left /\ UNCHANGED timerVars

IsFull(q) == Len(q) >= Limit

Handshake ==
  /\ rd = "handshake"
  /\ \/ peer # "broken" /\ rd' = "on" /\ ReadOn(reads, TRUE)
     \/ rd' = "failed" /\ UNCHANGED <<reads, timerVars>>
  /\ UNCHANGED <<peer, sent, wr, writes, queueVars>>

\* on_read: the handler's answer goes into the queue, and is written at once if it
\* is alone; if the handler threw there is none.
ReadRequest ==
  /\ reads > 0 /\ peer # "broken" /\ taken < Len(sent)
  /\ taken' = taken + 1
  /\ \/ /\ items' = Append(items, taken + 1)
        /\ writes' = IF items = <<>> THEN writes + 1 ELSE writes
        /\ UNCHANGED throws
     \/ throws < MaxThrows /\ throws' = throws + 1 /\ UNCHANGED <<items, writes>>
  /\ ReadOn(reads - 1, ~IsFull(items'))
  /\ UNCHANGED <<peer, sent, rd, wr, replies>>

\* on_read: the end of the stream; or an error, of the connection or in a request.
ReadEnds ==
  /\ reads > 0
  /\ reads' = reads - 1 /\ rd' = "over"
  /\ \/ peer # "open" /\ taken = Len(sent) /\ DoClose
     \/ UNCHANGED timerVars
  /\ UNCHANGED <<peer, sent, wr, writes, queueVars>>

\* Faulty variants of on_write: the queue is looked at after the erase; the item
\* stays.
AskAfterErase ==
  /\ items' = Tail(items)
  /\ writes' = IF items' = <<>> THEN writes - 1 ELSE writes
  /\ ReadOn(reads, IsFull(items'))
KeepItem ==
  /\ items' = items
  /\ writes' = writes
  /\ ReadOn(reads, IsFull(items))

\* Queue::on_write: the next answer is written, and reading goes on if the queue was
\* full.
WriteNext ==
  /\ items' = Tail(items)
  /\ writes' = IF items' = <<>> THEN writes - 1 ELSE writes
  /\ ReadOn(reads, IsFull(items))

\* on_write: an answer that ends the connection stays in the queue.
WriteAnswer ==
  /\ writes > 0 /\ peer # "broken"
  /\ replies' = Append(replies, Head(items))
  /\ \/ /\ sent[Head(items)] = "close"
        /\ DoClose
        /\ wr' = "over" /\ writes' = writes - 1
        /\ UNCHANGED <<reads, items>>
     \/ /\ sent[Head(items)] = "keep-alive"
        /\ WriteNext
        /\ UNCHANGED wr
  /\ UNCHANGED <<peer, sent, rd, taken, throws>>

WriteFails ==
  /\ writes > 0 /\ (peer # "open" \/ eof = "yes")
  /\ writes' = writes - 1 /\ wr' = "over"
  /\ UNCHANGED <<peer, sent, rd, reads, queueVars, timerVars>>

\* on_shutdown: the client has closed, too; or it still sends, or the connection is
\* broken or was never set up, which are errors.
Shutdown ==
  /\ shutdowns > 0
  /\ peer # "open" \/ taken < Len(sent) \/ rd \in {"handshake", "failed"}
  /\ shutdowns' = shutdowns - 1
  /\ UNCHANGED <<peer, sent, opVars, queueVars, eof, deadline, wait>>

(***************************************************************************)
(* The timer.                                                              *)
(***************************************************************************)
DeadlinePasses ==
  /\ deadline = "ahead"
  /\ deadline' = "passed"
  /\ UNCHANGED <<peer, sent, opVars, queueVars, eof, shutdowns, wait>>

TimerExpires ==
  /\ deadline = "passed" /\ wait = "pending"
  /\ wait' = "called"
  /\ UNCHANGED <<peer, sent, opVars, queueVars, eof, shutdowns, deadline>>

\* TlsSession::do_timeout: the first time the session is shut down (which cancels the
\* wait that on_timer began again), the second time the timer is left alone.
DoTimeout ==
  \/ /\ eof = "no" /\ eof' = "yes"
     /\ wait' = "called" /\ deadline' = "ahead" /\ shutdowns' = shutdowns + 1
  \/ /\ eof = "yes"
     /\ wait' = "none" /\ UNCHANGED <<eof, shutdowns, deadline>>

\* Faulty variants: a canceled wait is not followed by another; the wait goes on
\* after the shutdown timed out.
EndWhenCanceled ==
  /\ wait = "called"
  /\ IF deadline = "passed"
       THEN DoTimeout
       ELSE wait' = "none" /\ UNCHANGED <<eof, shutdowns, deadline>>
  /\ UNCHANGED <<peer, sent, opVars, queueVars>>
WaitForEver ==
  /\ wait = "called"
  /\ IF deadline = "passed" /\ eof = "no"
       THEN DoTimeout
       ELSE wait' = "pending" /\ UNCHANGED <<eof, shutdowns, deadline>>
  /\ UNCHANGED <<peer, sent, opVars, queueVars>>

\* on_timer: a deadline that has moved is waited for again.
OnTimer ==
  /\ wait = "called"
  /\ IF deadline = "passed"
       THEN DoTimeout
       ELSE wait' = "pending" /\ UNCHANGED <<eof, shutdowns, deadline>>
  /\ UNCHANGED <<peer, sent, opVars, queueVars>>

-----------------------------------------------------------------------------
Complete == Handshake \/ ReadRequest \/ ReadEnds \/ WriteAnswer \/ WriteFails \/ Shutdown

Next ==
  \/ SendRequest \/ PeerEnds
  \/ Complete
  \/ DeadlinePasses \/ TimerExpires \/ OnTimer

Spec == Init /\ [][Next]_vars

\* The strand runs, time passes, and operations on a connection that the client has
\* closed or lost complete.  A client that is there owes nothing.
Fairness ==
  /\ WF_vars(peer # "open" /\ Handshake)
  /\ WF_vars(peer # "open" /\ (ReadRequest \/ ReadEnds))
  /\ WF_vars(peer # "open" /\ (WriteAnswer \/ WriteFails))
  /\ WF_vars(Shutdown)
  /\ WF_vars(DeadlinePasses) /\ WF_vars(TimerExpires) /\ WF_vars(OnTimer)

FairSpec == Spec /\ Fairness

-----------------------------------------------------------------------------
(***************************************************************************)
(* Properties.                                                             *)
(***************************************************************************)
\* While requests can be read, one read is under way exactly if there is room for
\* its answer; while answers can be written, the first is being written.  So a full
\* queue stops reading and a written answer starts it again, never twice.
NeverStuckNorTwice ==
  /\ reads <= 1 /\ writes <= 1
  /\ rd = "on" => (reads = 1 <=> ~IsFull(items))
  /\ wr = "on" => (writes = 1 <=> items # <<>>)

\* What clients that pipeline their requests rely on: answers in order.
Pipeline == INSTANCE RequestReply
              WITH Skips <- TRUE, asked <- Len(sent), closed <- wr = "over"
ImplementsReplies == Pipeline!Spec

\* No session is forgotten by its timer, whatever moves the deadline: one whose
\* client does nothing more is shut down.
SessionShutsDown == <>(eof = "yes")

\* Nothing holds the session any more, so that it is freed and its socket closed.
Freed == rd # "handshake" /\ reads + writes + shutdowns = 0 /\ wait = "none"

\* When the client has closed the connection, or lost it, the session is freed.
SessionFreed == peer # "open" ~> Freed

\* Pipelining loses no answer: each request that was read has been answered, has its
\* answer in the queue, or its handler threw.  An answer that ends the connection is
\* written and stays in the queue.
Ending ==
  IF wr = "over" /\ replies # <<>> /\ replies[Len(replies)] = items[1] THEN 1 ELSE 0
NoAnswerIsLost == taken + Ending = throws + Len(replies) + Len(items)

\* Until it is shut down a session has a wait of its timer that will be called, or has
\* been: no interleaving of reads, writes and waits leaves a session without one.
SessionIsWatched == eof = "no" => wait # "none"

\* The inductive invariant: where reading and writing are against the queue, and how
\* the numbers of the requests are ordered.
FlowInv ==
  /\ rd # "on" => reads = 0
  /\ rd \in {"handshake", "failed"} => items = <<>>
  /\ rd = "over" => ~IsFull(items)
  /\ wr = "over" => writes = 0 /\ items # <<>>
OrderInv ==
  /\ taken <= Len(sent)
  /\ \A i \in 1 .. Len(items) : items[i] \in 1 .. taken
  /\ \A i \in 1 .. Len(replies) : replies[i] \in 1 .. taken
  /\ \A i, j \in 1 .. Len(items) : i < j => items[i] < items[j]
  /\ wr = "on" =>
       \A i \in 1 .. Len(replies), j \in 1 .. Len(items) : replies[i] < items[j]
SessionInv == TypeOK /\ NeverStuckNorTwice /\ FlowInv /\ OrderInv
=============================================================================
