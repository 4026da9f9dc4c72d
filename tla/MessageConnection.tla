-------------------------- MODULE MessageConnection --------------------------
(***************************************************************************)
(* One connection of the message server: the TLS handshake with its        *)
(* timeout (TlsHandshaker.cpp), and the MessageClient that reads a         *)
(* request, handles it, writes the answer into the same buffer and sends   *)
(* it (MessageServer.cpp).  Connections share nothing but the table of     *)
(* handlers, which is complete before the first of them is accepted.       *)
(*                                                                         *)
(* Completions of reads, writes and waits are called on any io thread and  *)
(* take the client's mutex.  A wait that has expired is queued: canceling  *)
(* the timer does not take it back.  A handler runs under the mutex, and   *)
(* may take long.                                                          *)
(***************************************************************************)
EXTENDS Integers, Sequences

CONSTANTS HeaderLen,      \* sizeof(MessageHeader)
          MaxMessageLen,
          MaxRequests,    \* bounds the requests of the client
          MaxFaults       \* bounds the exceptions when a read or write is begun

ASSUME LengthsAssumption == /\ HeaderLen \in Nat \ {0}
                            /\ MaxMessageLen \in Nat /\ HeaderLen <= MaxMessageLen
ASSUME RequestsAssumption == MaxRequests \in Nat /\ MaxFaults \in Nat

VARIABLES
  up,          \* the server process is alive
  peer,        \* the client is there
  sent,        \* the lengths of the requests the client has sent
  sock,        \* the socket is open
  hsConn,      \* the handshake's context has the connection
  hsTimer,     \* its timer
  hsOp,        \* the handshake is not over
  conn,        \* MessageClient::conn: the client object has the connection
  ops,         \* what has the buffer: a read or write that will call back, a
               \* running handler (which has the mutex, too)
  recvPos, transmitPos,
  buf,         \* msg_buf: the id and the length in its header, once it is complete
  taken,       \* requests that were read completely
  armed,       \* how often timeout_timer was set
  wait, due,   \* the wait that is pending (0: none); expired waits in the queue
  replies,     \* ids of the answers that were sent completely
  faults       \* exceptions so far

hsVars    == <<hsConn, hsTimer, hsOp>>
timerVars == <<armed, wait, due>>
msgVars   == <<recvPos, transmitPos, buf, taken, replies>>
vars == <<up, peer, sent, sock, hsConn, hsTimer, hsOp, conn, ops, recvPos,
          transmitPos, buf, taken, armed, wait, due, replies, faults>>

Lengths == HeaderLen .. MaxMessageLen
TooLong == MaxMessageLen + 1     \* stands for every greater length
TooShort == HeaderLen - 1        \* stands for every length below the header's
Calls   == {"header", "body", "write"}

FlagsOK ==
  /\ up \in BOOLEAN /\ peer \in BOOLEAN /\ sock \in BOOLEAN
  /\ hsConn \in BOOLEAN /\ hsOp \in BOOLEAN /\ conn \in BOOLEAN
DataOK ==
  /\ sent \in Seq(Lengths \union {TooShort, TooLong})
  /\ hsTimer \in {"waiting", "due", "over"}
  /\ ops \subseteq Calls \union {"handler"}
  /\ recvPos \in Nat /\ transmitPos \in 0 .. MaxMessageLen
  /\ buf \in [id : Nat, length : Lengths \union {0, TooShort}]
  /\ taken \in Nat /\ replies \in Seq(Nat)
  /\ armed \in Nat /\ wait \in 0 .. armed /\ due \subseteq 1 .. armed
  /\ faults \in 0 .. MaxFaults
TypeOK == FlagsOK /\ DataOK

\* TlsHandshaker::begin_handshake has moved the connection into its context.
Init ==
  /\ up = TRUE /\ peer = TRUE /\ sock = TRUE
  /\ sent = <<>>
  /\ hsConn = TRUE /\ hsTimer = "waiting" /\ hsOp = TRUE
  /\ conn = FALSE /\ ops = {}
  /\ recvPos = 0 /\ transmitPos = 0
  /\ buf = [id |-> 0, length |-> 0]
  /\ taken = 0 /\ armed = 0 /\ wait = 0 /\ due = {}
  /\ replies = <<>>
  /\ faults = 0

(***************************************************************************)
(* The client.  It need not wait for an answer before the next request;    *)
(* the length in a header may be more than the server takes, or less than  *)
(* the header itself.                                                      *)
(***************************************************************************)
SendRequest ==
  /\ peer /\ Len(sent) < MaxRequests
  /\ \E len \in Lengths \union {TooShort, TooLong} : sent' = Append(sent, len)
  /\ UNCHANGED <<up, peer, sock, hsVars, conn, ops, msgVars, timerVars, faults>>

PeerGone ==
  /\ peer /\ peer' = FALSE
  /\ UNCHANGED <<up, sent, sock, hsVars, conn, ops, msgVars, timerVars, faults>>

(***************************************************************************)
(* The handshake.                                                          *)
(***************************************************************************)
HandshakeTimerExpires ==
  /\ up /\ hsTimer = "waiting"
  /\ hsTimer' = "due"
  /\ UNCHANGED <<up, peer, sent, sock, hsConn, hsOp, conn, ops, msgVars, timerVars,
                 faults>>

\* The timer's handler closes the connection if it is still in the context.
HandshakeTimesOut ==
  /\ up /\ hsTimer = "due"
  /\ hsTimer' = "over"
  /\ hsConn' = FALSE
  /\ sock' = IF hsConn THEN FALSE ELSE sock
  /\ UNCHANGED <<up, peer, sent, hsOp, conn, ops, msgVars, timerVars, faults>>

CancelHandshakeTimer == hsTimer' = IF hsTimer = "waiting" THEN "over" ELSE hsTimer

\* Faulty variant: the timer is canceled and not set again.
CancelTimeout == wait' = 0 /\ UNCHANGED <<armed, due>>

\* MessageClient::reset_timeout_locked: the pending wait is canceled, one that
\* has expired is not.
ResetTimeout ==
  /\ armed' = armed + 1
  /\ wait' = armed + 1
  /\ UNCHANGED due

\* Faulty variant: the connection is copied.
HandshakeCopies ==
  /\ up /\ hsOp /\ hsConn
  /\ hsOp' = FALSE
  /\ conn' = TRUE
  /\ recvPos' = 0
  /\ ops' = {"header"}
  /\ ResetTimeout
  /\ UNCHANGED <<up, peer, sent, sock, hsConn, hsTimer, transmitPos, buf, taken,
                 replies, faults>>

\* The connection moves into a MessageClient, which sets its timer and begins to
\* read a header.
Serve ==
  /\ hsConn' = FALSE
  /\ conn' = TRUE
  /\ recvPos' = 0
  /\ ops' = {"header"}
  /\ ResetTimeout
  /\ UNCHANGED <<up, sock, transmitPos, buf, taken, replies, faults>>

\* The handshake failed: the context goes, with the connection in it, unless an
\* expired timer still holds it.
HandshakeFails ==
  /\ hsConn' = (hsTimer = "due") /\ sock' = (hsTimer = "due")
  /\ UNCHANGED <<up, conn, ops, msgVars, timerVars, faults>>

\* MessageClient asks for the address of a client that is gone.  The exception
\* leaves the completion and ends the process.
ServeThrows ==
  /\ ~peer
  /\ up' = FALSE /\ sock' = FALSE /\ hsConn' = FALSE
  /\ UNCHANGED <<conn, ops, msgVars, timerVars, faults>>

HandshakeCompletes ==
  /\ up /\ hsOp
  /\ hsOp' = FALSE
  /\ IF hsConn
       THEN CancelHandshakeTimer /\ (HandshakeFails \/ Serve \/ ServeThrows)
       ELSE UNCHANGED <<up, sock, hsConn, hsTimer, conn, ops, msgVars, timerVars, faults>>
  /\ UNCHANGED <<peer, sent>>

(***************************************************************************)
(* The completions of MessageClient.                                       *)
(***************************************************************************)
\* The completion of operation k is called and has the mutex.
Completes(k) == up /\ k \in ops /\ "handler" \notin ops

\* close_locked
Close(k) ==
  /\ ops' = ops \ {k}
  /\ conn' = FALSE /\ sock' = FALSE
  /\ wait' = 0
  /\ UNCHANGED <<armed, due, msgVars, faults>>

\* The next operation is begun, or that throws: the exception is logged and the
\* connection stays as it is.
Begin(k, next) ==
  \/ ops' = (ops \ {k}) \union {next} /\ UNCHANGED faults
  \/ ops' = ops \ {k} /\ faults < MaxFaults /\ faults' = faults + 1

\* The connection was closed while the operation was under way, or the client is
\* gone.
Fails(k) ==
  /\ Completes(k)
  /\ \/ ~conn /\ ops' = ops \ {k}
        /\ UNCHANGED <<conn, sock, timerVars, msgVars, faults>>
     \/ conn /\ ~peer /\ Close(k)
  /\ UNCHANGED <<up, peer, sent, hsVars>>

\* process_message_locked up to the call of the handler.
ProcessMessage(k) ==
  /\ ResetTimeout
  /\ ops' = (ops \ {k}) \union {"handler"}
  /\ taken' = taken + 1
  /\ UNCHANGED <<conn, sock, transmitPos, replies, faults>>

\* continue_receive_body_locked, with pos bytes of a message of length len.
ReceiveBody(k, pos, len) ==
  \/ len = pos /\ ProcessMessage(k)
  \/ /\ len # pos /\ Begin(k, "body")
     /\ UNCHANGED <<conn, sock, timerVars, transmitPos, taken, replies>>

\* on_receive_header: some more bytes of the header of the next request.
ReceiveHeader(n) ==
  LET pos == recvPos + n
      len == sent[taken + 1]
  IN
  /\ Completes("header") /\ conn
  /\ taken < Len(sent) /\ n \in 1 .. (HeaderLen - recvPos)
  /\ \/ /\ pos < HeaderLen
        /\ recvPos' = pos
        /\ Begin("header", "header")
        /\ UNCHANGED <<conn, sock, timerVars, transmitPos, buf, taken, replies>>
     \/ /\ pos = HeaderLen /\ len > MaxMessageLen
        /\ Close("header")
     \/ /\ pos = HeaderLen /\ len <= MaxMessageLen
        /\ recvPos' = pos
        /\ buf' = [id |-> taken + 1, length |-> len]
        /\ ReceiveBody("header", pos, len)
  /\ UNCHANGED <<up, peer, sent, hsVars>>

\* on_receive_body
ReceiveRest(n) ==
  LET pos == recvPos + n
  IN
  /\ Completes("body") /\ conn
  /\ n \in 1 .. (buf.length - recvPos)
  /\ recvPos' = pos
  /\ UNCHANGED buf
  /\ ReceiveBody("body", pos, buf.length)
  /\ UNCHANGED <<up, peer, sent, hsVars>>

\* on_receive_body after a header with a length below its own, which only the
\* maximum is checked against: what is left to read wraps around to a great number,
\* the position never meets the length, and the reads go on.  Once bytes lie behind
\* the end of msg_buf the behaviour is undefined: the model goes no further than to
\* record the position, and takes the process to have ended.
ReceiveAstray(n) ==
  LET pos == recvPos + n
  IN
  /\ Completes("body") /\ conn
  /\ buf.length < HeaderLen
  /\ recvPos' = pos
  /\ \/ /\ pos <= MaxMessageLen /\ Begin("body", "body")
        /\ UNCHANGED <<up, conn, sock>>
     \/ /\ pos > MaxMessageLen /\ UNCHANGED faults
        /\ up' = FALSE /\ conn' = FALSE /\ sock' = FALSE /\ ops' = {}
  /\ UNCHANGED <<peer, sent, hsVars, timerVars, transmitPos, buf, taken, replies>>

\* Faulty variant: the next request is read while the answer is being sent.
HandlerReadsOn ==
  /\ up /\ "handler" \in ops
  /\ \E len \in Lengths : buf' = [buf EXCEPT !.length = len]
  /\ transmitPos' = 0
  /\ recvPos' = 0
  /\ ops' = {"write", "header"}
  /\ UNCHANGED <<up, peer, sent, sock, hsVars, conn, taken, timerVars, replies, faults>>

\* The handler returns, or throws and an ErrorResponse is written: either way the
\* answer is in the buffer, under the id of the request.
HandlerReturns ==
  /\ up /\ "handler" \in ops
  /\ \E len \in Lengths : buf' = [buf EXCEPT !.length = len]
  /\ transmitPos' = 0
  /\ Begin("handler", "write")
  /\ UNCHANGED <<up, peer, sent, sock, hsVars, conn, recvPos, taken, timerVars, replies>>

\* on_transmit: some more bytes of the answer are out.  After the last of them
\* the next header is read.
Transmit(n) ==
  LET pos == transmitPos + n
  IN
  /\ Completes("write") /\ conn
  /\ n \in 1 .. (buf.length - transmitPos)
  /\ transmitPos' = pos
  /\ IF pos = buf.length
       THEN /\ recvPos' = 0
            /\ replies' = Append(replies, buf.id)
            /\ Begin("write", "header")
       ELSE /\ UNCHANGED <<recvPos, replies>>
            /\ Begin("write", "write")
  /\ UNCHANGED <<up, peer, sent, sock, hsVars, conn, timerVars, buf, taken>>

(***************************************************************************)
(* The idle timer.                                                         *)
(***************************************************************************)
TimeoutExpires ==
  /\ up /\ wait # 0
  /\ wait' = 0
  /\ due' = due \union {wait}
  /\ UNCHANGED <<up, peer, sent, sock, hsVars, conn, ops, msgVars, armed, faults>>

\* Faulty variant: the connection is not closed.
TimeOutIgnored(w) ==
  /\ up /\ "handler" \notin ops /\ w \in due
  /\ due' = due \ {w}
  /\ UNCHANGED <<up, peer, sent, sock, hsVars, conn, ops, msgVars, armed, wait, faults>>

\* An expired wait's handler gets the mutex.
TimeOut(w) ==
  /\ up /\ "handler" \notin ops /\ w \in due
  /\ due' = due \ {w}
  /\ conn' = FALSE
  /\ sock' = IF conn THEN FALSE ELSE sock
  /\ UNCHANGED <<up, peer, sent, hsVars, ops, msgVars, armed, wait, faults>>

-----------------------------------------------------------------------------
Receive ==
  \E n \in 1 .. MaxMessageLen :
     ReceiveHeader(n) \/ ReceiveRest(n) \/ ReceiveAstray(n) \/ Transmit(n)

Next ==
  \/ SendRequest \/ PeerGone
  \/ HandshakeTimerExpires \/ HandshakeTimesOut \/ HandshakeCompletes
  \/ \E k \in Calls : Fails(k)
  \/ Receive \/ HandlerReturns
  \/ TimeoutExpires \/ \E w \in 1 .. armed : TimeOut(w)

Spec == Init /\ [][Next]_vars

\* io threads run, timers expire and handlers return; the client and the network
\* owe nothing: whether bytes ever arrive is theirs.
Fairness ==
  /\ WF_vars(HandshakeTimerExpires) /\ WF_vars(HandshakeTimesOut)
  /\ WF_vars(HandlerReturns)
  /\ WF_vars(TimeoutExpires) /\ WF_vars(\E w \in 1 .. armed : TimeOut(w))
  /\ WF_vars(\E k \in Calls : Fails(k))

FairSpec == Spec /\ Fairness

-----------------------------------------------------------------------------
(***************************************************************************)
(* Properties.                                                             *)
(***************************************************************************)
\* The one buffer is used by one operation at a time: no request is read into it
\* while a handler works on it or an answer is sent from it, whatever completions
\* and timeouts come together.
BufferUsedOnce == \A k, l \in ops : k = l

\* The connection has one owner, who alone can close its socket: a handshake
\* timeout that comes late does not end a connection in service.
SocketHasOneOwner ==
  /\ ~(hsConn /\ conn)
  /\ sock <=> hsConn \/ conn

\* A connection in service is never abandoned, not even when an exception leaves
\* it without a read or a write: a wait is pending, or in the queue, to close it.
NeverAbandoned == up /\ conn => wait # 0 \/ due # {}

\* Every connection comes to an end and its objects are freed: nothing that would
\* call back, and so keep the MessageClient alive, is left.
ConnectionEnds ==
  hsConn \/ conn ~> ~up \/ (~sock /\ ops = {} /\ wait = 0 /\ due = {})

\* What the clients rely on.
Requests == INSTANCE RequestReply
              WITH Skips <- FALSE, asked <- Len(sent), closed <- ~hsConn /\ ~conn
ImplementsReplies == Requests!Spec

\* The inductive invariant.  Where a client is between a request and its answer:
\* which requests were taken and answered, and what is in the buffer.
PhaseInv ==
  /\ taken <= Len(sent)
  /\ replies = [i \in 1 .. Len(replies) |-> i]
  /\ "handler" \in ops \/ "write" \in ops => buf.id = taken /\ taken = Len(replies) + 1
  /\ "header" \in ops \/ "body" \in ops => taken = Len(replies)
  /\ "header" \in ops => recvPos < HeaderLen
  /\ "body" \in ops => /\ taken < Len(sent) /\ buf.id = taken + 1
                       /\ \/ buf.length \in Lengths /\ recvPos < buf.length
                          \/ buf.length = TooShort /\ recvPos >= HeaderLen
  /\ "write" \in ops => buf.length \in Lengths /\ transmitPos < buf.length
\* Positions stay in the buffer, whatever arrives and in whatever pieces; the one
\* exception is the length that is not checked.
Astray == \E i \in 1 .. Len(sent) : sent[i] = TooShort
PositionInv ==
  /\ "body" \in ops /\ buf.length = TooShort => Astray
  /\ recvPos <= MaxMessageLen \/ (~up /\ Astray)
OwnerInv ==
  /\ hsConn => hsTimer = "due" \/ (hsTimer = "waiting" /\ hsOp)
  /\ hsOp => ~conn /\ ops = {}
  /\ "handler" \in ops => conn
NewInv == hsOp => taken = 0 /\ replies = <<>>
ConnectionInv ==
  /\ TypeOK /\ BufferUsedOnce /\ SocketHasOneOwner /\ NeverAbandoned
  /\ PhaseInv /\ PositionInv /\ OwnerInv /\ NewInv
=============================================================================
