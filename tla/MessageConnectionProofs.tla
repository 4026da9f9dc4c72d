----------------------- MODULE MessageConnectionProofs -----------------------
(***************************************************************************)
(* Proofs about MessageConnection, for any lengths of headers and          *)
(* messages, any number of requests and any number of exceptions.          *)
(***************************************************************************)
EXTENDS MessageConnection, TLAPS

LEMMA InitInv == Init => ConnectionInv
  <1> SUFFICES ASSUME Init PROVE ConnectionInv
    OBVIOUS
  <1>1. FlagsOK
    BY DEF Init, FlagsOK
  <1>2. DataOK
    BY LengthsAssumption, RequestsAssumption DEF Init, DataOK, Calls, Lengths
  <1>3. BufferUsedOnce /\ SocketHasOneOwner /\ NeverAbandoned /\ OwnerInv /\ NewInv
    BY DEF Init, BufferUsedOnce, SocketHasOneOwner, NeverAbandoned, OwnerInv, NewInv
  <1>4. PhaseInv /\ PositionInv
    BY LengthsAssumption DEF Init, PhaseInv, PositionInv
  <1> QED BY <1>1, <1>2, <1>3, <1>4 DEF ConnectionInv, TypeOK

\* No operation is added and the buffer is left alone.
LEMMA PhaseKeep ==
  ASSUME DataOK, PhaseInv, UNCHANGED <<recvPos, transmitPos, buf, taken, replies>>,
         Len(sent') \in Nat, Len(sent) <= Len(sent'), ops' \subseteq ops
  PROVE  PhaseInv'
  <1>1. Len(sent) \in Nat /\ taken \in Nat
    BY DEF DataOK
  <1>2. /\ taken <= Len(sent')
        /\ "body" \in ops => taken < Len(sent')
    <2>1. taken <= Len(sent) /\ ("body" \in ops => taken < Len(sent))
      BY DEF PhaseInv
    <2> QED BY <1>1, <2>1
  <1>3. replies' = [i \in 1 .. Len(replies') |-> i]
    BY DEF PhaseInv
  <1> QED BY <1>2, <1>3 DEF PhaseInv

LEMMA PositionKeep ==
  ASSUME PositionInv, UNCHANGED <<recvPos, buf>>, ops' \subseteq ops, up' => up,
         Astray => Astray'
  PROVE  PositionInv'
  BY DEF PositionInv

LEMMA AstrayKeep ==
  ASSUME UNCHANGED sent
  PROVE  Astray' = Astray
  BY DEF Astray

LEMMA NewKeep ==
  ASSUME NewInv, UNCHANGED <<taken, replies>>, hsOp' => hsOp
  PROVE  NewInv'
  BY DEF NewInv

LEMMA SendRequestInv ==
  ASSUME ConnectionInv, SendRequest
  PROVE  ConnectionInv'
  <1> USE DEF SendRequest, hsVars, msgVars, timerVars, ConnectionInv, TypeOK
  <1>1. PICK len \in Lengths \union {TooShort, TooLong} : sent' = Append(sent, len)
    OBVIOUS
  <1>2. FlagsOK'
    BY DEF FlagsOK
  <1>3. DataOK'
    BY <1>1 DEF DataOK
  <1>4. PhaseInv'
    <2>1. sent \in Seq(Lengths \union {TooShort, TooLong})
      BY DEF DataOK
    <2>2. Len(sent') = Len(sent) + 1 /\ Len(sent) \in Nat
      BY <1>1, <2>1
    <2> QED BY <2>2, PhaseKeep
  <1>6. PositionInv'
    <2>1. Astray => Astray'
      <3>1. sent \in Seq(Lengths \union {TooShort, TooLong})
        BY DEF DataOK
      <3>2. \A i \in 1 .. Len(sent) : i \in 1 .. Len(sent') /\ sent'[i] = sent[i]
        BY <1>1, <3>1
      <3> QED BY <3>2 DEF Astray
    <2> QED BY <2>1, PositionKeep
  <1>5. (BufferUsedOnce /\ SocketHasOneOwner /\ NeverAbandoned /\ OwnerInv)'
    BY DEF BufferUsedOnce, SocketHasOneOwner, NeverAbandoned, OwnerInv
  <1> QED BY <1>2, <1>3, <1>4, <1>5, <1>6, NewKeep

LEMMA PeerGoneInv ==
  ASSUME ConnectionInv, PeerGone
  PROVE  ConnectionInv'
  <1> USE DEF PeerGone, hsVars, msgVars, timerVars, ConnectionInv, TypeOK
  <1>1. FlagsOK'
    BY DEF FlagsOK
  <1>2. DataOK' /\ PhaseInv'
    BY DEF DataOK, PhaseInv
  <1>3. (BufferUsedOnce /\ SocketHasOneOwner /\ NeverAbandoned /\ OwnerInv)'
    BY DEF BufferUsedOnce, SocketHasOneOwner, NeverAbandoned, OwnerInv
  <1>4. PositionInv'
    BY AstrayKeep, PositionKeep
  <1> QED BY <1>1, <1>2, <1>3, <1>4, NewKeep

LEMMA HandshakeTimerInv ==
  ASSUME ConnectionInv, HandshakeTimerExpires \/ HandshakeTimesOut
  PROVE  ConnectionInv'
  <1> USE DEF HandshakeTimerExpires, HandshakeTimesOut, msgVars, timerVars,
              ConnectionInv, TypeOK
  <1>1. FlagsOK'
    BY DEF FlagsOK
  <1>2. DataOK' /\ PhaseInv'
    BY DEF DataOK, PhaseInv
  <1>3. UNCHANGED <<up, conn, ops, wait, due>>
    OBVIOUS
  <1>4. (BufferUsedOnce /\ NeverAbandoned)'
    BY <1>3 DEF BufferUsedOnce, NeverAbandoned
  <1>5. (SocketHasOneOwner /\ OwnerInv)'
    <2>1. CASE HandshakeTimerExpires
      BY <2>1 DEF SocketHasOneOwner, OwnerInv
    <2>2. CASE HandshakeTimesOut /\ hsConn
      BY <2>2 DEF SocketHasOneOwner, OwnerInv
    <2>3. CASE HandshakeTimesOut /\ ~hsConn
      BY <2>3 DEF FlagsOK, SocketHasOneOwner, OwnerInv
    <2> QED BY <2>1, <2>2, <2>3
  <1>6. NewInv'
    BY DEF NewInv
  <1>7. PositionInv'
    <2>1. UNCHANGED <<up, sent, recvPos, buf, ops>>
      OBVIOUS
    <2> QED BY <2>1, AstrayKeep, PositionKeep
  <1> QED BY <1>1, <1>2, <1>4, <1>5, <1>6, <1>7

LEMMA HandshakeCompletesInv ==
  ASSUME ConnectionInv, HandshakeCompletes
  PROVE  ConnectionInv'
  <1> USE DEF HandshakeCompletes, CancelHandshakeTimer, HandshakeFails, Serve,
              ServeThrows, ResetTimeout, msgVars, timerVars, ConnectionInv, TypeOK
  <1>1. FlagsOK'
    BY DEF FlagsOK
  <1>2. DataOK'
    <2>1. /\ UNCHANGED <<sent, transmitPos, buf, taken, replies, faults, due>>
          /\ recvPos' \in {recvPos, 0} /\ ops' \in {ops, {"header"}}
          /\ hsTimer' \in {hsTimer, "over"}
      OBVIOUS
    <2>2. \/ armed' = armed + 1 /\ wait' = armed + 1
          \/ armed' = armed /\ wait' = wait
      OBVIOUS
    <2> QED BY <2>1, <2>2, LengthsAssumption DEF DataOK, Calls
  <1>3. PhaseInv'
    <2>1. /\ UNCHANGED <<sent, transmitPos, buf, taken, replies>>
          /\ ops = {} /\ (ops' = {} \/ (ops' = {"header"} /\ recvPos' = 0))
      BY DEF OwnerInv
    <2>2. taken = 0 /\ replies = <<>>
      BY DEF NewInv
    <2>3. Len(sent) \in Nat
      BY DEF DataOK
    <2> QED BY <2>1, <2>2, <2>3, LengthsAssumption DEF PhaseInv
  <1>4. (SocketHasOneOwner /\ OwnerInv)'
    BY DEF FlagsOK, SocketHasOneOwner, OwnerInv
  <1>5. (BufferUsedOnce /\ NeverAbandoned)'
    <2>1. armed + 1 # 0
      BY DEF DataOK
    <2> QED BY <2>1 DEF BufferUsedOnce, NeverAbandoned, OwnerInv
  <1>6. NewInv'
    BY DEF NewInv
  <1>7. PositionInv'
    <2>1. UNCHANGED sent /\ (up' => up) /\ (recvPos' = recvPos \/ recvPos' = 0)
      OBVIOUS
    <2>2. "body" \notin ops'
      <3>1. "body" \notin ops /\ (ops' = ops \/ ops' = {"header"})
        BY DEF OwnerInv
      <3> QED BY <3>1
    <2> QED BY <2>1, <2>2, AstrayKeep, LengthsAssumption DEF PositionInv
  <1> QED BY <1>1, <1>2, <1>3, <1>4, <1>5, <1>6, <1>7

\* A completion that finds the connection closed, or closes it.
LEMMA CloseInv ==
  ASSUME ConnectionInv, NEW k \in Calls, Completes(k),
         \/ conn /\ Close(k)
         \/ ~conn /\ ops' = ops \ {k}
            /\ UNCHANGED <<conn, sock, timerVars, msgVars, faults>>,
         UNCHANGED <<up, peer, sent, hsVars>>
  PROVE  ConnectionInv'
  <1> USE DEF Completes, Close, hsVars, msgVars, timerVars, ConnectionInv, TypeOK
  <1>1. FlagsOK'
    BY DEF FlagsOK
  <1>2. /\ UNCHANGED <<sent, hsTimer, recvPos, transmitPos, buf, taken, replies, armed,
                       due, faults>>
        /\ ops' = ops \ {k} /\ wait' \in {wait, 0}
    OBVIOUS
  <1>3. DataOK'
    BY <1>2 DEF DataOK
  <1>4. PhaseInv'
    <2>1. Len(sent) \in Nat
      BY DEF DataOK
    <2> QED BY <1>2, <2>1, PhaseKeep
  <1>5. BufferUsedOnce' /\ NeverAbandoned'
    BY DEF BufferUsedOnce, NeverAbandoned
  <1>6. SocketHasOneOwner' /\ OwnerInv'
    <2>1. ~hsOp /\ ~hsOp' /\ hsConn' = hsConn /\ hsTimer' = hsTimer /\ ops' \subseteq ops
      BY DEF OwnerInv
    <2>2. "handler" \notin ops
      OBVIOUS
    <2>3. CASE conn /\ conn' = FALSE /\ sock' = FALSE
      BY <2>1, <2>2, <2>3 DEF SocketHasOneOwner, OwnerInv
    <2>4. CASE UNCHANGED <<conn, sock>>
      BY <2>1, <2>2, <2>4 DEF SocketHasOneOwner, OwnerInv
    <2> QED BY <2>3, <2>4
  <1>7. PositionInv'
    BY <1>2, AstrayKeep, PositionKeep
  <1> QED BY <1>1, <1>3, <1>4, <1>5, <1>6, <1>7, NewKeep

LEMMA FailsInv ==
  ASSUME ConnectionInv, NEW k \in Calls, Fails(k)
  PROVE  ConnectionInv'
  BY CloseInv DEF Fails

\* The flags and the owner when an operation on the buffer gives way to the next.
LEMMA OwnersKeep ==
  ASSUME ConnectionInv, up, conn, ~hsOp,
         UNCHANGED <<up, peer, sock, hsVars, conn>>
  PROVE  FlagsOK' /\ SocketHasOneOwner' /\ OwnerInv'
  BY DEF hsVars, ConnectionInv, TypeOK, FlagsOK, SocketHasOneOwner, OwnerInv

\* A message that is complete is handed to its handler.
LEMMA ProcessMessageInv ==
  ASSUME ConnectionInv, NEW k \in {"header", "body"}, Completes(k), conn,
         ProcessMessage(k), taken < Len(sent),
         recvPos' \in 0 .. MaxMessageLen, buf'.id = taken + 1,
         buf' \in [id : Nat, length : Lengths \union {0, TooShort}],
         UNCHANGED <<up, peer, sent, hsVars>>
  PROVE  ConnectionInv'
  <1> USE DEF Completes, ProcessMessage, ResetTimeout, hsVars, ConnectionInv, TypeOK
  <1>1. ops' = {"handler"} /\ ~hsOp
    BY DEF BufferUsedOnce, OwnerInv
  <1>2. FlagsOK' /\ SocketHasOneOwner' /\ OwnerInv'
    BY <1>1, OwnersKeep
  <1>3. /\ UNCHANGED <<sent, hsTimer, transmitPos, replies, faults, due>>
        /\ armed' = armed + 1 /\ wait' = armed + 1 /\ taken' = taken + 1
    OBVIOUS
  <1>4. DataOK'
    BY <1>1, <1>3 DEF DataOK
  <1>5. BufferUsedOnce' /\ NeverAbandoned'
    <2>1. armed + 1 # 0
      BY DEF DataOK
    <2> QED BY <1>1, <1>3, <2>1 DEF BufferUsedOnce, NeverAbandoned
  <1>6. PhaseInv'
    <2>1. taken = Len(replies) /\ replies = [i \in 1 .. Len(replies) |-> i]
      BY DEF PhaseInv
    <2>2. taken \in Nat /\ Len(sent) \in Nat
      BY DEF DataOK
    <2>3. taken + 1 <= Len(sent) /\ Len(replies) \in Nat
      BY <2>1, <2>2
    <2> QED BY <1>1, <1>3, <2>1, <2>2, <2>3 DEF PhaseInv
  <1>7. NewInv' /\ PositionInv'
    BY <1>1 DEF NewInv, PositionInv
  <1> QED BY <1>2, <1>4, <1>5, <1>6, <1>7

\* The next operation is begun in place of the one that completed, or nothing is:
\* what must be true of it, and of the buffer, for the invariant to go on.
LEMMA BeginInv ==
  ASSUME ConnectionInv, NEW k \in ops, up, conn,
         NEW next \in Calls, Begin(k, next),
         recvPos' \in 0 .. MaxMessageLen, transmitPos' \in 0 .. MaxMessageLen,
         buf' \in [id : Nat, length : Lengths \union {0, TooShort}],
         replies' \in Seq(Nat), replies' = [i \in 1 .. Len(replies') |-> i],
         next = "write" =>
           buf'.id = taken /\ taken = Len(replies') + 1
           /\ buf'.length \in Lengths /\ transmitPos' < buf'.length,
         next # "write" => taken = Len(replies'),
         next = "header" => recvPos' < HeaderLen,
         next = "body" =>
           /\ taken < Len(sent) /\ buf'.id = taken + 1
           /\ \/ buf'.length \in Lengths /\ recvPos' < buf'.length
              \/ buf'.length = TooShort /\ recvPos' >= HeaderLen /\ Astray,
         UNCHANGED <<up, peer, sent, sock, hsVars, conn, timerVars, taken>>
  PROVE  ConnectionInv'
  <1> USE DEF Begin, hsVars, timerVars, ConnectionInv, TypeOK
  <1>1. ~hsOp /\ (ops' = {next} \/ ops' = {})
    BY DEF BufferUsedOnce, OwnerInv
  <1>2. FlagsOK' /\ SocketHasOneOwner' /\ OwnerInv'
    BY <1>1, OwnersKeep
  <1>3. UNCHANGED <<sent, hsTimer, armed, wait, due, taken>>
    OBVIOUS
  <1>4. DataOK'
    <2>1. faults' \in 0 .. MaxFaults
      <3>1. faults \in 0 .. MaxFaults
        BY DEF DataOK
      <3>2. CASE UNCHANGED faults
        BY <3>1, <3>2
      <3>3. CASE faults < MaxFaults /\ faults' = faults + 1
        BY <3>1, <3>3, RequestsAssumption
      <3> QED BY <3>2, <3>3
    <2>2. recvPos' \in Nat
      BY LengthsAssumption
    <2> QED BY <1>1, <1>3, <2>1, <2>2 DEF DataOK, Calls
  <1>5. BufferUsedOnce' /\ NeverAbandoned'
    BY <1>1, <1>3 DEF BufferUsedOnce, NeverAbandoned
  <1>6. PhaseInv'
    BY <1>1, <1>3 DEF PhaseInv, Calls
  <1>7. NewInv'
    BY <1>1 DEF NewInv
  <1>8. PositionInv'
    <2>1. recvPos' <= MaxMessageLen
      BY LengthsAssumption
    <2>2. "body" \in ops' /\ buf'.length = TooShort => Astray
      BY <1>1, LengthsAssumption DEF TooShort, Lengths
    <2> QED BY <2>1, <2>2, AstrayKeep DEF PositionInv
  <1> QED BY <1>2, <1>4, <1>5, <1>6, <1>7, <1>8

LEMMA ReceiveHeaderInv ==
  ASSUME ConnectionInv, NEW n \in 1 .. MaxMessageLen, ReceiveHeader(n)
  PROVE  ConnectionInv'
  <1> DEFINE pos == recvPos + n
             len == sent[taken + 1]
  <1>1. /\ Completes("header") /\ conn /\ taken < Len(sent)
        /\ n \in 1 .. (HeaderLen - recvPos)
        /\ UNCHANGED <<up, peer, sent, hsVars>>
    BY DEF ReceiveHeader
  <1>2. /\ taken = Len(replies) /\ taken \in Nat /\ recvPos \in Nat
        /\ replies = [i \in 1 .. Len(replies) |-> i]
    BY <1>1 DEF Completes, ConnectionInv, TypeOK, DataOK, PhaseInv
  <1>3. CASE /\ pos < HeaderLen /\ recvPos' = pos /\ Begin("header", "header")
             /\ UNCHANGED <<conn, sock, timerVars, transmitPos, buf, taken, replies>>
    <2>1. recvPos' \in 0 .. MaxMessageLen /\ recvPos' < HeaderLen
      BY <1>1, <1>2, <1>3, LengthsAssumption
    <2> QED BY <1>1, <1>2, <1>3, <2>1, BeginInv DEF Calls, Completes, ConnectionInv, TypeOK, DataOK
  <1>4. CASE Close("header")
    BY <1>1, <1>4, CloseInv DEF Calls
  <1>5. CASE /\ pos = HeaderLen /\ len <= MaxMessageLen /\ recvPos' = pos
             /\ buf' = [id |-> taken + 1, length |-> len]
             /\ ReceiveBody("header", pos, len)
    <2>1. /\ len \in Lengths \union {TooShort} /\ recvPos' \in 0 .. MaxMessageLen
          /\ recvPos' = HeaderLen /\ taken + 1 \in 1 .. Len(sent)
          /\ buf' \in [id : Nat, length : Lengths \union {0, TooShort}]
      BY <1>1, <1>2, <1>5, LengthsAssumption DEF ConnectionInv, TypeOK, DataOK, Lengths, TooLong
    <2>2. CASE len = pos /\ ProcessMessage("header")
      BY <1>1, <1>2, <1>5, <2>1, <2>2, ProcessMessageInv
    <2>3. CASE /\ len # pos /\ Begin("header", "body")
               /\ UNCHANGED <<conn, sock, timerVars, transmitPos, taken, replies>>
      <3>1. \/ len \in Lengths /\ recvPos' < len
            \/ len = TooShort /\ recvPos' >= HeaderLen /\ Astray
        BY <1>5, <2>1, <2>3, LengthsAssumption DEF Lengths, Astray
      <3> QED BY <1>1, <1>2, <1>5, <2>1, <2>3, <3>1, BeginInv
                 DEF Calls, Completes, ConnectionInv, TypeOK, DataOK
    <2> QED BY <1>5, <2>2, <2>3 DEF ReceiveBody
  <1> QED BY <1>3, <1>4, <1>5 DEF ReceiveHeader

LEMMA ReceiveRestInv ==
  ASSUME ConnectionInv, NEW n \in 1 .. MaxMessageLen, ReceiveRest(n)
  PROVE  ConnectionInv'
  <1> DEFINE pos == recvPos + n
  <1>1. /\ Completes("body") /\ conn /\ n \in 1 .. (buf.length - recvPos)
        /\ recvPos' = pos /\ UNCHANGED <<buf, up, peer, sent, hsVars>>
        /\ ReceiveBody("body", pos, buf.length)
    BY DEF ReceiveRest
  <1>2. /\ taken = Len(replies) /\ taken \in Nat /\ recvPos \in Nat
        /\ replies = [i \in 1 .. Len(replies) |-> i]
        /\ taken < Len(sent) /\ buf.id = taken + 1 /\ buf.length \in Lengths
    <2>1. ~(buf.length = TooShort /\ recvPos >= HeaderLen)
      BY <1>1, LengthsAssumption DEF ConnectionInv, TypeOK, DataOK, TooShort
    <2> QED BY <1>1, <2>1 DEF Completes, ConnectionInv, TypeOK, DataOK, PhaseInv
  <1>3. recvPos' \in 0 .. MaxMessageLen /\ recvPos' <= buf.length
    BY <1>1, <1>2, LengthsAssumption DEF Lengths
  <1>4. CASE buf.length = pos /\ ProcessMessage("body")
    <2>1. buf' \in [id : Nat, length : Lengths \union {0, TooShort}] /\ buf'.id = taken + 1
      BY <1>1, <1>2 DEF ConnectionInv, TypeOK, DataOK
    <2> QED BY <1>1, <1>2, <1>3, <1>4, <2>1, ProcessMessageInv
  <1>5. CASE /\ buf.length # pos /\ Begin("body", "body")
             /\ UNCHANGED <<conn, sock, timerVars, transmitPos, taken,
                            replies>>
    <2>1. recvPos' < buf.length
      BY <1>1, <1>2, <1>3, <1>5, LengthsAssumption DEF Lengths
    <2> QED BY <1>1, <1>2, <1>3, <1>5, <2>1, BeginInv DEF Calls, Completes, ConnectionInv, TypeOK, DataOK
  <1> QED BY <1>1, <1>4, <1>5 DEF ReceiveBody

\* Reads after a header whose length is below its own: they stay in the buffer, or
\* the process is taken to have ended.
LEMMA ReceiveAstrayInv ==
  ASSUME ConnectionInv, NEW n \in 1 .. MaxMessageLen, ReceiveAstray(n)
  PROVE  ConnectionInv'
  <1> DEFINE pos == recvPos + n
  <1>1. /\ Completes("body") /\ conn /\ buf.length < HeaderLen /\ recvPos' = pos
        /\ UNCHANGED <<peer, sent, hsVars, timerVars, transmitPos, buf, taken, replies>>
    BY DEF ReceiveAstray
  <1>2. /\ taken = Len(replies) /\ taken \in Nat /\ recvPos \in Nat
        /\ replies = [i \in 1 .. Len(replies) |-> i]
        /\ taken < Len(sent) /\ buf.id = taken + 1
    BY <1>1 DEF Completes, ConnectionInv, TypeOK, DataOK, PhaseInv
  <1>3. buf.length = TooShort /\ recvPos >= HeaderLen /\ Astray
    <2>1. ~(buf.length \in Lengths /\ recvPos < buf.length)
      BY <1>1, LengthsAssumption DEF Lengths
    <2> QED BY <1>1, <2>1 DEF Completes, ConnectionInv, PhaseInv, PositionInv
  <1>4. pos \in Nat /\ pos >= HeaderLen
    BY <1>2, <1>3, LengthsAssumption
  <1>5. CASE pos <= MaxMessageLen /\ Begin("body", "body") /\ UNCHANGED <<up, conn, sock>>
    BY <1>1, <1>2, <1>3, <1>4, <1>5, BeginInv
       DEF Calls, Completes, ConnectionInv, TypeOK, DataOK
  <1>6. CASE /\ UNCHANGED faults
             /\ up' = FALSE /\ conn' = FALSE /\ sock' = FALSE /\ ops' = {}
    <2> USE <1>1, <1>6 DEF hsVars, timerVars, ConnectionInv, TypeOK
    <2>1. FlagsOK'
      BY DEF FlagsOK
    <2>2. DataOK'
      BY <1>4 DEF DataOK
    <2>3. (BufferUsedOnce /\ NeverAbandoned /\ NewInv)'
      BY DEF BufferUsedOnce, NeverAbandoned, NewInv
    <2>4. SocketHasOneOwner' /\ OwnerInv'
      BY DEF FlagsOK, SocketHasOneOwner, OwnerInv, Completes
    <2>5. PhaseInv' /\ PositionInv'
      BY <1>3, AstrayKeep DEF PhaseInv, PositionInv
    <2> QED BY <2>1, <2>2, <2>3, <2>4, <2>5
  <1> QED BY <1>5, <1>6 DEF ReceiveAstray

LEMMA HandlerReturnsInv ==
  ASSUME ConnectionInv, HandlerReturns
  PROVE  ConnectionInv'
  <1>1. PICK len \in Lengths : buf' = [buf EXCEPT !.length = len]
    BY DEF HandlerReturns
  <1>2. /\ "handler" \in ops /\ up /\ transmitPos' = 0 /\ Begin("handler", "write")
        /\ UNCHANGED <<up, peer, sent, sock, hsVars, conn, recvPos, taken, timerVars,
                       replies>>
    BY DEF HandlerReturns
  <1>3. conn
    BY <1>2 DEF ConnectionInv, OwnerInv
  <1>4. /\ buf.id = taken /\ taken = Len(replies) + 1
        /\ replies = [i \in 1 .. Len(replies) |-> i]
    BY <1>2 DEF ConnectionInv, PhaseInv
  <1>5. /\ replies \in Seq(Nat) /\ recvPos \in 0 .. MaxMessageLen
        /\ buf \in [id : Nat, length : Lengths \union {0, TooShort}]
    BY <1>2, LengthsAssumption DEF ConnectionInv, TypeOK, DataOK, PositionInv
  <1>6. /\ buf'.length \in Lengths /\ buf'.id = buf.id /\ transmitPos' < buf'.length
        /\ transmitPos' \in 0 .. MaxMessageLen
        /\ buf' \in [id : Nat, length : Lengths \union {0, TooShort}]
    BY <1>1, <1>2, <1>5, LengthsAssumption DEF Lengths
  <1> QED BY <1>2, <1>3, <1>4, <1>5, <1>6, BeginInv DEF Calls

LEMMA TransmitInv ==
  ASSUME ConnectionInv, NEW n \in 1 .. MaxMessageLen, Transmit(n)
  PROVE  ConnectionInv'
  <1> DEFINE pos == transmitPos + n
  <1>1. /\ Completes("write") /\ conn /\ n \in 1 .. (buf.length - transmitPos)
        /\ transmitPos' = pos
        /\ UNCHANGED <<up, peer, sent, sock, hsVars, conn, timerVars, buf,
                       taken>>
    BY DEF Transmit
  <1>2. /\ buf.id = taken /\ taken = Len(replies) + 1 /\ buf.length \in Lengths
        /\ replies = [i \in 1 .. Len(replies) |-> i]
        /\ transmitPos < buf.length
    BY <1>1 DEF Completes, ConnectionInv, PhaseInv
  <1>3. /\ replies \in Seq(Nat) /\ recvPos \in 0 .. MaxMessageLen
        /\ taken \in Nat /\ transmitPos \in Nat
        /\ buf \in [id : Nat, length : Lengths \union {0, TooShort}]
    BY <1>1, LengthsAssumption
       DEF Completes, ConnectionInv, TypeOK, DataOK, PositionInv
  <1>4. transmitPos' \in 0 .. MaxMessageLen /\ transmitPos' <= buf.length
    BY <1>1, <1>2, <1>3, LengthsAssumption DEF Lengths
  <1>5. CASE pos = buf.length
    <2>1. /\ recvPos' = 0 /\ Begin("write", "header")
          /\ replies' = Append(replies, buf.id)
      BY <1>5 DEF Transmit
    <2>2. replies' \in Seq(Nat) /\ Len(replies') = taken
      BY <1>2, <1>3, <2>1
    <2>3. replies' = [i \in 1 .. Len(replies') |-> i]
      <3>1. replies' = [i \in 1 .. Len(replies') |-> replies'[i]]
        BY <2>2
      <3>2. \A i \in 1 .. Len(replies) : replies[i] = i
        BY <1>2
      <3>3. \A i \in 1 .. Len(replies') : replies'[i] = i
        BY <1>2, <1>3, <2>1, <2>2, <3>2
      <3> QED BY <3>1, <3>3
    <2>4. recvPos' \in 0 .. MaxMessageLen /\ recvPos' < HeaderLen
      BY <2>1, LengthsAssumption
    <2> QED BY <1>1, <1>3, <1>4, <2>1, <2>2, <2>3, <2>4, BeginInv DEF Calls, Completes
  <1>6. CASE pos # buf.length
    <2>1. UNCHANGED <<recvPos, replies>> /\ Begin("write", "write")
      BY <1>6 DEF Transmit
    <2>2. transmitPos' = pos /\ buf.length \in Nat
      BY <1>1, <1>2, LengthsAssumption DEF Lengths
    <2>3. transmitPos' < buf.length
      BY <1>4, <1>6, <2>2
    <2> QED BY <1>1, <1>2, <1>3, <1>4, <2>1, <2>3, BeginInv DEF Calls, Completes
  <1> QED BY <1>5, <1>6

LEMMA TimeoutInv ==
  ASSUME ConnectionInv, TimeoutExpires \/ \E w \in 1 .. armed : TimeOut(w)
  PROVE  ConnectionInv'
  <1> USE DEF TimeoutExpires, TimeOut, hsVars, msgVars, ConnectionInv, TypeOK
  <1>1. FlagsOK'
    BY DEF FlagsOK
  <1>2. /\ UNCHANGED <<sent, hsTimer, ops, recvPos, transmitPos, buf, taken, replies,
                       armed, faults>>
        /\ \/ wait # 0 /\ wait' = 0 /\ due' = due \union {wait} /\ UNCHANGED conn
           \/ wait' = wait /\ due' \subseteq due /\ conn' = FALSE
    OBVIOUS
  <1>3. DataOK'
    <2>1. armed \in Nat /\ wait \in 0 .. armed /\ due \subseteq 1 .. armed
      BY DEF DataOK
    <2>2. wait' \in 0 .. armed /\ due' \subseteq 1 .. armed
      <3>1. CASE wait # 0 /\ wait' = 0 /\ due' = due \union {wait}
        BY <2>1, <3>1
      <3>2. CASE wait' = wait /\ due' \subseteq due
        BY <2>1, <3>2
      <3> QED BY <1>2, <3>1, <3>2
    <2> QED BY <1>2, <2>2 DEF DataOK
  <1>4. PhaseInv'
    <2>1. Len(sent) \in Nat
      BY DEF DataOK
    <2> QED BY <1>2, <2>1, PhaseKeep
  <1>5. BufferUsedOnce' /\ NeverAbandoned'
    BY <1>2 DEF BufferUsedOnce, NeverAbandoned
  <1>6. SocketHasOneOwner' /\ OwnerInv'
    <2>1. CASE TimeoutExpires
      BY <2>1 DEF SocketHasOneOwner, OwnerInv
    <2>2. ASSUME NEW w \in 1 .. armed, TimeOut(w), conn
          PROVE  SocketHasOneOwner' /\ OwnerInv'
      BY <2>2 DEF SocketHasOneOwner, OwnerInv
    <2>3. ASSUME NEW w \in 1 .. armed, TimeOut(w), ~conn
          PROVE  SocketHasOneOwner' /\ OwnerInv'
      BY <2>3 DEF FlagsOK, SocketHasOneOwner, OwnerInv
    <2> QED BY <2>1, <2>2, <2>3
  <1>7. NewInv'
    BY DEF NewInv
  <1>8. PositionInv'
    <2>1. UNCHANGED up
      OBVIOUS
    <2> QED BY <1>2, <2>1, AstrayKeep, PositionKeep
  <1> QED BY <1>1, <1>3, <1>4, <1>5, <1>6, <1>7, <1>8

LEMMA StepInv == ConnectionInv /\ [Next]_vars => ConnectionInv'
  <1> SUFFICES ASSUME ConnectionInv, [Next]_vars PROVE ConnectionInv'
    OBVIOUS
  <1>1. CASE SendRequest \/ PeerGone
    BY <1>1, SendRequestInv, PeerGoneInv
  <1>2. CASE HandshakeTimerExpires \/ HandshakeTimesOut \/ HandshakeCompletes
    BY <1>2, HandshakeTimerInv, HandshakeCompletesInv
  <1>3. CASE \E k \in Calls : Fails(k)
    BY <1>3, FailsInv
  <1>4. CASE Receive
    BY <1>4, ReceiveHeaderInv, ReceiveRestInv, ReceiveAstrayInv, TransmitInv DEF Receive
  <1>5. CASE HandlerReturns
    BY <1>5, HandlerReturnsInv
  <1>6. CASE TimeoutExpires \/ \E w \in 1 .. armed : TimeOut(w)
    BY <1>6, TimeoutInv
  <1>7. CASE UNCHANGED vars
    <2> USE <1>7 DEF vars, ConnectionInv, TypeOK
    <2>1. FlagsOK' /\ SocketHasOneOwner' /\ OwnerInv'
      BY DEF FlagsOK, SocketHasOneOwner, OwnerInv
    <2>2. DataOK' /\ PhaseInv'
      BY DEF DataOK, PhaseInv
    <2>3. BufferUsedOnce' /\ NeverAbandoned' /\ NewInv' /\ PositionInv'
      BY AstrayKeep, PositionKeep DEF BufferUsedOnce, NeverAbandoned, NewInv
    <2> QED BY <2>1, <2>2, <2>3
  <1> QED BY <1>1, <1>2, <1>3, <1>4, <1>5, <1>6, <1>7 DEF Next

\* The inductive invariant, and in it the type of the state.
THEOREM ConnectionInvHolds == Spec => []ConnectionInv
  <1>1. Init => ConnectionInv
    BY InitInv
  <1>2. ConnectionInv /\ [Next]_vars => ConnectionInv'
    BY StepInv
  <1> QED BY <1>1, <1>2, PTL DEF Spec

\* One buffer, one operation on it: MessageClient::msg_buf is never read into
\* while a handler works on it or an answer goes out of it.
THEOREM BufferIsUsedOnce == Spec => []BufferUsedOnce
  <1>1. ConnectionInv => BufferUsedOnce
    BY DEF ConnectionInv
  <1> QED BY <1>1, ConnectionInvHolds, PTL

\* The socket is open while its one owner, the handshake or the client, has it.
THEOREM SocketIsOwnedOnce == Spec => []SocketHasOneOwner
  <1>1. ConnectionInv => SocketHasOneOwner
    BY DEF ConnectionInv
  <1> QED BY <1>1, ConnectionInvHolds, PTL

\* A connection in service has a wait that will close it.
THEOREM ConnectionNeverAbandoned == Spec => []NeverAbandoned
  <1>1. ConnectionInv => NeverAbandoned
    BY DEF ConnectionInv
  <1> QED BY <1>1, ConnectionInvHolds, PTL

-----------------------------------------------------------------------------
(***************************************************************************)
(* MessageConnection implements RequestReply.                              *)
(***************************************************************************)
\* A step that answers nothing and sends nothing at most closes the connection.
LEMMA QuietStep ==
  ASSUME ConnectionInv, UNCHANGED <<sent, replies>>,
         ~hsConn /\ ~conn => ~hsConn' /\ ~conn'
  PROVE  [Requests!Next]_(Requests!vars)
  <1>1. CASE ~hsConn' /\ ~conn'
    BY <1>1 DEF Requests!Next, Requests!Close
  <1>2. CASE ~(~hsConn' /\ ~conn') /\ ~(~hsConn /\ ~conn)
    BY <1>2 DEF Requests!vars
  <1> QED BY <1>1, <1>2

LEMMA AskStep ==
  ASSUME ConnectionInv, SendRequest
  PROVE  Requests!Next
  <1>1. PICK len \in Lengths \union {TooShort, TooLong} : sent' = Append(sent, len)
    BY DEF SendRequest
  <1>2. sent \in Seq(Lengths \union {TooShort, TooLong})
    BY DEF ConnectionInv, TypeOK, DataOK
  <1>3. Len(sent') = Len(sent) + 1
    BY <1>1, <1>2
  <1>4. UNCHANGED <<replies, hsConn, conn>>
    BY DEF SendRequest, msgVars, hsVars
  <1> QED BY <1>3, <1>4 DEF Requests!Next, Requests!Ask

LEMMA TransmitStep ==
  ASSUME ConnectionInv, NEW n \in 1 .. MaxMessageLen, Transmit(n)
  PROVE  [Requests!Next]_(Requests!vars)
  <1>1. UNCHANGED <<sent, hsConn, conn>> /\ conn /\ "write" \in ops
    BY DEF Transmit, Completes, hsVars
  <1>2. CASE transmitPos + n = buf.length
    <2>1. replies' = Append(replies, buf.id)
      BY <1>2 DEF Transmit
    <2>2. buf.id = Len(replies) + 1 /\ taken = Len(replies) + 1 /\ taken <= Len(sent)
      BY <1>1 DEF ConnectionInv, PhaseInv
    <2>3. Len(replies) \in Nat /\ Len(sent) \in Nat
      BY DEF ConnectionInv, TypeOK, DataOK
    <2>4. Len(replies) < Len(sent)
      BY <2>2, <2>3
    <2>5. \A i \in 1 .. Len(replies) : replies[i] < buf.id
      <3>1. \A i \in 1 .. Len(replies) : replies[i] = i
        BY DEF ConnectionInv, PhaseInv
      <3> QED BY <2>2, <2>3, <3>1
    <2>6. Requests!Reply
      <3>1. buf.id \in 1 .. Len(sent)
        BY <2>2, <2>3, <2>4
      <3> QED BY <1>1, <2>1, <2>2, <2>5, <3>1 DEF Requests!Reply
    <2> QED BY <2>6 DEF Requests!Next
  <1>3. CASE transmitPos + n # buf.length
    BY <1>1, <1>3, QuietStep DEF Transmit
  <1> QED BY <1>2, <1>3

\* Clients are answered in the order in which they asked, once, and not after the
\* connection was closed.
THEOREM ConnectionImplementsReplies == Spec => ImplementsReplies
  <1>1. Init => Requests!Init
    BY DEF Init, Requests!Init
  <1>2. ConnectionInv /\ [Next]_vars => [Requests!Next]_(Requests!vars)
    <2> SUFFICES ASSUME ConnectionInv, [Next]_vars
                 PROVE  [Requests!Next]_(Requests!vars)
      OBVIOUS
    <2>1. CASE SendRequest
      BY <2>1, AskStep
    <2>2. CASE \E n \in 1 .. MaxMessageLen : Transmit(n)
      BY <2>2, TransmitStep
    <2>3. CASE PeerGone \/ HandshakeTimerExpires \/ HandlerReturns \/ TimeoutExpires
      <3>1. UNCHANGED <<sent, replies, hsConn, conn>>
        BY <2>3 DEF PeerGone, HandshakeTimerExpires, HandlerReturns, TimeoutExpires,
                    hsVars, msgVars
      <3> QED BY <3>1, QuietStep
    <2>4. CASE \/ HandshakeTimesOut \/ \E k \in Calls : Fails(k)
               \/ \E w \in 1 .. armed : TimeOut(w)
      <3>1. /\ UNCHANGED <<sent, replies>>
            /\ (hsConn' = hsConn \/ hsConn' = FALSE) /\ (conn' = conn \/ conn' = FALSE)
        BY <2>4 DEF HandshakeTimesOut, Fails, Close, TimeOut, hsVars, msgVars
      <3> QED BY <3>1, QuietStep
    <2>5. CASE HandshakeCompletes
      <3>1. /\ UNCHANGED <<sent, replies>>
            /\ hsConn \/ UNCHANGED <<hsConn, conn>>
        BY <2>5 DEF HandshakeCompletes, HandshakeFails, Serve, ServeThrows, msgVars
      <3> QED BY <3>1, QuietStep
    <2>6. CASE \E n \in 1 .. MaxMessageLen :
                 ReceiveHeader(n) \/ ReceiveRest(n) \/ ReceiveAstray(n)
      <3>1. UNCHANGED <<sent, replies, hsConn>> /\ conn
        BY <2>6 DEF ReceiveHeader, ReceiveRest, ReceiveAstray, ReceiveBody,
                    ProcessMessage, Completes, Close, hsVars, msgVars
      <3> QED BY <3>1, QuietStep
    <2>7. CASE UNCHANGED vars
      BY <2>7, QuietStep DEF vars
    <2> QED BY <2>1, <2>2, <2>3, <2>4, <2>5, <2>6, <2>7 DEF Next, Receive
  <1> QED BY <1>1, <1>2, ConnectionInvHolds, PTL DEF Spec, Requests!Spec, ImplementsReplies
=============================================================================
