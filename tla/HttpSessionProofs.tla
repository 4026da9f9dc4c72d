-------------------------- MODULE HttpSessionProofs --------------------------
(***************************************************************************)
(* Proofs about HttpSession, for any limit of the queue, any number of     *)
(* requests and any number of handlers that throw.                         *)
(***************************************************************************)
EXTENDS HttpSession, TLAPS

LEMMA InitInv == Init => SessionInv
  BY LimitAssumption, BoundsAssumption
     DEF Init, SessionInv, TypeOK, NeverStuckNorTwice, FlowInv, OrderInv, IsFull

\* What the timer and the shutdown change keeps its type.
LEMMA TimerType ==
  ASSUME TypeOK, DoClose \/ (SetTimer /\ UNCHANGED <<eof, shutdowns>>) \/ UNCHANGED timerVars
  PROVE  /\ shutdowns' \in Nat /\ eof' \in {"no", "yes"}
         /\ deadline' \in {"never", "ahead", "passed"}
         /\ wait' \in {"none", "pending", "called"}
  BY DEF TypeOK, DoClose, SetTimer, timerVars

\* Only the client or the timer acts.
LEMMA QuietInv ==
  ASSUME SessionInv, UNCHANGED <<opVars, queueVars>>,
         sent' \in Seq(Requests), Len(sent) <= Len(sent'),
         peer' \in {"open", "closed", "broken"},
         shutdowns' \in Nat, eof' \in {"no", "yes"},
         deadline' \in {"never", "ahead", "passed"},
         wait' \in {"none", "pending", "called"}
  PROVE  SessionInv'
  <1> USE DEF SessionInv, opVars, queueVars
  <1>1. TypeOK'
    BY DEF TypeOK
  <1>2. NeverStuckNorTwice' /\ FlowInv'
    BY DEF NeverStuckNorTwice, FlowInv, IsFull
  <1>3. taken' <= Len(sent')
    <2>1. taken \in Nat /\ Len(sent) \in Nat /\ Len(sent') \in Nat
      BY DEF TypeOK
    <2> QED BY <2>1 DEF OrderInv
  <1>4. OrderInv'
    BY <1>3 DEF OrderInv
  <1> QED BY <1>1, <1>2, <1>4

LEMMA SendRequestInv ==
  ASSUME SessionInv, SendRequest
  PROVE  SessionInv' /\ Len(sent') = Len(sent) + 1
  <1>1. PICK r \in Requests : sent' = Append(sent, r)
    BY DEF SendRequest
  <1>2. sent \in Seq(Requests)
    BY DEF SessionInv, TypeOK
  <1>3. sent' \in Seq(Requests) /\ Len(sent') = Len(sent) + 1 /\ Len(sent) \in Nat
    BY <1>1, <1>2
  <1> QED BY <1>3, QuietInv DEF SendRequest, timerVars, SessionInv, TypeOK

LEMMA OutsideInv ==
  ASSUME SessionInv, PeerEnds \/ Shutdown \/ DeadlinePasses \/ TimerExpires \/ OnTimer
  PROVE  SessionInv'
  <1>1. /\ UNCHANGED <<opVars, queueVars, sent>>
        /\ peer' \in {"open", "closed", "broken"}
        /\ shutdowns' \in Nat /\ eof' \in {"no", "yes"}
        /\ deadline' \in {"never", "ahead", "passed"}
        /\ wait' \in {"none", "pending", "called"}
    BY DEF PeerEnds, Shutdown, DeadlinePasses, TimerExpires, OnTimer, DoTimeout,
           timerVars, SessionInv, TypeOK
  <1>2. sent' \in Seq(Requests) /\ Len(sent) <= Len(sent')
    BY <1>1 DEF SessionInv, TypeOK
  <1> QED BY <1>1, <1>2, QuietInv

LEMMA HandshakeInv ==
  ASSUME SessionInv, Handshake
  PROVE  SessionInv'
  <1> USE DEF SessionInv, Handshake, queueVars
  <1>1. /\ UNCHANGED <<peer, sent, wr, writes, taken, throws, items, replies>>
        /\ rd = "handshake" /\ items = <<>> /\ reads = 0
        /\ \/ rd' = "on" /\ reads' = 1
           \/ rd' = "failed" /\ reads' = 0
    BY DEF FlowInv, ReadOn
  <1>2. TypeOK'
    <2>1. DoClose \/ (SetTimer /\ UNCHANGED <<eof, shutdowns>>) \/ UNCHANGED timerVars
      BY DEF ReadOn
    <2> QED BY <1>1, <2>1, TimerType DEF TypeOK
  <1>3. NeverStuckNorTwice' /\ FlowInv'
    BY <1>1, LimitAssumption DEF NeverStuckNorTwice, FlowInv, IsFull
  <1>4. OrderInv'
    BY <1>1 DEF OrderInv
  <1> QED BY <1>2, <1>3, <1>4

LEMMA ReadRequestInv ==
  ASSUME SessionInv, ReadRequest
  PROVE  SessionInv'
  <1> USE DEF SessionInv
  <1>1. /\ UNCHANGED <<peer, sent, rd, wr, replies>>
        /\ taken' = taken + 1 /\ taken < Len(sent) /\ reads > 0
        /\ \/ /\ items' = Append(items, taken + 1)
              /\ writes' = (IF items = <<>> THEN writes + 1 ELSE writes)
           \/ UNCHANGED <<items, writes>>
        /\ throws' = throws \/ (throws < MaxThrows /\ throws' = throws + 1)
    BY DEF ReadRequest
  <1>2. /\ items \in Seq(Nat) /\ Len(items) \in Nat /\ reads \in Nat /\ writes \in Nat
        /\ taken \in Nat /\ Len(sent) \in Nat /\ throws \in 0 .. MaxThrows
    BY DEF TypeOK
  <1>3. rd = "on" /\ reads = 1 /\ Len(items) < Limit
    BY <1>1, <1>2, LimitAssumption DEF FlowInv, NeverStuckNorTwice, IsFull
  <1>4. items' \in Seq(Nat) /\ Len(items') \in {Len(items), Len(items) + 1}
    <2>1. CASE items' = Append(items, taken + 1)
      <3>1. taken + 1 \in Nat
        BY <1>2
      <3> QED BY <1>2, <2>1, <3>1
    <2>2. CASE UNCHANGED items
      BY <1>2, <2>2
    <2> QED BY <1>1, <2>1, <2>2
  <1>5. /\ reads' = (IF IsFull(items') THEN 0 ELSE 1)
        /\ (SetTimer /\ UNCHANGED <<eof, shutdowns>>) \/ UNCHANGED timerVars
    BY <1>3 DEF ReadRequest, ReadOn
  <1>6. TypeOK'
    <2>1. throws' \in 0 .. MaxThrows
      BY <1>1, <1>2, BoundsAssumption
    <2>2. Len(items') <= Limit
      BY <1>2, <1>3, <1>4, LimitAssumption
    <2>3. reads' \in Nat /\ taken' \in Nat /\ writes' \in Nat
      BY <1>1, <1>2, <1>5
    <2>4. DoClose \/ (SetTimer /\ UNCHANGED <<eof, shutdowns>>) \/ UNCHANGED timerVars
      BY <1>5
    <2>5. /\ shutdowns' \in Nat /\ eof' \in {"no", "yes"}
          /\ deadline' \in {"never", "ahead", "passed"}
          /\ wait' \in {"none", "pending", "called"}
      BY <2>4, TimerType
    <2>6. UNCHANGED <<peer, sent, rd, wr, replies>>
      BY <1>1
    <2> QED BY <1>4, <2>1, <2>2, <2>3, <2>5, <2>6 DEF TypeOK
  <1>7. NeverStuckNorTwice' /\ FlowInv'
    <2>1. CASE /\ items' = Append(items, taken + 1)
               /\ writes' = (IF items = <<>> THEN writes + 1 ELSE writes)
      <3>1. items' # <<>>
        BY <1>2, <2>1
      <3>2. wr = "on" => writes' = 1
        BY <1>2, <2>1 DEF NeverStuckNorTwice
      <3>3. wr = "over" => writes' = 0
        BY <2>1 DEF FlowInv
      <3> QED BY <1>1, <1>2, <1>3, <1>5, <3>1, <3>2, <3>3
                 DEF TypeOK, NeverStuckNorTwice, FlowInv
    <2>2. CASE UNCHANGED <<items, writes>>
      BY <1>1, <1>3, <1>5, <2>2 DEF NeverStuckNorTwice, FlowInv
    <2> QED BY <1>1, <2>1, <2>2
  <1>8. OrderInv'
    <2>1. taken' <= Len(sent')
      BY <1>1, <1>2
    <2>2. \A i \in 1 .. Len(replies') : replies'[i] \in 1 .. taken'
      BY <1>1, <1>2 DEF OrderInv
    <2>3. CASE items' = Append(items, taken + 1)
      <3>1. /\ Len(items') = Len(items) + 1 /\ items'[Len(items) + 1] = taken + 1
            /\ \A i \in 1 .. Len(items) : items'[i] = items[i]
        BY <1>2, <2>3
      <3>a. /\ \A i \in 1 .. Len(items) : items[i] \in 1 .. taken
            /\ \A i \in 1 .. Len(replies) : replies[i] \in 1 .. taken
            /\ \A i, j \in 1 .. Len(items) : i < j => items[i] < items[j]
            /\ wr = "on" =>
                 \A i \in 1 .. Len(replies), j \in 1 .. Len(items) :
                   replies[i] < items[j]
        BY DEF OrderInv
      <3>b. /\ UNCHANGED <<wr, replies>> /\ taken' = taken + 1
        BY <1>1
      <3>c. ASSUME NEW i \in 1 .. Len(items')
            PROVE  i = Len(items) + 1 \/ i \in 1 .. Len(items)
        BY <1>2, <3>1
      <3>2. \A i \in 1 .. Len(items') : items'[i] \in 1 .. taken'
        <4> SUFFICES ASSUME NEW i \in 1 .. Len(items')
                     PROVE  items'[i] \in 1 .. taken'
          OBVIOUS
        <4>1. CASE i = Len(items) + 1
          BY <1>2, <3>1, <3>b, <4>1
        <4>2. CASE i \in 1 .. Len(items)
          BY <1>2, <3>1, <3>a, <3>b, <4>2
        <4> QED BY <3>c, <4>1, <4>2
      <3>3. \A i, j \in 1 .. Len(items') : i < j => items'[i] < items'[j]
        <4> SUFFICES ASSUME NEW i \in 1 .. Len(items'), NEW j \in 1 .. Len(items'), i < j
                     PROVE  items'[i] < items'[j]
          OBVIOUS
        <4>1. i \in 1 .. Len(items)
          BY <1>2, <3>1
        <4>2. CASE j = Len(items) + 1
          <5>1. items[i] \in 1 .. taken
            BY <3>a, <4>1
          <5>2. items'[i] = items[i] /\ items'[j] = taken + 1
            BY <3>1, <4>1, <4>2
          <5> QED BY <1>2, <5>1, <5>2
        <4>3. CASE j \in 1 .. Len(items)
          BY <3>1, <3>a, <4>1, <4>3
        <4> QED BY <3>c, <4>2, <4>3
      <3>4. wr' = "on" =>
              \A i \in 1 .. Len(replies'), j \in 1 .. Len(items') :
                replies'[i] < items'[j]
        <4> SUFFICES ASSUME wr = "on", NEW i \in 1 .. Len(replies),
                            NEW j \in 1 .. Len(items')
                     PROVE  replies[i] < items'[j]
          BY <3>b
        <4>1. CASE j = Len(items) + 1
          <5>1. replies[i] \in 1 .. taken /\ items'[j] = taken + 1
            BY <3>1, <3>a, <4>1
          <5> QED BY <1>2, <5>1
        <4>2. CASE j \in 1 .. Len(items)
          BY <3>1, <3>a, <4>2
        <4> QED BY <3>c, <4>1, <4>2
      <3> QED BY <2>1, <2>2, <3>2, <3>3, <3>4 DEF OrderInv
    <2>4. CASE UNCHANGED items
      <3>1. \A i \in 1 .. Len(items') : items'[i] \in 1 .. taken'
        BY <1>1, <1>2, <2>4 DEF OrderInv
      <3> QED BY <1>1, <2>1, <2>2, <2>4, <3>1 DEF OrderInv
    <2> QED BY <1>1, <2>3, <2>4
  <1> QED BY <1>6, <1>7, <1>8

LEMMA ReadEndsInv ==
  ASSUME SessionInv, ReadEnds
  PROVE  SessionInv'
  <1> USE DEF SessionInv
  <1>1. /\ UNCHANGED <<peer, sent, wr, writes, taken, throws, items, replies>>
        /\ reads > 0 /\ reads' = reads - 1 /\ rd' = "over"
        /\ DoClose \/ UNCHANGED timerVars
    BY DEF ReadEnds, queueVars
  <1>2. rd = "on" /\ reads = 1 /\ ~IsFull(items)
    BY <1>1 DEF TypeOK, FlowInv, NeverStuckNorTwice
  <1>3. TypeOK'
    BY <1>1, <1>2, TimerType DEF TypeOK
  <1>4. NeverStuckNorTwice' /\ FlowInv'
    BY <1>1, <1>2 DEF NeverStuckNorTwice, FlowInv, IsFull
  <1>5. OrderInv'
    BY <1>1 DEF OrderInv
  <1> QED BY <1>3, <1>4, <1>5

LEMMA WriteAnswerInv ==
  ASSUME SessionInv, WriteAnswer
  PROVE  SessionInv'
  <1> USE DEF SessionInv
  <1>1. /\ UNCHANGED <<peer, sent, rd, taken, throws>>
        /\ writes > 0 /\ replies' = Append(replies, Head(items))
    BY DEF WriteAnswer
  <1>2. /\ items \in Seq(Nat) /\ replies \in Seq(Nat) /\ reads \in Nat
        /\ taken \in Nat /\ Len(items) \in Nat /\ Len(items) <= Limit
    BY DEF TypeOK
  <1>3. wr = "on" /\ writes = 1 /\ items # <<>>
    BY <1>1 DEF TypeOK, FlowInv, NeverStuckNorTwice
  <1>4. /\ Head(items) = items[1] /\ 1 \in 1 .. Len(items)
        /\ Tail(items) \in Seq(Nat) /\ Len(Tail(items)) = Len(items) - 1
        /\ \A i \in 1 .. Len(Tail(items)) : Tail(items)[i] = items[i + 1]
    BY <1>2, <1>3
  <1>5. /\ replies' \in Seq(Nat) /\ Len(replies') = Len(replies) + 1
        /\ replies'[Len(replies) + 1] = items[1]
        /\ \A i \in 1 .. Len(replies) : replies'[i] = replies[i]
    BY <1>1, <1>2, <1>4
  <1>6. \A i \in 1 .. Len(replies') : replies'[i] \in 1 .. taken'
    BY <1>1, <1>4, <1>5 DEF OrderInv
  <1>7. CASE DoClose /\ wr' = "over" /\ writes' = writes - 1 /\ UNCHANGED <<reads, items>>
    <2>1. TypeOK'
      BY <1>1, <1>3, <1>5, <1>7, TimerType DEF TypeOK
    <2>2. NeverStuckNorTwice' /\ FlowInv'
      BY <1>1, <1>3, <1>7 DEF NeverStuckNorTwice, FlowInv, IsFull
    <2>3. OrderInv'
      BY <1>1, <1>6, <1>7 DEF OrderInv
    <2> QED BY <2>1, <2>2, <2>3
  <1>8. CASE WriteNext /\ UNCHANGED wr
    <2>1. /\ items' = Tail(items)
          /\ writes' = (IF items' = <<>> THEN 0 ELSE 1)
          /\ reads' = (IF IsFull(items) THEN reads + 1 ELSE reads)
          /\ (SetTimer /\ UNCHANGED <<eof, shutdowns>>) \/ UNCHANGED timerVars
      BY <1>3, <1>8 DEF WriteNext, ReadOn
    <2>2. TypeOK'
      <3>1. Len(items') <= Limit
        BY <1>2, <1>4, <2>1, LimitAssumption
      <3> QED BY <1>1, <1>2, <1>4, <1>5, <1>8, <2>1, <3>1, TimerType DEF TypeOK
    <2>3. ~IsFull(items')
      BY <1>2, <1>4, <2>1, LimitAssumption DEF IsFull
    <2>4. IsFull(items) => rd = "on" /\ reads = 0
      BY <1>2, <1>3, LimitAssumption DEF TypeOK, FlowInv, NeverStuckNorTwice
    <2>5. rd = "on" => reads' = 1
      BY <1>2, <2>1, <2>4 DEF NeverStuckNorTwice
    <2>6. rd # "on" => reads' = 0 /\ (rd \in {"handshake", "failed"} => FALSE)
      BY <1>3, <2>1, <2>4 DEF FlowInv
    <2>7. NeverStuckNorTwice' /\ FlowInv'
      BY <1>1, <1>3, <1>8, <2>1, <2>3, <2>5, <2>6 DEF NeverStuckNorTwice, FlowInv
    <2>8. OrderInv'
      <3>1. \A i \in 1 .. Len(items') : items'[i] = items[i + 1] /\ i + 1 \in 1 .. Len(items)
        BY <1>2, <1>4, <2>1
      <3>2. \A i \in 1 .. Len(items') : items'[i] \in 1 .. taken'
        BY <1>1, <3>1 DEF OrderInv
      <3>3. \A i, j \in 1 .. Len(items') : i < j => items'[i] < items'[j]
        BY <3>1 DEF OrderInv
      <3>4. \A i \in 1 .. Len(replies'), j \in 1 .. Len(items') :
              replies'[i] < items'[j]
        <4> TAKE i \in 1 .. Len(replies'), j \in 1 .. Len(items')
        <4>1. items'[j] = items[j + 1] /\ j + 1 \in 1 .. Len(items) /\ 1 < j + 1
          BY <3>1
        <4>2. CASE i \in 1 .. Len(replies)
          BY <1>3, <1>5, <4>1, <4>2 DEF OrderInv
        <4>3. CASE i = Len(replies) + 1
          BY <1>4, <1>5, <4>1, <4>3 DEF OrderInv
        <4>4. Len(replies) \in Nat
          BY <1>2
        <4> QED BY <1>5, <4>2, <4>3, <4>4
      <3> QED BY <1>1, <1>6, <3>2, <3>3, <3>4 DEF OrderInv
    <2> QED BY <2>2, <2>7, <2>8
  <1> QED BY <1>7, <1>8 DEF WriteAnswer

LEMMA WriteFailsInv ==
  ASSUME SessionInv, WriteFails
  PROVE  SessionInv'
  <1> USE DEF SessionInv
  <1>1. /\ UNCHANGED <<peer, sent, rd, reads, taken, throws, items, replies>>
        /\ UNCHANGED <<eof, shutdowns, deadline, wait>>
        /\ writes > 0 /\ writes' = writes - 1 /\ wr' = "over"
    BY DEF WriteFails, queueVars, timerVars
  <1>2. wr = "on" /\ writes = 1 /\ items # <<>>
    BY <1>1 DEF TypeOK, FlowInv, NeverStuckNorTwice
  <1>3. TypeOK'
    BY <1>1, <1>2 DEF TypeOK
  <1>4. NeverStuckNorTwice' /\ FlowInv'
    BY <1>1, <1>2 DEF NeverStuckNorTwice, FlowInv, IsFull
  <1>5. OrderInv'
    BY <1>1 DEF OrderInv
  <1> QED BY <1>3, <1>4, <1>5

LEMMA StepInv == SessionInv /\ [Next]_vars => SessionInv'
  <1> SUFFICES ASSUME SessionInv, [Next]_vars PROVE SessionInv'
    OBVIOUS
  <1>1. CASE SendRequest
    BY <1>1, SendRequestInv
  <1>2. CASE PeerEnds \/ Shutdown \/ DeadlinePasses \/ TimerExpires \/ OnTimer
    BY <1>2, OutsideInv
  <1>3. CASE Handshake
    BY <1>3, HandshakeInv
  <1>4. CASE ReadRequest
    BY <1>4, ReadRequestInv
  <1>5. CASE ReadEnds
    BY <1>5, ReadEndsInv
  <1>6. CASE WriteAnswer
    BY <1>6, WriteAnswerInv
  <1>7. CASE WriteFails
    BY <1>7, WriteFailsInv
  <1>8. CASE UNCHANGED vars
    BY <1>8 DEF vars, SessionInv, TypeOK, NeverStuckNorTwice, FlowInv, OrderInv, IsFull
  <1> QED BY <1>1, <1>2, <1>3, <1>4, <1>5, <1>6, <1>7, <1>8 DEF Next, Complete

\* The inductive invariant, and in it the type and the limit of the queue.
THEOREM SessionInvHolds == Spec => []SessionInv
  <1>1. Init => SessionInv
    BY InitInv
  <1>2. SessionInv /\ [Next]_vars => SessionInv'
    BY StepInv
  <1> QED BY <1>1, <1>2, PTL DEF Spec

\* Queue and on_read, on_write between them: reading stops at the limit and starts
\* again below it, and one answer at a time is written.
THEOREM SessionNeverStuck == Spec => []NeverStuckNorTwice
  <1>1. SessionInv => NeverStuckNorTwice
    BY DEF SessionInv
  <1> QED BY <1>1, SessionInvHolds, PTL

-----------------------------------------------------------------------------
(***************************************************************************)
(* No answer is lost, and no session.                                      *)
(***************************************************************************)
LEMMA ReadLosesNothing ==
  ASSUME SessionInv, NoAnswerIsLost, ReadRequest
  PROVE  NoAnswerIsLost'
  <1>1. /\ taken' = taken + 1 /\ UNCHANGED <<wr, replies>>
        /\ \/ items' = Append(items, taken + 1) /\ throws' = throws
           \/ items' = items /\ throws' = throws + 1
    BY DEF ReadRequest
  <1>2. /\ taken \in Nat /\ throws \in Nat /\ items \in Seq(Nat) /\ replies \in Seq(Nat)
        /\ wr = "over" => items # <<>>
    BY BoundsAssumption DEF SessionInv, TypeOK, FlowInv
  <1>3. Ending' = Ending
    <2>1. CASE wr = "over"
      <3>1. Len(items) \in Nat \ {0} /\ taken + 1 \in Nat
        BY <1>2, <2>1
      <3>2. Append(items, taken + 1)[1] = items[1]
        BY <1>2, <3>1
      <3>3. items'[1] = items[1]
        BY <1>1, <3>2
      <3> QED BY <1>1, <3>3 DEF Ending
    <2>2. CASE wr # "over"
      BY <1>1, <2>2 DEF Ending
    <2> QED BY <2>1, <2>2
  <1>4. Ending \in Nat /\ Len(replies) \in Nat /\ Len(items) \in Nat
    BY <1>2 DEF Ending
  <1>5. /\ throws' + Len(items') = throws + Len(items) + 1
        /\ Len(items') \in Nat /\ throws' \in Nat
    <2>1. taken + 1 \in Nat
      BY <1>2
    <2>2. CASE items' = Append(items, taken + 1) /\ throws' = throws
      <3>1. Len(items') = Len(items) + 1
        BY <1>2, <2>1, <2>2
      <3> QED BY <1>2, <1>4, <2>2, <3>1
    <2>3. CASE items' = items /\ throws' = throws + 1
      BY <1>2, <1>4, <2>3
    <2> QED BY <1>1, <2>2, <2>3
  <1>6. Len(replies') = Len(replies)
    BY <1>1
  <1>7. taken + Ending = throws + Len(replies) + Len(items)
    BY DEF NoAnswerIsLost
  <1>8. taken' + Ending' = throws' + Len(replies') + Len(items')
    <2>1. taken' = taken + 1 /\ taken \in Nat /\ throws \in Nat
      BY <1>1, <1>2
    <2> QED BY <1>3, <1>4, <1>5, <1>6, <1>7, <2>1
  <1> QED BY <1>8 DEF NoAnswerIsLost

LEMMA WriteLosesNothing ==
  ASSUME SessionInv, NoAnswerIsLost, WriteAnswer \/ WriteFails
  PROVE  NoAnswerIsLost'
  <1>1. writes > 0 /\ UNCHANGED <<taken, throws>>
    BY DEF WriteAnswer, WriteFails, queueVars
  <1>2. /\ wr = "on" /\ items # <<>> /\ items \in Seq(Nat) /\ replies \in Seq(Nat)
        /\ taken \in Nat /\ throws \in Nat
    BY <1>1, BoundsAssumption DEF SessionInv, TypeOK, FlowInv, NeverStuckNorTwice
  <1>3. taken = throws + Len(replies) + Len(items)
    BY <1>2 DEF NoAnswerIsLost, Ending
  <1>4. Len(replies) \in Nat /\ Len(items) \in Nat \ {0}
    BY <1>2
  <1>5. CASE WriteAnswer
    <2>1. /\ replies' = Append(replies, Head(items))
          /\ \/ wr' = "over" /\ items' = items
             \/ wr' = wr /\ items' = Tail(items)
      BY <1>5 DEF WriteAnswer, WriteNext
    <2>2. /\ Len(replies') = Len(replies) + 1 /\ replies' # <<>>
          /\ replies'[Len(replies')] = items[1]
      BY <1>2, <2>1
    <2>3. CASE wr' = "over" /\ items' = items
      <3>1. Ending' = 1
        BY <2>2, <2>3 DEF Ending
      <3>2. Len(items') = Len(items)
        BY <2>3
      <3>3. taken' + Ending' = throws' + Len(replies') + Len(items')
        BY <1>1, <1>2, <1>3, <1>4, <2>2, <3>1, <3>2
      <3> QED BY <3>3 DEF NoAnswerIsLost
    <2>4. CASE wr' = wr /\ items' = Tail(items)
      <3>1. Len(items') = Len(items) - 1
        BY <1>2, <2>4
      <3> QED BY <1>1, <1>2, <1>3, <1>4, <2>2, <2>4, <3>1 DEF NoAnswerIsLost, Ending
    <2> QED BY <2>1, <2>3, <2>4
  <1>6. CASE WriteFails
    <2>1. UNCHANGED <<items, replies>>
      BY <1>6 DEF WriteFails, queueVars
    <2>2. replies # <<>> => replies[Len(replies)] # items[1]
      <3>1. \A i \in 1 .. Len(replies) : replies[i] < items[1]
        BY <1>2, <1>4 DEF SessionInv, OrderInv
      <3>2. items[1] \in Nat
        BY <1>2, <1>4
      <3>3. replies # <<>> => Len(replies) \in 1 .. Len(replies)
        BY <1>2
      <3> QED BY <3>1, <3>2, <3>3
    <2>3. Ending' = 0
      BY <2>1, <2>2 DEF Ending
    <2> QED BY <1>1, <1>3, <1>4, <2>1, <2>3 DEF NoAnswerIsLost
  <1> QED BY <1>5, <1>6

\* Every request that a session has read is answered, has its answer waiting in the
\* queue, or its handler threw.
THEOREM AnswersAreKept == Spec => []NoAnswerIsLost
  <1>1. Init => NoAnswerIsLost
    BY DEF Init, NoAnswerIsLost, Ending
  <1>2. ASSUME SessionInv, NoAnswerIsLost, [Next]_vars PROVE NoAnswerIsLost'
    <2>1. CASE SendRequest \/ PeerEnds \/ Shutdown \/ DeadlinePasses \/ TimerExpires
               \/ OnTimer \/ Handshake \/ ReadEnds \/ UNCHANGED vars
      <3>1. UNCHANGED <<taken, throws, items, replies, wr>>
        BY <2>1 DEF SendRequest, PeerEnds, Shutdown, DeadlinePasses, TimerExpires, OnTimer,
                    Handshake, ReadEnds, opVars, queueVars, vars
      <3> QED BY <1>2, <3>1 DEF NoAnswerIsLost, Ending
    <2> QED BY <1>2, <2>1, ReadLosesNothing, WriteLosesNothing DEF Next, Complete
  <1> QED BY <1>1, <1>2, SessionInvHolds, PTL DEF Spec

\* A session that is not shut down yet is watched by its timer.
THEOREM SessionsAreWatched == Spec => []SessionIsWatched
  <1>1. Init => SessionIsWatched
    BY DEF Init, SessionIsWatched
  <1>2. ASSUME SessionInv, SessionIsWatched, [Next]_vars PROVE SessionIsWatched'
    <2>1. CASE SendRequest \/ PeerEnds \/ Shutdown \/ WriteFails \/ UNCHANGED vars
      BY <1>2, <2>1 DEF SendRequest, PeerEnds, Shutdown, WriteFails, timerVars, vars,
                        SessionIsWatched
    <2>2. CASE Handshake \/ ReadRequest \/ ReadEnds \/ WriteAnswer
      BY <1>2, <2>2 DEF Handshake, ReadRequest, ReadEnds, WriteAnswer, WriteNext, ReadOn,
                        DoClose, SetTimer, timerVars, SessionIsWatched, SessionInv, TypeOK
    <2>3. CASE DeadlinePasses \/ TimerExpires \/ OnTimer
      BY <1>2, <2>3 DEF DeadlinePasses, TimerExpires, OnTimer, DoTimeout, SessionIsWatched
    <2> QED BY <1>2, <2>1, <2>2, <2>3 DEF Next, Complete
  <1> QED BY <1>1, <1>2, SessionInvHolds, PTL DEF Spec

-----------------------------------------------------------------------------
(***************************************************************************)
(* HttpSession implements RequestReply.                                    *)
(***************************************************************************)
LEMMA ReplyStep ==
  ASSUME SessionInv, WriteAnswer
  PROVE  Pipeline!Next
  <1>1. /\ replies' = Append(replies, Head(items)) /\ UNCHANGED sent /\ writes > 0
    BY DEF WriteAnswer
  <1>2. wr = "on" /\ items # <<>> /\ items \in Seq(Nat)
    BY <1>1 DEF SessionInv, TypeOK, FlowInv, NeverStuckNorTwice
  <1>3. Head(items) = items[1] /\ 1 \in 1 .. Len(items)
    BY <1>2
  <1>4. taken \in Nat /\ Len(sent) \in Nat /\ taken <= Len(sent) /\ items[1] \in 1 .. taken
    BY <1>3 DEF SessionInv, TypeOK, OrderInv
  <1>5. Head(items) \in 1 .. Len(sent)
    BY <1>3, <1>4
  <1>6. \A i \in 1 .. Len(replies) : replies[i] < Head(items)
    BY <1>2, <1>3 DEF SessionInv, OrderInv
  <1>7. Pipeline!Reply
    BY <1>1, <1>2, <1>5, <1>6 DEF Pipeline!Reply
  <1> QED BY <1>7 DEF Pipeline!Next

\* Clients that pipeline are answered in the order of their requests, each at most
\* once.
THEOREM SessionImplementsReplies == Spec => ImplementsReplies
  <1>1. Init => Pipeline!Init
    BY DEF Init, Pipeline!Init
  <1>2. SessionInv /\ [Next]_vars => [Pipeline!Next]_(Pipeline!vars)
    <2> SUFFICES ASSUME SessionInv, [Next]_vars
                 PROVE  [Pipeline!Next]_(Pipeline!vars)
      OBVIOUS
    <2>1. CASE SendRequest
      <3>1. Len(sent') = Len(sent) + 1
        BY <2>1, SendRequestInv
      <3>2. UNCHANGED <<replies, wr>>
        BY <2>1 DEF SendRequest, opVars, queueVars
      <3> QED BY <3>1, <3>2 DEF Pipeline!Next, Pipeline!Ask
    <2>2. CASE WriteAnswer
      BY <2>2, ReplyStep
    <2>3. CASE WriteFails
      <3>1. UNCHANGED <<sent, replies>> /\ wr' = "over"
        BY <2>3 DEF WriteFails, queueVars
      <3> QED BY <3>1 DEF Pipeline!Next, Pipeline!Close
    <2>4. CASE \/ PeerEnds \/ Shutdown \/ DeadlinePasses \/ TimerExpires \/ OnTimer
               \/ Handshake \/ ReadRequest \/ ReadEnds \/ UNCHANGED vars
      <3>1. UNCHANGED <<sent, replies, wr>>
        BY <2>4 DEF PeerEnds, Shutdown, DeadlinePasses, TimerExpires, OnTimer,
                    Handshake, ReadRequest, ReadEnds, vars, opVars, queueVars
      <3> QED BY <3>1 DEF Pipeline!vars
    <2> QED BY <2>1, <2>2, <2>3, <2>4 DEF Next, Complete
  <1> QED BY <1>1, <1>2, SessionInvHolds, PTL DEF Spec, Pipeline!Spec, ImplementsReplies
=============================================================================
