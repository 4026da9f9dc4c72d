---------------------------- MODULE ServerProofs ----------------------------
(***************************************************************************)
(* Proofs about three parts that every server is built from: JobManager,   *)
(* TlsListener and FileSession.  They share no state; each theorem is      *)
(* about one of the three specifications.                                  *)
(***************************************************************************)
EXTENDS JobManager, TlsListener, FileSession, TLAPS

(***************************************************************************)
(* JobManager, for any number of jobs.                                     *)
(***************************************************************************)
LEMMA InitInv == Init => ManagerInv
  BY NobodyAssumption DEF Init, ManagerInv, TypeOK, DiesOfKnownCauses, JobInv

\* What is known of a job holds on when a step leaves all that is its own alone.
LEMMA OtherJob ==
  ASSUME NEW j \in Jobs, JobInv(j),
         UNCHANGED <<start[j], entry[j], worker[j], thread[j]>>,
         j \in canceled' <=> j \in canceled, j \in missed' <=> j \in missed,
         mutex' = j <=> mutex = j
  PROVE  JobInv(j)'
  BY DEF JobInv

LEMMA StartInv ==
  ASSUME ManagerInv, NEW i \in Jobs, Start(i) \/ InStart(i)
  PROVE  ManagerInv'
  <1> USE DEF ManagerInv, InStart
  <1>1. TypeOK'
    BY DEF Start, ThreadStarts, ThreadFails, StartReturns, TypeOK
  <1>2. JobInv(i)'
    <2>1. CASE Start(i)
      BY <2>1, NobodyAssumption DEF Start, Free, TypeOK, JobInv
    <2>2. CASE ThreadStarts(i)
      BY <2>2, NobodyAssumption DEF ThreadStarts, TypeOK, JobInv
    <2>3. CASE ThreadFails(i)
      BY <2>3, NobodyAssumption DEF ThreadFails, TypeOK, JobInv
    <2>4. CASE StartReturns(i)
      BY <2>4, NobodyAssumption DEF StartReturns, TypeOK, JobInv
    <2> QED BY <2>1, <2>2, <2>3, <2>4
  <1>3. \A j \in Jobs \ {i} : JobInv(j)'
    <2> TAKE j \in Jobs \ {i}
    <2>1. UNCHANGED <<start[j], entry[j], worker[j], thread[j], canceled, missed>>
      BY DEF Start, ThreadStarts, ThreadFails, StartReturns, TypeOK
    <2>2. mutex' = j <=> mutex = j
      BY NobodyAssumption DEF Start, Free, ThreadStarts, ThreadFails, StartReturns, TypeOK
    <2> QED BY <2>1, <2>2, OtherJob
  <1>4. up /\ up'
    BY DEF Start, Free, ThreadStarts, ThreadFails, StartReturns
  <1> QED BY <1>1, <1>2, <1>3, <1>4 DEF DiesOfKnownCauses

LEMMA ThreadInv ==
  ASSUME ManagerInv, NEW i \in Jobs, RunEnds(i) \/ OnThread(i)
  PROVE  ManagerInv'
  <1> USE DEF ManagerInv, OnThread
  <1>1. TypeOK'
    BY DEF RunEnds, Detach, WorkerFinished, TypeOK
  <1>2. JobInv(i)'
    <2>1. CASE RunEnds(i)
      BY <2>1 DEF RunEnds, TypeOK, JobInv
    <2>2. CASE Detach(i)
      BY <2>2 DEF Detach, TypeOK, JobInv
    <2>3. CASE WorkerFinished(i)
      BY <2>3, NobodyAssumption DEF WorkerFinished, Free, TypeOK, JobInv
    <2> QED BY <2>1, <2>2, <2>3
  <1>3. \A j \in Jobs \ {i} : JobInv(j)'
    <2> TAKE j \in Jobs \ {i}
    <2>1. /\ UNCHANGED <<start[j], entry[j], worker[j], thread[j], mutex, missed>>
          /\ j \in canceled' <=> j \in canceled
      BY DEF RunEnds, Detach, WorkerFinished, TypeOK
    <2> QED BY <2>1, OtherJob
  <1>4. DiesOfKnownCauses'
    <2>1. up' \/ (thread'[i] = "returned" /\ worker'[i] = "made")
      <3>1. CASE Detach(i) /\ ~up'
        BY <3>1 DEF Detach, TypeOK, JobInv
      <3>2. CASE RunEnds(i) \/ WorkerFinished(i)
        BY <3>2 DEF RunEnds, WorkerFinished, Free
      <3> QED BY <3>1, <3>2 DEF Detach
    <2> QED BY <2>1 DEF DiesOfKnownCauses
  <1> QED BY <1>1, <1>2, <1>3, <1>4

LEMMA RequestInv ==
  ASSUME ManagerInv,
         UseNull \/ (\E i \in Jobs : CancelJob(i) \/ MissJob(i)) \/ UNCHANGED vars
  PROVE  ManagerInv'
  <1> USE DEF ManagerInv
  <1>1. ASSUME NEW i \in Jobs, CancelJob(i) \/ MissJob(i)
        PROVE  ManagerInv'
    <2>1. TypeOK'
      BY <1>1 DEF CancelJob, MissJob, TypeOK
    <2>2. JobInv(i)'
      BY <1>1 DEF CancelJob, MissJob, Free, TypeOK, JobInv
    <2>3. \A j \in Jobs \ {i} : JobInv(j)'
      <3> TAKE j \in Jobs \ {i}
      <3>1. /\ UNCHANGED <<start[j], entry[j], worker[j], thread[j], mutex>>
            /\ j \in canceled' <=> j \in canceled
            /\ j \in missed' <=> j \in missed
        BY <1>1 DEF CancelJob, MissJob
      <3> QED BY <3>1, OtherJob
    <2>4. up /\ up'
      BY <1>1 DEF CancelJob, MissJob, Free
    <2> QED BY <2>1, <2>2, <2>3, <2>4 DEF DiesOfKnownCauses
  <1>2. CASE UseNull
    <2>1. PICK j \in Jobs : entry[j] = "null"
      BY <1>2 DEF UseNull
    <2>2. mutex = Nobody /\ start[j] # "in"
      BY <1>2, NobodyAssumption DEF UseNull, Free, JobInv
    <2>3. start[j] = "failed"
      BY <2>1, <2>2 DEF JobInv, TypeOK
    <2>4. DiesOfKnownCauses'
      BY <1>2, <2>1, <2>3 DEF UseNull, DiesOfKnownCauses
    <2>5. TypeOK' /\ \A k \in Jobs : JobInv(k)'
      BY <1>2 DEF UseNull, TypeOK, JobInv
    <2> QED BY <2>4, <2>5
  <1>3. CASE UNCHANGED vars
    BY <1>3 DEF vars, TypeOK, DiesOfKnownCauses, JobInv
  <1> QED BY <1>1, <1>2, <1>3

\* The call of start(), the entry, the Worker and the thread of each job belong
\* together as ManagerInv says, whatever threads and requests do.
THEOREM ManagerInvHolds == Spec => []ManagerInv
  <1>1. ManagerInv /\ [Next]_vars => ManagerInv'
    BY StartInv, ThreadInv, RequestInv DEF Next
  <1> QED BY InitInv, <1>1, PTL DEF Spec

\* Whoever was given the id of a job and does not find it knows that it is over.
THEOREM MissedJobsAreOver == Spec => []MissedIsOver
  <1>1. ManagerInv => MissedIsOver
    BY DEF ManagerInv, TypeOK, JobInv, MissedIsOver
  <1> QED BY ManagerInvHolds, <1>1, PTL

\* A Worker is freed when its constructor and its thread are done with it.
THEOREM FreedWorkersAreUnused == Spec => []FreedIsUnused
  <1>1. ManagerInv => FreedIsUnused
    BY DEF ManagerInv, TypeOK, JobInv, FreedIsUnused
  <1> QED BY ManagerInvHolds, <1>1, PTL

\* Nothing but a job that is over too soon, or a thread that cannot be had, lets the
\* process end.
THEOREM ManagerDiesOfKnownCauses == Spec => []DiesOfKnownCauses
  <1>1. ManagerInv => DiesOfKnownCauses
    BY DEF ManagerInv
  <1> QED BY ManagerInvHolds, <1>1, PTL

-----------------------------------------------------------------------------
(***************************************************************************)
(* TlsListener, for any clients and any number of exceptions.              *)
(***************************************************************************)
LEMMA ListenerInitInv == ListenerInit => ListenerInv
  BY FaultsAssumption DEF ListenerInit, ListenerInv, ListenerTypeOK, OneContinuation, Listeners

\* start_locked leaves the accept under way or the timer set, and not both.
LEMMA StartLockedGoesOn ==
  ASSUME ListenerTypeOK, NEW l \in Listeners, NEW timers, NEW f \in 0 .. MaxFaults,
         StartLocked(l, timers, f),
         timers \in [Listeners -> {"off", "waiting", "due"}], timers[l] = "off",
         \A k \in Listeners \ {l} : timers[k] = retry[k]
  PROVE  /\ listening' \subseteq listening \union {l}
         /\ listening \subseteq listening' \union {l}
         /\ accept' \in [Listeners -> {"none", "pending", "done", "failed"}]
         /\ current' \in [Listeners -> Clients \union {NoClient}]
         /\ retry' \in [Listeners -> {"off", "waiting", "due"}]
         /\ queue' \in [Listeners -> SUBSET Clients]
         /\ faults' \in 0 .. MaxFaults
         /\ f <= faults' /\ faults' <= f + 1
         /\ current'[l] = NoClient
         /\ \/ accept'[l] = "pending" /\ retry'[l] = "off" /\ l \in listening'
            \/ accept'[l] = "none" /\ retry'[l] = "waiting"
         /\ \A k \in Listeners \ {l} :
              UNCHANGED <<accept[k], current[k], retry[k]>>
  <1>1. CASE Listen(l, timers, f)
    BY <1>1 DEF Listen, ListenerTypeOK
  <1>2. CASE RetryLater(l, timers, f)
    <2>1. faults' \in 0 .. MaxFaults /\ f <= faults' /\ faults' <= f + 1
      BY <1>2, FaultsAssumption DEF RetryLater
    <2> QED BY <1>2, <2>1 DEF RetryLater, ListenerTypeOK
  <1> QED BY <1>1, <1>2 DEF StartLocked

\* The constructor, the handler of an accept and that of the timer all end with it.
LEMMA GoesOnInv ==
  ASSUME ListenerInv, NEW l \in Listeners,
         StartListener(l) \/ AcceptCompletes(l) \/ (Retry(l) /\ l \notin disposed)
  PROVE  ListenerInv'
  <1> DEFINE timers == [retry EXCEPT ![l] = "off"]
  <1> USE DEF ListenerInv
  <1>1. timers \in [Listeners -> {"off", "waiting", "due"}] /\ timers[l] = "off"
        /\ \A k \in Listeners \ {l} : timers[k] = retry[k]
    BY DEF ListenerTypeOK
  <1>2. /\ \E f \in 0 .. MaxFaults : StartLocked(l, timers, f)
        /\ UNCHANGED disposed
        /\ begun' = begun \union {l} /\ l \notin disposed
    <2>1. CASE StartListener(l)
      <3>1. retry = timers
        BY <2>1 DEF StartListener, ListenerTypeOK
      <3>2. StartLocked(l, timers, faults) /\ faults \in 0 .. MaxFaults
        <4>1. StartLocked(l, retry, faults)
          BY <2>1 DEF StartListener
        <4> HIDE DEF timers
        <4> QED BY <3>1, <4>1 DEF ListenerTypeOK
      <3> QED BY <2>1, <3>2 DEF StartListener, ListenerTypeOK
    <2>2. CASE AcceptCompletes(l)
      <3>1. retry = timers
        BY <2>2 DEF AcceptCompletes, Running, OneContinuation, ListenerTypeOK
      <3>2. \E f \in 0 .. MaxFaults : StartLocked(l, timers, f)
        <4>1. \/ StartLocked(l, retry, faults)
              \/ faults < MaxFaults /\ StartLocked(l, retry, faults + 1)
          BY <2>2 DEF AcceptCompletes, Drop
        <4>2. faults \in 0 .. MaxFaults /\ (faults < MaxFaults => faults + 1 \in 0 .. MaxFaults)
          BY FaultsAssumption DEF ListenerTypeOK
        <4> HIDE DEF timers
        <4> QED BY <3>1, <4>1, <4>2
      <3> QED BY <2>2, <3>2 DEF AcceptCompletes, Running, ListenerTypeOK
    <2>3. CASE Retry(l) /\ l \notin disposed
      <3>1. StartLocked(l, timers, faults) /\ faults \in 0 .. MaxFaults
        BY <2>3 DEF Retry, ListenerTypeOK
      <3> QED BY <2>3, <3>1 DEF Retry, Running, ListenerTypeOK
    <2> QED BY <2>1, <2>2, <2>3
  <1>3. posted' \subseteq Clients /\ UNCHANGED <<dualStack, served, gone>>
    <2>1. ASSUME HandOn(l) PROVE posted' \subseteq Clients
      BY <2>1 DEF HandOn, ListenerTypeOK
    <2> QED BY <2>1 DEF StartListener, AcceptCompletes, Reject, Drop, Retry, ListenerTypeOK
  <1> HIDE DEF timers
  <1>4. ListenerTypeOK'
    BY <1>1, <1>2, <1>3, StartLockedGoesOn DEF ListenerTypeOK
  <1>5. OneContinuation'
    <2> SUFFICES ASSUME NEW k \in begun' \ disposed'
                 PROVE  (accept[k] = "none" <=> retry[k] # "off")'
                        /\ (accept[k] # "none" => k \in listening)'
        BY DEF OneContinuation
    <2>1. CASE k = l
      BY <1>1, <1>2, <2>1, StartLockedGoesOn
    <2>2. CASE k # l
      BY <1>1, <1>2, <2>2, StartLockedGoesOn DEF OneContinuation, ListenerTypeOK
    <2> QED BY <2>1, <2>2
  <1>6. /\ \A k \in Listeners \ begun' : accept'[k] = "none" /\ retry'[k] = "off"
        /\ \A k \in Listeners : accept'[k] = "done" <=> current'[k] # NoClient
    BY <1>1, <1>2, StartLockedGoesOn
  <1> QED BY <1>4, <1>5, <1>6

LEMMA DisposedInv ==
  ASSUME ListenerInv, NEW l \in Listeners,
         Dispose(l) \/ LateCompletion(l) \/ (Retry(l) /\ l \in disposed)
  PROVE  ListenerInv'
  <1> USE DEF ListenerInv
  <1>1. CASE Dispose(l)
    BY <1>1 DEF Dispose, Running, ListenerTypeOK, OneContinuation
  <1>2. CASE LateCompletion(l)
    BY <1>2 DEF LateCompletion, ListenerTypeOK, OneContinuation
  <1>3. CASE Retry(l) /\ l \in disposed
    BY <1>3 DEF Retry, Running, ListenerTypeOK, OneContinuation
  <1> QED BY <1>1, <1>2, <1>3

LEMMA AcceptInv ==
  ASSUME ListenerInv, NEW l \in Listeners,
         AcceptSucceeds(l) \/ AcceptFails(l) \/ RetryExpires(l)
  PROVE  ListenerInv'
  <1> USE DEF ListenerInv
  <1>1. CASE AcceptSucceeds(l)
    BY <1>1, ClientsAssumption
       DEF AcceptSucceeds, Running, ListenerTypeOK, OneContinuation, Clients
  <1>2. CASE AcceptFails(l)
    BY <1>2, FaultsAssumption DEF AcceptFails, Running, ListenerTypeOK, OneContinuation
  <1>3. CASE RetryExpires(l)
    BY <1>3 DEF RetryExpires, Running, ListenerTypeOK, OneContinuation
  <1> QED BY <1>1, <1>2, <1>3

LEMMA ClientInv ==
  ASSUME ListenerInv,
         UNCHANGED listenerVars
         \/ \E c \in Clients : Connect(c) \/ GivesUp(c) \/ CallBack(c) \/ CallBackThrows(c)
  PROVE  ListenerInv'
  <1> USE DEF ListenerInv
  <1>1. ASSUME NEW c \in Clients, Connect(c) PROVE ListenerInv'
    <2>1. queue' \in [Listeners -> SUBSET Clients]
      BY <1>1 DEF Connect, ListenerTypeOK
    <2> QED BY <1>1, <2>1 DEF Connect, ListenerTypeOK, OneContinuation
  <1>2. ASSUME NEW c \in Clients, GivesUp(c) \/ CallBack(c) PROVE ListenerInv'
    BY <1>2 DEF GivesUp, CallBack, sockets, ListenerTypeOK, OneContinuation
  <1>3. CASE UNCHANGED listenerVars
    BY <1>3 DEF listenerVars, sockets, ListenerTypeOK, OneContinuation
  <1>4. ASSUME NEW c \in Clients, CallBackThrows(c) PROVE ListenerInv'
    <2>1. faults' \in 0 .. MaxFaults
      BY <1>4, FaultsAssumption DEF CallBackThrows, ListenerTypeOK
    <2> QED BY <1>4, <2>1 DEF CallBackThrows, sockets, ListenerTypeOK, OneContinuation
  <1> QED BY <1>1, <1>2, <1>3, <1>4

LEMMA ListenerStep == ListenerInv /\ [ListenerNext]_listenerVars => ListenerInv'
  BY GoesOnInv, DisposedInv, AcceptInv, ClientInv DEF ListenerNext

\* What ListenerInv says holds for any number of clients, exceptions and failures.
THEOREM ListenerInvHolds == ListenerSpec => []ListenerInv
  BY ListenerInitInv, ListenerStep, PTL DEF ListenerSpec

\* A listener that runs always goes on in exactly one way: with an accept on its
\* acceptor, or with the timer that will try again.
THEOREM ListenersGoOn == ListenerSpec => []OneContinuation
  <1>1. ListenerInv => OneContinuation
    BY DEF ListenerInv
  <1> QED BY ListenerInvHolds, <1>1, PTL

\* Which step takes a client out of current_accepting_.
LEMMA LeavesByCompletion ==
  ASSUME ListenerInv, ListenerNext, NEW l \in Listeners \ disposed,
         current[l] # NoClient, current'[l] # current[l]
  PROVE  AcceptCompletes(l)
  <1>1. accept[l] = "done" /\ l \in begun
    BY DEF ListenerInv
  <1>2. retry[l] = "off"
    BY <1>1 DEF ListenerInv, OneContinuation, ListenerTypeOK
  <1>3. ASSUME NEW k \in Listeners, NEW f,
               \/ StartLocked(k, retry, f)
               \/ StartLocked(k, [retry EXCEPT ![k] = "off"], f)
        PROVE  k = l
    BY <1>3 DEF StartLocked, Listen, RetryLater, ListenerInv, ListenerTypeOK
  <1>4. PICK k \in Listeners : StartListener(k) \/ Dispose(k)
              \/ AcceptSucceeds(k) \/ AcceptFails(k) \/ AcceptCompletes(k)
              \/ LateCompletion(k) \/ RetryExpires(k) \/ Retry(k)
    BY DEF ListenerNext, Connect, GivesUp, CallBack, CallBackThrows, sockets
  <1>5. ~Dispose(k) /\ ~AcceptFails(k) /\ ~RetryExpires(k)
    BY DEF Dispose, AcceptFails, RetryExpires
  <1>6. ~AcceptSucceeds(k) /\ ~LateCompletion(k)
    BY <1>1 DEF AcceptSucceeds, LateCompletion, ListenerInv, ListenerTypeOK
  <1>7. ~StartListener(k) /\ ~Retry(k)
    BY <1>1, <1>2, <1>3 DEF StartListener, Retry
  <1>8. AcceptCompletes(k)
    BY <1>4, <1>5, <1>6, <1>7
  <1> QED BY <1>3, <1>8 DEF AcceptCompletes

\* A client whose connection was accepted gets to the callback, unless an exception of
\* its own comes between.
THEOREM AcceptedClientsAreHandedOn == ListenerSpec => AcceptedIsHandedOn
  <1> DEFINE Left(l) == current[l] # NoClient /\ current'[l] # current[l]
             Own(l)  == faults' > faults + (IF accept'[l] = "none" THEN 1 ELSE 0)
             A == /\ \A l \in Listeners \ disposed :
                       Left(l) => \/ current[l] \in posted' \union gone
                                  \/ Own(l)
                  /\ \A c \in posted \ posted' : c \in served' \/ faults' > faults
  <1>1. ASSUME ListenerInv, ListenerNext, NEW l \in Listeners \ disposed, Left(l)
        PROVE  current[l] \in posted' \union gone \/ Own(l)
    <2>1. accept[l] = "done" /\ AcceptCompletes(l)
      BY <1>1, LeavesByCompletion DEF ListenerInv
    <2>2. CASE Reject(l) \/ HandOn(l)
      BY <2>1, <2>2 DEF Reject, HandOn
    <2>3. CASE Drop(l) /\ StartLocked(l, retry, faults + 1)
      <3>1. faults \in Nat /\ accept \in [Listeners -> {"none", "pending", "done", "failed"}]
        BY <1>1 DEF ListenerInv, ListenerTypeOK
      <3>2. CASE Listen(l, retry, faults + 1)
        <4>1. accept'[l] = "pending" /\ faults' = faults + 1
          BY <3>1, <3>2 DEF Listen
        <4> QED BY <3>1, <4>1
      <3>3. CASE RetryLater(l, retry, faults + 1)
        <4>1. l \in listening
          BY <1>1, <2>1 DEF AcceptCompletes, Running, ListenerInv, OneContinuation, ListenerTypeOK
        <4>2. faults' = faults + 2
          BY <3>1, <3>3, <4>1 DEF RetryLater
        <4> QED BY <3>1, <4>2
      <3> QED BY <2>3, <3>2, <3>3 DEF StartLocked
    <2> QED BY <2>1, <2>2, <2>3 DEF AcceptCompletes
  <1>2. ASSUME ListenerInv, ListenerNext, NEW c \in posted \ posted'
        PROVE  c \in served' \/ faults' > faults
    <2>1. faults \in Nat
      BY <1>2 DEF ListenerInv, ListenerTypeOK
    <2>2. \E d \in Clients : CallBack(d) \/ CallBackThrows(d)
      BY <1>2 DEF ListenerNext, StartListener, Dispose, AcceptSucceeds, AcceptFails,
                  AcceptCompletes, Reject, HandOn, Drop, LateCompletion, RetryExpires,
                  Retry, Connect, GivesUp
    <2> QED BY <1>2, <2>1, <2>2 DEF CallBack, CallBackThrows
  <1>3. ListenerInv /\ [ListenerNext]_listenerVars => [A]_listenerVars
    BY <1>1, <1>2
  <1> HIDE DEF A
  <1>4. ListenerSpec => [][A]_listenerVars
    BY ListenerInvHolds, <1>3, PTL DEF ListenerSpec
  <1> QED BY <1>4 DEF A, AcceptedIsHandedOn

-----------------------------------------------------------------------------
(***************************************************************************)
(* FileSession, for any files, rows, contents of the disk and requests.    *)
(***************************************************************************)
LEMMA FilesInitInv == FilesInit => FilesInv
  BY DEF FilesInit, FilesInv, FilesTypeOK, DataIsOfFile, NoAnswer, Asked

\* A read of a stream that is closed, or open on the file that is asked for.
LEMMA ReadInv ==
  ASSUME FilesInv, NEW i \in Asked, NEW b \in 0 .. MaxBlock, NEW stream,
         stream = {} \/ (i \in Ids /\ stream = {PathOf[i]}), ReadFrom(stream, i, b)
  PROVE  FilesInv'
  <1> USE DEF FilesInv
  <1>1. i \in Ids => PathOf[i] \in Paths
    BY PathsAssumption
  <1>2. FilesTypeOK'
    <2>1. stream \in {{}} \cup {{p} : p \in Paths} /\ stream \in SUBSET Paths
      BY <1>1
    <2>2. \E answer \in Answers, of \in SUBSET Paths : Answer(i, b, answer, of)
      BY <2>1 DEF ReadFrom, Answers
    <2>3. last' \in [id : Asked, block : 0 .. MaxBlock, answer : Answers, of : SUBSET Paths]
      BY <2>2 DEF Answer
    <2> QED BY <2>1, <2>3 DEF ReadFrom, FilesTypeOK
  <1>3. DataIsOfFile'
    BY DEF ReadFrom, Answer, DataIsOfFile
  <1>4. cur' = i /\ open' = stream
    BY DEF ReadFrom
  <1> QED BY <1>2, <1>3, <1>4

\* An error, after which the stream is closed, not good, or as it was.
LEMMA RefuseInv ==
  ASSUME FilesInv, NEW i \in Asked, NEW b \in 0 .. MaxBlock,
         NEW answer \in {"unknown", "unreadable"}, NEW stream, NEW state \in BOOLEAN,
         stream \in {{}, open}, state => stream = {} \/ good,
         Refuse(i, b, answer, stream, state)
  PROVE  FilesInv'
  <1> USE DEF FilesInv
  <1>1. FilesTypeOK'
    BY DEF Refuse, Answer, Answers, FilesTypeOK
  <1>2. DataIsOfFile'
    BY DEF Refuse, Answer, DataIsOfFile
  <1>3. good' /\ open' # {} => good /\ open # {} /\ UNCHANGED <<cur, open>>
    BY DEF Refuse
  <1> QED BY <1>1, <1>2, <1>3

LEMMA GetFileDataInv ==
  ASSUME FilesInv, NEW i \in Asked, NEW b \in 0 .. MaxBlock, GetFileData(i, b)
  PROVE  FilesInv'
  <1>1. OpenAfter(i) \in {{}, open} /\ GoodAfter(i) \in BOOLEAN /\ (GoodAfter(i) => good)
    BY DEF OpenAfter, GoodAfter, FilesInv, FilesTypeOK
  <1>2. CASE ReadKept(i, b)
    <2>1. open = {} \/ (i \in Ids /\ open = {PathOf[i]})
      BY <1>2 DEF ReadKept, Kept, FilesInv
    <2> QED BY <1>2, <2>1, ReadInv DEF ReadKept
  <1>3. CASE LookUpFails(i, b)
    BY <1>1, <1>3, RefuseInv DEF LookUpFails
  <1>4. CASE Open(i, b)
    <2>1. CASE Refuse(i, b, "unreadable", OpenAfter(i), FALSE)
      BY <1>1, <2>1, RefuseInv
    <2>2. CASE ReadFrom({PathOf[i]}, i, b)
      <3>1. i \in Ids
        BY <1>4 DEF Open, FilesInv, FilesTypeOK
      <3> QED BY <2>2, <3>1, ReadInv
    <2>3. CASE Refuse(i, b, "unreadable", {}, FALSE)
      BY <2>3, RefuseInv
    <2> QED BY <1>4, <2>1, <2>2, <2>3 DEF Open
  <1> QED BY <1>2, <1>3, <1>4 DEF GetFileData

LEMMA FilesStep == FilesInv /\ [FilesNext]_filesVars => FilesInv'
  <1>1. ASSUME FilesInv, RowsChange \/ DiskChanges \/ UNCHANGED filesVars
        PROVE  FilesInv'
    BY <1>1 DEF RowsChange, DiskChanges, filesVars, FilesInv, FilesTypeOK, DataIsOfFile
  <1> QED BY <1>1, GetFileDataInv DEF FilesNext

\* What FilesInv says of the stream and the id that is kept with it always holds.
THEOREM FilesInvHolds == FilesSpec => []FilesInv
  BY FilesInitInv, FilesStep, PTL DEF FilesSpec

\* The session's fields and the answers keep their types.
THEOREM FilesTypeCorrect == FilesSpec => []FilesTypeOK
  <1>1. FilesInv => FilesTypeOK
    BY DEF FilesInv
  <1> QED BY FilesInvHolds, <1>1, PTL

\* However requests, errors and changes of the disk are mixed, the bytes that are sent
\* are those of the file that was asked for.
THEOREM SentDataIsOfFile == FilesSpec => []DataIsOfFile
  <1>1. FilesInv => DataIsOfFile
    BY DEF FilesInv
  <1> QED BY FilesInvHolds, <1>1, PTL
=============================================================================
