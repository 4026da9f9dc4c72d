-------------------------- MODULE PurchasesProofs --------------------------
(***************************************************************************)
(* Proofs about Purchases, for any number of purchases, threads and        *)
(* failures.                                                               *)
(***************************************************************************)
EXTENDS Purchases, FiniteSetTheorems, TLAPS

LEMMA InitInv == Init => PurchaseInv
  <1> SUFFICES ASSUME Init PROVE PurchaseInv
    OBVIOUS
  <1>1. TypeOK
    <2>1. faults \in 0 .. MaxFaults
      BY FaultsAssumption DEF Init
    <2>2. \A p \in Items : recorded[p] = 0 /\ delivered[p] = 0 /\ charged[p] = 0
      BY DEF Init
    <2> QED BY <2>1, <2>2 DEF Init, TypeOK, Working
  <1>2. AnswerInv /\ IdempotentInv
    BY DEF Init, AnswerInv, IdempotentInv
  <1>3. ThreadInv /\ PendingIsWatched
    BY DEF Init, ThreadInv, PendingIsWatched, Working
  <1> QED BY <1>1, <1>2, <1>3 DEF PurchaseInv

\* A thread that is done, with the rows as they were, keeps the invariant if it
\* was not about to set the timer or to look for rows.
LEMMA FinishInv ==
  ASSUME PurchaseInv, NEW t \in Threads, Finish(t), pc[t] \notin {"arm", "pick"},
         faults' \in 0 .. MaxFaults,
         UNCHANGED <<up, dbVars, timer, centerVars, stopped>>
  PROVE  PurchaseInv'
  <1> USE DEF Finish, dbVars, centerVars
  <1>1. TypeOK'
    BY DEF PurchaseInv, TypeOK, Working
  <1>2. AnswerInv' /\ IdempotentInv'
    BY DEF PurchaseInv, AnswerInv, IdempotentInv
  <1>3. ThreadInv' /\ PendingIsWatched'
    BY DEF PurchaseInv, TypeOK, ThreadInv, PendingIsWatched, Working
  <1> QED BY <1>1, <1>2, <1>3 DEF PurchaseInv

LEMMA PurchaseItemInv ==
  ASSUME PurchaseInv, NEW t \in Threads, NEW p \in Items, PurchaseItem(t, p)
  PROVE  PurchaseInv'
  <1> USE DEF PurchaseItem, At, centerVars
  <1>1. TypeOK'
    BY DEF PurchaseInv, TypeOK, Working
  <1>2. AnswerInv' /\ IdempotentInv'
    BY DEF PurchaseInv, TypeOK, AnswerInv, IdempotentInv
  <1>3. ThreadInv' /\ PendingIsWatched'
    BY DEF PurchaseInv, TypeOK, ThreadInv, PendingIsWatched, Working
  <1> QED BY <1>1, <1>2, <1>3 DEF PurchaseInv

LEMMA ArmTimerInv ==
  ASSUME PurchaseInv, NEW t \in Threads, ArmTimer(t)
  PROVE  PurchaseInv'
  <1> USE DEF ArmTimer, At, dbVars, centerVars
  <1>1. TypeOK'
    BY DEF PurchaseInv, TypeOK, Working
  <1>2. AnswerInv' /\ IdempotentInv'
    BY DEF PurchaseInv, AnswerInv, IdempotentInv
  <1>3. ThreadInv' /\ PendingIsWatched'
    BY DEF PurchaseInv, TypeOK, ThreadInv, PendingIsWatched, Working
  <1> QED BY <1>1, <1>2, <1>3 DEF PurchaseInv

LEMMA CallCenterInv ==
  ASSUME PurchaseInv, NEW t \in Threads, CallCenter(t)
  PROVE  PurchaseInv'
  <1> DEFINE p == cur[t]
             again == Idempotent /\ answer[p] # "none"
  <1>1. PICK a \in {"ok", "no"} :
          /\ again => a = answer[p]
          /\ answer' = [answer EXCEPT ![p] = a]
          /\ reply' = [reply EXCEPT ![t] = a]
          /\ charged' = IF a = "ok" /\ ~again THEN [charged EXCEPT ![p] = @ + 1]
                                            ELSE charged
    BY DEF CallCenter
  <1>2. p \in Items /\ row[p] # "none" /\ pc[t] = "call"
    BY DEF PurchaseInv, TypeOK, ThreadInv, Working, CallCenter, At
  <1>3. /\ pc' = [pc EXCEPT ![t] = "reply"]
        /\ UNCHANGED <<up, row, recorded, delivered, strangers, nobodys, timer, cur,
                       stopped, faults>>
    BY DEF CallCenter, dbVars
  <1>4. TypeOK'
    <2>1. charged' \in [Items -> Nat]
      BY <1>1, <1>2 DEF PurchaseInv, TypeOK
    <2> QED BY <1>1, <1>2, <1>3, <2>1 DEF PurchaseInv, TypeOK, Working
  <1>5. AnswerInv'
    BY <1>1, <1>2, <1>3 DEF PurchaseInv, TypeOK, AnswerInv
  <1>6. IdempotentInv'
    BY <1>1, <1>2, <1>3 DEF PurchaseInv, TypeOK, AnswerInv, IdempotentInv
  <1>7. ThreadInv' /\ PendingIsWatched'
    BY <1>1, <1>2, <1>3 DEF PurchaseInv, TypeOK, ThreadInv, PendingIsWatched, Working
  <1> QED BY <1>4, <1>5, <1>6, <1>7 DEF PurchaseInv

LEMMA CommitAnswerInv ==
  ASSUME PurchaseInv, NEW t \in Threads, CommitAnswer(t)
  PROVE  PurchaseInv'
  <1> DEFINE p == cur[t]
  <1>1. CASE UNCHANGED dbVars
    BY <1>1, FinishInv DEF PurchaseInv, TypeOK, CommitAnswer, At
  <1>2. CASE /\ ~(Idempotent /\ recorded[p] > 0)
             /\ nobodys' \in BOOLEAN /\ strangers' = strangers
             /\ recorded' = [recorded EXCEPT ![p] = @ + 1]
             /\ row' = [row EXCEPT ![p] = "done"]
             /\ delivered' = IF reply[t] = "ok" THEN [delivered EXCEPT ![p] = @ + 1]
                                                ELSE delivered
    <2>1. /\ p \in Items /\ row[p] # "none" /\ answer[p] # "none"
          /\ Idempotent => reply[t] = answer[p]
          /\ pc[t] = "reply"
      BY DEF PurchaseInv, TypeOK, ThreadInv, Working, CommitAnswer, At
    <2>2. Finish(t) /\ UNCHANGED <<up, timer, answer, charged, stopped, faults>>
      BY DEF CommitAnswer, centerVars
    <2>3. TypeOK'
      <3>1. recorded' \in [Items -> Nat] /\ delivered' \in [Items -> Nat]
        BY <1>2, <2>1 DEF PurchaseInv, TypeOK
      <3> QED BY <1>2, <2>1, <2>2, <3>1 DEF PurchaseInv, TypeOK, Finish, Working
    <2>4. AnswerInv'
      BY <1>2, <2>1, <2>2 DEF PurchaseInv, TypeOK, AnswerInv
    <2>5. IdempotentInv'
      <3>1. Idempotent => row[p] = "pending" /\ recorded[p] = 0 /\ delivered[p] = 0
        BY <1>2, <2>1 DEF PurchaseInv, TypeOK, AnswerInv
      <3> QED BY <1>2, <2>1, <2>2, <3>1 DEF PurchaseInv, TypeOK, IdempotentInv
    <2>6. ThreadInv' /\ PendingIsWatched'
      BY <1>2, <2>1, <2>2
         DEF PurchaseInv, TypeOK, ThreadInv, PendingIsWatched, Working, Finish
    <2> QED BY <2>3, <2>4, <2>5, <2>6 DEF PurchaseInv
  <1>3. nobodys' \in BOOLEAN
    BY DEF CommitAnswer, dbVars, PurchaseInv, TypeOK
  <1> QED BY <1>1, <1>2, <1>3 DEF CommitAnswer

\* The buyer's row comes into table members.
LEMMA RegisterInv ==
  ASSUME PurchaseInv, NEW p \in Items, Register(p)
  PROVE  PurchaseInv'
  <1> USE DEF Register, centerVars
  <1>1. TypeOK'
    BY DEF PurchaseInv, TypeOK, Working
  <1>2. AnswerInv' /\ IdempotentInv'
    BY DEF PurchaseInv, AnswerInv, IdempotentInv
  <1>3. ThreadInv' /\ PendingIsWatched'
    BY DEF PurchaseInv, ThreadInv, PendingIsWatched, Working
  <1> QED BY <1>1, <1>2, <1>3 DEF PurchaseInv

LEMMA TimerFiresInv ==
  ASSUME PurchaseInv, NEW t \in Threads, TimerFires(t)
  PROVE  PurchaseInv'
  <1> USE DEF TimerFires, At, dbVars, centerVars
  <1>1. TypeOK'
    BY DEF PurchaseInv, TypeOK, Working
  <1>2. AnswerInv' /\ IdempotentInv'
    BY DEF PurchaseInv, AnswerInv, IdempotentInv
  <1>3. ThreadInv' /\ PendingIsWatched'
    BY DEF PurchaseInv, TypeOK, ThreadInv, PendingIsWatched, Working
  <1> QED BY <1>1, <1>2, <1>3 DEF PurchaseInv

LEMMA PickPendingInv ==
  ASSUME PurchaseInv, NEW t \in Threads, PickPending(t)
  PROVE  PurchaseInv'
  <1> USE DEF PickPending, Pending, At, dbVars, centerVars
  <1>1. AnswerInv' /\ IdempotentInv'
    BY DEF PurchaseInv, AnswerInv, IdempotentInv
  <1>2. CASE Pending = {} /\ Finish(t)
    <2>1. TypeOK'
      BY <1>2 DEF PurchaseInv, TypeOK, Working, Finish
    <2>2. ThreadInv'
      BY <1>2 DEF PurchaseInv, TypeOK, ThreadInv, Working, Finish
    <2>3. PendingIsWatched'
      BY <1>2 DEF PendingIsWatched
    <2> QED BY <1>1, <2>1, <2>2, <2>3 DEF PurchaseInv
  <1>3. ASSUME NEW p \in Pending, cur' = [cur EXCEPT ![t] = p],
               pc' = [pc EXCEPT ![t] = "arm"], reply' = reply
        PROVE  PurchaseInv'
    <2>1. TypeOK'
      BY <1>3 DEF PurchaseInv, TypeOK, Working
    <2>2. ThreadInv' /\ PendingIsWatched'
      BY <1>3 DEF PurchaseInv, TypeOK, ThreadInv, PendingIsWatched, Working
    <2> QED BY <1>1, <2>1, <2>2 DEF PurchaseInv
  <1> QED BY <1>2, <1>3

LEMMA FaultType == ASSUME PurchaseInv, Fault PROVE faults' \in 0 .. MaxFaults
  BY FaultsAssumption DEF PurchaseInv, TypeOK, Fault

\* What ends the chain of retries keeps the invariant: a query that throws ...
LEMMA PickFailsInv ==
  ASSUME PurchaseInv, NEW t \in Threads, PickFails(t)
  PROVE  PurchaseInv'
  <1> USE DEF PickFails, dbVars, centerVars
  <1>1. TypeOK'
    BY FaultType DEF PurchaseInv, TypeOK, Working, Finish
  <1>2. AnswerInv' /\ IdempotentInv'
    BY DEF PurchaseInv, AnswerInv, IdempotentInv
  <1>3. ThreadInv'
    BY DEF PurchaseInv, TypeOK, ThreadInv, Working, Finish
  <1>4. PendingIsWatched'
    BY DEF PendingIsWatched
  <1> QED BY <1>1, <1>2, <1>3, <1>4 DEF PurchaseInv

\* ... or the death of the process, after which it starts anew.
LEMMA CrashInv ==
  ASSUME PurchaseInv, Crash \/ Restart
  PROVE  PurchaseInv'
  <1> USE DEF Crash, Restart, dbVars, centerVars
  <1>1. TypeOK'
    <2>1. CASE Crash
      BY <2>1, FaultType DEF PurchaseInv, TypeOK, Working
    <2>2. CASE Restart
      BY <2>2 DEF PurchaseInv, TypeOK, Working
    <2> QED BY <2>1, <2>2
  <1>2. AnswerInv' /\ IdempotentInv'
    BY DEF PurchaseInv, AnswerInv, IdempotentInv
  <1>3. ThreadInv'
    BY DEF PurchaseInv, ThreadInv, Working
  <1>4. PendingIsWatched'
    BY DEF PurchaseInv, PendingIsWatched
  <1> QED BY <1>1, <1>2, <1>3, <1>4 DEF PurchaseInv

LEMMA StepInv == PurchaseInv /\ [Next]_vars => PurchaseInv'
  <1> SUFFICES ASSUME PurchaseInv, [Next]_vars PROVE PurchaseInv'
    OBVIOUS
  <1>1. ASSUME NEW t \in Threads, NEW p \in Items, PurchaseItem(t, p) PROVE PurchaseInv'
    BY <1>1, PurchaseItemInv
  <1>2. ASSUME NEW t \in Threads, ThreadStep(t) PROVE PurchaseInv'
    BY <1>2, ArmTimerInv, CallCenterInv, CommitAnswerInv, TimerFiresInv, PickPendingInv
       DEF ThreadStep
  <1>3. ASSUME NEW t \in Threads, GiveUp(t) PROVE PurchaseInv'
    BY <1>3, FaultType, FinishInv DEF GiveUp
  <1>4. ASSUME NEW t \in Threads, PickFails(t) PROVE PurchaseInv'
    BY <1>4, PickFailsInv
  <1>5. CASE Crash \/ Restart
    BY <1>5, CrashInv
  <1>6. CASE UNCHANGED vars
    <2> USE <1>6 DEF vars
    <2>1. TypeOK' /\ AnswerInv' /\ IdempotentInv'
      BY DEF PurchaseInv, TypeOK, AnswerInv, IdempotentInv, Working
    <2>2. ThreadInv' /\ PendingIsWatched'
      BY DEF PurchaseInv, ThreadInv, PendingIsWatched, Working
    <2> QED BY <2>1, <2>2 DEF PurchaseInv
  <1>7. ASSUME NEW p \in Items, Register(p) PROVE PurchaseInv'
    BY <1>7, RegisterInv
  <1> QED BY <1>1, <1>2, <1>3, <1>4, <1>5, <1>6, <1>7 DEF Next

\* The inductive invariant holds in every reachable state.
THEOREM PurchaseInvHolds == Spec => []PurchaseInv
  BY InitInv, StepInv, PTL DEF Spec

\* A closed purchase is settled: paid and delivered once, or neither.
THEOREM ClosedPurchasesAreBalanced == Spec => []ClosedIsBalanced
  <1>1. PurchaseInv => ClosedIsBalanced
    BY DEF PurchaseInv, TypeOK, IdempotentInv, ClosedIsBalanced
  <1> QED BY <1>1, PurchaseInvHolds, PTL

\* With an idempotent game center, nothing that comes late changes a closed purchase.
THEOREM SettledPurchasesAreFinal == Spec => SettledIsFinal
  <1> DEFINE A == \A p \in Items : Idempotent /\ row[p] = "done" =>
                    row'[p] = "done" /\ charged'[p] = charged[p]
                      /\ delivered'[p] = delivered[p]
  <1>1. ASSUME PurchaseInv, PurchaseInv', [Next]_vars PROVE A
    <2> SUFFICES ASSUME NEW p \in Items, Idempotent, row[p] = "done"
                 PROVE  row'[p] = "done" /\ charged'[p] = charged[p]
                          /\ delivered'[p] = delivered[p]
      OBVIOUS
    <2>1. answer[p] # "none"
      BY <1>1 DEF PurchaseInv, AnswerInv
    <2>2. row'[p] = "done" /\ answer'[p] = answer[p]
      <3>1. ASSUME NEW t \in Threads, NEW q \in Items, PurchaseItem(t, q)
            PROVE  row'[p] = "done" /\ answer'[p] = answer[p]
        BY <1>1, <3>1 DEF PurchaseItem, centerVars, PurchaseInv, TypeOK
      <3>2. ASSUME NEW t \in Threads, CallCenter(t)
            PROVE  row'[p] = "done" /\ answer'[p] = answer[p]
        BY <1>1, <2>1, <3>2 DEF CallCenter, dbVars, PurchaseInv, TypeOK
      <3>3. ASSUME NEW t \in Threads, CommitAnswer(t)
            PROVE  row'[p] = "done" /\ answer'[p] = answer[p]
        BY <1>1, <3>3 DEF CommitAnswer, dbVars, centerVars, PurchaseInv, TypeOK
      <3>4. CASE \/ \E t \in Threads : \/ ArmTimer(t) \/ TimerFires(t) \/ PickPending(t)
                                       \/ GiveUp(t) \/ PickFails(t)
                 \/ \E q \in Items : Register(q)
                 \/ Crash \/ Restart \/ UNCHANGED vars
        BY <3>4 DEF ArmTimer, TimerFires, PickPending, GiveUp, PickFails, Register, Crash,
                    Restart, dbVars, centerVars, vars
      <3> QED BY <1>1, <3>1, <3>2, <3>3, <3>4 DEF Next, ThreadStep
    <2>3. /\ charged[p] = IF answer[p] = "ok" THEN 1 ELSE 0
          /\ delivered[p] = IF row[p] = "done" /\ answer[p] = "ok" THEN 1 ELSE 0
      BY <1>1 DEF PurchaseInv, IdempotentInv
    <2>4. /\ charged'[p] = IF answer'[p] = "ok" THEN 1 ELSE 0
          /\ delivered'[p] = IF row'[p] = "done" /\ answer'[p] = "ok" THEN 1 ELSE 0
      BY <1>1 DEF PurchaseInv, IdempotentInv
    <2> QED BY <2>2, <2>3, <2>4
  <1>2. PurchaseInv /\ PurchaseInv' /\ [Next]_vars => [A]_vars
    BY <1>1
  <1> HIDE DEF A
  <1>3. Spec => [][A]_vars
    BY <1>2, PurchaseInvHolds, PTL DEF Spec
  <1> QED BY <1>3 DEF A, SettledIsFinal

\* A pending purchase is never forgotten while the chain of retries holds.
THEOREM PendingPurchasesAreWatched == Spec => []PendingIsWatched
  <1>1. PurchaseInv => PendingIsWatched
    BY DEF PurchaseInv
  <1> QED BY <1>1, PurchaseInvHolds, PTL

-----------------------------------------------------------------------------
(***************************************************************************)
(* Deliveries and charges, with any game center.                           *)
(***************************************************************************)
LEMMA AboutToDeliverType ==
  ASSUME NEW p \in Items
  PROVE  /\ IsFiniteSet(AboutToDeliver(p)) /\ Cardinality(AboutToDeliver(p)) \in Nat
         /\ IsFiniteSet(AboutToDeliver(p)')
         /\ Cardinality(AboutToDeliver(p)') \in Nat
  <1>1. IsFiniteSet(AboutToDeliver(p)) /\ IsFiniteSet(AboutToDeliver(p)')
    BY ThreadsAssumption, FS_Subset DEF AboutToDeliver
  <1> QED BY <1>1, FS_CardinalityType

\* Nothing is taken or delivered, and no thread comes to deliver.
LEMMA ChargeQuiet ==
  ASSUME ChargeInv, PurchaseInv, PurchaseInv', UNCHANGED <<delivered, charged>>,
         \A p \in Items : AboutToDeliver(p)' \subseteq AboutToDeliver(p)
  PROVE  ChargeInv'
  <1> SUFFICES ASSUME ~Idempotent, NEW p \in Items
               PROVE  delivered'[p] + Cardinality(AboutToDeliver(p)') <= charged'[p]
    BY DEF ChargeInv
  <1>1. Cardinality(AboutToDeliver(p)') <= Cardinality(AboutToDeliver(p))
    BY AboutToDeliverType, FS_Subset
  <1>2. delivered[p] \in Nat /\ charged[p] \in Nat
    BY DEF PurchaseInv, TypeOK
  <1>3. delivered[p] + Cardinality(AboutToDeliver(p)) <= charged[p]
    BY DEF ChargeInv
  <1> QED BY <1>1, <1>2, <1>3, AboutToDeliverType

\* The price is taken: the thread that knows of it is about to deliver.
LEMMA ChargeCall ==
  ASSUME ChargeInv, PurchaseInv, PurchaseInv', NEW t \in Threads, CallCenter(t)
  PROVE  ChargeInv'
  <1> SUFFICES ASSUME ~Idempotent, NEW p \in Items
               PROVE  delivered'[p] + Cardinality(AboutToDeliver(p)') <= charged'[p]
    BY DEF ChargeInv
  <1>1. PICK a \in {"ok", "no"} :
          /\ reply' = [reply EXCEPT ![t] = a]
          /\ charged' = IF a = "ok" THEN [charged EXCEPT ![cur[t]] = @ + 1] ELSE charged
    BY DEF CallCenter
  <1>2. /\ pc[t] = "call" /\ pc' = [pc EXCEPT ![t] = "reply"]
        /\ UNCHANGED <<delivered, cur>>
    BY DEF CallCenter, At, dbVars
  <1>3. delivered[p] \in Nat /\ charged[p] \in Nat
    BY DEF PurchaseInv, TypeOK
  <1>4. delivered[p] + Cardinality(AboutToDeliver(p)) <= charged[p]
    BY DEF ChargeInv
  <1>5. CASE a = "ok" /\ cur[t] = p
    <2>1. AboutToDeliver(p)' = AboutToDeliver(p) \cup {t} /\ t \notin AboutToDeliver(p)
      BY <1>1, <1>2, <1>5 DEF AboutToDeliver, PurchaseInv, TypeOK
    <2>2. Cardinality(AboutToDeliver(p)') = Cardinality(AboutToDeliver(p)) + 1
      BY <2>1, AboutToDeliverType, FS_AddElement
    <2>3. charged'[p] = charged[p] + 1
      BY <1>1, <1>5 DEF PurchaseInv, TypeOK
    <2> QED BY <1>2, <1>3, <1>4, <2>2, <2>3, AboutToDeliverType
  <1>6. CASE ~(a = "ok" /\ cur[t] = p)
    <2>1. AboutToDeliver(p)' = AboutToDeliver(p)
      BY <1>1, <1>2, <1>6 DEF AboutToDeliver, PurchaseInv, TypeOK
    <2>2. charged'[p] = charged[p]
      BY <1>1, <1>6 DEF PurchaseInv, TypeOK
    <2> QED BY <1>2, <1>4, <2>1, <2>2
  <1> QED BY <1>5, <1>6

\* The item is delivered by a thread that was about to.
LEMMA ChargeCommit ==
  ASSUME ChargeInv, PurchaseInv, PurchaseInv', NEW t \in Threads, CommitAnswer(t)
  PROVE  ChargeInv'
  <1> SUFFICES ASSUME ~Idempotent, NEW p \in Items
               PROVE  delivered'[p] + Cardinality(AboutToDeliver(p)') <= charged'[p]
    BY DEF ChargeInv
  <1>1. /\ pc[t] = "reply" /\ UNCHANGED charged
        /\ \/ delivered' = delivered
           \/ reply[t] = "ok" /\ delivered' = [delivered EXCEPT ![cur[t]] = @ + 1]
        /\ pc' = [pc EXCEPT ![t] = "idle"] /\ cur' = [cur EXCEPT ![t] = Nothing]
        /\ reply' = [reply EXCEPT ![t] = "none"]
    BY DEF CommitAnswer, At, Finish, dbVars, centerVars
  <1>2. delivered[p] \in Nat /\ charged[p] \in Nat
    BY DEF PurchaseInv, TypeOK
  <1>3. delivered[p] + Cardinality(AboutToDeliver(p)) <= charged[p]
    BY DEF ChargeInv
  <1>4. AboutToDeliver(p)' = AboutToDeliver(p) \ {t}
    BY <1>1 DEF AboutToDeliver, PurchaseInv, TypeOK
  <1>5. CASE delivered'[p] # delivered[p]
    <2>1. t \in AboutToDeliver(p) /\ delivered'[p] = delivered[p] + 1
      BY <1>1, <1>5 DEF AboutToDeliver, PurchaseInv, TypeOK
    <2>2. Cardinality(AboutToDeliver(p)') = Cardinality(AboutToDeliver(p)) - 1
      BY <1>4, <2>1, AboutToDeliverType, FS_RemoveElement
    <2> QED BY <1>1, <1>2, <1>3, <2>1, <2>2, AboutToDeliverType
  <1>6. CASE delivered'[p] = delivered[p]
    <2>1. Cardinality(AboutToDeliver(p)') <= Cardinality(AboutToDeliver(p))
      BY <1>4, AboutToDeliverType, FS_Subset
    <2> QED BY <1>1, <1>2, <1>3, <1>6, <2>1, AboutToDeliverType
  <1> QED BY <1>5, <1>6

LEMMA ChargeStep ==
  ASSUME ChargeInv, PurchaseInv, PurchaseInv', [Next]_vars
  PROVE  ChargeInv'
  <1>1. ASSUME NEW t \in Threads, NEW p \in Items, PurchaseItem(t, p) PROVE ChargeInv'
    <2>1. \A q \in Items : AboutToDeliver(q)' \subseteq AboutToDeliver(q)
      BY <1>1 DEF PurchaseItem, AboutToDeliver, PurchaseInv, TypeOK
    <2> QED BY <1>1, <2>1, ChargeQuiet DEF PurchaseItem, centerVars
  <1>2. ASSUME NEW t \in Threads, ThreadStep(t) PROVE ChargeInv'
    <2>1. CASE CallCenter(t)
      BY <2>1, ChargeCall
    <2>2. CASE CommitAnswer(t)
      BY <2>2, ChargeCommit
    <2>3. CASE ArmTimer(t) \/ TimerFires(t) \/ PickPending(t)
      <3>1. \A q \in Items : AboutToDeliver(q)' \subseteq AboutToDeliver(q)
        BY <2>3 DEF ArmTimer, TimerFires, PickPending, Finish, AboutToDeliver,
                    PurchaseInv, TypeOK
      <3> QED BY <2>3, <3>1, ChargeQuiet
              DEF ArmTimer, TimerFires, PickPending, dbVars, centerVars
    <2> QED BY <1>2, <2>1, <2>2, <2>3 DEF ThreadStep
  <1>3. ASSUME NEW t \in Threads, GiveUp(t) \/ PickFails(t) PROVE ChargeInv'
    <2>1. \A q \in Items : AboutToDeliver(q)' \subseteq AboutToDeliver(q)
      BY <1>3 DEF GiveUp, PickFails, Finish, AboutToDeliver, PurchaseInv, TypeOK
    <2> QED BY <1>3, <2>1, ChargeQuiet DEF GiveUp, PickFails, dbVars, centerVars
  <1>4. CASE (\E p \in Items : Register(p)) \/ Crash \/ Restart \/ UNCHANGED vars
    <2>1. \A q \in Items : AboutToDeliver(q)' \subseteq AboutToDeliver(q)
      BY <1>4 DEF Register, Crash, Restart, vars, AboutToDeliver
    <2> QED BY <1>4, <2>1, ChargeQuiet
            DEF Register, Crash, Restart, vars, dbVars, centerVars
  <1> QED BY <1>1, <1>2, <1>3, <1>4 DEF Next

LEMMA ChargeInit == Init => ChargeInv
  <1> SUFFICES ASSUME Init, NEW p \in Items
               PROVE  delivered[p] + Cardinality(AboutToDeliver(p)) <= charged[p]
    BY DEF ChargeInv
  <1>1. AboutToDeliver(p) = {}
    BY DEF Init, AboutToDeliver
  <1>2. Cardinality(AboutToDeliver(p)) = 0
    BY <1>1, FS_EmptySet
  <1> QED BY <1>2 DEF Init

\* No item is delivered that was not paid for, even if the game center takes a repeated
\* transaction for a new one.
THEOREM DeliveriesAreCharged == Spec => []DeliveredIsCharged
  <1>1. PurchaseInv /\ ChargeInv => DeliveredIsCharged
    <2> SUFFICES ASSUME PurchaseInv, ChargeInv, NEW p \in Items
                 PROVE  delivered[p] <= charged[p]
      BY DEF DeliveredIsCharged
    <2>1. delivered[p] \in Nat /\ charged[p] \in Nat
      BY DEF PurchaseInv, TypeOK
    <2>2. CASE Idempotent
      BY <2>1, <2>2 DEF PurchaseInv, IdempotentInv
    <2>3. CASE ~Idempotent
      <3>1. delivered[p] + Cardinality(AboutToDeliver(p)) <= charged[p]
        BY <2>3 DEF ChargeInv
      <3> QED BY <2>1, <3>1, AboutToDeliverType
    <2> QED BY <2>2, <2>3
  <1>2. PurchaseInv /\ PurchaseInv' /\ ChargeInv /\ [Next]_vars => ChargeInv'
    BY ChargeStep
  <1> QED BY <1>1, <1>2, ChargeInit, PurchaseInvHolds, PTL DEF Spec

-----------------------------------------------------------------------------
(***************************************************************************)
(* Purchases implements Sale.                                              *)
(***************************************************************************)
LEMMA StatusInit == Init => AbstractSale!Init
  BY DEF Init, Status, AbstractSale!Init

\* A step that leaves rows, deliveries, answers and charges alone is a stutter.
LEMMA StatusStutter ==
  ASSUME UNCHANGED <<row, delivered, answer, charged>>
  PROVE  UNCHANGED [p \in Items |-> Status(p)]
  BY DEF Status

\* A step that changes the status of one purchase is a step of Sale.
LEMMA StatusChange ==
  ASSUME NEW p \in Items, NEW from, NEW to, Status(p) = from, Status(p)' = to,
         \A q \in Items \ {p} : Status(q)' = Status(q)
  PROVE  AbstractSale!Change(p, from, to)
  BY DEF AbstractSale!Change

LEMMA StatusStep ==
  ASSUME Idempotent, PurchaseInv, [Next]_vars
  PROVE  [AbstractSale!Next]_[p \in Items |-> Status(p)]
  <1>1. ASSUME NEW t \in Threads, NEW p \in Items, PurchaseItem(t, p)
        PROVE  AbstractSale!Next
    <2>1. row' = [row EXCEPT ![p] = "pending"] /\ UNCHANGED <<delivered, answer, charged>>
      BY <1>1 DEF PurchaseItem, centerVars
    <2>2. row[p] = "none" /\ answer[p] = "none"
      BY <1>1 DEF PurchaseItem, PurchaseInv, AnswerInv
    <2>3. Status(p) = "none" /\ Status(p)' = "ordered"
      BY <2>1, <2>2 DEF Status, PurchaseInv, TypeOK
    <2>4. \A q \in Items \ {p} : Status(q)' = Status(q)
      BY <2>1 DEF Status, PurchaseInv, TypeOK
    <2>5. AbstractSale!Order(p)
      BY <2>3, <2>4, StatusChange DEF AbstractSale!Order
    <2> QED BY <2>5 DEF AbstractSale!Next
  <1>2. ASSUME NEW t \in Threads, CallCenter(t)
        PROVE  AbstractSale!Next \/ UNCHANGED <<row, delivered, answer, charged>>
    <2>1. PICK p \in Items : p = cur[t] /\ row[p] # "none"
      BY <1>2 DEF CallCenter, At, PurchaseInv, TypeOK, ThreadInv, Working
    <2>2. PICK a \in {"ok", "no"} :
            /\ Idempotent /\ answer[p] # "none" => a = answer[p]
            /\ answer' = [answer EXCEPT ![p] = a]
            /\ charged' = IF a = "ok" /\ ~(Idempotent /\ answer[p] # "none")
                            THEN [charged EXCEPT ![p] = @ + 1] ELSE charged
      BY <1>2, <2>1 DEF CallCenter
    <2>3. UNCHANGED <<row, delivered>>
      BY <1>2 DEF CallCenter, dbVars
    <2>4. CASE answer[p] # "none"
      BY <2>2, <2>3, <2>4 DEF PurchaseInv, TypeOK
    <2>5. CASE answer[p] = "none"
      <3>1. row[p] = "pending"
        BY <2>1, <2>5 DEF PurchaseInv, TypeOK, AnswerInv
      <3>2. \A q \in Items \ {p} : Status(q)' = Status(q)
        <4>1. \A q \in Items \ {p} : answer'[q] = answer[q] /\ charged'[q] = charged[q]
          BY <2>2 DEF PurchaseInv, TypeOK
        <4> QED BY <2>3, <4>1 DEF Status
      <3>3. answer'[p] = a /\ row'[p] = "pending"
        BY <2>2, <2>3, <3>1 DEF PurchaseInv, TypeOK
      <3>4. Status(p) = "ordered"
        BY <2>5, <3>1 DEF Status
      <3>5. CASE a = "ok"
        <4>1. Status(p)' = "charged"
          BY <3>3, <3>5 DEF Status
        <4>2. AbstractSale!Charge(p)
          BY <3>2, <3>4, <4>1, StatusChange DEF AbstractSale!Charge
        <4> QED BY <4>2 DEF AbstractSale!Next
      <3>6. CASE a = "no"
        <4>1. Status(p)' = "refused"
          BY <3>3, <3>6 DEF Status
        <4>2. AbstractSale!Refuse(p)
          BY <3>2, <3>4, <4>1, StatusChange DEF AbstractSale!Refuse
        <4> QED BY <4>2 DEF AbstractSale!Next
      <3> QED BY <3>5, <3>6
    <2> QED BY <2>4, <2>5
  <1>3. ASSUME NEW t \in Threads, CommitAnswer(t)
        PROVE  AbstractSale!Next \/ UNCHANGED <<row, delivered, answer, charged>>
    <2>1. CASE UNCHANGED dbVars
      BY <1>3, <2>1 DEF CommitAnswer, dbVars, centerVars
    <2>2. CASE ~UNCHANGED dbVars
      <3>1. PICK p \in Items : /\ p = cur[t] /\ row[p] # "none" /\ answer[p] # "none"
                               /\ reply[t] = answer[p]
        BY <1>3 DEF CommitAnswer, At, PurchaseInv, TypeOK, ThreadInv, Working
      <3>2. /\ ~(recorded[p] > 0)
            /\ row' = [row EXCEPT ![p] = "done"]
            /\ delivered' = IF reply[t] = "ok" THEN [delivered EXCEPT ![p] = @ + 1]
                                               ELSE delivered
            /\ UNCHANGED <<answer, charged>>
        BY <1>3, <2>2, <3>1 DEF CommitAnswer, centerVars
      <3>3. row[p] = "pending" /\ delivered[p] = 0
        BY <3>1, <3>2 DEF PurchaseInv, TypeOK, AnswerInv
      <3>4. \A q \in Items \ {p} : Status(q)' = Status(q)
        BY <3>2 DEF Status, PurchaseInv, TypeOK
      <3>5. row'[p] = "done" /\ answer'[p] = answer[p]
        BY <3>2 DEF PurchaseInv, TypeOK
      <3>6. CASE answer[p] = "ok"
        <4>1. delivered'[p] = 1 /\ charged'[p] = 1
          BY <3>1, <3>2, <3>3, <3>6 DEF PurchaseInv, TypeOK, IdempotentInv
        <4>2. Status(p) = "charged" /\ Status(p)' = "delivered"
          BY <3>3, <3>5, <3>6, <4>1 DEF Status
        <4>3. AbstractSale!Deliver(p)
          BY <3>4, <4>2, StatusChange DEF AbstractSale!Deliver
        <4> QED BY <4>3 DEF AbstractSale!Next
      <3>7. CASE answer[p] = "no"
        <4>1. delivered'[p] = 0
          BY <3>1, <3>2, <3>3, <3>7 DEF PurchaseInv, TypeOK
        <4>2. Status(p) = "refused" /\ Status(p)' = "closed"
          BY <3>3, <3>5, <3>7, <4>1 DEF Status
        <4>3. AbstractSale!Close(p)
          BY <3>4, <4>2, StatusChange DEF AbstractSale!Close
        <4> QED BY <4>3 DEF AbstractSale!Next
      <3> QED BY <3>1, <3>6, <3>7 DEF PurchaseInv, TypeOK
    <2> QED BY <2>1, <2>2
  <1>4. ASSUME NEW t \in Threads, ThreadStep(t), ~CallCenter(t), ~CommitAnswer(t)
        PROVE  UNCHANGED <<row, delivered, answer, charged>>
    BY <1>4 DEF ThreadStep, ArmTimer, TimerFires, PickPending, dbVars, centerVars
  <1>5. ASSUME NEW t \in Threads, GiveUp(t) \/ PickFails(t)
        PROVE  UNCHANGED <<row, delivered, answer, charged>>
    BY <1>5 DEF GiveUp, PickFails, dbVars, centerVars
  <1>6. CASE (\E p \in Items : Register(p)) \/ Crash \/ Restart \/ UNCHANGED vars
    BY <1>6, StatusStutter DEF Register, Crash, Restart, vars, dbVars, centerVars
  <1> QED BY <1>1, <1>2, <1>3, <1>4, <1>5, <1>6, StatusStutter DEF Next

\* With a game center that answers a repeated transaction as before, every
\* purchase is charged or refused once and delivered exactly if charged, through
\* concurrent retries, lost answers, database errors and restarts.
THEOREM PurchasesImplementSale == Idempotent /\ Spec => ImplementsSale
  <1> SUFFICES ASSUME Idempotent PROVE Spec => ImplementsSale
    OBVIOUS
  <1>1. PurchaseInv /\ [Next]_vars => [AbstractSale!Next]_[p \in Items |-> Status(p)]
    BY StatusStep
  <1> QED BY <1>1, StatusInit, PurchaseInvHolds, PTL
           DEF Spec, ImplementsSale, AbstractSale!Spec
=============================================================================
