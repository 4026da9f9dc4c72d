----------------------------- MODULE Purchases -----------------------------
(***************************************************************************)
(* Buying an item (ItemServices.cpp): the handler of PurchaseItem commits  *)
(* a pending row to equip_history, sends the signed transaction to the     *)
(* game center over HTTP and, with its answer, closes the row and delivers *)
(* the item in one database transaction.  If anything fails the row stays  *)
(* pending, and a timer sends one pending row again after five seconds.    *)
(*                                                                         *)
(* The call to the game center blocks its io thread, without a timeout, so *)
(* the timer can send a row again while the first call is still waiting.   *)
(***************************************************************************)
EXTENDS Integers, FiniteSets

CONSTANTS Items,       \* purchases, named by their transaction id
          Threads,     \* io threads
          Nothing,     \* no purchase
          Stock,       \* the column stock of the one kind of item that is bought
          MaxFaults,   \* bounds the failures of calls, statements and the process
          Idempotent   \* the game center answers a repeated transaction as before

ASSUME ItemsAssumption      == Nothing \notin Items
ASSUME IdempotentAssumption == Idempotent \in BOOLEAN
ASSUME FaultsAssumption     == MaxFaults \in Nat
ASSUME StockAssumption      == Stock \in Nat
ASSUME ThreadsAssumption    == IsFiniteSet(Threads)

VARIABLES
  up,          \* the master server process is alive
  row,         \* each purchase's row in equip_history: pending = 0 or 1
  recorded,    \* rows inserted for answers of the game center
  delivered,   \* how often the purchase was added to table equipment
  strangers,   \* purchases for a buyer who is not in table members
  nobodys,     \* equipment has a row of the item for member id 0
  timer,       \* retry_timer_ has a wait that will call back
  pc, cur,     \* where each io thread is, and with which purchase
  reply,       \* the status in the answer it got
  answer,      \* what the game center said last of a purchase
  charged,     \* how often the game center took the price
  stopped,     \* the chain of retries ended with an exception or the process
  faults       \* failures so far

dbVars     == <<row, recorded, delivered, strangers, nobodys>>
centerVars == <<answer, charged>>
vars == <<up, row, recorded, delivered, strangers, nobodys, timer, pc, cur, reply,
          answer, charged, stopped, faults>>

Working == {"arm", "call", "reply"}

TypeOK ==
  /\ up \in BOOLEAN /\ timer \in BOOLEAN /\ stopped \in BOOLEAN
  /\ row \in [Items -> {"none", "pending", "done"}]
  /\ recorded \in [Items -> Nat] /\ delivered \in [Items -> Nat]
  /\ charged \in [Items -> Nat]
  /\ strangers \subseteq Items /\ nobodys \in BOOLEAN
  /\ pc \in [Threads -> {"idle", "pick"} \union Working]
  /\ cur \in [Threads -> Items \union {Nothing}]
  /\ \A t \in Threads : pc[t] \in Working => cur[t] \in Items
  /\ reply \in [Threads -> {"none", "ok", "no"}]
  /\ answer \in [Items -> {"none", "ok", "no"}]
  /\ faults \in 0 .. MaxFaults

Init ==
  /\ up = TRUE /\ timer = FALSE /\ stopped = FALSE
  /\ row = [p \in Items |-> "none"]
  /\ recorded = [p \in Items |-> 0]
  /\ delivered = [p \in Items |-> 0]
  /\ charged = [p \in Items |-> 0]
  /\ strangers \in SUBSET Items /\ nobodys = FALSE
  /\ pc = [t \in Threads |-> "idle"]
  /\ cur = [t \in Threads |-> Nothing]
  /\ reply = [t \in Threads |-> "none"]
  /\ answer = [p \in Items |-> "none"]
  /\ faults = 0

At(t, step) == up /\ pc[t] = step

\* The thread is done with its purchase, or with the timer's callback.
Finish(t) ==
  /\ pc' = [pc EXCEPT ![t] = "idle"]
  /\ cur' = [cur EXCEPT ![t] = Nothing]
  /\ reply' = [reply EXCEPT ![t] = "none"]

Fault == faults < MaxFaults /\ faults' = faults + 1

(***************************************************************************)
(* PurchaseItem: the new transaction id is not in the table yet; the row   *)
(* is inserted and committed before it is sent.                            *)
(***************************************************************************)
\* Equip_list::is_having_stock.  The stock stays what it is: update_stock, which
\* a delivery calls, prepares its statement and never executes it.
IsHavingStock == Stock > 0

PurchaseItem(t, p) ==
  /\ At(t, "idle") /\ row[p] = "none" /\ IsHavingStock
  /\ row' = [row EXCEPT ![p] = "pending"]
  /\ pc' = [pc EXCEPT ![t] = "arm"]
  /\ cur' = [cur EXCEPT ![t] = p]
  /\ UNCHANGED <<up, recorded, delivered, strangers, nobodys, timer, reply, centerVars,
                 stopped, faults>>

\* The buyer of p gets a row in table members after all.
Register(p) ==
  /\ up /\ p \in strangers
  /\ strangers' = strangers \ {p}
  /\ UNCHANGED <<up, row, recorded, delivered, nobodys, timer, pc, cur, reply,
                 centerVars, stopped, faults>>

(***************************************************************************)
(* send_purchase_item_req_and_dispose_resp.                                *)
(***************************************************************************)
\* Faulty variant: the timer is left alone.
ArmNothing(t) ==
  /\ At(t, "arm")
  /\ pc' = [pc EXCEPT ![t] = "call"]
  /\ stopped' = FALSE
  /\ UNCHANGED <<up, dbVars, timer, cur, reply, centerVars, faults>>

\* retry_timer_ waits anew; a wait that was not over is canceled.
ArmTimer(t) ==
  /\ At(t, "arm")
  /\ timer' = TRUE
  /\ stopped' = FALSE
  /\ pc' = [pc EXCEPT ![t] = "call"]
  /\ UNCHANGED <<up, dbVars, cur, reply, centerVars, faults>>

\* The game center gets the transaction and answers: it takes the price or
\* refuses.  One that is idempotent does so for the first call only.
CallCenter(t) ==
  LET p == cur[t]
      again == Idempotent /\ answer[p] # "none"
  IN /\ At(t, "call")
     /\ \E a \in {"ok", "no"} :
          /\ again => a = answer[p]
          /\ answer' = [answer EXCEPT ![p] = a]
          /\ reply' = [reply EXCEPT ![t] = a]
          /\ charged' = IF a = "ok" /\ ~again THEN [charged EXCEPT ![p] = @ + 1]
                                            ELSE charged
     /\ pc' = [pc EXCEPT ![t] = "reply"]
     /\ UNCHANGED <<up, dbVars, timer, cur, stopped, faults>>

\* Faulty variants: the item is delivered without a look at the status; nothing
\* keeps an answer from being recorded twice.
DeliverAnyway(t) ==
  LET p == cur[t]
  IN /\ At(t, "reply")
     /\ recorded' = [recorded EXCEPT ![p] = @ + 1]
     /\ row' = [row EXCEPT ![p] = "done"]
     /\ delivered' = [delivered EXCEPT ![p] = @ + 1]
     /\ Finish(t)
     /\ UNCHANGED <<up, strangers, nobodys, timer, centerVars, stopped, faults>>
CommitAgain(t) ==
  LET p == cur[t]
  IN /\ At(t, "reply")
     /\ recorded' = [recorded EXCEPT ![p] = @ + 1]
     /\ row' = [row EXCEPT ![p] = "done"]
     /\ delivered' = IF reply[t] = "ok" THEN [delivered EXCEPT ![p] = @ + 1]
                                        ELSE delivered
     /\ Finish(t)
     /\ UNCHANGED <<up, strangers, nobodys, timer, centerVars, stopped, faults>>

\* Equipment::insert finds no row of such a buyer and adds one for member id 0.  The
\* second such row breaks the key of table equipment, now and at every retry.
Refused(p) == p \in strangers /\ nobodys

\* The database transaction: the answer is recorded under the game center's id of
\* it, the purchase's row is closed and, if the price was taken, the item is
\* delivered.  The id of an answer that was recorded before breaks the key of
\* equip_history, and all is rolled back, as it is when the delivery is refused.
\* (The ids of the game center's answers are not those of the transactions it was
\* sent; no answer could be recorded.)
CommitAnswer(t) ==
  LET p == cur[t]
      deliver == reply[t] = "ok"
      breaksKey == (Idempotent /\ recorded[p] > 0) \/ (deliver /\ Refused(p))
  IN /\ At(t, "reply")
     /\ \/ breaksKey /\ UNCHANGED dbVars
        \/ /\ ~breaksKey
           /\ recorded' = [recorded EXCEPT ![p] = @ + 1]
           /\ row' = [row EXCEPT ![p] = "done"]
           /\ delivered' = IF deliver THEN [delivered EXCEPT ![p] = @ + 1] ELSE delivered
           /\ nobodys' = (nobodys \/ (deliver /\ p \in strangers))
           /\ UNCHANGED strangers
     /\ Finish(t)
     /\ UNCHANGED <<up, timer, centerVars, stopped, faults>>

\* The call fails, its answer is lost or does not verify, or the database
\* refuses: the buyer gets an error and the row stays pending.
GiveUp(t) ==
  /\ up /\ pc[t] \in {"call", "reply"} /\ Fault
  /\ Finish(t)
  /\ UNCHANGED <<up, dbVars, timer, centerVars, stopped>>

(***************************************************************************)
(* The timer's callback.                                                   *)
(***************************************************************************)
TimerFires(t) ==
  /\ At(t, "idle") /\ timer
  /\ timer' = FALSE
  /\ pc' = [pc EXCEPT ![t] = "pick"]
  /\ UNCHANGED <<up, dbVars, cur, reply, centerVars, stopped, faults>>

Pending == {p \in Items : row[p] = "pending"}

\* Faulty variant: the callback only sees whether there are pending rows.
PickNothing(t) ==
  /\ At(t, "pick")
  /\ Finish(t)
  /\ UNCHANGED <<up, dbVars, timer, centerVars, stopped, faults>>

\* not_finished_transaction: a row with pending = 0, in whatever order the
\* query finds them; with none left the chain of retries ends.
PickPending(t) ==
  /\ At(t, "pick")
  /\ \/ Pending = {} /\ Finish(t)
     \/ \E p \in Pending :
          /\ cur' = [cur EXCEPT ![t] = p]
          /\ pc' = [pc EXCEPT ![t] = "arm"]
          /\ UNCHANGED reply
  /\ UNCHANGED <<up, dbVars, timer, centerVars, stopped, faults>>

\* The query throws: the callback logs it and the timer is not set again.
PickFails(t) ==
  /\ At(t, "pick") /\ Fault
  /\ stopped' = TRUE
  /\ Finish(t)
  /\ UNCHANGED <<up, dbVars, timer, centerVars>>

(***************************************************************************)
(* The process dies and is started again: the timer is set by the next     *)
(* purchase only.                                                          *)
(***************************************************************************)
Crash ==
  /\ up /\ Fault
  /\ up' = FALSE
  /\ timer' = FALSE
  /\ stopped' = TRUE
  /\ pc' = [t \in Threads |-> "idle"]
  /\ cur' = [t \in Threads |-> Nothing]
  /\ reply' = [t \in Threads |-> "none"]
  /\ UNCHANGED <<dbVars, centerVars>>

Restart ==
  /\ ~up /\ up' = TRUE
  /\ UNCHANGED <<dbVars, timer, pc, cur, reply, centerVars, stopped, faults>>

-----------------------------------------------------------------------------
ThreadStep(t) ==
  ArmTimer(t) \/ CallCenter(t) \/ CommitAnswer(t) \/ TimerFires(t) \/ PickPending(t)

Next ==
  \/ \E t \in Threads : \/ \E p \in Items : PurchaseItem(t, p)
                        \/ ThreadStep(t) \/ GiveUp(t) \/ PickFails(t)
  \/ \E p \in Items : Register(p)
  \/ Crash \/ Restart

Spec == Init /\ [][Next]_vars

\* Threads run, the timer fires and, though nothing makes it, the game center
\* answers every call it gets.
FairSpec == Spec /\ \A t \in Threads : WF_vars(ThreadStep(t))

-----------------------------------------------------------------------------
(***************************************************************************)
(* Properties.                                                             *)
(***************************************************************************)
\* No item is delivered that was not paid for, however often a row is sent again
\* and whoever's answer comes first; one answer is never turned into two items.
DeliveredIsCharged == \A p \in Items : delivered[p] <= charged[p]

\* With a game center that knows a repeated transaction, a closed purchase is
\* settled: paid and delivered once, or neither.
ClosedIsBalanced ==
  Idempotent => \A p \in Items :
    row[p] = "done" => delivered[p] = charged[p] /\ charged[p] <= 1

\* Retries and answers that come late change nothing any more: a closed purchase stays
\* closed and is neither charged nor delivered again.
SettledIsFinal ==
  [][\A p \in Items : Idempotent /\ row[p] = "done" =>
       row'[p] = "done" /\ charged'[p] = charged[p] /\ delivered'[p] = delivered[p]]_vars

\* A pending purchase is never just forgotten: the timer will look for it, or a
\* thread is about to do so or to set the timer, or the chain of retries broke
\* (a database error in the callback, a restart) and the next purchase will start
\* it again.
PendingIsWatched ==
  \A p \in Items : row[p] = "pending" =>
    timer \/ stopped \/ \E t \in Threads : pc[t] \in {"pick", "arm"}

\* Every purchase is settled in the end, unless the chain of retries breaks, or from
\* some time on there is for ever a pending purchase, this or another, whose
\* delivery the database refuses: it is sent again and again and never settled, and
\* the timer, which looks for one row, may never come to the rows behind it.
Blocked == \E p \in Items : row[p] = "pending" /\ Refused(p)
PendingIsSettled ==
  \A p \in Items : row[p] = "pending" ~> (row[p] = "done" \/ stopped \/ []Blocked)

\* The inductive invariant: an answer held by a thread is the game center's word,
\* a recorded answer has closed the row, and each delivery uses up a charge that
\* nobody else can use.
AnswerInv ==
  \A p \in Items :
    /\ row[p] = "none" => recorded[p] = 0 /\ answer[p] = "none"
    /\ row[p] = "pending" => recorded[p] = 0
    /\ row[p] = "done" => recorded[p] > 0 /\ answer[p] # "none"
    /\ recorded[p] = 0 => delivered[p] = 0
IdempotentInv ==
  Idempotent => \A p \in Items :
    /\ recorded[p] <= 1
    /\ charged[p] = IF answer[p] = "ok" THEN 1 ELSE 0
    /\ delivered[p] = IF row[p] = "done" /\ answer[p] = "ok" THEN 1 ELSE 0
ThreadInv ==
  \A t \in Threads :
    /\ pc[t] \in Working => row[cur[t]] # "none"
    /\ pc[t] = "reply" => reply[t] # "none" /\ answer[cur[t]] # "none"
    /\ Idempotent /\ pc[t] = "reply" => reply[t] = answer[cur[t]]
\* Behind DeliveredIsCharged, with any game center: each delivery has a charge of its own,
\* and so has each thread that is about to deliver.
AboutToDeliver(p) ==
  {t \in Threads : pc[t] = "reply" /\ cur[t] = p /\ reply[t] = "ok"}
ChargeInv ==
  ~Idempotent =>
    \A p \in Items : delivered[p] + Cardinality(AboutToDeliver(p)) <= charged[p]
PurchaseInv == TypeOK /\ AnswerInv /\ IdempotentInv /\ ThreadInv /\ PendingIsWatched

\* Purchases implements Sale.
Status(p) ==
  CASE row[p] = "none"                            -> "none"
    [] row[p] = "pending" /\ answer[p] = "none"   -> "ordered"
    [] row[p] = "pending" /\ answer[p] = "ok"     -> "charged"
    [] row[p] = "pending" /\ answer[p] = "no"     -> "refused"
    [] row[p] = "done" /\ delivered[p] = 0        -> "closed"
    [] row[p] = "done" /\ delivered[p] = 1 /\ charged[p] = 1 -> "delivered"
    [] OTHER                                      -> "unbalanced"
AbstractSale == INSTANCE Sale WITH sale <- [p \in Items |-> Status(p)]
ImplementsSale == AbstractSale!Spec
=============================================================================
