------------------------------- MODULE Members -------------------------------
(***************************************************************************)
(* Members and what they own.  The first login of a name is notified by a  *)
(* client: the name is looked for, inserted into members, and given its    *)
(* starting items one by one, each statement by itself and none of them in *)
(* a transaction.  Meanwhile purchases are delivered and items are used,   *)
(* each in a transaction of its own, which is one step here.               *)
(*                                                                         *)
(* A member stands for its name, since neither names nor ids change.       *)
(* Equipment::insert looks for the row of a name with LIKE, which compares *)
(* without case and takes _ and % for wildcards: Alike[n] are the names    *)
(* that n finds.  A statement that has found a row keeps others from       *)
(* writing until it is done with, one that has not does not.               *)
(***************************************************************************)
EXTENDS Integers, FiniteSets, Functions

CONSTANTS Names,
          Alike,      \* Alike[n]: the names that are LIKE n, n among them
          Unknown,    \* the owner of what a name without a member is given: id 0
          Items,      \* the items every new member is given
          Gift,       \* how many of each
          Requests,   \* notifications of a login: bounds the run
          MaxMoves    \* bounds purchases and uses

ASSUME NamesAssumption == IsFiniteSet(Names) /\ Unknown \notin Names
ASSUME AlikeAssumption ==
  Alike \in [Names -> SUBSET Names] /\ \A n \in Names : n \in Alike[n]
ASSUME ItemsAssumption == Items # {}
ASSUME NumbersAssumption == Gift \in Nat /\ MaxMoves \in Nat

VARIABLES
  members, \* rows of members
  rows,    \* rows of equipment, by owner and item
  count,   \* equip_cnt of each, 0 where there is no row
  pc,      \* where each request is
  who,     \* the name of each request
  left,    \* what the request that creates a member has still to give
  item,    \* what it is about to insert, having found no row
  \* history: for whom a gift of which item was put into a row, its own or that of
  \* a name like it; what was bought and used since, what was delivered to no one,
  \* and whose creation was broken off
  given, bought, lost, broken,
  moves

tables == <<members, rows, count>>
requests == <<pc, who, left, item>>
vars == <<tables, requests, given, bought, lost, broken, moves>>

Owners == Names \cup {Unknown}
Keys == Owners \X Items
Creating == {"insert member", "give", "insert item"}

TypeOK ==
  /\ members \subseteq Names
  /\ rows \subseteq Keys
  /\ count \in [Keys -> Nat]
  /\ pc \in [Requests -> Creating \cup {"idle", "answered", "failed"}]
  /\ who \in [Requests -> Names]
  /\ left \in [Requests -> SUBSET Items]
  /\ item \in [Requests -> Items]
  /\ given \subseteq Names \X Items
  /\ bought \in [Names \X Items -> Int]
  /\ lost \in [Items -> Nat]
  /\ broken \subseteq Names
  /\ moves \in 0 .. MaxMoves

Init ==
  /\ members = {} /\ rows = {} /\ count = [k \in Keys |-> 0]
  /\ pc = [q \in Requests |-> "idle"]
  /\ who \in [Requests -> Names]
  /\ left = [q \in Requests |-> {}]
  /\ item \in [Requests -> {CHOOSE i \in Items : TRUE}]
  /\ given = {} /\ bought = [k \in Names \X Items |-> 0]
  /\ lost = [i \in Items |-> 0] /\ broken = {} /\ moves = 0

Goto(q, label) == pc' = [pc EXCEPT ![q] = label]

\* The rows that Equipment::insert finds for a name and an item.
Found(n, i) == {k \in rows : k[1] \in Alike[n] /\ k[2] = i}
Add(k, c) == count' = [count EXCEPT ![k] = @ + c] /\ UNCHANGED rows
Insert(k, c) ==
  /\ k \notin rows
  /\ rows' = rows \cup {k} /\ count' = [count EXCEPT ![k] = c]

(***************************************************************************)
(* OnNotifyLoginName.                                                      *)
(***************************************************************************)
Notify(q) ==
  /\ pc[q] = "idle"
  /\ Goto(q, IF who[q] \in members THEN "answered" ELSE "insert member")
  /\ UNCHANGED <<tables, who, left, item, given, bought, lost, broken, moves>>

\* Faulty variant: a name that another request has inserted is taken as inserted.
InsertMemberOrIgnore(q) ==
  /\ pc[q] = "insert member"
  /\ members' = members \cup {who[q]} /\ Goto(q, "give")
  /\ left' = [left EXCEPT ![q] = Items]
  /\ UNCHANGED <<rows, count, who, item, given, bought, lost, broken, moves>>

\* login_name is unique: of two requests that did not find it, one fails.
InsertMember(q) ==
  /\ pc[q] = "insert member"
  /\ IF who[q] \in members
       THEN Goto(q, "failed") /\ UNCHANGED <<members, left>>
       ELSE /\ members' = members \cup {who[q]} /\ Goto(q, "give")
            /\ left' = [left EXCEPT ![q] = Items]
  /\ UNCHANGED <<rows, count, who, item, given, bought, lost, broken, moves>>

\* The gift for the name is made; whose row it went to is not told.
IsGiven(q, i) ==
  /\ given' = given \cup {<<who[q], i>>}
  /\ left' = [left EXCEPT ![q] = @ \ {i}]

\* Equipment::insert: a row that is found is added to at once ...
GiveFound(q, i) ==
  /\ pc[q] = "give" /\ i \in left[q]
  /\ \E k \in Found(who[q], i) : Add(k, Gift)
  /\ IsGiven(q, i)
  /\ UNCHANGED <<members, pc, who, item, bought, lost, broken, moves>>

\* ... though the name it belongs to may be another, and one that is not is inserted later, under the id of the member.
FindNoRow(q, i) ==
  /\ pc[q] = "give" /\ i \in left[q]
  /\ Found(who[q], i) = {}
  /\ item' = [item EXCEPT ![q] = i] /\ Goto(q, "insert item")
  /\ UNCHANGED <<tables, who, left, given, bought, lost, broken, moves>>

\* Faulty variant: a row that was inserted meanwhile is replaced.
InsertOrReplace(q) ==
  LET k == <<who[q], item[q]>> IN
  /\ pc[q] = "insert item"
  /\ rows' = rows \cup {k} /\ count' = [count EXCEPT ![k] = Gift]
  /\ IsGiven(q, item[q]) /\ Goto(q, "give")
  /\ UNCHANGED <<members, who, item, bought, lost, broken, moves>>

InsertItem(q) ==
  /\ pc[q] = "insert item"
  /\ Insert(<<who[q], item[q]>>, Gift)
  /\ IsGiven(q, item[q]) /\ Goto(q, "give")
  /\ UNCHANGED <<members, who, item, bought, lost, broken, moves>>

\* Faulty variant: an answer as soon as the member is there.
AnswerEarly(q) ==
  /\ pc[q] = "give"
  /\ Goto(q, "answered")
  /\ UNCHANGED <<tables, who, left, item, given, bought, lost, broken, moves>>

Answer(q) ==
  /\ pc[q] = "give" /\ left[q] = {}
  /\ Goto(q, "answered")
  /\ UNCHANGED <<tables, who, left, item, given, bought, lost, broken, moves>>

\* A statement is refused, since the database is busy or the row is there already:
\* what was written stays, and nobody goes on with it.
Broken(Q) == broken \cup {who[q] : q \in {r \in Q : pc[r] \in {"give", "insert item"}}}
Fails(q) ==
  /\ pc[q] \in Creating \cup {"idle"} /\ Goto(q, "failed")
  /\ broken' = Broken({q})
  /\ UNCHANGED <<tables, who, left, item, given, bought, lost, moves>>

\* The server ends, and is started again.
Restart ==
  /\ \E q \in Requests : pc[q] \in Creating
  /\ pc' = [q \in Requests |-> IF pc[q] \in Creating THEN "failed" ELSE pc[q]]
  /\ broken' = Broken(Requests)
  /\ UNCHANGED <<tables, who, left, item, given, bought, lost, moves>>

(***************************************************************************)
(* Purchases and uses.  Those that are refused change nothing.             *)
(***************************************************************************)
Move == moves < MaxMoves /\ moves' = moves + 1

\* Equipment::insert in the transaction that closes a purchase.
DeliverItem(n, i) ==
  /\ Move
  /\ IF Found(n, i) # {} THEN \E k \in Found(n, i) : Add(k, 1)
     ELSE Insert(IF n \in members THEN <<n, i>> ELSE <<Unknown, i>>, 1)
  /\ IF n \in members
       THEN bought' = [bought EXCEPT ![<<n, i>>] = @ + 1] /\ UNCHANGED lost
       ELSE lost' = [lost EXCEPT ![i] = @ + 1] /\ UNCHANGED bought
  /\ UNCHANGED <<members, requests, given, broken>>

\* DecreaseItemCnt that is answered with success
UseItem(n, i) ==
  /\ Move
  /\ count[<<n, i>>] > 0
  /\ Add(<<n, i>>, -1)
  /\ bought' = [bought EXCEPT ![<<n, i>>] = @ - 1]
  /\ UNCHANGED <<members, requests, given, lost, broken>>

-----------------------------------------------------------------------------
Next ==
  \/ \E q \in Requests :
       \/ Notify(q) \/ InsertMember(q) \/ InsertItem(q) \/ Answer(q) \/ Fails(q)
       \/ \E i \in Items : GiveFound(q, i) \/ FindNoRow(q, i)
  \/ \E n \in Names, i \in Items : DeliverItem(n, i) \/ UseItem(n, i)
  \/ Restart

Spec == Init /\ [][Next]_vars

-----------------------------------------------------------------------------
(***************************************************************************)
(* Properties.                                                             *)
(***************************************************************************)
Owed(k) == (IF k \in given THEN Gift ELSE 0) + bought[k]

\* Neither finds the other's rows.
Alone(n) == \A m \in Names \ {n} : n \notin Alike[m] /\ m \notin Alike[n]

\* Two notifications of one name, purchases that are delivered while the member is
\* being created, and interruptions: what a member has of an item is one gift, plus
\* what it bought, minus what it used, unless names are confused.
ItemsAccounted ==
  \A n \in members, i \in Items : Alone(n) => count[<<n, i>>] = Owed(<<n, i>>)

\* Even when names are confused, or nobody has the name, items change hands only:
\* those of all owners together are what was given and bought, less what was used.
NothingLost ==
  \A i \in Items :
    SumFunction([m \in Owners |-> count[<<m, i>>]])
      = SumFunction([n \in Names |-> Owed(<<n, i>>)]) + lost[i]

\* A member has its starting items and what it bought, minus what it used, or a
\* request is about to give them, or its creation was broken off; nothing makes up for
\* that later.  Of a name that is confused with another only this is true: there is a
\* row of each item that the server finds for it, which may be the other's.
EquippedUnlessBroken ==
  \A n \in members :
    \/ \A i \in Items : /\ Found(n, i) # {}
                        /\ Alone(n) => count[<<n, i>>] = Gift + bought[<<n, i>>]
    \/ n \in broken
    \/ \E q \in Requests : who[q] = n /\ pc[q] \in {"give", "insert item"}

\* The inductive invariant.  Rows and gifts are of members, and a name that is no
\* member owns nothing.
RowInv ==
  /\ \A k \in rows : k[1] \in members \cup {Unknown}
  /\ \A k \in Keys \ rows : count[k] = 0
  /\ \A k \in given : k[1] \in members
  /\ \A n \in Names \ members, i \in Items : bought[<<n, i>>] = 0

\* One request creates a member, and has in left what it has not given.
Giving(q) == pc[q] \in {"give", "insert item"}
GiverInv ==
  \A q \in Requests : Giving(q) =>
    /\ who[q] \in members
    /\ \A i \in left[q] : <<who[q], i>> \notin given
    /\ pc[q] = "insert item" => item[q] \in left[q]
    /\ \A r \in Requests : Giving(r) /\ who[r] = who[q] => r = q

\* What a member was not given is still in the hands of the one that creates it, or
\* nobody will give it.
GiftInv ==
  \A n \in members, i \in Items :
    \/ <<n, i>> \in given
    \/ n \in broken
    \/ \E q \in Requests : Giving(q) /\ who[q] = n /\ i \in left[q]

\* A gift is in a row that the name is found to have: no row ever goes away.
FoundInv == \A k \in given : Found(k[1], k[2]) # {}

MembersInv == TypeOK /\ RowInv /\ GiverInv /\ GiftInv /\ ItemsAccounted
=============================================================================
