----------------------------- MODULE GameScores -----------------------------
(***************************************************************************)
(* The scores of one game: the requests its server and the clients send    *)
(* (GameService.cpp, ScoreServices.cpp) as GameManager handles them, the   *)
(* rows they leave in game_records and game_history, and the ranking that  *)
(* terminate_game runs when the game ends (GameManager.cpp,                *)
(* GameRecordDB.cpp, GameHistoryDB.cpp).                                   *)
(*                                                                         *)
(* Requests of one connection are handled one after another, those of      *)
(* several at the same time on the io threads.  The handlers find the game *)
(* in running_games_ without its mutex and write to SQLite, whose busy     *)
(* timeout is 0: a write while another transaction holds the write lock    *)
(* throws at once, and any commit may be refused.                          *)
(***************************************************************************)
EXTENDS Integers, FiniteSets

CONSTANTS Players, Conns,
          MaxPoint,    \* the checkpoints of the level: bounds pass_point
          MaxTime,     \* bounds pass_time
          RealTime,    \* game_mode = 1, the only mode that is ranked
          None         \* no player, no pass time

ASSUME BoundsAssumption  == MaxPoint \in Nat /\ MaxTime \in Nat
ASSUME ModeAssumption    == RealTime \in BOOLEAN
ASSUME PlayersAssumption == IsFiniteSet(Players)
ASSUME NoneAssumption    == None \notin Players /\ None \notin Nat /\ None \notin Conns

Points == 0 .. MaxPoint
Times  == 0 .. MaxTime

VARIABLES
  up,          \* the master server process is alive
  inMap,       \* the game is in running_games_
  ending,      \* how far add and terminate_game are with the game
  count,       \* Game::checkpoint_count_
  countRow,    \* games.checkpoint_count
  records,     \* pass_point of each player's rows in game_records
  history,     \* pass_time of each player's row in game_history
  rank,        \* rank of that row
  points,      \* what the game added to members.total_score
  writer,      \* the connection whose transaction holds SQLite's write lock
  pc, who, arg,  \* each connection's request: its next step, player, arguments
  overlap,     \* players who had two requests handled at the same time; None if
               \* two checkpoint counts were
  late,        \* players whose pass time was set directly after the ranking
  early        \* the last count of checkpoints came before the game was in the map

mapVars  == <<inMap, ending>>
rowVars  == <<records, history, rank, points>>
reqVars  == <<pc, who, arg>>
marks    == <<overlap, late, early>>   \* read by the properties only
vars == <<up, inMap, ending, count, countRow, records, history, rank, points,
          writer, pc, who, arg, overlap, late, early>>

Steps == {"idle", "connectFound", "lookup", "remove", "insert",   \* OnPlayerConnect
          "dropFound", "delete",                                   \* OnPlayerDrop
          "waitFound",                                             \* UpdateWaitingTime
          "setCount",                                              \* OnNotifyCehckpointCount
          "updated", "readCount", "commit"}                        \* OnScoreChanged

NoArg == [point |-> 0, time |-> 0, cleared |-> FALSE]

TypeOK ==
  /\ up \in BOOLEAN /\ inMap \in BOOLEAN
  /\ ending \in {"starting", "no", "removed", "ranked", "failed"}
  /\ count \in Points /\ countRow \in Points
  /\ records \in [Players -> SUBSET Points]
  /\ history \in [Players -> Times \union {None}]
  /\ rank \in [Players -> Nat]
  /\ points \in [Players -> Nat]
  /\ writer \in Conns \union {None}
  /\ pc \in [Conns -> Steps]
  /\ who \in [Conns -> Players \union {None}]
  /\ arg \in [Conns -> [point : Points, time : Times, cleared : BOOLEAN]]
  /\ overlap \subseteq Players \union {None} /\ late \subseteq Players
  /\ early \in BOOLEAN

\* GameManager::add has inserted the row and launched the game server, which can
\* send requests from now on; the game is not in the map yet.
Init ==
  /\ up = TRUE /\ inMap = FALSE /\ ending = "starting"
  /\ count = 0 /\ countRow = 0
  /\ records = [p \in Players |-> {}]
  /\ history = [p \in Players |-> None]
  /\ rank = [p \in Players |-> 0]
  /\ points = [p \in Players |-> 0]
  /\ writer = None
  /\ pc = [c \in Conns |-> "idle"]
  /\ who = [c \in Conns |-> None]
  /\ arg = [c \in Conns |-> NoArg]
  /\ overlap = {} /\ late = {} /\ early = FALSE

(***************************************************************************)
(* How a request begins and ends.                                          *)
(***************************************************************************)
Active(c) == pc[c] \notin {"idle", "waitFound"}
Busy(p)   == \E c \in Conns : Active(c) /\ who[c] = p

\* Connection c starts to handle a request about player p, or about the count of
\* checkpoints or the waiting time if p is None.
Begin(c, p, step, a) ==
  /\ up /\ pc[c] = "idle"
  /\ pc' = [pc EXCEPT ![c] = step]
  /\ who' = [who EXCEPT ![c] = p]
  /\ arg' = [arg EXCEPT ![c] = a]
  /\ overlap' = IF step # "waitFound" /\ Busy(p) THEN overlap \union {p} ELSE overlap

\* The reply, or the error reply, is written; the connection reads on.
Reply(c) ==
  /\ pc' = [pc EXCEPT ![c] = "idle"]
  /\ who' = [who EXCEPT ![c] = None]
  /\ arg' = [arg EXCEPT ![c] = NoArg]

At(c, step) == up /\ pc[c] = step
Goto(c, step) == pc' = [pc EXCEPT ![c] = step] /\ UNCHANGED <<who, arg>>

\* A statement outside of a transaction cannot write while another connection
\* holds the write lock, and may be refused for a passing lock at any time.
CanWrite == writer = None

Throw(c) ==
  Reply(c) /\ UNCHANGED <<up, mapVars, count, countRow, rowVars, writer, marks>>

\* The master server dies: the map and the requests are gone and an open
\* transaction with them; the rows are as committed.
Die ==
  /\ up' = FALSE
  /\ inMap' = FALSE
  /\ ending' = IF ending = "ranked" THEN "ranked" ELSE "failed"
  /\ count' = 0
  /\ writer' = None
  /\ pc' = [c \in Conns |-> "idle"]
  /\ who' = [c \in Conns |-> None]
  /\ arg' = [c \in Conns |-> NoArg]
  /\ UNCHANGED <<countRow, rowVars, marks>>

(***************************************************************************)
(* OnPlayerConnect, OnPlayerDrop, UpdateWaitingTime: the entry is found    *)
(* and then used, twice, through operator[].  If terminate_game erased it  *)
(* in between, operator[] makes an empty Game and the process dies of a    *)
(* null pointer.                                                           *)
(***************************************************************************)
Find(c, p, found) ==
  /\ inMap
  /\ Begin(c, p, found, NoArg)
  /\ UNCHANGED <<up, mapVars, count, countRow, rowVars, writer, late, early>>

PlayerConnect(c, p)  == Find(c, p, "connectFound")
PlayerDrop(c, p)     == Find(c, p, "dropFound")
UpdateWaitingTime(c) == Find(c, None, "waitFound")

Use(c, found, next) ==
  /\ At(c, found)
  /\ IF inMap
       THEN /\ IF next = "idle" THEN Reply(c) ELSE Goto(c, next)
            /\ UNCHANGED <<up, mapVars, count, countRow, rowVars, writer, marks>>
       ELSE Die

UseFound(c) == \/ Use(c, "connectFound", "lookup")
               \/ Use(c, "dropFound", "delete")
               \/ Use(c, "waitFound", "idle")

\* Faulty variant: an existing row is not looked for.
InsertAlways(c) ==
  /\ At(c, "lookup")
  /\ Goto(c, "insert")
  /\ UNCHANGED <<up, mapVars, count, countRow, rowVars, writer, marks>>

\* process_connect_player: three statements, each a transaction of its own.
FindRecord(c) ==
  /\ At(c, "lookup")
  /\ \/ Throw(c)
     \/ /\ \/ records[who[c]] # {} /\ Goto(c, "remove")
           \/ records[who[c]] = {} /\ Goto(c, "insert")
        /\ UNCHANGED <<up, mapVars, count, countRow, rowVars, writer, marks>>

\* GameRecordDB::remove deletes every row of the player.
DeleteRecords(c) ==
  /\ CanWrite
  /\ records' = [records EXCEPT ![who[c]] = {}]
  /\ UNCHANGED <<up, mapVars, count, countRow, history, rank, points, writer, marks>>

RemoveRecord(c) ==
  /\ At(c, "remove")
  /\ Throw(c) \/ (DeleteRecords(c) /\ Goto(c, "insert"))

\* process_drop_player
DropRecord(c) ==
  /\ At(c, "delete")
  /\ Throw(c) \/ (DeleteRecords(c) /\ Reply(c))

\* The new row has pass_point 0, which must not be there yet (primary key).
InsertRow(c) ==
  /\ CanWrite /\ 0 \notin records[who[c]]
  /\ records' = [records EXCEPT ![who[c]] = @ \union {0}]
  /\ UNCHANGED <<up, mapVars, count, countRow, history, rank, points, writer, marks>>

InsertRecord(c) ==
  /\ At(c, "insert")
  /\ Throw(c) \/ (InsertRow(c) /\ Reply(c))

(***************************************************************************)
(* OnNotifyCehckpointCount: the row of table games first, then the Game,   *)
(* if it is still there.                                                   *)
(***************************************************************************)
UpdateCountRow(c, n) ==
  /\ CanWrite
  /\ Begin(c, None, "setCount", [NoArg EXCEPT !.point = n])
  /\ countRow' = n
  /\ UNCHANGED <<up, mapVars, count, rowVars, writer, late, early>>

\* Faulty variant: the running game is forgotten.
SetRowOnly(c) ==
  /\ At(c, "setCount")
  /\ early' = (ending = "starting")
  /\ Reply(c)
  /\ UNCHANGED <<up, mapVars, count, countRow, rowVars, writer, overlap, late>>

SetGameCount(c) ==
  /\ At(c, "setCount")
  /\ count' = IF inMap THEN arg[c].point ELSE count
  /\ early' = (ending = "starting")
  /\ Reply(c)
  /\ UNCHANGED <<up, mapVars, countRow, rowVars, writer, overlap, late>>

(***************************************************************************)
(* OnScoreChanged: GameManager::update_player_score, one transaction.  Its *)
(* first write takes the lock that keeps every other write out until it    *)
(* commits, so what it writes is put together here at the commit.          *)
(***************************************************************************)
\* Faulty variant: the statements are not a transaction.
ScoreUnlocked(c, p, point, time) ==
  /\ CanWrite /\ Cardinality(records[p]) < 2
  /\ Begin(c, p, "updated", [point |-> point, time |-> time, cleared |-> FALSE])
  /\ UNCHANGED <<up, mapVars, count, countRow, rowVars, writer, late, early>>

\* A row is inserted if there is none, then every row of the player is updated
\* to the same pass_point: with two rows that breaks the primary key.
ScoreChanged(c, p, point, time) ==
  /\ CanWrite /\ Cardinality(records[p]) < 2
  /\ Begin(c, p, "updated", [point |-> point, time |-> time, cleared |-> FALSE])
  /\ writer' = c
  /\ UNCHANGED <<up, mapVars, count, countRow, rowVars, late, early>>

\* find_game_by_id: a reference into the map, taken without the mutex ...
FindGame(c) ==
  /\ At(c, "updated")
  /\ Goto(c, IF inMap THEN "readCount" ELSE "commit")
  /\ UNCHANGED <<up, mapVars, count, countRow, rowVars, writer, marks>>

\* ... and read after it: if the game was erased since, this is a read through
\* a dangling reference; it may end the process or give any answer.
IsClearedCheckpoint(c) ==
  /\ At(c, "readCount")
  /\ \/ ~inMap /\ Die
     \/ /\ \E cleared \in (IF inMap THEN {arg[c].point = count} ELSE BOOLEAN) :
             arg' = [arg EXCEPT ![c].cleared = cleared]
        /\ pc' = [pc EXCEPT ![c] = "commit"]
        /\ UNCHANGED <<up, who, mapVars, count, countRow, rowVars, writer, marks>>

\* Faulty variant: the last time reported is kept.
LastTime(best, time) == time

\* GameHistoryDB::update_player_pass_time: the best time is kept.
BestTime(best, time) == IF best = None \/ best > time THEN time ELSE best

CommitScore(c) ==
  /\ At(c, "commit")
  /\ writer' = None
  /\ Reply(c)
  /\ \/ UNCHANGED rowVars                       \* refused, rolled back
     \/ /\ records' = [records EXCEPT ![who[c]] = {arg[c].point}]
        /\ history' = IF arg[c].cleared
                        THEN [history EXCEPT ![who[c]] = BestTime(@, arg[c].time)]
                        ELSE history
        /\ UNCHANGED <<rank, points>>
  /\ UNCHANGED <<up, mapVars, count, countRow, marks>>

\* UpdateGamePassTime sets a pass time directly, whatever became of the game.
UpdateGamePassTime(p, time) ==
  /\ up /\ CanWrite
  /\ history' = [history EXCEPT ![p] = BestTime(@, time)]
  /\ late' = IF ending = "ranked" THEN late \union {p} ELSE late
  /\ UNCHANGED <<up, mapVars, count, countRow, records, rank, points, writer, reqVars,
                 overlap, early>>

(***************************************************************************)
(* The end of GameManager::add, and GameManager::terminate_game.           *)
(* GameLifecycle has their callers, the launch, and the end of the process *)
(* and its port; here are the map and the ranking.                         *)
(***************************************************************************)
EnterMap ==
  /\ up /\ ending = "starting"
  /\ inMap' = TRUE
  /\ ending' = "no"
  /\ UNCHANGED <<up, count, countRow, rowVars, writer, reqVars, marks>>

TakeOut ==
  /\ up /\ inMap
  /\ inMap' = FALSE
  /\ ending' = "removed"
  /\ count' = 0                               \* goes with the Game
  /\ UNCHANGED <<up, countRow, rowVars, writer, reqVars, marks>>

Finishers == IF RealTime THEN {p \in Players : history[p] # None} ELSE {}

\* The rows ordered by pass_time are numbered from 1; the order of equal times
\* is SQLite's.
IsRanking(r) ==
  /\ \A p \in Players : r[p] = 0 <=> p \notin Finishers
  /\ \A p \in Finishers : r[p] \in 1 .. Cardinality(Finishers)
  /\ \A p, q \in Finishers : /\ r[p] = r[q] => p = q
                             /\ r[p] < r[q] => history[p] <= history[q]

PointsFor(place) ==
  CASE place = 1 -> 5 [] place = 2 -> 3 [] place = 3 -> 2 [] OTHER -> 1

\* set_player_rank_and_update_total_score, in the transaction of terminate_game.
\* BEGIN takes no lock, and only the rows of finishers are written: with none, the
\* transaction only reads and commits beside one that holds the write lock.
Rank ==
  /\ up /\ ending = "removed"
  /\ Finishers # {} => CanWrite
  /\ ending' = "ranked"
  /\ \E r \in [Players -> 0 .. Cardinality(Players)] :
       /\ IsRanking(r)
       /\ rank' = [p \in Players |-> IF r[p] = 0 THEN rank[p] ELSE r[p]]
       /\ points' = [p \in Players |->
                       IF r[p] = 0 THEN points[p] ELSE points[p] + PointsFor(r[p])]
  /\ UNCHANGED <<up, inMap, count, countRow, records, history, writer, reqVars, marks>>

\* Faulty variant: what was written before the refusal stays.
RankHalfDone ==
  /\ up /\ ending = "removed"
  /\ ending' = "failed"
  /\ \E p \in Finishers : rank' = [rank EXCEPT ![p] = 1]
  /\ UNCHANGED <<up, inMap, count, countRow, records, history, points, writer,
                 reqVars, marks>>

\* The transaction is refused.  In the timer's handler the exception ends the
\* process; either way nobody ranks the game any more.
RankFails ==
  /\ up /\ ending = "removed"
  /\ \/ Die
     \/ /\ ending' = "failed"
        /\ UNCHANGED <<up, inMap, count, countRow, rowVars, writer, reqVars, marks>>

\* The master server dies at any point, and is started again with an empty map.
Crash == up /\ Die

Restart ==
  /\ ~up /\ up' = TRUE
  /\ UNCHANGED <<mapVars, count, countRow, rowVars, writer, reqVars, marks>>

-----------------------------------------------------------------------------
Request(c) ==
  \/ UpdateWaitingTime(c)
  \/ \E n \in Points : UpdateCountRow(c, n)
  \/ \E p \in Players : \/ PlayerConnect(c, p) \/ PlayerDrop(c, p)
                       \/ \E point \in Points, time \in Times :
                            ScoreChanged(c, p, point, time)

HandlerStep(c) ==
  \/ UseFound(c) \/ FindRecord(c) \/ RemoveRecord(c) \/ InsertRecord(c)
  \/ DropRecord(c) \/ SetGameCount(c) \/ FindGame(c) \/ IsClearedCheckpoint(c)
  \/ CommitScore(c)

Next ==
  \/ \E c \in Conns : Request(c) \/ HandlerStep(c)
  \/ \E p \in Players, time \in Times : UpdateGamePassTime(p, time)
  \/ EnterMap \/ TakeOut \/ Rank \/ RankFails \/ Crash \/ Restart

Spec == Init /\ [][Next]_vars

-----------------------------------------------------------------------------
(***************************************************************************)
(* Properties.                                                             *)
(***************************************************************************)
\* The ranking stays true to the pass times, although is_cleard_checkpoint and
\* terminate_game look at the map at different times.  A score report that overlaps
\* the end of the game is ranked or leaves no pass time, with one exception: the
\* ranking of a game that nobody had finished takes no write lock, so the one score
\* transaction then open may still commit a pass time, of which no rank comes.  A
\* direct UpdateGamePassTime after the ranking is not ranked either.
Ranked == {p \in Players : rank[p] # 0}
Missed == {p \in Players \ late : rank[p] = 0 /\ history[p] # None}

RankingMatchesTimes ==
  ending = "ranked" /\ RealTime =>
    /\ \A p \in Players \ late : rank[p] # 0 => history[p] # None
    /\ \A p, q \in Players \ late :
         rank[p] # 0 /\ rank[q] # 0 =>
           /\ rank[p] = rank[q] => p = q
           /\ rank[p] < rank[q] => history[p] <= history[q]
    /\ Missed # {} => Ranked = {} /\ \E p \in Players : Missed = {p}

\* Ranks and the points in members.total_score are given out together and once,
\* through refused transactions, crashes and restarts.
PointsMatchRanks ==
  \A p \in Players :
    points[p] = IF rank[p] = 0 THEN 0 ELSE PointsFor(rank[p])

\* The places that were given out are 1, 2, 3 and so on without a gap, each to one
\* player: there is one winner of a game that anybody finished, and the points of no
\* place are lost or paid twice, although later pass times change what was ranked.
PlacesAreFilled == {rank[p] : p \in Ranked} = 1 .. Cardinality(Ranked)

\* A player has one row in game_records, so later scores can be stored, unless
\* two of their requests were handled at the same time.
OneRecordUnlessOverlap ==
  \A p \in Players \ overlap : Cardinality(records[p]) <= 1

\* table games and the running game agree on the number of checkpoints, unless
\* two notices of it were handled at the same time, or the last one was handled
\* before add had put the game into the map: that one sets the row only.
CountsAgree ==
  inMap /\ ~early /\ None \notin overlap /\ (\A c \in Conns : pc[c] # "setCount")
    => count = countRow

\* Reports may come late or out of order: a pass time once stored is only ever
\* replaced by a better one, and the row never goes away.
PassTimesOnlyImprove ==
  [][\A p \in Players : history[p] # None =>
       history'[p] # None /\ history'[p] <= history[p]]_vars

\* The inductive invariant.  Only the connection that holds the write lock is
\* between the first write of a score and its commit.  What it found in the map can
\* lead to a pass time after the ranking only if the ranking wrote nothing, and then
\* to the only one.
InTransaction == {"updated", "readCount", "commit"}
MayClear(c)   == pc[c] = "readCount" \/ arg[c].cleared
RankInv ==
  /\ inMap <=> ending = "no"
  /\ ending # "ranked" => late = {} /\ \A p \in Players : rank[p] = 0
  /\ \A c \in Conns :
       /\ pc[c] \in InTransaction <=> writer = c
       /\ arg[c].cleared => pc[c] = "commit"
       /\ MayClear(c) /\ ending = "ranked" /\ RealTime => Ranked = {} /\ Missed = {}

\* CountsAgree, and the same for a game that is not in the map yet.
CountInv ==
  ending \in {"starting", "no"} =>
    early \/ None \in overlap \/ (\E c \in Conns : pc[c] = "setCount") \/ count = countRow

\* One request at a time for whom no overlap was noted, so nothing comes between
\* the three statements of a connect, or the two of a checkpoint count.
RequestInv ==
  /\ \A c \in Conns :
       /\ Active(c) /\ pc[c] # "setCount" => who[c] \in Players
       /\ pc[c] = "setCount" => who[c] = None
       /\ pc[c] = "insert" /\ who[c] \notin overlap => records[who[c]] = {}
       /\ pc[c] = "setCount" /\ None \notin overlap => arg[c].point = countRow
  /\ \A c, d \in Conns :
       c # d /\ who[c] = who[d] /\ Active(c) /\ Active(d)
         => who[c] \in overlap

ScoresInv ==
  /\ TypeOK /\ RankInv /\ RequestInv
  /\ PointsMatchRanks /\ RankingMatchesTimes
  /\ OneRecordUnlessOverlap /\ CountInv
=============================================================================
