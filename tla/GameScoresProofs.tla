-------------------------- MODULE GameScoresProofs --------------------------
(***************************************************************************)
(* Proofs about GameScores, for any number of players and connections and  *)
(* any bounds on times and checkpoints.                                    *)
(***************************************************************************)
EXTENDS GameScores, FiniteSetTheorems, FunctionTheorems, TLAPS

\* Every place is worth a natural number of points.
LEMMA PointsForType == \A n \in Nat : PointsFor(n) \in Nat
  BY DEF PointsFor

\* The two contents of a player's rows that a serial handling can leave.
LEMMA FewRecords == Cardinality({}) = 0 /\ \A x : Cardinality({x}) = 1
  BY FS_EmptySet, FS_Singleton

LEMMA InitInv == Init => ScoresInv
  <1> USE DEF Init, NoArg
  <1> SUFFICES ASSUME Init PROVE ScoresInv
    OBVIOUS
  <1>1. TypeOK
    <2>1. 0 \in Points /\ 0 \in Times
      BY BoundsAssumption DEF Points, Times
    <2>2. /\ count \in Points /\ countRow \in Points
          /\ pc \in [Conns -> Steps] /\ who \in [Conns -> Players \union {None}]
          /\ arg \in [Conns -> [point : Points, time : Times, cleared : BOOLEAN]]
      BY <2>1 DEF Steps
    <2> QED BY <2>2 DEF TypeOK
  <1>2. RankInv /\ PointsMatchRanks /\ RankingMatchesTimes
    BY NoneAssumption
       DEF RankInv, InTransaction, MayClear, PointsMatchRanks, RankingMatchesTimes
  <1>3. RequestInv /\ CountInv
    BY DEF RequestInv, CountInv, Active
  <1>4. OneRecordUnlessOverlap
    BY FewRecords DEF OneRecordUnlessOverlap
  <1> QED BY <1>1, <1>2, <1>3, <1>4 DEF ScoresInv

-----------------------------------------------------------------------------
(***************************************************************************)
(* One lemma per group of actions.                                         *)
(***************************************************************************)
\* The death of the process keeps the invariant: requests and map are empty.
LEMMA DieInv == ScoresInv /\ Die => ScoresInv'
  <1> SUFFICES ASSUME ScoresInv, Die PROVE ScoresInv'
    OBVIOUS
  <1> USE DEF Die, NoArg, rowVars, marks
  <1>1. TypeOK'
    <2>1. NoArg \in [point : Points, time : Times, cleared : BOOLEAN]
      BY BoundsAssumption DEF Points, Times
    <2>2. /\ up' \in BOOLEAN /\ inMap' \in BOOLEAN
          /\ ending' \in {"starting", "no", "removed", "ranked", "failed"}
          /\ writer' \in Conns \union {None} /\ who' \in [Conns -> Players \union {None}]
      OBVIOUS
    <2>5. count' \in Points
      BY BoundsAssumption DEF Points
    <2>3. pc' \in [Conns -> Steps]
      BY DEF Steps
    <2>4. arg' \in [Conns -> [point : Points, time : Times, cleared : BOOLEAN]]
      BY <2>1
    <2> QED BY <2>2, <2>3, <2>4, <2>5 DEF ScoresInv, TypeOK
  <1>2. RankInv'
    BY NoneAssumption DEF ScoresInv, RankInv, InTransaction, MayClear, Ranked, Missed
  <1>3. RequestInv'
    <2>1. \A c \in Conns : pc'[c] = "idle"
      OBVIOUS
    <2> QED BY <2>1 DEF RequestInv, Active
  <1>6. CountInv'
    BY DEF CountInv
  <1>4. PointsMatchRanks' /\ OneRecordUnlessOverlap'
    BY DEF ScoresInv, PointsMatchRanks, OneRecordUnlessOverlap
  <1>5. RankingMatchesTimes'
    BY DEF ScoresInv, RankingMatchesTimes, Ranked, Missed
  <1> QED BY <1>1, <1>2, <1>3, <1>4, <1>5, <1>6 DEF ScoresInv

\* An exception on the way of a connect or a drop keeps the invariant.
LEMMA ThrowInv ==
  ASSUME ScoresInv, NEW c \in Conns, pc[c] \in {"lookup", "remove", "insert", "delete"}, Throw(c)
  PROVE  ScoresInv'
  <1> USE DEF Throw, Reply, NoArg, mapVars, rowVars, marks
  <1>1. TypeOK'
    BY BoundsAssumption DEF ScoresInv, TypeOK, Points, Times, Steps
  <1>2. RankInv'
    BY DEF ScoresInv, TypeOK, RankInv, InTransaction, MayClear, Ranked, Missed
  <1>3. RequestInv'
    BY DEF ScoresInv, TypeOK, RequestInv, Active
  <1>4. PointsMatchRanks' /\ OneRecordUnlessOverlap'
    BY DEF ScoresInv, PointsMatchRanks, OneRecordUnlessOverlap
  <1>5. RankingMatchesTimes'
    BY DEF ScoresInv, RankingMatchesTimes, Ranked, Missed
  <1>6. CountInv'
    BY DEF ScoresInv, TypeOK, RequestInv, CountInv
  <1> QED BY <1>1, <1>2, <1>3, <1>4, <1>5, <1>6 DEF ScoresInv

-----------------------------------------------------------------------------
(***************************************************************************)
(* The types of what Begin, Reply and Goto assign.                         *)
(***************************************************************************)
ReqType == /\ pc \in [Conns -> Steps]
           /\ who \in [Conns -> Players \union {None}]
           /\ arg \in [Conns -> [point : Points, time : Times, cleared : BOOLEAN]]

LEMMA NoArgType == NoArg \in [point : Points, time : Times, cleared : BOOLEAN]
  BY BoundsAssumption DEF NoArg, Points, Times

LEMMA BeginType ==
  ASSUME TypeOK, NEW c \in Conns, NEW p \in Players \union {None}, NEW step \in Steps,
         NEW a \in [point : Points, time : Times, cleared : BOOLEAN],
         Begin(c, p, step, a)
  PROVE  ReqType' /\ overlap' \subseteq Players \union {None}
  BY DEF TypeOK, Begin, ReqType

LEMMA ReplyType ==
  ASSUME TypeOK, NEW c \in Conns, Reply(c)
  PROVE  ReqType'
  BY NoArgType DEF TypeOK, Reply, ReqType, Steps

LEMMA GotoType ==
  ASSUME TypeOK, NEW c \in Conns, NEW step \in Steps, Goto(c, step)
  PROVE  ReqType'
  BY DEF TypeOK, Goto, ReqType

\* The unlocked find: a request of a connect, a drop or a waiting time begins.
LEMMA FindInv ==
  ASSUME ScoresInv, NEW c \in Conns, NEW p \in Players \union {None},
         NEW found \in {"connectFound", "dropFound", "waitFound"},
         found # "waitFound" => p \in Players, Find(c, p, found)
  PROVE  ScoresInv'
  <1>1. TypeOK'
    <2>1. found \in Steps /\ TypeOK
      BY DEF Steps, ScoresInv
    <2>2. ReqType' /\ overlap' \subseteq Players \union {None}
      BY <2>1, BeginType, NoArgType DEF Find
    <2> QED BY <2>1, <2>2 DEF TypeOK, ReqType, mapVars, rowVars, Find, marks
  <1>2. RankInv'
    BY DEF ScoresInv, RankInv, InTransaction, MayClear, Ranked, Missed, Find, Begin,
           NoArg, mapVars, rowVars, marks
  <1>3. RequestInv'
    BY DEF ScoresInv, TypeOK, RequestInv, Active, Busy, Find, Begin, rowVars, marks
  <1>4. PointsMatchRanks'
    BY DEF ScoresInv, PointsMatchRanks, rowVars, Find, marks
  <1>5. RankingMatchesTimes'
    BY DEF ScoresInv, RankingMatchesTimes, Ranked, Missed, mapVars, rowVars, Find, marks
  <1>6. OneRecordUnlessOverlap'
    BY DEF ScoresInv, OneRecordUnlessOverlap, Find, Begin, rowVars, marks
  <1>7. CountInv'
    BY DEF ScoresInv, TypeOK, CountInv, Find, Begin, mapVars, marks
  <1> QED BY <1>1, <1>2, <1>3, <1>4, <1>5, <1>6, <1>7 DEF ScoresInv

\* The use of the entry that was found.
LEMMA UseInv ==
  ASSUME ScoresInv, NEW c \in Conns, inMap,
         NEW found \in {"connectFound", "dropFound", "waitFound"},
         NEW next \in {"lookup", "delete", "idle"},
         found # "waitFound" <=> next # "idle", Use(c, found, next)
  PROVE  ScoresInv'
  <1>1. TypeOK'
    BY ReplyType, GotoType DEF ScoresInv, TypeOK, ReqType, Steps, mapVars, rowVars, Use,
                               marks
  <1>2. RankInv'
    BY DEF ScoresInv, TypeOK, RankInv, InTransaction, MayClear, Ranked, Missed, Use,
           Reply, Goto, At, NoArg, mapVars, rowVars, marks
  <1>3. RequestInv'
    BY DEF ScoresInv, TypeOK, RequestInv, Active, Steps, Use, Reply, Goto, At, NoArg,
           mapVars, rowVars, marks
  <1>4. PointsMatchRanks'
    BY DEF ScoresInv, PointsMatchRanks, rowVars, Use, marks
  <1>5. RankingMatchesTimes'
    BY DEF ScoresInv, RankingMatchesTimes, Ranked, Missed, mapVars, rowVars, Use, marks
  <1>6. OneRecordUnlessOverlap'
    BY DEF ScoresInv, OneRecordUnlessOverlap, Use, rowVars, marks
  <1>7. CountInv'
    BY DEF ScoresInv, TypeOK, CountInv, Use, Reply, Goto, At, mapVars, marks
  <1> QED BY <1>1, <1>2, <1>3, <1>4, <1>5, <1>6, <1>7 DEF ScoresInv

\* The first statement of a connect.
LEMMA FindRecordInv ==
  ASSUME ScoresInv, NEW c \in Conns, At(c, "lookup"),
         \/ records[who[c]] # {} /\ Goto(c, "remove")
         \/ records[who[c]] = {} /\ Goto(c, "insert"),
         UNCHANGED <<up, mapVars, count, countRow, rowVars, writer, marks>>
  PROVE  ScoresInv'
  <1>1. TypeOK'
    BY ReplyType, GotoType DEF ScoresInv, TypeOK, ReqType, Steps, mapVars, rowVars,
                               marks
  <1>2. RankInv'
    BY DEF ScoresInv, TypeOK, RankInv, InTransaction, MayClear, Ranked, Missed, At,
           Goto, mapVars, rowVars, marks
  <1>3. RequestInv'
    <2>1. CASE records[who[c]] # {} /\ Goto(c, "remove")
      BY <2>1 DEF ScoresInv, RequestInv, Active, At, Goto, rowVars, marks
    <2>2. CASE records[who[c]] = {} /\ Goto(c, "insert")
      BY <2>2 DEF ScoresInv, RequestInv, Active, At, Goto, rowVars, marks
    <2> QED BY <2>1, <2>2
  <1>4. PointsMatchRanks'
    BY DEF ScoresInv, PointsMatchRanks, rowVars, marks
  <1>5. RankingMatchesTimes'
    BY DEF ScoresInv, RankingMatchesTimes, Ranked, Missed, mapVars, rowVars, marks
  <1>6. OneRecordUnlessOverlap'
    BY DEF ScoresInv, OneRecordUnlessOverlap, rowVars, marks
  <1>7. CountInv'
    BY DEF ScoresInv, TypeOK, CountInv, At, Goto, mapVars, marks
  <1> QED BY <1>1, <1>2, <1>3, <1>4, <1>5, <1>6, <1>7 DEF ScoresInv

\* The delete of a connect.
LEMMA RemoveRecordInv ==
  ASSUME ScoresInv, NEW c \in Conns, At(c, "remove"), DeleteRecords(c), Goto(c, "insert")
  PROVE  ScoresInv'
  <1>1. TypeOK'
    BY ReplyType, GotoType
       DEF ScoresInv, TypeOK, ReqType, Steps, At, mapVars, rowVars, DeleteRecords,
           CanWrite, marks
  <1>2. RankInv'
    BY DEF ScoresInv, TypeOK, RankInv, InTransaction, MayClear, Ranked, Missed,
           DeleteRecords, CanWrite, Reply, Goto, At, NoArg, mapVars, rowVars, marks
  <1>3. RequestInv'
    BY DEF ScoresInv, TypeOK, RequestInv, Active, Steps, DeleteRecords, CanWrite,
           Reply, Goto, At, NoArg, mapVars, rowVars, marks
  <1>4. PointsMatchRanks'
    BY DEF ScoresInv, PointsMatchRanks, mapVars, rowVars, DeleteRecords, CanWrite, marks
  <1>5. RankingMatchesTimes'
    BY DEF ScoresInv, RankingMatchesTimes, Ranked, Missed, mapVars, rowVars,
           DeleteRecords, CanWrite, marks
  <1>6. OneRecordUnlessOverlap'
    BY FewRecords
       DEF ScoresInv, TypeOK, OneRecordUnlessOverlap, DeleteRecords, CanWrite, Reply,
           Goto, At, NoArg, mapVars, rowVars, marks
  <1>7. CountInv'
    BY DEF ScoresInv, TypeOK, RequestInv, CountInv, DeleteRecords, CanWrite, Reply,
           Goto, At, NoArg, mapVars, rowVars, marks
  <1> QED BY <1>1, <1>2, <1>3, <1>4, <1>5, <1>6, <1>7 DEF ScoresInv

\* The delete of a drop.
LEMMA DropRecordInv ==
  ASSUME ScoresInv, NEW c \in Conns, At(c, "delete"), DeleteRecords(c), Reply(c)
  PROVE  ScoresInv'
  <1>1. TypeOK'
    BY ReplyType, GotoType
       DEF ScoresInv, TypeOK, ReqType, Steps, At, mapVars, rowVars, DeleteRecords,
           CanWrite, marks
  <1>2. RankInv'
    BY DEF ScoresInv, TypeOK, RankInv, InTransaction, MayClear, Ranked, Missed,
           DeleteRecords, CanWrite, Reply, Goto, At, NoArg, mapVars, rowVars, marks
  <1>3. RequestInv'
    BY DEF ScoresInv, TypeOK, RequestInv, Active, Steps, DeleteRecords, CanWrite,
           Reply, Goto, At, NoArg, mapVars, rowVars, marks
  <1>4. PointsMatchRanks'
    BY DEF ScoresInv, PointsMatchRanks, mapVars, rowVars, DeleteRecords, CanWrite, marks
  <1>5. RankingMatchesTimes'
    BY DEF ScoresInv, RankingMatchesTimes, Ranked, Missed, mapVars, rowVars,
           DeleteRecords, CanWrite, marks
  <1>6. OneRecordUnlessOverlap'
    BY FewRecords
       DEF ScoresInv, TypeOK, OneRecordUnlessOverlap, DeleteRecords, CanWrite, Reply,
           Goto, At, NoArg, mapVars, rowVars, marks
  <1>7. CountInv'
    BY DEF ScoresInv, TypeOK, RequestInv, CountInv, DeleteRecords, CanWrite, Reply,
           Goto, At, NoArg, mapVars, rowVars, marks
  <1> QED BY <1>1, <1>2, <1>3, <1>4, <1>5, <1>6, <1>7 DEF ScoresInv

\* The insert of a connect.
LEMMA InsertRecordInv ==
  ASSUME ScoresInv, NEW c \in Conns, At(c, "insert"), InsertRow(c), Reply(c)
  PROVE  ScoresInv'
  <1>1. TypeOK'
    <2>1. 0 \in Points
      BY BoundsAssumption DEF Points
    <2>2. records' \in [Players -> SUBSET Points]
      BY <2>1 DEF ScoresInv, TypeOK, InsertRow
    <2> QED BY <2>2, ReplyType DEF ScoresInv, TypeOK, ReqType, InsertRow, mapVars, marks
  <1>2. RankInv'
    BY DEF ScoresInv, TypeOK, RankInv, InTransaction, MayClear, Ranked, Missed,
           InsertRow, CanWrite, Reply, Goto, At, NoArg, mapVars, rowVars, marks
  <1>3. RequestInv'
    BY DEF ScoresInv, TypeOK, RequestInv, Active, Steps, InsertRow, CanWrite, Reply,
           Goto, At, NoArg, mapVars, rowVars, marks
  <1>4. PointsMatchRanks'
    BY DEF ScoresInv, PointsMatchRanks, mapVars, rowVars, InsertRow, CanWrite, marks
  <1>5. RankingMatchesTimes'
    BY DEF ScoresInv, RankingMatchesTimes, Ranked, Missed, mapVars, rowVars, InsertRow,
           CanWrite, marks
  <1>6. OneRecordUnlessOverlap'
    <2>1. /\ who[c] \in Players /\ who[c] \notin overlap => records[who[c]] = {}
          /\ overlap' = overlap /\ records' = [records EXCEPT ![who[c]] = @ \union {0}]
      BY DEF ScoresInv, RequestInv, Active, InsertRow, At, marks
    <2>2. {} \union {0} = {0}
      OBVIOUS
    <2> SUFFICES ASSUME NEW p \in Players \ overlap
                 PROVE  Cardinality(records'[p]) <= 1
      BY <2>1 DEF OneRecordUnlessOverlap
    <2>3. CASE p = who[c]
      <3>1. records'[p] = {0}
        BY <2>1, <2>2, <2>3 DEF ScoresInv, TypeOK
      <3> QED BY <3>1, FewRecords
    <2>4. CASE p # who[c]
      BY <2>1, <2>4 DEF ScoresInv, TypeOK, OneRecordUnlessOverlap
    <2> QED BY <2>3, <2>4
  <1>7. CountInv'
    BY DEF ScoresInv, TypeOK, RequestInv, CountInv, InsertRow, CanWrite, Reply,
           Goto, At, NoArg, mapVars, rowVars, marks
  <1> QED BY <1>1, <1>2, <1>3, <1>4, <1>5, <1>6, <1>7 DEF ScoresInv

\* The new checkpoint count goes into the row.
LEMMA UpdateCountRowInv ==
  ASSUME ScoresInv, NEW c \in Conns, NEW n \in Points, UpdateCountRow(c, n)
  PROVE  ScoresInv'
  <1>1. TypeOK'
    <2>1. "setCount" \in Steps /\ [NoArg EXCEPT !.point = n] \in [point : Points, time : Times, cleared : BOOLEAN]
      BY NoArgType DEF Steps
    <2>2. ReqType' /\ overlap' \subseteq Players \union {None}
      BY <2>1, BeginType DEF UpdateCountRow, ScoresInv
    <2> QED BY <2>2 DEF ScoresInv, TypeOK, ReqType, mapVars, rowVars, UpdateCountRow,
                        marks
  <1>2. RankInv'
    BY DEF ScoresInv, TypeOK, RankInv, InTransaction, MayClear, Ranked, Missed,
           UpdateCountRow, CanWrite, Begin, NoArg, mapVars, rowVars, marks
  <1>3. RequestInv'
    BY DEF ScoresInv, TypeOK, RequestInv, Active, Busy, Steps, UpdateCountRow,
           CanWrite, Begin, NoArg, mapVars, rowVars, marks
  <1>4. PointsMatchRanks'
    BY DEF ScoresInv, PointsMatchRanks, mapVars, rowVars, UpdateCountRow, CanWrite,
           marks
  <1>5. RankingMatchesTimes'
    BY DEF ScoresInv, RankingMatchesTimes, Ranked, Missed, mapVars, rowVars,
           UpdateCountRow, CanWrite, marks
  <1>6. OneRecordUnlessOverlap'
    BY DEF ScoresInv, OneRecordUnlessOverlap, UpdateCountRow, CanWrite, Begin, NoArg,
           mapVars, rowVars, marks
  <1>7. CountInv'
    BY DEF ScoresInv, TypeOK, RequestInv, CountInv, UpdateCountRow, CanWrite,
           Begin, NoArg, mapVars, rowVars, marks
  <1> QED BY <1>1, <1>2, <1>3, <1>4, <1>5, <1>6, <1>7 DEF ScoresInv

\* The running game gets it.
LEMMA SetGameCountInv ==
  ASSUME ScoresInv, NEW c \in Conns, SetGameCount(c)
  PROVE  ScoresInv'
  <1>1. TypeOK'
    BY ReplyType, GotoType
       DEF ScoresInv, TypeOK, ReqType, Steps, At, mapVars, rowVars, SetGameCount, marks
  <1>2. RankInv'
    BY DEF ScoresInv, TypeOK, RankInv, InTransaction, MayClear, Ranked, Missed,
           SetGameCount, Reply, Goto, At, NoArg, mapVars, rowVars, marks
  <1>3. RequestInv'
    BY DEF ScoresInv, TypeOK, RequestInv, Active, Steps, SetGameCount, Reply, Goto,
           At, NoArg, mapVars, rowVars, marks
  <1>4. PointsMatchRanks'
    BY DEF ScoresInv, PointsMatchRanks, mapVars, rowVars, SetGameCount, marks
  <1>5. RankingMatchesTimes'
    BY DEF ScoresInv, RankingMatchesTimes, Ranked, Missed, mapVars, rowVars,
           SetGameCount, marks
  <1>6. OneRecordUnlessOverlap'
    BY DEF ScoresInv, OneRecordUnlessOverlap, SetGameCount, Reply, Goto, At, NoArg,
           mapVars, rowVars, marks
  <1>7. CountInv'
    BY DEF ScoresInv, TypeOK, RankInv, RequestInv, CountInv, SetGameCount, Reply, At,
           NoArg, mapVars
  <1> QED BY <1>1, <1>2, <1>3, <1>4, <1>5, <1>6, <1>7 DEF ScoresInv

\* The first write of a score.
LEMMA ScoreChangedInv ==
  ASSUME ScoresInv, NEW c \in Conns, NEW p \in Players, NEW point \in Points, NEW time \in Times,
         ScoreChanged(c, p, point, time)
  PROVE  ScoresInv'
  <1>1. TypeOK'
    <2>1. "updated" \in Steps
      BY DEF Steps
    <2>2. ReqType' /\ overlap' \subseteq Players \union {None}
      BY <2>1, BeginType DEF ScoreChanged, ScoresInv
    <2> QED BY <2>2 DEF ScoresInv, TypeOK, ReqType, mapVars, rowVars, ScoreChanged,
                        marks
  <1>2. RankInv'
    BY NoneAssumption
       DEF ScoresInv, TypeOK, RankInv, InTransaction, MayClear, Ranked, Missed,
           ScoreChanged, CanWrite, Begin, NoArg, mapVars, rowVars, marks
  <1>3. RequestInv'
    BY DEF ScoresInv, TypeOK, RequestInv, Active, Busy, Steps, ScoreChanged, CanWrite,
           Begin, NoArg, mapVars, rowVars, marks
  <1>4. PointsMatchRanks'
    BY DEF ScoresInv, PointsMatchRanks, mapVars, rowVars, ScoreChanged, CanWrite, marks
  <1>5. RankingMatchesTimes'
    BY DEF ScoresInv, RankingMatchesTimes, Ranked, Missed, mapVars, rowVars,
           ScoreChanged, CanWrite, marks
  <1>6. OneRecordUnlessOverlap'
    BY DEF ScoresInv, OneRecordUnlessOverlap, ScoreChanged, CanWrite, Begin, NoArg,
           mapVars, rowVars, marks
  <1>7. CountInv'
    BY DEF ScoresInv, TypeOK, RequestInv, CountInv, ScoreChanged, CanWrite, Begin,
           NoArg, mapVars, rowVars, marks
  <1> QED BY <1>1, <1>2, <1>3, <1>4, <1>5, <1>6, <1>7 DEF ScoresInv

\* The lookup of is_cleard_checkpoint.
LEMMA FindGameInv ==
  ASSUME ScoresInv, NEW c \in Conns, FindGame(c)
  PROVE  ScoresInv'
  <1>1. TypeOK'
    BY ReplyType, GotoType
       DEF ScoresInv, TypeOK, ReqType, Steps, At, mapVars, rowVars, FindGame, marks
  <1>2. RankInv'
    BY DEF ScoresInv, TypeOK, RankInv, InTransaction, MayClear, Ranked, Missed,
           FindGame, Reply, Goto, At, NoArg, mapVars, rowVars, marks
  <1>3. RequestInv'
    BY DEF ScoresInv, TypeOK, RequestInv, Active, Steps, FindGame, Reply, Goto, At,
           NoArg, mapVars, rowVars, marks
  <1>4. PointsMatchRanks'
    BY DEF ScoresInv, PointsMatchRanks, mapVars, rowVars, FindGame, marks
  <1>5. RankingMatchesTimes'
    BY DEF ScoresInv, RankingMatchesTimes, Ranked, Missed, mapVars, rowVars, FindGame,
           marks
  <1>6. OneRecordUnlessOverlap'
    BY DEF ScoresInv, OneRecordUnlessOverlap, FindGame, Reply, Goto, At, NoArg,
           mapVars, rowVars, marks
  <1>7. CountInv'
    BY DEF ScoresInv, TypeOK, RequestInv, CountInv, FindGame, Reply, Goto, At,
           NoArg, mapVars, rowVars, marks
  <1> QED BY <1>1, <1>2, <1>3, <1>4, <1>5, <1>6, <1>7 DEF ScoresInv

\* The read of the checkpoint count, whatever it finds.
LEMMA IsClearedInv ==
  ASSUME ScoresInv, NEW c \in Conns, NEW cleared \in BOOLEAN, At(c, "readCount"),
         arg' = [arg EXCEPT ![c].cleared = cleared], pc' = [pc EXCEPT ![c] = "commit"],
         UNCHANGED <<up, who, mapVars, count, countRow, rowVars, writer, marks>>
  PROVE  ScoresInv'
  <1>1. TypeOK'
    BY DEF ScoresInv, TypeOK, Steps, mapVars, rowVars, marks
  <1>2. RankInv'
    BY DEF ScoresInv, TypeOK, RankInv, InTransaction, MayClear, Ranked, Missed, At,
           NoArg, mapVars, rowVars, marks
  <1>3. RequestInv'
    BY DEF ScoresInv, TypeOK, RequestInv, Active, Steps, At, NoArg, mapVars, rowVars,
           marks
  <1>4. PointsMatchRanks'
    BY DEF ScoresInv, PointsMatchRanks, mapVars, rowVars, At, marks
  <1>5. RankingMatchesTimes'
    BY DEF ScoresInv, RankingMatchesTimes, Ranked, Missed, mapVars, rowVars, At, marks
  <1>6. OneRecordUnlessOverlap'
    BY DEF ScoresInv, OneRecordUnlessOverlap, At, NoArg, mapVars, rowVars, marks
  <1>7. CountInv'
    BY DEF ScoresInv, TypeOK, RequestInv, CountInv, At, NoArg, mapVars, rowVars, marks
  <1> QED BY <1>1, <1>2, <1>3, <1>4, <1>5, <1>6, <1>7 DEF ScoresInv

\* The end of the transaction of a score.
LEMMA CommitScoreInv ==
  ASSUME ScoresInv, NEW c \in Conns, CommitScore(c)
  PROVE  ScoresInv'
  <1>1. TypeOK'
    <2>1. ReqType'
      BY ReplyType DEF ScoresInv, CommitScore
    <2>2. \A best \in Times \union {None}, time \in Times : BestTime(best, time) \in Times
      BY DEF BestTime
    <2>3. /\ who[c] \in Players /\ arg[c].point \in Points /\ arg[c].time \in Times
          /\ history \in [Players -> Times \union {None}] /\ records \in [Players -> SUBSET Points]
      BY DEF ScoresInv, TypeOK, RequestInv, Active, CommitScore, At
    <2>4. /\ records' = records \/ records' = [records EXCEPT ![who[c]] = {arg[c].point}]
          /\ \/ history' = history
             \/ history' = [history EXCEPT ![who[c]] = BestTime(history[who[c]], arg[c].time)]
      BY DEF CommitScore, rowVars, marks
    <2>5. records' \in [Players -> SUBSET Points]
      BY <2>3, <2>4
    <2>6. history' \in [Players -> Times \union {None}]
      BY <2>2, <2>3, <2>4
    <2> QED BY <2>1, <2>5, <2>6
               DEF ScoresInv, TypeOK, ReqType, CommitScore, mapVars, rowVars, marks
  <1>2. RankInv'
    BY NoneAssumption
       DEF ScoresInv, TypeOK, RankInv, InTransaction, MayClear, Ranked, Missed,
           CommitScore, Reply, Goto, At, NoArg, mapVars, rowVars, marks
  <1>3. RequestInv'
    BY DEF ScoresInv, TypeOK, RequestInv, Active, Steps, CommitScore, Reply, Goto, At,
           NoArg, mapVars, rowVars, marks
  <1>4. PointsMatchRanks'
    BY DEF ScoresInv, PointsMatchRanks, mapVars, rowVars, CommitScore, marks
  <1>5. RankingMatchesTimes'
    <2> SUFFICES ASSUME ending = "ranked", RealTime
                 PROVE  RankingMatchesTimes'
      BY DEF RankingMatchesTimes, CommitScore, mapVars
    <2>1. ending' = ending /\ rank' = rank /\ late' = late /\ Ranked' = Ranked
      BY DEF CommitScore, mapVars, rowVars, marks, Ranked
    <2>2. CASE history' = history
      BY <2>1, <2>2 DEF ScoresInv, RankingMatchesTimes, Missed
    <2>3. CASE history' # history
      <3>1. arg[c].cleared /\ \A p \in Players : p # who[c] => history'[p] = history[p]
        BY <2>3 DEF CommitScore, rowVars, ScoresInv, TypeOK
      <3>2. Ranked = {} /\ Missed = {}
        BY <3>1 DEF ScoresInv, RankInv, MayClear
      <3>3. Missed' \subseteq {who[c]} /\ who[c] \in Players
        BY <2>1, <3>1, <3>2
           DEF Missed, ScoresInv, RequestInv, Active, CommitScore, At
      <3>4. Missed' # {} => Missed' = {who[c]}
        BY <3>3
      <3>5. \A p \in Players : rank'[p] = 0
        BY <2>1, <3>2 DEF Ranked
      <3> QED BY <2>1, <3>2, <3>3, <3>4, <3>5 DEF RankingMatchesTimes
    <2> QED BY <2>2, <2>3
  <1>6. OneRecordUnlessOverlap'
    <2>1. /\ records' = records \/ records' = [records EXCEPT ![who[c]] = {arg[c].point}]
          /\ overlap' = overlap
      BY DEF CommitScore, rowVars, marks
    <2> SUFFICES ASSUME NEW p \in Players \ overlap
                 PROVE  Cardinality(records'[p]) <= 1
      BY <2>1 DEF OneRecordUnlessOverlap
    <2>2. records'[p] = records[p] \/ records'[p] = {arg[c].point}
      BY <2>1 DEF ScoresInv, TypeOK
    <2>3. Cardinality(records[p]) <= 1
      BY DEF ScoresInv, OneRecordUnlessOverlap
    <2>4. Cardinality({arg[c].point}) = 1
      BY FewRecords
    <2> QED BY <2>2, <2>3, <2>4
  <1>7. CountInv'
    BY DEF ScoresInv, TypeOK, RequestInv, CountInv, CommitScore, Reply, Goto, At,
           NoArg, mapVars, rowVars, marks
  <1> QED BY <1>1, <1>2, <1>3, <1>4, <1>5, <1>6, <1>7 DEF ScoresInv

\* A pass time that is set directly.
LEMMA PassTimeInv ==
  ASSUME ScoresInv, NEW p \in Players, NEW time \in Times, UpdateGamePassTime(p, time)
  PROVE  ScoresInv'
  <1>1. TypeOK'
    <2>1. \A best \in Times \union {None} : BestTime(best, time) \in Times
      BY DEF BestTime
    <2> QED BY <2>1 DEF ScoresInv, TypeOK, UpdateGamePassTime, mapVars, reqVars, marks
  <1>2. RankInv'
    BY DEF ScoresInv, TypeOK, RankInv, InTransaction, MayClear, Ranked, Missed,
           UpdateGamePassTime, reqVars, mapVars, marks
  <1>3. RequestInv'
    BY DEF ScoresInv, TypeOK, RequestInv, Active, Steps, UpdateGamePassTime, reqVars,
           mapVars, marks
  <1>4. PointsMatchRanks'
    BY DEF ScoresInv, PointsMatchRanks, mapVars, rowVars, UpdateGamePassTime, marks
  <1>5. RankingMatchesTimes'
    <2> SUFFICES ASSUME ending = "ranked", RealTime
                 PROVE  RankingMatchesTimes'
      BY DEF RankingMatchesTimes, UpdateGamePassTime, mapVars
    <2>1. /\ ending' = ending /\ rank' = rank /\ Ranked' = Ranked
          /\ late' = late \union {p}
          /\ \A q \in Players : q # p => history'[q] = history[q]
      BY DEF UpdateGamePassTime, mapVars, Ranked, ScoresInv, TypeOK
    <2>2. Missed' = Missed \ {p}
      BY <2>1 DEF Missed
    <2>3. Missed' # {} => Ranked' = {} /\ \E q \in Players : Missed' = {q}
      BY <2>1, <2>2 DEF ScoresInv, RankingMatchesTimes
    <2> QED BY <2>1, <2>3 DEF ScoresInv, RankingMatchesTimes
  <1>6. OneRecordUnlessOverlap'
    BY DEF ScoresInv, OneRecordUnlessOverlap, UpdateGamePassTime, reqVars, mapVars,
           marks
  <1>7. CountInv'
    BY DEF ScoresInv, TypeOK, RequestInv, CountInv, UpdateGamePassTime, reqVars,
           mapVars, marks
  <1> QED BY <1>1, <1>2, <1>3, <1>4, <1>5, <1>6, <1>7 DEF ScoresInv

\* The game enters the map, with the count that its row has unless a notice was early.
LEMMA EnterMapInv ==
  ASSUME ScoresInv, EnterMap
  PROVE  ScoresInv'
  <1>1. TypeOK'
    BY DEF ScoresInv, TypeOK, EnterMap, rowVars, reqVars, marks
  <1>2. RankInv'
    BY DEF ScoresInv, TypeOK, RankInv, InTransaction, EnterMap, rowVars, reqVars, marks
  <1>3. RequestInv'
    BY DEF ScoresInv, TypeOK, RequestInv, Active, EnterMap, rowVars, reqVars, marks
  <1>4. PointsMatchRanks'
    BY DEF ScoresInv, PointsMatchRanks, rowVars, EnterMap
  <1>5. RankingMatchesTimes'
    BY DEF RankingMatchesTimes, EnterMap
  <1>6. OneRecordUnlessOverlap'
    BY DEF ScoresInv, OneRecordUnlessOverlap, EnterMap, rowVars, marks
  <1>7. CountInv'
    BY DEF ScoresInv, CountInv, EnterMap, reqVars, marks
  <1> QED BY <1>1, <1>2, <1>3, <1>4, <1>5, <1>6, <1>7 DEF ScoresInv

\* The game leaves the map.
LEMMA TakeOutInv ==
  ASSUME ScoresInv, TakeOut
  PROVE  ScoresInv'
  <1>1. TypeOK'
    <2>1. 0 \in Points
      BY BoundsAssumption DEF Points
    <2> QED BY <2>1 DEF ScoresInv, TypeOK, TakeOut, rowVars, reqVars, marks
  <1>2. RankInv'
    BY DEF ScoresInv, TypeOK, RankInv, InTransaction, MayClear, Ranked, Missed, TakeOut,
           rowVars, reqVars, marks
  <1>3. RequestInv'
    BY DEF ScoresInv, TypeOK, RequestInv, Active, Steps, TakeOut, rowVars, reqVars,
           marks
  <1>4. PointsMatchRanks'
    BY DEF ScoresInv, PointsMatchRanks, mapVars, rowVars, TakeOut, marks
  <1>5. RankingMatchesTimes'
    BY DEF ScoresInv, RankingMatchesTimes, Ranked, Missed, mapVars, rowVars, TakeOut,
           marks
  <1>6. OneRecordUnlessOverlap'
    BY DEF ScoresInv, OneRecordUnlessOverlap, TakeOut, rowVars, reqVars, marks
  <1>7. CountInv'
    BY DEF ScoresInv, TypeOK, RequestInv, CountInv, TakeOut, rowVars, reqVars, marks
  <1> QED BY <1>1, <1>2, <1>3, <1>4, <1>5, <1>6, <1>7 DEF ScoresInv

\* The ranking commits.
LEMMA RankStepInv ==
  ASSUME ScoresInv, Rank
  PROVE  ScoresInv'
  <1>1. TypeOK'
    <2>1. PICK r \in [Players -> 0 .. Cardinality(Players)] :
            /\ rank' = [p \in Players |-> IF r[p] = 0 THEN rank[p] ELSE r[p]]
            /\ points' = [p \in Players |->
                            IF r[p] = 0 THEN points[p] ELSE points[p] + PointsFor(r[p])]
      BY DEF Rank
    <2>2. Cardinality(Players) \in Nat
      BY PlayersAssumption, FS_CardinalityType
    <2>3. r \in [Players -> Nat]
      BY <2>2
    <2>4. rank \in [Players -> Nat] /\ points \in [Players -> Nat]
      BY DEF ScoresInv, TypeOK
    <2>5. rank' \in [Players -> Nat]
      BY <2>1, <2>3, <2>4
    <2>6. points' \in [Players -> Nat]
      <3>1. \A p \in Players : PointsFor(r[p]) \in Nat
        BY <2>3, PointsForType
      <3> QED BY <2>1, <2>3, <2>4, <3>1
    <2> QED BY <2>5, <2>6 DEF ScoresInv, TypeOK, Rank, reqVars, marks
  <1>2. RankInv'
    <2>1. /\ ~inMap' /\ ending' = "ranked" /\ UNCHANGED <<pc, arg, writer, history, late>>
          /\ \A c \in Conns : /\ pc[c] \in InTransaction <=> writer = c
                              /\ arg[c].cleared => pc[c] = "commit"
      BY DEF ScoresInv, RankInv, Rank, reqVars, marks
    <2>2. ASSUME NEW c \in Conns, MayClear(c), RealTime
          PROVE  Ranked' = {} /\ Missed' = {}
      <3>1. Finishers = {}
        BY <2>1, <2>2, NoneAssumption DEF MayClear, InTransaction, Rank, CanWrite
      <3>2. \A p \in Players : history[p] = None
        BY <2>2, <3>1 DEF Finishers
      <3>3. \A p \in Players : rank'[p] = 0
        BY <3>1 DEF ScoresInv, RankInv, Rank, IsRanking
      <3> QED BY <2>1, <3>2, <3>3 DEF Ranked, Missed
    <2> QED BY <2>1, <2>2 DEF RankInv, MayClear
  <1>3. RequestInv'
    BY DEF ScoresInv, TypeOK, RequestInv, Active, Steps, Rank, reqVars, marks
  <1>4. PointsMatchRanks'
    <2>1. PICK r \in [Players -> 0 .. Cardinality(Players)] :
            /\ rank' = [p \in Players |-> IF r[p] = 0 THEN rank[p] ELSE r[p]]
            /\ points' = [p \in Players |->
                            IF r[p] = 0 THEN points[p] ELSE points[p] + PointsFor(r[p])]
      BY DEF Rank
    <2>2. Cardinality(Players) \in Nat
      BY PlayersAssumption, FS_CardinalityType
    <2> SUFFICES ASSUME NEW p \in Players
                 PROVE  points'[p] = IF rank'[p] = 0 THEN 0 ELSE PointsFor(rank'[p])
      BY DEF PointsMatchRanks
    <2>3. rank[p] = 0 /\ points[p] = 0
      BY DEF ScoresInv, RankInv, PointsMatchRanks, Rank
    <2>4. r[p] \in Nat /\ PointsFor(r[p]) \in Nat
      BY <2>2, PointsForType
    <2>5. CASE r[p] = 0
      BY <2>1, <2>3, <2>5
    <2>6. CASE r[p] # 0
      <3>1. rank'[p] = r[p] /\ points'[p] = 0 + PointsFor(r[p])
        BY <2>1, <2>3, <2>6
      <3> QED BY <2>4, <2>6, <3>1
    <2> QED BY <2>5, <2>6
  <1>5. RankingMatchesTimes'
    <2>1. PICK r \in [Players -> 0 .. Cardinality(Players)] :
            /\ IsRanking(r)
            /\ rank' = [p \in Players |-> IF r[p] = 0 THEN rank[p] ELSE r[p]]
      BY DEF Rank
    <2>2. \A p \in Players : rank[p] = 0 /\ history' = history
      BY DEF ScoresInv, RankInv, Rank
    <2>3. \A p \in Players : rank'[p] = r[p]
      BY <2>1, <2>2
    <2>4. RealTime => Missed' = {}
      BY <2>1, <2>2, <2>3 DEF Missed, IsRanking, Finishers
    <2> QED BY <2>1, <2>2, <2>3, <2>4 DEF RankingMatchesTimes, IsRanking, Finishers
  <1>6. OneRecordUnlessOverlap'
    BY DEF ScoresInv, OneRecordUnlessOverlap, Rank, reqVars, marks
  <1>7. CountInv'
    BY DEF ScoresInv, TypeOK, RequestInv, CountInv, Rank, reqVars, marks
  <1> QED BY <1>1, <1>2, <1>3, <1>4, <1>5, <1>6, <1>7 DEF ScoresInv

\* The ranking is refused and the process survives.
LEMMA RankFailsInv ==
  ASSUME ScoresInv, up, ending = "removed", ending' = "failed",
         UNCHANGED <<up, inMap, count, countRow, rowVars, writer, reqVars, marks>>
  PROVE  ScoresInv'
  <1>1. TypeOK'
    BY DEF ScoresInv, TypeOK, rowVars, reqVars, marks
  <1>2. RankInv'
    BY DEF ScoresInv, TypeOK, RankInv, InTransaction, MayClear, Ranked, Missed, rowVars,
           reqVars, marks
  <1>3. RequestInv'
    BY DEF ScoresInv, TypeOK, RequestInv, Active, Steps, rowVars, reqVars, marks
  <1>4. PointsMatchRanks'
    BY DEF ScoresInv, PointsMatchRanks, mapVars, rowVars, marks
  <1>5. RankingMatchesTimes'
    BY DEF ScoresInv, RankingMatchesTimes, Ranked, Missed, mapVars, rowVars, marks
  <1>6. OneRecordUnlessOverlap'
    BY DEF ScoresInv, OneRecordUnlessOverlap, rowVars, reqVars, marks
  <1>7. CountInv'
    BY DEF ScoresInv, TypeOK, RequestInv, CountInv, rowVars, reqVars, marks
  <1> QED BY <1>1, <1>2, <1>3, <1>4, <1>5, <1>6, <1>7 DEF ScoresInv

\* The master server is started again.
LEMMA RestartInv ==
  ASSUME ScoresInv, Restart
  PROVE  ScoresInv'
  <1>1. TypeOK'
    BY DEF ScoresInv, TypeOK, Restart, rowVars, reqVars, mapVars, marks
  <1>2. RankInv'
    BY DEF ScoresInv, TypeOK, RankInv, InTransaction, MayClear, Ranked, Missed, Restart,
           reqVars, rowVars, mapVars, marks
  <1>3. RequestInv'
    BY DEF ScoresInv, TypeOK, RequestInv, Active, Steps, Restart, reqVars, rowVars,
           mapVars, marks
  <1>4. PointsMatchRanks'
    BY DEF ScoresInv, PointsMatchRanks, mapVars, rowVars, Restart, marks
  <1>5. RankingMatchesTimes'
    BY DEF ScoresInv, RankingMatchesTimes, Ranked, Missed, mapVars, rowVars, Restart,
           marks
  <1>6. OneRecordUnlessOverlap'
    BY DEF ScoresInv, OneRecordUnlessOverlap, Restart, reqVars, rowVars, mapVars, marks
  <1>7. CountInv'
    BY DEF ScoresInv, TypeOK, RequestInv, CountInv, Restart, reqVars, rowVars,
           mapVars, marks
  <1> QED BY <1>1, <1>2, <1>3, <1>4, <1>5, <1>6, <1>7 DEF ScoresInv

-----------------------------------------------------------------------------
(***************************************************************************)
(* The invariant, and what follows from it.                                *)
(***************************************************************************)
LEMMA StepInv == ScoresInv /\ [Next]_vars => ScoresInv'
  <1> SUFFICES ASSUME ScoresInv, [Next]_vars PROVE ScoresInv'
    OBVIOUS
  <1>1. ASSUME NEW c \in Conns, Request(c) PROVE ScoresInv'
    <2>1. CASE UpdateWaitingTime(c)
      BY <2>1, FindInv DEF UpdateWaitingTime
    <2>2. ASSUME NEW n \in Points, UpdateCountRow(c, n) PROVE ScoresInv'
      BY <2>2, UpdateCountRowInv
    <2>3. ASSUME NEW p \in Players, PlayerConnect(c, p) PROVE ScoresInv'
      BY <2>3, FindInv DEF PlayerConnect
    <2>4. ASSUME NEW p \in Players, PlayerDrop(c, p) PROVE ScoresInv'
      BY <2>4, FindInv DEF PlayerDrop
    <2>5. ASSUME NEW p \in Players, NEW point \in Points, NEW time \in Times,
                 ScoreChanged(c, p, point, time)
          PROVE  ScoresInv'
      BY <2>5, ScoreChangedInv
    <2> QED BY <1>1, <2>1, <2>2, <2>3, <2>4, <2>5 DEF Request
  <1>2. ASSUME NEW c \in Conns, HandlerStep(c) PROVE ScoresInv'
    <2>1. CASE UseFound(c)
      <3>1. CASE inMap
        BY <2>1, <3>1, UseInv DEF UseFound
      <3>2. CASE ~inMap
        BY <2>1, <3>2, DieInv DEF UseFound, Use
      <3> QED BY <3>1, <3>2
    <2>2. CASE FindRecord(c)
      BY <2>2, ThrowInv, FindRecordInv DEF FindRecord, At
    <2>3. CASE RemoveRecord(c)
      BY <2>3, ThrowInv, RemoveRecordInv DEF RemoveRecord, At
    <2>4. CASE InsertRecord(c)
      BY <2>4, ThrowInv, InsertRecordInv DEF InsertRecord, At
    <2>5. CASE DropRecord(c)
      BY <2>5, ThrowInv, DropRecordInv DEF DropRecord, At
    <2>6. CASE SetGameCount(c)
      BY <2>6, SetGameCountInv
    <2>7. CASE FindGame(c)
      BY <2>7, FindGameInv
    <2>8. CASE IsClearedCheckpoint(c)
      <3>1. CASE Die
        BY <3>1, DieInv
      <3>2. CASE ~Die
        <4>1. PICK cleared \in BOOLEAN : arg' = [arg EXCEPT ![c].cleared = cleared]
          BY <2>8, <3>2 DEF IsClearedCheckpoint
        <4> QED BY <2>8, <3>2, <4>1, IsClearedInv DEF IsClearedCheckpoint
      <3> QED BY <3>1, <3>2
    <2>9. CASE CommitScore(c)
      BY <2>9, CommitScoreInv
    <2> QED BY <1>2, <2>1, <2>2, <2>3, <2>4, <2>5, <2>6, <2>7, <2>8, <2>9
               DEF HandlerStep
  <1>3. ASSUME NEW p \in Players, NEW time \in Times, UpdateGamePassTime(p, time)
        PROVE  ScoresInv'
    BY <1>3, PassTimeInv
  <1>4. CASE EnterMap \/ TakeOut
    BY <1>4, EnterMapInv, TakeOutInv
  <1>5. CASE Rank
    BY <1>5, RankStepInv
  <1>6. CASE RankFails
    BY <1>6, DieInv, RankFailsInv DEF RankFails
  <1>7. CASE Crash
    BY <1>7, DieInv DEF Crash
  <1>8. CASE Restart
    BY <1>8, RestartInv
  <1>9. CASE UNCHANGED vars
    <2> USE <1>9 DEF vars
    <2>1. TypeOK' /\ RankInv' /\ RequestInv'
      BY DEF ScoresInv, TypeOK, RankInv, MayClear, Ranked, Missed, RequestInv, Active
    <2>2. /\ PointsMatchRanks' /\ RankingMatchesTimes'
          /\ OneRecordUnlessOverlap' /\ CountInv'
      BY DEF ScoresInv, PointsMatchRanks, RankingMatchesTimes, Ranked, Missed,
             OneRecordUnlessOverlap, CountInv
    <2> QED BY <2>1, <2>2 DEF ScoresInv
  <1> QED BY <1>1, <1>2, <1>3, <1>4, <1>5, <1>6, <1>7, <1>8, <1>9 DEF Next

\* The inductive invariant holds in every reachable state.
THEOREM ScoresInvHolds == Spec => []ScoresInv
  BY InitInv, StepInv, PTL DEF Spec

\* Once a game is ranked, the ranking stays true to the stored pass times of all
\* players for whom no pass time was set directly afterwards.
THEOREM RankingStaysTrue == Spec => []RankingMatchesTimes
  <1>1. ScoresInv => RankingMatchesTimes
    BY DEF ScoresInv
  <1> QED BY <1>1, ScoresInvHolds, PTL

\* Points are added to a member's total exactly as the ranks say, and once.
THEOREM PointsFollowRanks == Spec => []PointsMatchRanks
  <1>1. ScoresInv => PointsMatchRanks
    BY DEF ScoresInv
  <1> QED BY <1>1, ScoresInvHolds, PTL

\* Players whose requests never overlap have one record at most.
THEOREM SerialPlayersHaveOneRecord == Spec => []OneRecordUnlessOverlap
  <1>1. ScoresInv => OneRecordUnlessOverlap
    BY DEF ScoresInv
  <1> QED BY <1>1, ScoresInvHolds, PTL

\* The row and the running game have the same checkpoint count when its notices
\* never overlap.
THEOREM SerialCountsAgree == Spec => []CountsAgree
  <1>1. ScoresInv => CountsAgree
    BY DEF ScoresInv, RankInv, CountInv, CountsAgree
  <1> QED BY <1>1, ScoresInvHolds, PTL

\* A pass time is only ever replaced by a better one.
THEOREM PassTimesImprove == Spec => PassTimesOnlyImprove
  <1>1. \A best \in Times, time \in Times :
          BestTime(best, time) # None /\ BestTime(best, time) <= best
    BY NoneAssumption, BoundsAssumption DEF BestTime, Times
  <1>2. ASSUME ScoresInv, [Next]_vars, NEW p \in Players, history[p] # None
        PROVE  history'[p] # None /\ history'[p] <= history[p]
    <2>1. history \in [Players -> Times \union {None}] /\ Times \subseteq Int
      BY <1>2 DEF ScoresInv, TypeOK, Times
    <2>2. \/ history' = history
          \/ \E q \in Players, time \in Times :
               history' = [history EXCEPT ![q] = BestTime(history[q], time)]
      <3>1. ASSUME NEW c \in Conns, Request(c) PROVE history' = history
        BY <3>1
           DEF Request, UpdateWaitingTime, UpdateCountRow, PlayerConnect, PlayerDrop,
                    ScoreChanged, Find, rowVars
      <3>2. ASSUME NEW c \in Conns, CommitScore(c)
            PROVE  history' = history \/ \E q \in Players, time \in Times :
                     history' = [history EXCEPT ![q] = BestTime(history[q], time)]
        <4>1. who[c] \in Players /\ arg[c].time \in Times
          BY <1>2, <3>2 DEF ScoresInv, TypeOK, RequestInv, Active, CommitScore, At
        <4> QED BY <3>2, <4>1 DEF CommitScore, rowVars
      <3>3. ASSUME NEW c \in Conns, HandlerStep(c), ~CommitScore(c)
            PROVE  history' = history
        BY <3>3 DEF HandlerStep, UseFound, Use, FindRecord, RemoveRecord, InsertRecord,
                    DropRecord, SetGameCount, FindGame, IsClearedCheckpoint, Throw, Die,
                    DeleteRecords, InsertRow, rowVars
      <3>4. CASE EnterMap \/ TakeOut \/ Rank \/ RankFails \/ Crash \/ Restart \/ UNCHANGED vars
        BY <3>4 DEF EnterMap, TakeOut, Rank, RankFails, Crash, Restart, Die, vars,
                    rowVars
      <3>5. ASSUME NEW q \in Players, NEW time \in Times, UpdateGamePassTime(q, time)
            PROVE  history' = [history EXCEPT ![q] = BestTime(history[q], time)]
        BY <3>5 DEF UpdateGamePassTime
      <3> QED BY <1>2, <3>1, <3>2, <3>3, <3>4, <3>5 DEF Next
    <2>3. history[p] \in Times /\ history[p] <= history[p]
      <3>1. history[p] \in Times
        BY <1>2, <2>1
      <3>2. history[p] \in Int
        BY <2>1, <3>1
      <3> QED BY <3>1, <3>2
    <2> QED BY <1>1, <1>2, <2>1, <2>2, <2>3
  <1>3. ScoresInv /\ [Next]_vars =>
          [\A p \in Players : history[p] # None =>
             history'[p] # None /\ history'[p] <= history[p]]_vars
    BY <1>2
  <1> QED BY <1>3, ScoresInvHolds, PTL DEF Spec, PassTimesOnlyImprove

-----------------------------------------------------------------------------
(***************************************************************************)
(* The places of the ranking.                                              *)
(***************************************************************************)
\* Places 1 to n that are given to n players, none twice, are all given.
LEMMA PlacesAreTaken ==
  ASSUME NEW S, IsFiniteSet(S), NEW place \in [S -> 1 .. Cardinality(S)],
         \A p, q \in S : place[p] = place[q] => p = q
  PROVE  {place[p] : p \in S} = 1 .. Cardinality(S)
  <1>1. place \in Injection(S, 1 .. Cardinality(S))
    BY DEF Injection, IsInjective
  <1>2. Cardinality(S) \in Nat
    BY FS_CardinalityType
  <1>3. /\ IsFiniteSet(1 .. Cardinality(S))
        /\ Cardinality(1 .. Cardinality(S)) = Cardinality(S)
    <2>1. Cardinality(S) \in Int /\ 1 \in Int
      BY <1>2
    <2>2. /\ IsFiniteSet(1 .. Cardinality(S))
          /\ Cardinality(1 .. Cardinality(S))
               = IF 1 > Cardinality(S) THEN 0 ELSE Cardinality(S) - 1 + 1
      BY <2>1, FS_Interval
    <2> QED BY <1>2, <2>2
  <1>4. place \in Surjection(S, 1 .. Cardinality(S))
    BY <1>1, <1>3, FS_Injection
  <1> QED BY <1>4 DEF Surjection

LEMMA RankFillsPlaces ==
  ASSUME ScoresInv, Rank
  PROVE  PlacesAreFilled'
  <1>1. PICK r \in [Players -> 0 .. Cardinality(Players)] :
          /\ IsRanking(r)
          /\ rank' = [p \in Players |-> IF r[p] = 0 THEN rank[p] ELSE r[p]]
    BY DEF Rank
  <1>2. \A p \in Players : rank[p] = 0
    BY DEF ScoresInv, RankInv, Rank
  <1>3. \A p \in Players : rank'[p] = r[p]
    BY <1>1, <1>2
  <1>4. Ranked' = Finishers /\ Finishers \in SUBSET Players
    BY <1>1, <1>3 DEF Ranked, IsRanking, Finishers
  <1>5. IsFiniteSet(Finishers)
    BY <1>4, PlayersAssumption, FS_Subset
  <1> DEFINE place == [p \in Finishers |-> r[p]]
  <1>6. /\ place \in [Finishers -> 1 .. Cardinality(Finishers)]
        /\ \A p, q \in Finishers : place[p] = place[q] => p = q
    BY <1>1 DEF IsRanking
  <1>7. {place[p] : p \in Finishers} = 1 .. Cardinality(Finishers)
    <2> HIDE DEF place
    <2> QED BY <1>5, <1>6, PlacesAreTaken
  <1>8. {rank'[p] : p \in Ranked'} = {place[p] : p \in Finishers}
    BY <1>3, <1>4
  <1> QED BY <1>4, <1>7, <1>8 DEF PlacesAreFilled

\* The places of a ranking are given out without a gap, each once, and stay so.
THEOREM PlacesStayFilled == Spec => []PlacesAreFilled
  <1>1. Init => PlacesAreFilled
    <2>1. Init => Ranked = {}
      BY DEF Init, Ranked
    <2> QED BY <2>1, FS_EmptySet DEF PlacesAreFilled
  <1>2. ASSUME Next, ~Rank PROVE rank' = rank
    <2>1. ASSUME NEW c \in Conns, Request(c) PROVE rank' = rank
      BY <2>1 DEF Request, UpdateWaitingTime, UpdateCountRow, PlayerConnect, PlayerDrop,
                  ScoreChanged, Find, rowVars
    <2>2. ASSUME NEW c \in Conns, HandlerStep(c) PROVE rank' = rank
      BY <2>2 DEF HandlerStep, UseFound, Use, FindRecord, RemoveRecord, InsertRecord,
                  DropRecord, SetGameCount, FindGame, IsClearedCheckpoint, CommitScore,
                  Throw, Die, DeleteRecords, InsertRow, rowVars
    <2>3. CASE EnterMap \/ TakeOut \/ RankFails \/ Crash \/ Restart
      BY <2>3 DEF EnterMap, TakeOut, RankFails, Crash, Restart, Die, rowVars
    <2>4. ASSUME NEW p \in Players, NEW time \in Times, UpdateGamePassTime(p, time)
          PROVE  rank' = rank
      BY <2>4 DEF UpdateGamePassTime
    <2> QED BY <1>2, <2>1, <2>2, <2>3, <2>4 DEF Next
  <1>3. PlacesAreFilled /\ UNCHANGED rank => PlacesAreFilled'
    BY DEF PlacesAreFilled, Ranked
  <1>4. ScoresInv /\ PlacesAreFilled /\ [Next]_vars => PlacesAreFilled'
    BY <1>2, <1>3, RankFillsPlaces DEF vars
  <1> QED BY <1>1, <1>4, ScoresInvHolds, PTL DEF Spec
=============================================================================
