------------------------ MODULE GameLifecycleProofs ------------------------
(***************************************************************************)
(* Theorems about GameLifecycle, for any set of jobs, any port range and   *)
(* both settings of copy_game.  Everything follows from the inductive      *)
(* invariant LifecycleInv and from what the operations of the port pool    *)
(* preserve.                                                               *)
(***************************************************************************)
EXTENDS GameLifecycle, TLAPS

(***************************************************************************)
(* A Reservation takes a port that was in the pool once, and leaves the    *)
(* others in it, each once.                                                *)
(***************************************************************************)
LEMMA TakePort ==
  ASSUME NEW S, NEW s \in Seq(S), IsInjective(s), ~NoFreePort(s)
  PROVE  /\ PortTaken(s) \in ToSet(s)
         /\ PortTaken(s) \in S
         /\ PoolAfter(s) \in Seq(S)
         /\ IsInjective(PoolAfter(s))
         /\ ToSet(PoolAfter(s)) = ToSet(s) \ {PortTaken(s)}
<1> DEFINE n == Len(s)
           t == SubSeq(s, 1, n - 1)
<1>1. n \in Nat /\ n >= 1 /\ DOMAIN s = 1 .. n
  BY DEF NoFreePort
<1>2. /\ t \in Seq(S)
      /\ DOMAIN t = 1 .. (n - 1)
      /\ \A i \in 1 .. (n - 1) : t[i] = s[i]
  BY <1>1
<1>3. PortTaken(s) = s[n] /\ PoolAfter(s) = t
  BY DEF PortTaken, PoolAfter, Last, Front
<1>4. IsInjective(t)
  BY <1>1, <1>2 DEF IsInjective
<1>5. ToSet(t) = ToSet(s) \ {s[n]}
  <2>1. \A x \in ToSet(t) : x \in ToSet(s) /\ x # s[n]
    BY <1>1, <1>2 DEF ToSet, IsInjective
  <2>2. \A x \in ToSet(s) : x # s[n] => x \in ToSet(t)
    <3>1. SUFFICES ASSUME NEW i \in 1 .. n, s[i] # s[n]
                   PROVE  s[i] \in ToSet(t)
      BY <1>1 DEF ToSet
    <3>2. i \in 1 .. (n - 1)
      BY <3>1, <1>1
    <3>. QED BY <3>2, <1>2 DEF ToSet
  <2>. QED BY <2>1, <2>2
<1>6. s[n] \in S /\ s[n] \in ToSet(s)
  BY <1>1 DEF ToSet
<1>. HIDE DEF t
<1>. QED
  BY <1>2, <1>3, <1>4, <1>5, <1>6

(***************************************************************************)
(* Giving back a port that is not in the pool adds it, once.               *)
(***************************************************************************)
LEMMA ReturnPort ==
  ASSUME NEW S, NEW s \in Seq(S), IsInjective(s), NEW p \in S,
         p # NoPort, p \notin ToSet(s)
  PROVE  /\ GiveBack(s, p) \in Seq(S)
         /\ IsInjective(GiveBack(s, p))
         /\ ToSet(GiveBack(s, p)) = ToSet(s) \union {p}
<1> DEFINE n == Len(s)
           t == Append(s, p)
<1>1. n \in Nat /\ DOMAIN s = 1 .. n
  OBVIOUS
<1>2. /\ t \in Seq(S)
      /\ DOMAIN t = 1 .. (n + 1)
      /\ t[n + 1] = p
      /\ \A i \in 1 .. n : t[i] = s[i]
  BY <1>1
<1>3. GiveBack(s, p) = t
  BY DEF GiveBack
<1>4. \A i \in 1 .. n : s[i] # p
  BY <1>1 DEF ToSet
<1>5. IsInjective(t)
  BY <1>1, <1>2, <1>4 DEF IsInjective
<1>6. ToSet(t) = ToSet(s) \union {p}
  BY <1>1, <1>2 DEF ToSet
<1>. QED BY <1>2, <1>3, <1>5, <1>6

(***************************************************************************)
(* The pool the manager is created with holds every port of the range      *)
(* once.                                                                   *)
(***************************************************************************)
LEMMA FullPoolFacts ==
  /\ FullPool \in Seq(Ports)
  /\ IsInjective(FullPool)
  /\ ToSet(FullPool) = Ports
<1> DEFINE n == IF PortMin < PortMax THEN PortMax - PortMin ELSE 0
<1>1. PortMin \in Nat /\ PortMax \in Nat /\ n \in Nat
  BY PortRangeAssumption
<1>2. FullPool \in [1 .. n -> Ports]
  BY <1>1 DEF FullPool, Ports
<1>3. FullPool \in Seq(Ports) /\ DOMAIN FullPool = 1 .. n
  BY <1>1, <1>2
<1>4. IsInjective(FullPool)
  BY <1>1 DEF FullPool, IsInjective
<1>5. ToSet(FullPool) = Ports
  <2>1. \A p \in Ports : p - PortMin + 1 \in 1 .. n /\ FullPool[p - PortMin + 1] = p
    BY <1>1 DEF FullPool, Ports
  <2>. QED BY <2>1, <1>2, <1>3 DEF ToSet
<1>. QED BY <1>3, <1>4, <1>5

-----------------------------------------------------------------------------
USE PortRangeAssumption, CopyGameAssumption, DirAssumption

\* The part of LifecycleInv that speaks of one game at a time.
LocalInv(j) ==
  /\ JobInv(j)
  /\ GameInv(j)
  /\ \A c \in Callers : CallerInv(c, j)
  /\ awards[j] > 0 => /\ awards[j] = 1
                      /\ game[j] = "gone"
                      /\ child[j] = "dead"
                      /\ \A c \in Callers : tpc[c][j] \notin Ending
  /\ game[j] = "running" => timer[j] = "armed" \/ j \in early

LEMMA InvParts ==
  /\ LifecycleInv <=> TypeOK /\ PortsAccountedFor /\ \A j \in Jobs : LocalInv(j)
  /\ LifecycleInv' <=>
       TypeOK' /\ PortsAccountedFor' /\ \A j \in Jobs : LocalInv(j)'
BY DEF LifecycleInv, LocalInv, AwardedOnce, TimedUnlessEarly

LEMMA InitInv == Init => LifecycleInv
<1> SUFFICES ASSUME Init PROVE LifecycleInv
  OBVIOUS
<1>1. TypeOK
  BY FullPoolFacts DEF Init, TypeOK, Dirs, JobStates, Cancelable, Adding,
    GameStates, ChildStates, Callers
<1>2. PortsAccountedFor
  BY FullPoolFacts DEF Init, PortsAccountedFor, Ports, NoPort
<1>3. \A j \in Jobs : LocalInv(j)
  BY DEF Init, LocalInv, JobInv, GameInv, CallerInv, Callers, Ending, Live,
    Cancelable, Adding
<1>. QED BY <1>1, <1>2, <1>3, InvParts

(***************************************************************************)
(* Steps that leave the pool and the Reservations alone.                   *)
(***************************************************************************)
LEMMA SamePorts ==
  ASSUME PortsAccountedFor, UNCHANGED <<pool, port>>
  PROVE  PortsAccountedFor'
BY DEF PortsAccountedFor

\* The job's thread moves on without touching anything else.
LEMMA GotoInv ==
  ASSUME LifecycleInv, NEW j \in Jobs, NEW s \in JobStates, JobGoto(j, s),
         \/ pc[j] \in Cancelable /\ s \in Cancelable \union {"config", "cleanup"}
         \/ pc[j] = "config" /\ s = "cleanup"
         \/ pc[j] \in {"insert", "arm", "start"} /\ s = "unwind"
  PROVE  LifecycleInv'
<1> USE DEF JobGoto
<1>0. TypeOK /\ PortsAccountedFor /\ \A k \in Jobs : LocalInv(k)
  BY InvParts
<1>1. TypeOK'
  BY <1>0 DEF TypeOK, fsVars, timeVars
<1>2. PortsAccountedFor'
  BY <1>0, SamePorts
<1>3. ASSUME NEW k \in Jobs PROVE LocalInv(k)'
  BY <1>0 DEF TypeOK, LocalInv, JobInv, GameInv, CallerInv, Live, fsVars, timeVars,
    Cancelable, Adding
<1>. QED BY <1>1, <1>2, <1>3, InvParts

(***************************************************************************)
(* Steps of the job's thread.                                              *)
(***************************************************************************)

LEMMA CreateGameInv ==
  ASSUME LifecycleInv, NEW j \in Jobs, CreateGame(j)
  PROVE  LifecycleInv'
<1>0. TypeOK /\ PortsAccountedFor /\ \A k \in Jobs : LocalInv(k)
  BY InvParts
<1>1. CASE UNCHANGED <<pool, port>> /\ pc' = [pc EXCEPT ![j] = "rejected"]
  <2>1. TypeOK'
    BY <1>0, <1>1
       DEF CreateGame, TypeOK, fsVars, timeVars, jobVars, JobStates, GameStates,
           ChildStates,
      Cancelable, Adding, Ending, Callers
  <2>2. PortsAccountedFor'
    BY <1>0, <1>1, SamePorts
  <2>3. ASSUME NEW k \in Jobs PROVE LocalInv(k)'
    BY <1>0, <1>1
       DEF CreateGame, LocalInv, JobInv, GameInv, CallerInv, Live, fsVars, timeVars,
           jobVars,
      Cancelable, Adding, Ending, Callers
  <2>. QED BY <2>1, <2>2, <2>3, InvParts
<1>2. CASE /\ ~NoFreePort(pool)
           /\ port' = [port EXCEPT ![j] = PortTaken(pool)]
           /\ pool' = PoolAfter(pool)
           /\ pc' = [pc EXCEPT ![j] = IF CopyGame THEN "copy" ELSE "launch"]
  <2>0. /\ PortTaken(pool) \in ToSet(pool) /\ PortTaken(pool) \in Ports
        /\ PoolAfter(pool) \in Seq(Ports)
        /\ IsInjective(PoolAfter(pool))
        /\ ToSet(PoolAfter(pool)) = ToSet(pool) \ {PortTaken(pool)}
    BY <1>0, <1>2, TakePort DEF TypeOK, PortsAccountedFor
  <2>1. TypeOK'
    BY <1>0, <1>2, <2>0
       DEF CreateGame, TypeOK, fsVars, timeVars, jobVars, JobStates, GameStates,
           ChildStates,
      Cancelable, Adding, Ending, Callers
  <2>2. PortsAccountedFor'
    <3>1. port[j] = NoPort
      BY <1>0 DEF CreateGame, LocalInv, JobInv
    <3>2. port'[j] = PortTaken(pool) /\ \A k \in Jobs \ {j} : port'[k] = port[k]
      BY <1>0, <1>2 DEF TypeOK
    <3>3. \A k \in Jobs : port[k] # PortTaken(pool)
      BY <1>0, <2>0 DEF PortsAccountedFor
    <3>4. \A p \in Ports : p \in ToSet(pool)' <=> \A k \in Jobs : port'[k] # p
      BY <1>0, <1>2, <2>0, <3>1, <3>2, <3>3 DEF PortsAccountedFor, Ports, NoPort
    <3>. QED
      BY <1>0, <1>2, <2>0, <3>2, <3>3, <3>4 DEF PortsAccountedFor
  <2>3. ASSUME NEW k \in Jobs PROVE LocalInv(k)'
    <3>1. PortTaken(pool) # NoPort
      BY <2>0 DEF Ports, NoPort
    <3>. QED BY <1>0, <1>2, <3>1
                DEF CreateGame, TypeOK, LocalInv, JobInv, GameInv, CallerInv, Live,
                    fsVars, timeVars, jobVars,
      Cancelable, Adding, Ending, Callers
  <2>. QED BY <2>1, <2>2, <2>3, InvParts
<1>. QED BY <1>1, <1>2 DEF CreateGame

LEMMA CancelJobInv ==
  ASSUME LifecycleInv, NEW j \in Jobs, CancelJob(j)
  PROVE  LifecycleInv'
<1> USE DEF CancelJob
<1>0. TypeOK /\ PortsAccountedFor /\ \A k \in Jobs : LocalInv(k)
  BY InvParts
<1>1. TypeOK'
  BY <1>0 DEF TypeOK, fsVars, timeVars, jobVars, JobStates, GameStates, ChildStates,
    Cancelable, Adding, Ending, Callers
<1>2. PortsAccountedFor'
  BY <1>0, SamePorts
<1>3. ASSUME NEW k \in Jobs PROVE LocalInv(k)'
  BY <1>0
     DEF TypeOK, LocalInv, JobInv, GameInv, CallerInv, Live, fsVars, timeVars,
         jobVars,
    Cancelable, Adding, Ending, Callers
<1>. QED BY <1>1, <1>2, <1>3, InvParts

(***************************************************************************)
(* A Reservation that is destroyed gives its port back.                    *)
(***************************************************************************)
LEMMA GiveBackPorts ==
  ASSUME TypeOK, PortsAccountedFor, NEW j \in Jobs,
         pool' = GiveBack(pool, port[j]),
         port' = [port EXCEPT ![j] = NoPort]
  PROVE  PortsAccountedFor' /\ pool' \in Seq(Ports)
<1>1. CASE port[j] = NoPort
  <2>1. pool' = pool
    BY <1>1 DEF GiveBack
  <2>2. port' = port
    BY <1>1 DEF TypeOK
  <2>. QED BY <2>1, <2>2, SamePorts DEF TypeOK
<1>2. CASE port[j] # NoPort
  <2>1. port[j] \in Ports /\ port[j] \notin ToSet(pool)
    BY <1>2 DEF TypeOK, PortsAccountedFor
  <2>2. /\ pool' \in Seq(Ports)
        /\ IsInjective(pool')
        /\ ToSet(pool') = ToSet(pool) \union {port[j]}
    BY <1>2, <2>1, ReturnPort DEF TypeOK, PortsAccountedFor
  <2>. QED BY <1>2, <2>1, <2>2 DEF TypeOK, PortsAccountedFor, Ports, NoPort
<1>. QED BY <1>1, <1>2

(***************************************************************************)
(* The remaining steps of the job's thread.  A step that can throw is the  *)
(* exception, by GotoInv, or the effect of the call.                       *)
(***************************************************************************)
LEMMA CopyStepsInv ==
  ASSUME LifecycleInv, NEW j \in Jobs,
         CopyGameFiles(j) \/ CopyLevelFile(j) \/ LastCancelPoint(j)
  PROVE  LifecycleInv'
<1>1. PICK s \in Cancelable \union {"config", "cleanup"} :
        pc[j] \in Cancelable /\ JobGoto(j, s)
  BY DEF CopyGameFiles, CopyLevelFile, LastCancelPoint, Throw, Cancelable
<1>2. s \in JobStates
  BY DEF JobStates
<1>. QED BY <1>1, <1>2, GotoInv

LEMMA WriteGameConfigInv ==
  ASSUME LifecycleInv, NEW j \in Jobs, WriteGameConfig(j)
  PROVE  LifecycleInv'
<1>0. TypeOK /\ PortsAccountedFor /\ \A k \in Jobs : LocalInv(k)
  BY InvParts
<1>1. CASE JobGoto(j, "cleanup")
  <2>1. pc[j] = "config" /\ "cleanup" \in JobStates
    BY DEF WriteGameConfig, JobStates, Adding
  <2>. QED BY <1>1, <2>1, GotoInv
<1>2. CASE
      /\ prefs' = [prefs EXCEPT ![DirOf(j)] = port[j]]
      /\ pc' = [pc EXCEPT ![j] = "insert"]
      /\ game' = [game EXCEPT ![j] = "adding"]
      /\ UNCHANGED <<up, pool, canceled, port, rows, child, listen, tempDir,
                     timeVars, tpc, awards>>
  <2>0. pc[j] = "config"
    BY DEF WriteGameConfig
  <2>1. TypeOK'
    BY <1>0, <1>2 DEF TypeOK, fsVars, timeVars, JobStates, GameStates,
      ChildStates, Cancelable, Adding, Dirs, DirOf
  <2>2. PortsAccountedFor'
    BY <1>0, <1>2, SamePorts
  <2>3. ASSUME NEW k \in Jobs PROVE LocalInv(k)'
    BY <1>0, <1>2, <2>0 DEF TypeOK, LocalInv, JobInv, GameInv, CallerInv, Live,
      fsVars, timeVars, Cancelable, Adding, Ending, Callers
  <2>. QED BY <2>1, <2>2, <2>3, InvParts
<1>. QED BY <1>1, <1>2 DEF WriteGameConfig, Throw

LEMMA InsertRowInv ==
  ASSUME LifecycleInv, NEW j \in Jobs, InsertRow(j)
  PROVE  LifecycleInv'
<1>0. TypeOK /\ PortsAccountedFor /\ \A k \in Jobs : LocalInv(k)
  BY InvParts
<1>1. CASE JobGoto(j, "unwind")
  <2>1. pc[j] = "insert" /\ "unwind" \in JobStates
    BY DEF InsertRow, JobStates, Adding
  <2>. QED BY <1>1, <2>1, GotoInv
<1>2. CASE
      /\ rows' = rows \union {j}
      /\ pc' = [pc EXCEPT ![j] = "arm"]
      /\ UNCHANGED <<up, pool, canceled, port, game, child, listen, fsVars,
                     timeVars, tpc, awards>>
  <2>0. pc[j] = "insert"
    BY DEF InsertRow
  <2>1. TypeOK'
    BY <1>0, <1>2 DEF TypeOK, fsVars, timeVars, JobStates, GameStates,
      ChildStates, Cancelable, Adding, Dirs, DirOf
  <2>2. PortsAccountedFor'
    BY <1>0, <1>2, SamePorts
  <2>3. ASSUME NEW k \in Jobs PROVE LocalInv(k)'
    BY <1>0, <1>2, <2>0 DEF TypeOK, LocalInv, JobInv, GameInv, CallerInv, Live,
      fsVars, timeVars, Cancelable, Adding, Ending, Callers
  <2>. QED BY <2>1, <2>2, <2>3, InvParts
<1>. QED BY <1>1, <1>2 DEF InsertRow, Throw

LEMMA ArmTimerInv ==
  ASSUME LifecycleInv, NEW j \in Jobs, ArmTimer(j)
  PROVE  LifecycleInv'
<1>0. TypeOK /\ PortsAccountedFor /\ \A k \in Jobs : LocalInv(k)
  BY InvParts
<1>1. CASE JobGoto(j, "unwind")
  <2>1. pc[j] = "arm" /\ "unwind" \in JobStates
    BY DEF ArmTimer, JobStates, Adding
  <2>. QED BY <1>1, <2>1, GotoInv
<1>2. CASE
      /\ timer' = [timer EXCEPT ![j] = "armed"]
      /\ pc' = [pc EXCEPT ![j] = "track"]
      /\ UNCHANGED <<up, pool, canceled, port, game, rows, child, listen,
                     fsVars, timers, early, tpc, awards>>
  <2>0. pc[j] = "arm"
    BY DEF ArmTimer
  <2>1. TypeOK'
    BY <1>0, <1>2 DEF TypeOK, fsVars, timeVars, JobStates, GameStates,
      ChildStates, Cancelable, Adding, Dirs, DirOf
  <2>2. PortsAccountedFor'
    BY <1>0, <1>2, SamePorts
  <2>3. ASSUME NEW k \in Jobs PROVE LocalInv(k)'
    BY <1>0, <1>2, <2>0 DEF TypeOK, LocalInv, JobInv, GameInv, CallerInv, Live,
      fsVars, timeVars, Cancelable, Adding, Ending, Callers
  <2>. QED BY <2>1, <2>2, <2>3, InvParts
<1>. QED BY <1>1, <1>2 DEF ArmTimer, Throw

LEMMA LaunchGameInv ==
  ASSUME LifecycleInv, NEW j \in Jobs, LaunchGame(j)
  PROVE  LifecycleInv'
<1>0. TypeOK /\ PortsAccountedFor /\ \A k \in Jobs : LocalInv(k)
  BY InvParts
<1>1. CASE JobGoto(j, "unwind")
  <2>1. pc[j] = "start" /\ "unwind" \in JobStates
    BY DEF LaunchGame, JobStates, Adding
  <2>. QED BY <1>1, <2>1, GotoInv
<1>2. CASE
      /\ child' = [child EXCEPT ![j] = "starting"]
      /\ game' = [game EXCEPT ![j] = "running"]
      /\ pc' = [pc EXCEPT ![j] = "finish"]
      /\ UNCHANGED <<up, pool, canceled, port, rows, listen, fsVars, timeVars,
                     tpc, awards>>
  <2>0. pc[j] = "start"
    BY DEF LaunchGame
  <2>1. TypeOK'
    BY <1>0, <1>2 DEF TypeOK, fsVars, timeVars, JobStates, GameStates,
      ChildStates, Cancelable, Adding, Dirs, DirOf
  <2>2. PortsAccountedFor'
    BY <1>0, <1>2, SamePorts
  <2>3. ASSUME NEW k \in Jobs PROVE LocalInv(k)'
    BY <1>0, <1>2, <2>0 DEF TypeOK, LocalInv, JobInv, GameInv, CallerInv, Live,
      fsVars, timeVars, Cancelable, Adding, Ending, Callers
  <2>. QED BY <2>1, <2>2, <2>3, InvParts
<1>. QED BY <1>1, <1>2 DEF LaunchGame, Throw

LEMMA TrackTimerInv ==
  ASSUME LifecycleInv, NEW j \in Jobs, TrackTimer(j)
  PROVE  LifecycleInv'
<1> USE DEF TrackTimer
<1>0. TypeOK /\ PortsAccountedFor /\ \A k \in Jobs : LocalInv(k)
  BY InvParts
<1>2. PortsAccountedFor'
  BY <1>0, SamePorts
<1>1. TypeOK'
  BY <1>0 DEF TypeOK, fsVars, timeVars, jobVars, JobStates, GameStates, ChildStates,
    Cancelable, Adding, Ending, Callers
<1>3. ASSUME NEW k \in Jobs PROVE LocalInv(k)'
  BY <1>0 DEF TypeOK, LocalInv, JobInv, GameInv, CallerInv, Live, fsVars, timeVars,
    jobVars, Cancelable, Adding, Ending, Callers
<1>. QED BY <1>1, <1>2, <1>3, InvParts

LEMMA CleanUpInv ==
  ASSUME LifecycleInv, NEW j \in Jobs, CleanUp(j)
  PROVE  LifecycleInv'
<1> USE DEF CleanUp, RemoveDirectory
<1>0. TypeOK /\ PortsAccountedFor /\ \A k \in Jobs : LocalInv(k)
  BY InvParts
<1>2. PortsAccountedFor'
  BY <1>0, SamePorts
<1>1. TypeOK'
  BY <1>0 DEF TypeOK, fsVars, timeVars, jobVars, JobStates, GameStates, ChildStates,
    Cancelable, Adding, Ending, Callers
<1>3. ASSUME NEW k \in Jobs PROVE LocalInv(k)'
  BY <1>0 DEF TypeOK, LocalInv, JobInv, GameInv, CallerInv, Live, fsVars, timeVars,
    jobVars, Cancelable, Adding, Ending, Callers
<1>. QED BY <1>1, <1>2, <1>3, InvParts

LEMMA UnwindAddInv ==
  ASSUME LifecycleInv, NEW j \in Jobs, UnwindAdd(j)
  PROVE  LifecycleInv'
<1> USE DEF UnwindAdd, RemoveDirectory
<1>0. TypeOK /\ PortsAccountedFor /\ \A k \in Jobs : LocalInv(k)
  BY InvParts
<1>2. PortsAccountedFor' /\ pool' \in Seq(Ports)
  BY <1>0, GiveBackPorts
<1>1. TypeOK'
  BY <1>0, <1>2
     DEF TypeOK, fsVars, timeVars, jobVars, JobStates, GameStates, ChildStates,
    Cancelable, Adding, Ending, Callers
<1>3. ASSUME NEW k \in Jobs PROVE LocalInv(k)'
  BY <1>0 DEF TypeOK, LocalInv, JobInv, GameInv, CallerInv, Live, fsVars, timeVars,
    jobVars, Cancelable, Adding, Ending, Callers
<1>. QED BY <1>1, <1>2, <1>3, InvParts

(***************************************************************************)
(* The game server, the timer and terminate_game.                          *)
(***************************************************************************)
LEMMA CallerType ==
  ASSUME NEW V, NEW t \in [Callers -> [Jobs -> V]],
         NEW c \in Callers, NEW j \in Jobs, NEW v \in V
  PROVE  [t EXCEPT ![c][j] = v] \in [Callers -> [Jobs -> V]]
OBVIOUS

LEMMA ReadPrefsInv ==
  ASSUME LifecycleInv, NEW j \in Jobs, ReadPrefs(j)
  PROVE  LifecycleInv'
<1> USE DEF ReadPrefs, Dirs, DirOf
<1>0. TypeOK /\ PortsAccountedFor /\ \A k \in Jobs : LocalInv(k)
  BY InvParts
<1>2. PortsAccountedFor'
  BY <1>0, SamePorts
<1>1. TypeOK'
  BY <1>0 DEF TypeOK, fsVars, timeVars, jobVars, JobStates, GameStates, ChildStates,
    Cancelable, Adding, Ending, Callers
<1>3. ASSUME NEW k \in Jobs PROVE LocalInv(k)'
  BY <1>0 DEF TypeOK, LocalInv, JobInv, GameInv, CallerInv, Live, fsVars, timeVars,
    jobVars, Cancelable, Adding, Ending, Callers
<1>. QED BY <1>1, <1>2, <1>3, InvParts

LEMMA ChildExitsInv ==
  ASSUME LifecycleInv, NEW j \in Jobs, ChildExits(j)
  PROVE  LifecycleInv'
<1> USE DEF ChildExits
<1>0. TypeOK /\ PortsAccountedFor /\ \A k \in Jobs : LocalInv(k)
  BY InvParts
<1>2. PortsAccountedFor'
  BY <1>0, SamePorts
<1>1. TypeOK'
  BY <1>0 DEF TypeOK, fsVars, timeVars, jobVars, JobStates, GameStates, ChildStates,
    Cancelable, Adding, Ending, Callers
<1>3. ASSUME NEW k \in Jobs PROVE LocalInv(k)'
  BY <1>0 DEF TypeOK, LocalInv, JobInv, GameInv, CallerInv, Live, fsVars, timeVars,
    jobVars, Cancelable, Adding, Ending, Callers
<1>. QED BY <1>1, <1>2, <1>3, InvParts

LEMMA TimerFiresInv ==
  ASSUME LifecycleInv, NEW j \in Jobs, TimerFires(j)
  PROVE  LifecycleInv'
<1> USE DEF TimerFires, TakeOut, Return
<1>0. TypeOK /\ PortsAccountedFor /\ \A k \in Jobs : LocalInv(k)
  BY InvParts
<1>2. PortsAccountedFor'
  BY <1>0, SamePorts
<1>4. \E v \in Ending \union {"idle", "untrack"} :
        tpc' = [tpc EXCEPT !["timer"][j] = v]
  BY DEF Ending
<1>5. tpc' \in [Callers -> [Jobs -> Ending \union {"idle", "untrack"}]]
  BY <1>0, <1>4, CallerType DEF TypeOK, Callers
<1>1. TypeOK'
  BY <1>0, <1>5
     DEF TypeOK, fsVars, timeVars, jobVars, JobStates, GameStates, ChildStates,
    Cancelable, Adding, Ending, Callers
<1>3. ASSUME NEW k \in Jobs PROVE LocalInv(k)'
  BY <1>0 DEF TypeOK, LocalInv, JobInv, GameInv, CallerInv, Live, fsVars, timeVars,
    jobVars, Cancelable, Adding, Ending, Callers
<1>. QED BY <1>1, <1>2, <1>3, InvParts

LEMMA TerminateRequestInv ==
  ASSUME LifecycleInv, NEW j \in Jobs, TerminateRequest(j)
  PROVE  LifecycleInv'
<1> USE DEF TerminateRequest, TakeOut, Return
<1>0. TypeOK /\ PortsAccountedFor /\ \A k \in Jobs : LocalInv(k)
  BY InvParts
<1>2. PortsAccountedFor'
  BY <1>0, SamePorts
<1>4. \E v \in Ending \union {"idle", "untrack"} :
        tpc' = [tpc EXCEPT !["admin"][j] = v]
  BY DEF Ending
<1>5. tpc' \in [Callers -> [Jobs -> Ending \union {"idle", "untrack"}]]
  BY <1>0, <1>4, CallerType DEF TypeOK, Callers
<1>1. TypeOK'
  BY <1>0, <1>5
     DEF TypeOK, fsVars, timeVars, jobVars, JobStates, GameStates, ChildStates,
    Cancelable, Adding, Ending, Callers
<1>3. ASSUME NEW k \in Jobs PROVE LocalInv(k)'
  BY <1>0 DEF TypeOK, LocalInv, JobInv, GameInv, CallerInv, Live, fsVars, timeVars,
    jobVars, Cancelable, Adding, Ending, Callers
<1>. QED BY <1>1, <1>2, <1>3, InvParts

LEMMA KillChildInv ==
  ASSUME LifecycleInv, NEW c \in Callers, NEW j \in Jobs, KillChild(c, j)
  PROVE  LifecycleInv'
<1> USE DEF KillChild, RemoveDirectory
<1>0. TypeOK /\ PortsAccountedFor /\ \A k \in Jobs : LocalInv(k)
  BY InvParts
<1>2. PortsAccountedFor'
  BY <1>0, SamePorts
<1>1. TypeOK'
  BY <1>0 DEF TypeOK, fsVars, timeVars, jobVars, JobStates, GameStates, ChildStates,
    Cancelable, Adding, Ending, Callers
<1>3. ASSUME NEW k \in Jobs PROVE LocalInv(k)'
  BY <1>0 DEF TypeOK, LocalInv, JobInv, GameInv, CallerInv, Live, fsVars, timeVars,
    jobVars, Cancelable, Adding, Ending, Callers
<1>. QED BY <1>1, <1>2, <1>3, InvParts

LEMMA ReleasePortInv ==
  ASSUME LifecycleInv, NEW c \in Callers, NEW j \in Jobs, ReleasePort(c, j)
  PROVE  LifecycleInv'
<1> USE DEF ReleasePort
<1>0. TypeOK /\ PortsAccountedFor /\ \A k \in Jobs : LocalInv(k)
  BY InvParts
<1>2. PortsAccountedFor' /\ pool' \in Seq(Ports)
  BY <1>0, GiveBackPorts
<1>1. TypeOK'
  BY <1>0, <1>2
     DEF TypeOK, fsVars, timeVars, jobVars, JobStates, GameStates, ChildStates,
    Cancelable, Adding, Ending, Callers
<1>3. ASSUME NEW k \in Jobs PROVE LocalInv(k)'
  BY <1>0 DEF TypeOK, LocalInv, JobInv, GameInv, CallerInv, Live, fsVars, timeVars,
    jobVars, Cancelable, Adding, Ending, Callers
<1>. QED BY <1>1, <1>2, <1>3, InvParts

LEMMA RankInv ==
  ASSUME LifecycleInv, NEW c \in Callers, NEW j \in Jobs, Rank(c, j)
  PROVE  LifecycleInv'
<1> USE DEF Rank, Return
<1>0. TypeOK /\ PortsAccountedFor /\ \A k \in Jobs : LocalInv(k)
  BY InvParts
<1>2. PortsAccountedFor'
  BY <1>0, SamePorts
<1>4. \E v \in Ending \union {"idle", "untrack"} :
        tpc' = [tpc EXCEPT ![c][j] = v]
  BY DEF Ending
<1>5. tpc' \in [Callers -> [Jobs -> Ending \union {"idle", "untrack"}]]
  BY <1>0, <1>4, CallerType DEF TypeOK, Callers
<1>6. up' \in BOOLEAN
  OBVIOUS
<1>7. awards' \in [Jobs -> Nat]
  <2> HIDE DEF Rank
  <2>1. awards' = awards \/ awards' = [awards EXCEPT ![j] = awards[j] + 1]
    BY DEF Rank
  <2>. QED BY <1>0, <2>1 DEF TypeOK
<1>1. TypeOK'
  <2> HIDE DEF Rank
  <2>1. UNCHANGED <<pool, jobVars, port, game, rows, child, listen, fsVars, timeVars>>
    BY DEF Rank
  <2>. QED BY <1>0, <1>5, <1>6, <1>7, <2>1
              DEF TypeOK, fsVars, timeVars, jobVars, JobStates, GameStates,
                  ChildStates,
    Cancelable, Adding, Ending, Callers
<1>3. ASSUME NEW k \in Jobs PROVE LocalInv(k)'
  BY <1>0 DEF TypeOK, LocalInv, JobInv, GameInv, CallerInv, Live, fsVars, timeVars,
    jobVars, Cancelable, Adding, Ending, Callers
<1>. QED BY <1>1, <1>2, <1>3, InvParts

LEMMA UntrackInv ==
  ASSUME LifecycleInv, NEW j \in Jobs, Untrack(j)
  PROVE  LifecycleInv'
<1> USE DEF Untrack
<1>0. TypeOK /\ PortsAccountedFor /\ \A k \in Jobs : LocalInv(k)
  BY InvParts
<1>2. PortsAccountedFor'
  BY <1>0, SamePorts
<1>1. TypeOK'
  BY <1>0 DEF TypeOK, fsVars, timeVars, jobVars, JobStates, GameStates, ChildStates,
    Cancelable, Adding, Ending, Callers
<1>3. ASSUME NEW k \in Jobs PROVE LocalInv(k)'
  BY <1>0 DEF TypeOK, LocalInv, JobInv, GameInv, CallerInv, Live, fsVars, timeVars,
    jobVars, Cancelable, Adding, Ending, Callers
<1>. QED BY <1>1, <1>2, <1>3, InvParts

LEMMA JobFinishedInv ==
  ASSUME LifecycleInv, NEW j \in Jobs, JobFinished(j)
  PROVE  LifecycleInv'
<1>0. TypeOK /\ PortsAccountedFor /\ \A k \in Jobs : LocalInv(k)
  BY InvParts
<1>1. PortsAccountedFor' /\ pool' \in Seq(Ports)
  <2>1. CASE game[j] = "none"
    BY <1>0, <2>1, GiveBackPorts DEF JobFinished
  <2>2. CASE game[j] # "none"
    BY <1>0, <2>2, SamePorts DEF JobFinished, TypeOK
  <2>. QED BY <2>1, <2>2
<1>2. port' = port \/ (game[j] = "none" /\ port' = [port EXCEPT ![j] = NoPort])
  BY DEF JobFinished
<1>3. TypeOK'
  BY <1>0, <1>1, <1>2 DEF JobFinished, TypeOK, fsVars, timeVars, JobStates
<1>4. ASSUME NEW k \in Jobs PROVE LocalInv(k)'
  BY <1>0, <1>2 DEF JobFinished, TypeOK, LocalInv, JobInv, GameInv, CallerInv,
    Live, fsVars, timeVars, Cancelable, Adding, Ending, Callers
<1>. QED BY <1>1, <1>3, <1>4, InvParts

-----------------------------------------------------------------------------
LEMMA NextInv ==
  ASSUME LifecycleInv, [Next]_vars
  PROVE  LifecycleInv'
<1>1. CASE UNCHANGED vars
  <2>1. TypeOK' /\ PortsAccountedFor'
    BY <1>1, InvParts, SamePorts DEF vars, TypeOK
  <2>2. ASSUME NEW k \in Jobs PROVE LocalInv(k)'
    BY <1>1, InvParts DEF vars, LocalInv, JobInv, GameInv, CallerInv, Live
  <2>. QED BY <2>1, <2>2, InvParts
<1>2. ASSUME NEW j \in Jobs, JobStep(j) PROVE LifecycleInv'
  BY <1>2, CopyStepsInv, WriteGameConfigInv, InsertRowInv, ArmTimerInv,
    TrackTimerInv, LaunchGameInv, UnwindAddInv, CleanUpInv, JobFinishedInv
    DEF JobStep
<1>3. ASSUME NEW j \in Jobs,
             \/ CreateGame(j) \/ CancelJob(j) \/ TerminateRequest(j)
             \/ ReadPrefs(j) \/ ChildExits(j) \/ TimerFires(j) \/ Untrack(j)
      PROVE  LifecycleInv'
  BY <1>3, CreateGameInv, CancelJobInv, TerminateRequestInv, ReadPrefsInv,
    ChildExitsInv, TimerFiresInv, UntrackInv
<1>4. ASSUME NEW j \in Jobs, NEW c \in Callers, TerminateStep(c, j)
      PROVE  LifecycleInv'
  BY <1>4, KillChildInv, ReleasePortInv, RankInv DEF TerminateStep
<1>. QED BY <1>1, <1>2, <1>3, <1>4 DEF Next

(***************************************************************************)
(* LifecycleInv holds in every reachable state.                            *)
(***************************************************************************)
THEOREM InvHolds == Spec => []LifecycleInv
BY InitInv, NextInv, PTL DEF Spec

(***************************************************************************)
(* Through every move and destruction of a Reservation, each port is in    *)
(* the pool once or reserved once.                                         *)
(***************************************************************************)
THEOREM PortsAreAccountedFor == Spec => []PortsAccountedFor
<1>1. LifecycleInv => PortsAccountedFor
  BY DEF LifecycleInv
<1>. QED BY <1>1, InvHolds, PTL

(***************************************************************************)
(* terminate_game never returns the port of a server that still runs.      *)
(***************************************************************************)
THEOREM LiveGamesHoldPorts == Spec => []LiveGameHoldsPort
<1>1. LifecycleInv => LiveGameHoldsPort
  BY DEF LifecycleInv, GameInv, LiveGameHoldsPort
<1>. QED BY <1>1, InvHolds, PTL

(***************************************************************************)
(* The timer and any number of admin requests give the ranking points of a *)
(* game at most once.                                                      *)
(***************************************************************************)
THEOREM GamesAreAwardedOnce == Spec => []AwardedOnce
<1>1. LifecycleInv => AwardedOnce
  BY DEF LifecycleInv
<1>. QED BY <1>1, InvHolds, PTL

(***************************************************************************)
(* A running game has an armed timer, unless the timer fired too early.    *)
(***************************************************************************)
THEOREM RunningGamesAreTimed == Spec => []TimedUnlessEarly
<1>1. LifecycleInv => TimedUnlessEarly
  BY DEF LifecycleInv
<1>. QED BY <1>1, InvHolds, PTL

(***************************************************************************)
(* A job canceled before its last look at canceled_ inserts no row and     *)
(* launches no server, whatever the other threads do.                      *)
(***************************************************************************)
CanceledInv(j) ==
  /\ j \notin rows
  /\ game[j] = "none"
  /\ \/ pc[j] \in Cancelable /\ canceled[j]
     \/ pc[j] \in {"cleanup", "finish", "done"}

LEMMA CanceledStep ==
  ASSUME LifecycleInv, [Next]_vars, NEW j \in Jobs, CanceledInv(j)
  PROVE  CanceledInv(j)'
<1> USE DEF CanceledInv
<1>0. /\ TypeOK
      /\ \A k \in Jobs : LocalInv(k)
  BY InvParts
<1>1. tpc["timer"][j] \notin Ending /\ tpc["admin"][j] \notin Ending
  BY <1>0 DEF LocalInv, CallerInv, Callers, Ending
<1>2. CASE UNCHANGED vars
  BY <1>2 DEF vars
<1>3. ASSUME NEW k \in Jobs, JobStep(k) PROVE CanceledInv(j)'
  BY <1>0, <1>3 DEF TypeOK, JobStep, CopyGameFiles, CopyLevelFile,
    LastCancelPoint, WriteGameConfig, InsertRow, ArmTimer, TrackTimer,
    LaunchGame, UnwindAdd, CleanUp, JobFinished, Throw, JobGoto, Cancelable
<1>4. ASSUME NEW k \in Jobs,
             \/ CreateGame(k) \/ CancelJob(k) \/ TerminateRequest(k)
             \/ ReadPrefs(k) \/ ChildExits(k) \/ TimerFires(k) \/ Untrack(k)
      PROVE  CanceledInv(j)'
  BY <1>0, <1>4 DEF TypeOK, CreateGame, CancelJob, TerminateRequest, ReadPrefs,
    ChildExits, TimerFires, Untrack, TakeOut, jobVars, Cancelable
<1>5. ASSUME NEW k \in Jobs, NEW c \in Callers, TerminateStep(c, k)
      PROVE  CanceledInv(j)'
  BY <1>0, <1>1, <1>5 DEF TypeOK, TerminateStep, KillChild, ReleasePort, Rank,
    jobVars, Ending, Callers
<1>. QED BY <1>2, <1>3, <1>4, <1>5 DEF Next

THEOREM CanceledJobsNeverLaunch == Spec => CanceledNeverLaunches
<1>1. SUFFICES ASSUME NEW j \in Jobs
      PROVE  Spec => [](canceled[j] /\ pc[j] \in Cancelable
                          => [](j \notin rows /\ child[j] = "none"))
  BY DEF CanceledNeverLaunches
<1>2. LifecycleInv /\ canceled[j] /\ pc[j] \in Cancelable => CanceledInv(j)
  BY InvParts DEF LocalInv, JobInv, CanceledInv
<1>3. LifecycleInv /\ CanceledInv(j) => j \notin rows /\ child[j] = "none"
  BY InvParts DEF LocalInv, GameInv, CanceledInv
<1>4. LifecycleInv /\ CanceledInv(j) /\ [Next]_vars => CanceledInv(j)'
  BY CanceledStep
<1>. QED BY <1>2, <1>3, <1>4, InvHolds, PTL DEF Spec

(***************************************************************************)
(* With copy_game each server reads a server_prefs.cs of its own, so it    *)
(* serves the port reserved for it.                                        *)
(***************************************************************************)
PrefsInv(j) ==
  /\ game[j] \in {"adding", "running", "removed"} => prefs[j] = port[j]
  /\ child[j] = "up" => listen[j] = port[j]

LEMMA PrefsStep ==
  ASSUME CopyGame, LifecycleInv, [Next]_vars, NEW j \in Jobs, PrefsInv(j)
  PROVE  PrefsInv(j)'
<1> USE DEF PrefsInv
<1>0. /\ TypeOK
      /\ \A k \in Jobs : LocalInv(k)
      /\ \A k \in Jobs : DirOf(k) = k /\ k \in Dirs
  BY InvParts DEF DirOf, Dirs
<1>1. /\ child[j] = "up" => game[j] \in {"running", "removed"}
      /\ pc[j] = "unwind" => child[j] = "none"
      /\ game[j] = "none" => child[j] = "none"
  BY <1>0 DEF LocalInv, GameInv, JobInv, Live, Adding
<1>2. CASE UNCHANGED vars
  BY <1>2 DEF vars
<1>3. ASSUME NEW k \in Jobs, JobStep(k) PROVE PrefsInv(j)'
  <2>1. CASE WriteGameConfig(k)
    <3>1. CASE JobGoto(k, "cleanup")
      BY <3>1 DEF JobGoto, fsVars
    <3>2. CASE /\ prefs' = [prefs EXCEPT ![k] = port[k]]
               /\ game' = [game EXCEPT ![k] = "adding"]
               /\ UNCHANGED <<port, child, listen>>
      <4>1. j \in Dirs /\ k \in Dirs
        BY <1>0
      <4>2. j # k => UNCHANGED <<prefs[j], game[j]>>
        BY <1>0, <3>2, <4>1 DEF TypeOK
      <4>3. prefs'[k] = port[k]
        BY <1>0, <3>2, <4>1 DEF TypeOK
      <4>. QED BY <3>2, <4>2, <4>3
    <3>3. DirOf(k) = k
      BY <1>0
    <3>. QED BY <2>1, <3>1, <3>2, <3>3 DEF WriteGameConfig, Throw
  <2>2. CASE UnwindAdd(k)
    <3>1. j # k => UNCHANGED <<port[j], game[j]>>
      BY <1>0, <2>2 DEF TypeOK, UnwindAdd
    <3>2. j = k => game'[j] = "gone" /\ child'[j] = "none"
      BY <1>0, <1>1, <2>2 DEF TypeOK, UnwindAdd
    <3>. QED BY <2>2, <3>1, <3>2 DEF UnwindAdd
  <2>3. CASE JobFinished(k)
    <3>1. j # k \/ game[j] # "none" => port'[j] = port[j]
      BY <1>0, <2>3 DEF TypeOK, JobFinished
    <3>. QED BY <1>1, <2>3, <3>1 DEF JobFinished, fsVars
  <2>4. CASE LaunchGame(k)
    BY <1>0, <1>1, <2>4 DEF TypeOK, LaunchGame, JobGoto, fsVars, LocalInv, JobInv,
      Adding
  <2>5. CASE \/ CopyGameFiles(k) \/ CopyLevelFile(k) \/ LastCancelPoint(k)
             \/ InsertRow(k) \/ ArmTimer(k) \/ TrackTimer(k) \/ CleanUp(k)
    BY <2>5 DEF CopyGameFiles, CopyLevelFile, LastCancelPoint, InsertRow,
      ArmTimer, TrackTimer, CleanUp, Throw, JobGoto, fsVars
  <2>. QED BY <1>3, <2>1, <2>2, <2>3, <2>4, <2>5 DEF JobStep
<1>4. ASSUME NEW k \in Jobs,
             \/ CreateGame(k) \/ CancelJob(k) \/ TerminateRequest(k)
             \/ ReadPrefs(k) \/ ChildExits(k) \/ TimerFires(k) \/ Untrack(k)
      PROVE  PrefsInv(j)'
  <2>1. CASE CreateGame(k)
    <3>1. pc[k] = "idle" /\ game[k] = "none"
      BY <1>0, <2>1 DEF CreateGame, LocalInv, JobInv
    <3>2. j # k => port'[j] = port[j]
      BY <1>0, <2>1 DEF CreateGame, TypeOK
    <3>. QED BY <1>1, <2>1, <3>1, <3>2 DEF CreateGame
  <2>2. CASE ReadPrefs(k)
    BY <1>0, <2>2 DEF TypeOK, ReadPrefs, LocalInv, GameInv, Live, fsVars
  <2>3. CASE ~CreateGame(k) /\ ~ReadPrefs(k)
    BY <1>0, <1>1, <1>4, <2>3 DEF TypeOK, CancelJob, TerminateRequest,
      ChildExits, TimerFires, Untrack, TakeOut, fsVars
  <2>. QED BY <2>1, <2>2, <2>3
<1>5. ASSUME NEW k \in Jobs, NEW c \in Callers, TerminateStep(c, k)
      PROVE  PrefsInv(j)'
  <2>1. CASE KillChild(c, k)
    BY <1>0, <2>1 DEF TypeOK, KillChild
  <2>2. CASE ReleasePort(c, k)
    <3>1. child[k] = "dead"
      BY <1>0, <2>2 DEF ReleasePort, LocalInv, CallerInv, GameInv
    <3>. QED BY <1>0, <2>2, <3>1 DEF TypeOK, ReleasePort, fsVars
  <2>3. CASE Rank(c, k)
    BY <2>3 DEF Rank, fsVars
  <2>. QED BY <1>5, <2>1, <2>2, <2>3 DEF TerminateStep
<1>. QED BY <1>2, <1>3, <1>4, <1>5 DEF Next

THEOREM OwnDirectoryMeansOwnPort == CopyGame /\ Spec => []ListensOnOwnPort
<1> DEFINE Inv == LifecycleInv /\ \A j \in Jobs : PrefsInv(j)
<1>1. SUFFICES ASSUME CopyGame PROVE Spec => []ListensOnOwnPort
  OBVIOUS
<1>2. Init => \A j \in Jobs : PrefsInv(j)
  BY DEF Init, PrefsInv
<1>3. (\A j \in Jobs : PrefsInv(j)) /\ LifecycleInv /\ [Next]_vars
        => (\A j \in Jobs : PrefsInv(j))'
  BY <1>1, PrefsStep
<1>4. (\A j \in Jobs : PrefsInv(j)) => ListensOnOwnPort
  BY DEF PrefsInv, ListensOnOwnPort
<1>. QED BY <1>2, <1>3, <1>4, InvHolds, PTL DEF Spec

(***************************************************************************)
(* The directory of a game.  It exists from the request on, until the      *)
(* clean-up of a job that failed or of a Game that is destroyed; at        *)
(* neither is the game server running.                                     *)
(***************************************************************************)
DirectoryInv(j) ==
  \/ pc[j] \in {"config"} \union Cancelable \union Adding
  \/ game[j] \in {"running", "removed"}
  => j \in tempDir

LEMMA DirectoryStep ==
  ASSUME LifecycleInv, [Next]_vars, NEW j \in Jobs, DirectoryInv(j)
  PROVE  DirectoryInv(j)'
<1> USE DEF DirectoryInv
<1>0. TypeOK /\ \A k \in Jobs : LocalInv(k)
  BY InvParts
<1>1. /\ pc[j] \in {"config"} \union Cancelable => game[j] = "none"
      /\ pc[j] \in Adding <=> game[j] = "adding"
      /\ pc[j] = "cleanup" => game[j] \in {"none", "gone"}
  BY <1>0 DEF LocalInv, JobInv
<1>2. CASE UNCHANGED vars
  BY <1>2 DEF vars
<1>3. ASSUME NEW k \in Jobs, JobStep(k) PROVE DirectoryInv(j)'
  <2>1. CASE CleanUp(k) \/ UnwindAdd(k)
    <3>1. j # k => UNCHANGED <<pc[j], game[j]>> /\ (j \in tempDir => j \in tempDir')
      BY <1>0, <2>1 DEF TypeOK, CleanUp, UnwindAdd, RemoveDirectory
    <3>2. j = k => /\ pc'[j] \in {"finish", "cleanup"}
                   /\ game'[j] \in {"none", "gone"}
      BY <1>0, <1>1, <2>1 DEF TypeOK, CleanUp, UnwindAdd
    <3>. QED BY <3>1, <3>2 DEF Cancelable, Adding
  <2>2. CASE ~CleanUp(k) /\ ~UnwindAdd(k)
    <3>1. UNCHANGED tempDir
      BY <1>3, <2>2 DEF JobStep, CopyGameFiles, CopyLevelFile, LastCancelPoint,
        WriteGameConfig, InsertRow, ArmTimer, TrackTimer, LaunchGame, JobFinished,
        Throw, JobGoto, fsVars
    <3>2. j # k => UNCHANGED <<pc[j], game[j]>>
      BY <1>0, <1>3, <2>2 DEF TypeOK, JobStep, CopyGameFiles, CopyLevelFile,
        LastCancelPoint, WriteGameConfig, InsertRow, ArmTimer, TrackTimer,
        LaunchGame, JobFinished, Throw, JobGoto
    <3>3. /\ pc'[k] \in {"config"} \union Cancelable \union Adding =>
               pc[k] \in {"config"} \union Cancelable \union Adding
          /\ game'[k] \in {"running", "removed"} =>
               pc[k] \in Adding \/ game[k] \in {"running", "removed"}
      BY <1>0, <1>3, <2>2 DEF TypeOK, JobStep, CopyGameFiles, CopyLevelFile,
        LastCancelPoint, WriteGameConfig, InsertRow, ArmTimer, TrackTimer,
        LaunchGame, JobFinished, Throw, JobGoto, Cancelable, Adding
    <3>. QED BY <3>1, <3>2, <3>3
  <2>. QED BY <2>1, <2>2
<1>4. ASSUME NEW k \in Jobs,
             \/ CreateGame(k) \/ CancelJob(k) \/ TerminateRequest(k)
             \/ ReadPrefs(k) \/ ChildExits(k) \/ TimerFires(k) \/ Untrack(k)
      PROVE  DirectoryInv(j)'
  <2>1. CASE CreateGame(k)
    <3>1. j # k => UNCHANGED pc[j]
      BY <1>0, <2>1 DEF TypeOK, CreateGame
    <3>. QED BY <2>1, <3>1 DEF CreateGame
  <2>2. CASE ~CreateGame(k)
    <3>1. UNCHANGED <<pc, tempDir>>
      BY <1>4, <2>2 DEF CancelJob, TerminateRequest, ReadPrefs, ChildExits,
        TimerFires, Untrack, fsVars, jobVars
    <3>2. game'[j] \in {"running", "removed"} => game[j] \in {"running", "removed"}
      BY <1>0, <1>4, <2>2 DEF TypeOK, CancelJob, TerminateRequest, ReadPrefs,
        ChildExits, TimerFires, Untrack, TakeOut
    <3>. QED BY <3>1, <3>2
  <2>. QED BY <2>1, <2>2
<1>5. ASSUME NEW k \in Jobs, NEW c \in Callers, TerminateStep(c, k)
      PROVE  DirectoryInv(j)'
  <2>1. CASE KillChild(c, k)
    <3>1. j # k => UNCHANGED game[j] /\ (j \in tempDir => j \in tempDir')
      BY <1>0, <2>1 DEF TypeOK, KillChild, RemoveDirectory
    <3>2. j = k => game[j] = "removed" /\ game'[j] = "killed"
      BY <1>0, <2>1 DEF TypeOK, KillChild, LocalInv, CallerInv
    <3>3. UNCHANGED pc
      BY <2>1 DEF KillChild, jobVars
    <3>. QED BY <1>1, <3>1, <3>2, <3>3
  <2>2. CASE ReleasePort(c, k) \/ Rank(c, k)
    BY <1>0, <2>2 DEF TypeOK, ReleasePort, Rank, fsVars, jobVars
  <2>. QED BY <1>5, <2>1, <2>2 DEF TerminateStep
<1>. QED BY <1>2, <1>3, <1>4, <1>5 DEF Next

\* No clean-up deletes the directory under a game server that runs in it: the
\* catch block of LaunchGameJob::run and ~Impl come before the launch or after
\* the end of the process.
THEOREM LiveGamesHaveDirectories == Spec => []LiveGameHasDirectory
<1> DEFINE Inv == \A j \in Jobs : DirectoryInv(j)
<1>1. Init => Inv
  BY DEF Init, DirectoryInv, Cancelable, Adding
<1>2. Inv /\ LifecycleInv /\ [Next]_vars => Inv'
  BY DirectoryStep
<1>3. Inv /\ LifecycleInv => LiveGameHasDirectory
  BY InvParts DEF DirectoryInv, LiveGameHasDirectory, LocalInv, GameInv
<1>. QED BY <1>1, <1>2, <1>3, InvHolds, PTL DEF Spec

-----------------------------------------------------------------------------
(***************************************************************************)
(* GameLifecycle implements GameLease.                                     *)
(***************************************************************************)
LEMMA LeaseInit == Init => Lease!Init
BY DEF Init, Lease!Init, Live

LEMMA LeaseUnchanged ==
  ASSUME UNCHANGED <<port, awards, child>>,
         \A k \in Jobs : pc'[k] \in {"idle", "rejected"} <=> pc[k] \in {"idle", "rejected"}
  PROVE  UNCHANGED Lease!vars
BY DEF Lease!vars, Live

LEMMA LeaseJobStep ==
  ASSUME LifecycleInv, NEW j \in Jobs, JobStep(j)
  PROVE  [Lease!Next]_(Lease!vars)
<1>0. TypeOK /\ PortsAccountedFor /\ \A k \in Jobs : LocalInv(k)
  BY InvParts
<1>1. \A k \in Jobs : pc'[k] \in {"idle", "rejected"} <=> pc[k] \in {"idle", "rejected"}
  BY <1>0 DEF TypeOK, JobStep, CopyGameFiles, CopyLevelFile, LastCancelPoint,
    WriteGameConfig, InsertRow, ArmTimer, TrackTimer, LaunchGame, UnwindAdd,
    CleanUp, JobFinished, Throw, JobGoto
<1>2. CASE port' = port /\ child' = child
  <2>1. awards' = awards
    BY DEF JobStep, CopyGameFiles, CopyLevelFile, LastCancelPoint,
      WriteGameConfig, InsertRow, ArmTimer, TrackTimer, LaunchGame, UnwindAdd,
      CleanUp, JobFinished, Throw, JobGoto
  <2>. QED BY <1>1, <1>2, <2>1, LeaseUnchanged
<1>3. CASE /\ port' = [port EXCEPT ![j] = NoPort]
           /\ port' # port
           /\ game[j] \in {"none", "adding"}
           /\ UNCHANGED <<child, awards>>
  <2>1. child[j] = "none" /\ port[j] # NoPort
    BY <1>0, <1>3 DEF TypeOK, LocalInv, GameInv
  <2>2. Lease!GiveUp(j)
    BY <1>1, <1>3, <2>1 DEF Lease!GiveUp, Live
  <2>. QED BY <2>2 DEF Lease!Next
<1>4. CASE /\ child' = [child EXCEPT ![j] = "starting"]
           /\ pc[j] = "start"
           /\ UNCHANGED <<port, awards>>
  <2>1. child[j] = "none" /\ port[j] # NoPort
    BY <1>0, <1>4 DEF LocalInv, JobInv, GameInv, Adding
  <2>2. \A k \in Jobs : child'[k] = IF k = j THEN "starting" ELSE child[k]
    BY <1>0, <1>4 DEF TypeOK
  <2>3. Lease!Start(j)
    BY <1>1, <1>4, <2>1, <2>2 DEF Lease!Start, Live
  <2>. QED BY <2>3 DEF Lease!Next
<1>5. \/ port' = port /\ child' = child
      \/ UnwindAdd(j) /\ pc[j] = "unwind" /\ port' = [port EXCEPT ![j] = NoPort]
                       /\ UNCHANGED <<child, awards>>
      \/ JobFinished(j) /\ game[j] = "none" /\ port' = [port EXCEPT ![j] = NoPort]
                         /\ UNCHANGED <<child, awards>>
      \/ /\ child' = [child EXCEPT ![j] = "starting"]
         /\ pc[j] = "start"
         /\ UNCHANGED <<port, awards>>
  BY DEF JobStep, CopyGameFiles, CopyLevelFile, LastCancelPoint,
    WriteGameConfig, InsertRow, ArmTimer, TrackTimer, LaunchGame, UnwindAdd,
    CleanUp, JobFinished, Throw, JobGoto
<1>6. pc[j] = "unwind" => game[j] = "adding"
  BY <1>0 DEF LocalInv, JobInv, Adding
<1>. QED BY <1>2, <1>3, <1>4, <1>5, <1>6

LEMMA LeaseRequestStep ==
  ASSUME LifecycleInv, NEW j \in Jobs,
         \/ CreateGame(j) \/ CancelJob(j) \/ TerminateRequest(j)
         \/ ReadPrefs(j) \/ ChildExits(j) \/ TimerFires(j) \/ Untrack(j)
  PROVE  [Lease!Next]_(Lease!vars)
<1>0. TypeOK /\ PortsAccountedFor /\ \A k \in Jobs : LocalInv(k)
  BY InvParts
<1>1. CASE CreateGame(j)
  <2>1. pc[j] = "idle" /\ UNCHANGED <<child, awards>>
    BY <1>1 DEF CreateGame
  <2>2. CASE port' = port /\ pc' = [pc EXCEPT ![j] = "rejected"]
    <3>1. \A k \in Jobs : pc'[k] \in {"idle", "rejected"} <=> pc[k] \in {"idle", "rejected"}
      BY <1>0, <2>1, <2>2 DEF TypeOK
    <3>. QED BY <2>1, <2>2, <3>1, LeaseUnchanged
  <2>3. CASE /\ ~NoFreePort(pool)
             /\ port' = [port EXCEPT ![j] = PortTaken(pool)]
             /\ pc' = [pc EXCEPT ![j] = IF CopyGame THEN "copy" ELSE "launch"]
    <3>1. PortTaken(pool) \in Ports /\ PortTaken(pool) \in ToSet(pool)
      BY <1>0, <2>3, TakePort DEF TypeOK, PortsAccountedFor
    <3>2. \A h \in Jobs : port[h] # PortTaken(pool)
      BY <1>0, <3>1 DEF PortsAccountedFor
    <3>3. \A k \in Jobs : pc'[k] \notin {"idle", "rejected"}
                             <=> k = j \/ pc[k] \notin {"idle", "rejected"}
      BY <1>0, <2>3 DEF TypeOK
    <3>4. PICK p \in Ports : p = PortTaken(pool)
      BY <3>1
    <3>5. Lease!Grant(j, p)
      BY <2>1, <2>3, <3>2, <3>3, <3>4 DEF Lease!Grant, Live
    <3>. QED BY <3>5 DEF Lease!Next
  <2>. QED BY <1>1, <2>2, <2>3 DEF CreateGame
<1>2. CASE CancelJob(j) \/ TerminateRequest(j) \/ TimerFires(j) \/ Untrack(j)
  BY <1>2, LeaseUnchanged DEF CancelJob, TerminateRequest, TimerFires, Untrack,
    jobVars
<1>3. CASE ReadPrefs(j)
  <2>1. UNCHANGED <<port, awards, pc>>
    BY <1>3 DEF ReadPrefs, jobVars
  <2>2. \A k \in Jobs : /\ Live(k)' <=> Live(k)
                        /\ child'[k] # "none" <=> child[k] # "none"
    BY <1>0, <1>3 DEF ReadPrefs, TypeOK, Live
  <2>. QED BY <2>1, <2>2 DEF Lease!vars
<1>4. CASE ChildExits(j)
  <2>1. UNCHANGED <<port, awards, pc>> /\ Live(j)
    BY <1>4 DEF ChildExits, jobVars
  <2>2. \A k \in Jobs : /\ Live(k)' <=> Live(k) /\ k # j
                        /\ child'[k] # "none" <=> child[k] # "none"
    BY <1>0, <1>4 DEF ChildExits, TypeOK, Live
  <2>3. Lease!Stop(j)
    BY <2>1, <2>2 DEF Lease!Stop
  <2>. QED BY <2>3 DEF Lease!Next
<1>. QED BY <1>1, <1>2, <1>3, <1>4

LEMMA LeaseTerminateStep ==
  ASSUME LifecycleInv, NEW c \in Callers, NEW j \in Jobs, TerminateStep(c, j)
  PROVE  [Lease!Next]_(Lease!vars)
<1>0. TypeOK /\ PortsAccountedFor /\ \A k \in Jobs : LocalInv(k)
  BY InvParts
<1>1. CASE KillChild(c, j)
  <2>1. UNCHANGED <<port, awards, pc>> /\ tpc[c][j] = "kill"
    BY <1>1 DEF KillChild, jobVars
  <2>2. child[j] # "none"
    BY <1>0, <2>1 DEF LocalInv, CallerInv, GameInv
  <2>3. \A k \in Jobs : /\ Live(k)' <=> Live(k) /\ k # j
                        /\ child'[k] # "none" <=> child[k] # "none"
    BY <1>0, <1>1, <2>2 DEF KillChild, TypeOK, Live
  <2>4. CASE Live(j)
    <3>1. Lease!Stop(j)
      BY <2>1, <2>3, <2>4 DEF Lease!Stop
    <3>. QED BY <3>1 DEF Lease!Next
  <2>5. CASE ~Live(j)
    BY <2>1, <2>3, <2>5 DEF Lease!vars
  <2>. QED BY <2>4, <2>5
<1>2. CASE ReleasePort(c, j)
  <2>1. game[j] = "killed" /\ UNCHANGED <<child, awards, pc>>
    BY <1>0, <1>2 DEF ReleasePort, LocalInv, CallerInv, jobVars
  <2>2. child[j] = "dead" /\ port[j] # NoPort
    BY <1>0, <2>1 DEF LocalInv, GameInv
  <2>3. Lease!GiveUp(j)
    BY <1>2, <2>1, <2>2 DEF ReleasePort, Lease!GiveUp, Live
  <2>. QED BY <2>3 DEF Lease!Next
<1>3. CASE Rank(c, j)
  <2>1. UNCHANGED <<port, child, pc>> /\ tpc[c][j] = "rank"
    BY <1>3 DEF Rank, jobVars
  <2>2. awards[j] = 0 /\ child[j] = "dead" /\ port[j] = NoPort
    BY <1>0, <2>1 DEF LocalInv, CallerInv, GameInv, Ending
  <2>3. CASE awards' = awards
    BY <2>1, <2>3, LeaseUnchanged
  <2>4. CASE awards' = [awards EXCEPT ![j] = awards[j] + 1]
    <3>1. awards' = [awards EXCEPT ![j] = 1]
      BY <2>2, <2>4
    <3>2. Lease!Award(j)
      BY <2>1, <2>2, <3>1 DEF Lease!Award, Live
    <3>. QED BY <3>2 DEF Lease!Next
  <2>. QED BY <1>3, <2>3, <2>4 DEF Rank
<1>. QED BY <1>1, <1>2, <1>3 DEF TerminateStep

THEOREM LifecycleImplementsLease == Spec => ImplementsLease
<1>1. LifecycleInv /\ [Next]_vars => [Lease!Next]_(Lease!vars)
  <2> SUFFICES ASSUME LifecycleInv, [Next]_vars PROVE [Lease!Next]_(Lease!vars)
    OBVIOUS
  <2>1. CASE UNCHANGED vars
    BY <2>1, LeaseUnchanged DEF vars
  <2>2. CASE Next
    BY <2>2, LeaseJobStep, LeaseRequestStep, LeaseTerminateStep DEF Next
  <2>. QED BY <2>1, <2>2
<1>. QED BY <1>1, LeaseInit, InvHolds, PTL DEF Spec, ImplementsLease, Lease!Spec
=============================================================================
