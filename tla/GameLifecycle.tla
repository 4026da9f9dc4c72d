--------------------------- MODULE GameLifecycle ---------------------------
(***************************************************************************)
(* The life of a game server, from POST /game/create to the award of its   *)
(* ranking points: GameAdminServices, the LaunchGameJob running on a       *)
(* thread of its own, GameManager::add, the Game object with its child     *)
(* process, the end-of-game timer and GameManager's terminate_game.        *)
(*                                                                         *)
(* A game is named by the job that launches it: job ids and the game ids   *)
(* (AUTOINCREMENT rows of table games) are both never reused.  One action  *)
(* is what a thread does between two points where another thread or the    *)
(* child process can interfere; what runs under one mutex is one action.   *)
(***************************************************************************)
EXTENDS PortManager

CONSTANTS Jobs,       \* launch jobs that may be created: bounds the run
          CopyGame    \* config copy_game: does a game get a directory of its own

ASSUME CopyGameAssumption == CopyGame \in BOOLEAN

\* The threads that call terminate_game: the timer's handler and /game/terminate.
Callers == {"timer", "admin"}

\* Where a server_prefs.cs is: the shared game_dir, or the job's own temp_dir.
\* A game directory is named by the job that owns it.
SharedDir == "game_dir"
Dirs      == Jobs \union {SharedDir}
\* Faulty variant: the copied directory is not the one written to.
SharedDirOf(j) == SharedDir
DirOf(j)  == IF CopyGame THEN j ELSE SharedDir

ASSUME DirAssumption == SharedDir \notin Jobs

VARIABLES
  up,          \* the master server process is alive
  pool,        \* PortManager::Impl::ports_
  pc,          \* where the job's thread is
  canceled,    \* SimpleJob::canceled_
  port,        \* the port of the Reservation the job created, wherever it moved
  game,        \* where the Game object is
  rows,        \* games with a row in table games
  child,       \* the game server process
  listen,      \* the port the game server read from its server_prefs.cs
  prefs,       \* the last $Pref::Server::Port line of each server_prefs.cs
  tempDir,     \* jobs whose temporary directory exists
  timer,       \* the asynchronous wait of terminate_timer
  timers,      \* keys of terminate_timers_
  early,       \* games whose timer fired before add() put them in the map
  tpc,         \* where a caller of terminate_game is, for each game
  awards       \* committed runs of set_player_rank_and_update_total_score

jobVars  == <<pc, canceled>>
fsVars   == <<prefs, tempDir>>
timeVars == <<timer, timers, early>>
vars == <<up, pool, pc, canceled, port, game, rows, child, listen, prefs,
          tempDir, timer, timers, early, tpc, awards>>

(***************************************************************************)
(* States of the parts.                                                    *)
(***************************************************************************)
\* Points of LaunchGameJob::run at which update_status checks canceled_ next.
Cancelable == {"copy", "level", "launch"}
\* Inside GameManager::add.
Adding     == {"insert", "arm", "track", "start", "unwind"}
JobStates  == {"idle", "rejected", "config", "cleanup", "finish", "done"}
                \union Cancelable \union Adding
\* The job's worker is in JobManager's workers_.
Working(j) == pc[j] \notin {"idle", "rejected", "done"}

GameStates  == {"none", "adding", "running", "removed", "killed", "gone"}
ChildStates == {"none", "starting", "up", "dead"}
Live(j)     == child[j] \in {"starting", "up"}
Ending      == {"kill", "release", "rank"}

TypeOK ==
  /\ up \in BOOLEAN
  /\ pool \in Seq(Ports)
  /\ pc \in [Jobs -> JobStates]
  /\ canceled \in [Jobs -> BOOLEAN]
  /\ port \in [Jobs -> Ports \union {NoPort}]
  /\ game \in [Jobs -> GameStates]
  /\ rows \subseteq Jobs
  /\ child \in [Jobs -> ChildStates]
  /\ listen \in [Jobs -> Ports \union {NoPort}]
  /\ prefs \in [Dirs -> Ports \union {NoPort}]
  /\ tempDir \subseteq Jobs
  /\ timer \in [Jobs -> {"none", "armed", "fired"}]
  /\ timers \subseteq Jobs
  /\ early \subseteq Jobs
  /\ tpc \in [Callers -> [Jobs -> Ending \union {"idle", "untrack"}]]
  /\ awards \in [Jobs -> Nat]

Init ==
  /\ up = TRUE
  /\ pool = FullPool
  /\ pc = [j \in Jobs |-> "idle"]
  /\ canceled = [j \in Jobs |-> FALSE]
  /\ port = [j \in Jobs |-> NoPort]
  /\ game = [j \in Jobs |-> "none"]
  /\ rows = {}
  /\ child = [j \in Jobs |-> "none"]
  /\ listen = [j \in Jobs |-> NoPort]
  /\ prefs = [d \in Dirs |-> NoPort]
  /\ tempDir = {}
  /\ timer = [j \in Jobs |-> "none"]
  /\ timers = {}
  /\ early = {}
  /\ tpc = [c \in Callers |-> [j \in Jobs |-> "idle"]]
  /\ awards = [j \in Jobs |-> 0]

(***************************************************************************)
(* Requests of the admin client.                                           *)
(***************************************************************************)
\* /game/create for a level that exists.  The temporary directory is made
\* first; the times are parsed and the port is reserved after it, and either
\* can throw.  JobManager::start then runs the job on a new thread.
CreateGame(j) ==
  /\ up /\ pc[j] = "idle"
  /\ tempDir' = tempDir \union {j}
  /\ \/ /\ pc' = [pc EXCEPT ![j] = "rejected"]   \* bad time, or no free port
        /\ UNCHANGED <<pool, port>>
     \/ /\ ~NoFreePort(pool)
        /\ port' = [port EXCEPT ![j] = PortTaken(pool)]
        /\ pool' = PoolAfter(pool)
        /\ pc' = [pc EXCEPT ![j] = IF CopyGame THEN "copy" ELSE "launch"]
  /\ UNCHANGED <<up, canceled, game, rows, child, listen, prefs, timeVars, tpc,
                 awards>>

\* /job/cancel for a job whose worker is still listed.
CancelJob(j) ==
  /\ up /\ Working(j)
  /\ canceled' = [canceled EXCEPT ![j] = TRUE]
  /\ UNCHANGED <<up, pool, pc, port, game, rows, child, listen, fsVars,
                 timeVars, tpc, awards>>

(***************************************************************************)
(* LaunchGameJob::run.  An exception at any point before add() goes to the *)
(* handler that cleans up.                                                 *)
(***************************************************************************)
JobGoto(j, s) ==
  /\ pc' = [pc EXCEPT ![j] = s]
  /\ UNCHANGED <<up, pool, canceled, port, game, rows, child, listen, fsVars,
                 timeVars, tpc, awards>>

\* update_status throws JobCanceledException, or the step itself throws.
Throw(j) == JobGoto(j, "cleanup")

CopyGameFiles(j) ==
  /\ up /\ pc[j] = "copy"
  /\ Throw(j) \/ (~canceled[j] /\ JobGoto(j, "level"))

CopyLevelFile(j) ==
  /\ up /\ pc[j] = "level"
  /\ Throw(j) \/ (~canceled[j] /\ JobGoto(j, "launch"))

\* Faulty variant: update_status does not look at canceled_.
LaunchCanceled(j) == up /\ pc[j] = "launch" /\ JobGoto(j, "config")

\* update_status("launching game server"): the last look at canceled_.
LastCancelPoint(j) ==
  /\ up /\ pc[j] = "launch"
  /\ IF canceled[j] THEN Throw(j) ELSE JobGoto(j, "config")

\* write_game_config appends the port to server_prefs.cs; Game::create moves
\* the Reservation into a new Game, the argument of add().
WriteGameConfig(j) ==
  /\ up /\ pc[j] = "config"
  /\ \/ Throw(j)
     \/ /\ prefs' = [prefs EXCEPT ![DirOf(j)] = port[j]]
        /\ pc' = [pc EXCEPT ![j] = "insert"]
        /\ game' = [game EXCEPT ![j] = "adding"]
        /\ UNCHANGED <<up, pool, canceled, port, rows, child, listen, tempDir,
                       timeVars, tpc, awards>>

\* remove_directory and cleanup_directory delete a copied game directory file
\* by file; an error on the way is dropped or logged and leaves the directory.
RemoveDirectory(j) ==
  tempDir' \in IF CopyGame THEN {tempDir, tempDir \ {j}} ELSE {tempDir}

\* The catch block of run.
CleanUp(j) ==
  /\ up /\ pc[j] = "cleanup"
  /\ pc' = [pc EXCEPT ![j] = "finish"]
  /\ RemoveDirectory(j)
  /\ UNCHANGED <<up, pool, canceled, port, game, rows, child, listen, prefs,
                 timeVars, tpc, awards>>

\* Faulty variants of worker_finished: the copied directory is removed with the
\* job; the job leaks its Reservation.
FinishRemovesDirectory(j) ==
  /\ up /\ pc[j] = "finish"
  /\ pc' = [pc EXCEPT ![j] = "done"]
  /\ tempDir' = tempDir \ {j}
  /\ UNCHANGED <<up, pool, canceled, port, game, rows, child, listen, prefs,
                 timeVars, tpc, awards>>
FinishLeaksPort(j) == up /\ pc[j] = "finish" /\ JobGoto(j, "done")

\* worker_finished erases the worker, and with it the job and its canceled_.  Its
\* Reservation still holds the port if the job never reached Game::create.
JobFinished(j) ==
  /\ up /\ pc[j] = "finish"
  /\ pc' = [pc EXCEPT ![j] = "done"]
  /\ canceled' = [canceled EXCEPT ![j] = FALSE]
  /\ IF game[j] = "none"
       THEN /\ pool' = GiveBack(pool, port[j])
            /\ port' = [port EXCEPT ![j] = NoPort]
       ELSE UNCHANGED <<pool, port>>
  /\ UNCHANGED <<up, game, rows, child, listen, fsVars, timeVars, tpc, awards>>

(***************************************************************************)
(* GameManager::add, on the job's thread.                                  *)
(***************************************************************************)
InsertRow(j) ==
  /\ up /\ pc[j] = "insert"
  /\ \/ JobGoto(j, "unwind")
     \/ /\ rows' = rows \union {j}
        /\ pc' = [pc EXCEPT ![j] = "arm"]
        /\ UNCHANGED <<up, pool, canceled, port, game, child, listen, fsVars,
                       timeVars, tpc, awards>>

\* Faulty variant: the asynchronous wait is never started.
ArmNothing(j) == up /\ pc[j] = "arm" /\ JobGoto(j, "track")

\* An end time in the past throws; otherwise the wait starts at once, before
\* the game is in the map.
ArmTimer(j) ==
  /\ up /\ pc[j] = "arm"
  /\ \/ JobGoto(j, "unwind")
     \/ /\ timer' = [timer EXCEPT ![j] = "armed"]
        /\ pc' = [pc EXCEPT ![j] = "track"]
        /\ UNCHANGED <<up, pool, canceled, port, game, rows, child, listen,
                       fsVars, timers, early, tpc, awards>>

\* terminate_timers_ has no lock: another thread at its own access to the map, be it
\* the early handler of the same game, makes this one a data race, and the process may
\* not survive it.
TimerMapRace(j) ==
  \/ \E k \in Jobs \ {j} : pc[k] = "track" \/ tpc["timer"][k] = "untrack"
  \/ pc[j] = "track" /\ tpc["timer"][j] = "untrack"

TrackTimer(j) ==
  /\ up /\ pc[j] = "track"
  /\ up' \in (IF TimerMapRace(j) THEN BOOLEAN ELSE {TRUE})
  /\ timers' = timers \union {j}
  /\ pc' = [pc EXCEPT ![j] = "start"]
  /\ UNCHANGED <<pool, canceled, port, game, rows, child, listen, fsVars, timer,
                 early, tpc, awards>>

\* Under mutex_: launch the child (which may throw) and enter the map.
LaunchGame(j) ==
  /\ up /\ pc[j] = "start"
  /\ \/ JobGoto(j, "unwind")
     \/ /\ child' = [child EXCEPT ![j] = "starting"]
        /\ game' = [game EXCEPT ![j] = "running"]
        /\ pc' = [pc EXCEPT ![j] = "finish"]
        /\ UNCHANGED <<up, pool, canceled, port, rows, listen, fsVars, timeVars,
                       tpc, awards>>

\* The exception destroys the Game argument of add(): its directory is cleaned
\* up and its Reservation gives the port back, before the job's catch block.
UnwindAdd(j) ==
  /\ up /\ pc[j] = "unwind"
  /\ pc' = [pc EXCEPT ![j] = "cleanup"]
  /\ game' = [game EXCEPT ![j] = "gone"]
  /\ RemoveDirectory(j)
  /\ pool' = GiveBack(pool, port[j])
  /\ port' = [port EXCEPT ![j] = NoPort]
  /\ UNCHANGED <<up, canceled, rows, child, listen, prefs, timeVars, tpc, awards>>

(***************************************************************************)
(* The game server process, a program of its own.  The model follows it   *)
(* for as long as the master server lives.                                 *)
(***************************************************************************)
\* It reads server_prefs.cs some time after it was launched, and opens the
\* port of the last line that sets one.
ReadPrefs(j) ==
  /\ up /\ child[j] = "starting"
  /\ child' = [child EXCEPT ![j] = "up"]
  /\ listen' = [listen EXCEPT ![j] = prefs[DirOf(j)]]
  /\ UNCHANGED <<up, pool, jobVars, port, game, rows, fsVars, timeVars, tpc,
                 awards>>

\* It ends by itself.  The console thread notes Status::Terminated; the Game
\* stays in the map and keeps its port.
ChildExits(j) ==
  /\ up /\ Live(j)
  /\ child' = [child EXCEPT ![j] = "dead"]
  /\ listen' = [listen EXCEPT ![j] = NoPort]
  /\ UNCHANGED <<up, pool, jobVars, port, game, rows, fsVars, timeVars,
                 tpc, awards>>

(***************************************************************************)
(* GameManager::terminate_game, called by the timer's handler and by       *)
(* /game/terminate.                                                        *)
(***************************************************************************)
\* Where caller c goes when terminate_game returns: the timer's handler still
\* has to erase the timer.
Return(c) == IF c = "timer" THEN "untrack" ELSE "idle"

\* Faulty variant: the entry stays in the map.
TakeOutKeepsEntry(c, j) ==
  /\ tpc' = [tpc EXCEPT ![c][j] = IF game[j] = "running" THEN "kill" ELSE Return(c)]
  /\ UNCHANGED game

\* Under mutex_: find the game, move it out of the map, erase the entry.
TakeOut(c, j) ==
  IF game[j] = "running"
    THEN /\ game' = [game EXCEPT ![j] = "removed"]
         /\ tpc' = [tpc EXCEPT ![c][j] = "kill"]
    ELSE /\ tpc' = [tpc EXCEPT ![c][j] = Return(c)]
         /\ UNCHANGED game

\* The wait ends (the handler does not look at its error code).  Nothing stops
\* this from happening before add() has put the game in the map.
TimerFires(j) ==
  /\ up /\ timer[j] = "armed"
  /\ timer' = [timer EXCEPT ![j] = "fired"]
  /\ early' = IF game[j] = "adding" THEN early \union {j} ELSE early
  /\ TakeOut("timer", j)
  /\ UNCHANGED <<up, pool, jobVars, port, rows, child, listen, fsVars, timers,
                 awards>>

TerminateRequest(j) ==
  /\ up /\ tpc["admin"][j] = "idle" /\ game[j] = "running"
  /\ TakeOut("admin", j)
  /\ UNCHANGED <<up, pool, jobVars, port, rows, child, listen, fsVars, timeVars,
                 awards>>

\* Faulty variant: ~Impl waits for a process that is gone already.
KillOnlyLive(c, j) ==
  /\ Live(j) /\ tpc[c][j] = "kill"
  /\ child' = [child EXCEPT ![j] = "dead"]
  /\ listen' = [listen EXCEPT ![j] = NoPort]
  /\ game' = [game EXCEPT ![j] = "killed"]
  /\ tpc' = [tpc EXCEPT ![c][j] = "release"]
  /\ UNCHANGED <<up, pool, jobVars, port, rows, fsVars, timeVars, awards>>

\* game_to_terminate = Game{} runs ~Impl: kill the child and join the console
\* thread, clean up the directory, ...
KillChild(c, j) ==
  /\ up /\ tpc[c][j] = "kill"
  /\ child' = [child EXCEPT ![j] = "dead"]
  /\ listen' = [listen EXCEPT ![j] = NoPort]
  /\ game' = [game EXCEPT ![j] = "killed"]
  /\ tpc' = [tpc EXCEPT ![c][j] = "release"]
  /\ RemoveDirectory(j)
  /\ UNCHANGED <<up, pool, jobVars, port, rows, prefs, timeVars, awards>>

\* ... then destroy the members, the Reservation among them.
ReleasePort(c, j) ==
  /\ up /\ tpc[c][j] = "release"
  /\ pool' = GiveBack(pool, port[j])
  /\ port' = [port EXCEPT ![j] = NoPort]
  /\ game' = [game EXCEPT ![j] = "gone"]
  /\ tpc' = [tpc EXCEPT ![c][j] = "rank"]
  /\ UNCHANGED <<up, jobVars, rows, child, listen, fsVars, timeVars, awards>>

\* The ranking transaction commits, or throws (the database is busy): an HTTP
\* handler's exception is logged, one of a timer handler ends the process.
Rank(c, j) ==
  /\ up /\ tpc[c][j] = "rank"
  /\ \/ /\ awards' = [awards EXCEPT ![j] = @ + 1]
        /\ tpc' = [tpc EXCEPT ![c][j] = Return(c)]
        /\ up' = TRUE
     \/ /\ tpc' = [tpc EXCEPT ![c][j] = "idle"]
        /\ up' = (c # "timer")
        /\ UNCHANGED awards
  /\ UNCHANGED <<pool, jobVars, port, game, rows, child, listen, fsVars, timeVars>>

\* The handler erases its timer, again without a lock.
Untrack(j) ==
  /\ up /\ tpc["timer"][j] = "untrack"
  /\ up' \in (IF TimerMapRace(j) THEN BOOLEAN ELSE {TRUE})
  /\ timers' = timers \ {j}
  /\ tpc' = [tpc EXCEPT !["timer"][j] = "idle"]
  /\ UNCHANGED <<pool, jobVars, port, game, rows, child, listen, fsVars, timer,
                 early, awards>>

-----------------------------------------------------------------------------
JobStep(j) ==
  \/ CopyGameFiles(j) \/ CopyLevelFile(j) \/ LastCancelPoint(j)
  \/ WriteGameConfig(j) \/ InsertRow(j) \/ ArmTimer(j) \/ TrackTimer(j)
  \/ LaunchGame(j) \/ UnwindAdd(j) \/ CleanUp(j) \/ JobFinished(j)

TerminateStep(c, j) == KillChild(c, j) \/ ReleasePort(c, j) \/ Rank(c, j)

Next ==
  \E j \in Jobs :
    \/ CreateGame(j) \/ CancelJob(j) \/ TerminateRequest(j)
    \/ JobStep(j)
    \/ ReadPrefs(j) \/ ChildExits(j)
    \/ TimerFires(j) \/ Untrack(j)
    \/ \E c \in Callers : TerminateStep(c, j)

Spec == Init /\ [][Next]_vars

\* Threads run, and every end time comes; nobody has to send a request, and a
\* game server need not end by itself.
Fairness ==
  \A j \in Jobs :
    /\ WF_vars(JobStep(j))
    /\ WF_vars(TimerFires(j))
    /\ WF_vars(Untrack(j))
    /\ \A c \in Callers : WF_vars(TerminateStep(c, j))

FairSpec == Spec /\ Fairness

-----------------------------------------------------------------------------
(***************************************************************************)
(* Properties.                                                             *)
(***************************************************************************)
\* The pool and the live Reservations share the ports out: each port is in the
\* vector exactly once, or held by exactly one Reservation, through every move
\* of a Reservation (job, Game, map, local of terminate_game) and every
\* exception that destroys one.
PortsAccountedFor ==
  /\ IsInjective(pool)
  /\ \A p \in Ports : p \in ToSet(pool) <=> \A j \in Jobs : port[j] # p
  /\ \A j, k \in Jobs : port[j] = port[k] /\ port[j] # NoPort => j = k

\* The Reservation of a game outlives its process: ~Impl kills the child before
\* the port goes back, so no game is launched on a port still being served.
LiveGameHoldsPort == \A j \in Jobs : Live(j) => port[j] # NoPort

\* A game server serves the port reserved for its game, the one the log names
\* ("launching game directory ... on port ...").
ListensOnOwnPort == \A j \in Jobs : child[j] = "up" => listen[j] = port[j]

\* No clean-up (the job's catch block, ~Impl) deletes the copied directory of a
\* game server that is running in it.
LiveGameHasDirectory ==
  CopyGame => \A j \in Jobs : Live(j) => j \in tempDir

\* Ranking adds points to members.total_score, so it must not be repeated: at
\* most one of the timer and the admin requests gets to rank a game, and only
\* after its process is gone and its port returned.
AwardedOnce ==
  \A j \in Jobs : awards[j] > 0 => /\ awards[j] = 1
                                  /\ game[j] = "gone"
                                  /\ child[j] = "dead"
                                  /\ \A c \in Callers : tpc[c][j] \notin Ending

\* A running game has an armed timer to end it, unless that timer fired while
\* add() had not yet entered the game in running_games_.
TimedUnlessEarly ==
  \A j \in Jobs : game[j] = "running" => timer[j] = "armed" \/ j \in early

\* A job canceled before its last check of canceled_ never leaves a row in
\* table games nor launches a server, whatever the other threads do.
CanceledNeverLaunches ==
  \A j \in Jobs :
    [](canceled[j] /\ pc[j] \in Cancelable => [](j \notin rows /\ child[j] = "none"))

\* Every port comes back to the pool: the job fails, or its game is ended by
\* the timer or an admin.  Excepted are a game whose timer fired too early,
\* which runs until an admin ends it, and the death of the master server.
PortComesBack ==
  \A j \in Jobs : port[j] # NoPort ~> port[j] = NoPort \/ j \in early \/ ~up

\* A game that was taken out of the map is ranked, or its transaction failed
\* and nobody will try again: what was begun by terminate_game is not left half
\* done for any other reason.
RemovedIsRanked ==
  \A j \in Jobs : game[j] = "removed" ~>
    \/ ~up \/ awards[j] = 1
    \/ game[j] = "gone" /\ \A c \in Callers : tpc[c][j] = "idle"

\* The inductive invariant: how the points of the job's thread, the place of the
\* Game object, its process, its timer and the callers of terminate_game hang
\* together, for one game.
JobInv(j) ==
  /\ pc[j] \in {"idle", "rejected"} => port[j] = NoPort
  /\ pc[j] \in {"config"} \union Cancelable => port[j] # NoPort
  /\ pc[j] \in {"idle", "rejected", "config"} \union Cancelable => game[j] = "none"
  /\ pc[j] \in Adding <=> game[j] = "adding"
  /\ pc[j] = "cleanup" => game[j] \in {"none", "gone"} /\ child[j] = "none"
  /\ game[j] = "none" => timer[j] = "none" /\ j \notin rows
  /\ pc[j] \in {"insert", "arm"} => timer[j] = "none"
  /\ pc[j] \in {"track", "start"} => timer[j] = "armed" \/ j \in early
GameInv(j) ==
  /\ game[j] \in {"adding", "running", "removed", "killed"} => port[j] # NoPort
  /\ game[j] = "gone" => port[j] = NoPort
  /\ Live(j) => game[j] \in {"running", "removed"}
  /\ game[j] \in {"none", "adding"} <=> child[j] = "none" /\ game[j] # "gone"
  /\ game[j] = "killed" => child[j] = "dead"
CallerInv(c, j) ==
  /\ tpc[c][j] = "kill" => game[j] = "removed"
  /\ tpc[c][j] = "release" => game[j] = "killed"
  /\ tpc[c][j] = "rank" => game[j] = "gone" /\ child[j] = "dead"
  /\ tpc[c][j] \in Ending => /\ awards[j] = 0
                             /\ \A d \in Callers \ {c} : tpc[d][j] \notin Ending
LifecycleInv ==
  /\ TypeOK
  /\ PortsAccountedFor
  /\ \A j \in Jobs : JobInv(j) /\ GameInv(j) /\ \A c \in Callers : CallerInv(c, j)
  /\ AwardedOnce
  /\ TimedUnlessEarly

\* What the rest of the system relies on: ports are leased to one game at a
\* time for as long as its process lives, and each game is awarded once.
Lease == INSTANCE GameLease WITH
           Games   <- Jobs,
           holds   <- port,
           served  <- {j \in Jobs : pc[j] \notin {"idle", "rejected"}},
           live    <- {j \in Jobs : Live(j)},
           started <- {j \in Jobs : child[j] # "none"},
           awarded <- awards
ImplementsLease == Lease!Spec
=============================================================================
