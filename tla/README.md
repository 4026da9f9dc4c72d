# Verification of the orienteering game server

TLA+ modules, TLC runs and TLAPS proofs for the game server in this repository: a
C++14 master server that launches one game server process per game, keeps players,
scores, levels and purchases in SQLite, and a download server that serves releases.
The repository has no documentation of its own and no tests; every definition is
translated from the source, and `PROJECT.json` ("map") names the lines.

- [The system](#the-system): components, their state, what is hard, what makes them correct
- [Modules](#modules): what models what, and how it corresponds to the code
- [Runs](#runs): what TLC checks, bounds, fairness
- [Proofs](#proofs): what holds for every value of the constants, and why
- [Findings](#findings)
- [Limits](#limits): what is abstracted, only model-checked, or left out
- [Plan](#plan)

## The system

`master_server.cpp` builds everything and runs one `io_service` on four threads per core
(`util/io_worker.cpp`): a handler may run on any of them at the same time as any
other, and an exception that leaves a handler ends the process. Long operations run as
jobs, each on a thread of its own (`job/JobManager.cpp`). Clients and game servers talk
to the message server over TLS (`net/`), admins to the HTTP server (`http/`), and the
master server itself is a client of a game center, over HTTP, when items are bought.

| component | state | operations | hard about it | correct when |
|---|---|---|---|---|
| Port pool (`game/PortManager.cpp`) | vector of free UDP ports | reserve, give back in a destructor | a Reservation moves through four owners | each port is free once or held once |
| Game lifecycle (`GameAdminServices`, `LaunchGameJob`, `GameManager`, `Game`) | map of running games, timers, child processes, directories | create, cancel, launch, end by timer or admin, rank | threads, a timer that is armed before its game is known, exceptions on every way | a port is served by its game only; a game is ended and ranked once |
| Scores (`GameManager`, `GameRecordDB`, `GameHistoryDB`) | `game_records`, `game_history`, `members.total_score`, checkpoint counts | connect, drop, score, checkpoint count, direct pass time, ranking | a map read without its lock, several transactions per request, SQLite refusing when busy | ranks, points and times agree |
| Item purchases (`ItemServices`, `Equip_history`, `Equip_list`) | rows of purchases, one retry timer | purchase, answer, retry | remote calls with lost answers, retries beside the call they retry, restarts | charged or refused once, delivered exactly if charged, settled in the end |
| Job manager (`job/`) | map of workers | start, cancel, list, finish | a worker's thread erases its own owner, perhaps while that is being constructed | an id that is not found is of a job that is over; a worker is freed, and not in use |
| Message server (`net/MessageServer.cpp`) | one buffer, positions and an idle timer per connection | read header, read body, handle, write | callbacks, the timer and the connection's mutex | one answer per request, in order; only idle connections are ended |
| TLS listener, handshaker | two accepting sockets on one port, their timers, handshakes in progress | accept, try again, hand on, dispose; handshake, give up | exceptions at any point; timeout against completion | the port is never deaf; a connection is handed on once, or closed |
| HTTP server (`http/HttpServer.cpp`) | up to eight queued answers per session, a timer | read, queue, write, time out | pipelining, back pressure | answers in order of requests; reading resumes |
| Futures (`net/Future.h`) | value, exception or continuation | none: no part of the servers makes one | | |
| Members (`UserManageServices`, `Member`, `Equipment`) | `members`, `equipment` | notify a login, create, give, deliver, use | found, then inserted, statement by statement and beside deliveries | what a member has is what it was given and bought, less what it used |
| Login and tokens (`UserManageServices`, `TokenServices`) | nonce and user of a session, `tokens` | challenge, login, issue, verify | tokens replace each other | a token verifies for its user until replaced or expired |
| Levels (`LevelServices`, `LevelUploadJob`) | `levels`, their blocks | upload, download | upload beside download | blocks belong to the level they are listed for |
| Release loading (`download_server`) | `releases`, `files`, `file_blocks` | load, cancel, activate | partial loads, roll-back, reuse of ids | an active release is complete |
| File download (`CommonClientServices`) | a stream per connection | get data | a stream kept across requests | the data is that of the file asked for |
| Launcher of the download server (`master_server.cpp`) | child process, stop flag | start, wait, start again | stop at any point of the loop | no child is left, and one runs otherwise |
| Logger | queue of lines | write | writers against the log's thread | lines in order, none lost |

How they interact: admin request -> `GameAdminServices` -> job -> `GameManager::add` ->
`Game::launch`; the game server process -> message server -> `GameService` ->
`GameManager` -> database; timer or admin -> `terminate_game` -> port pool and ranking;
player -> `ItemServices` -> game center and database; a login -> `Member::insert` ->
`Equipment::insert`, which deliveries call too. They share `GameManager`'s maps,
the port pool (by value, in reservations) and the database file.

`PROJECT.json` lists every component with its status, and every hazard with its line and
the properties that cover it, or why none does yet.

## Modules

### PortManager, GameLifecycle, GameLease

`PortManager` has the pool as operators on a sequence; each runs under the pool's mutex
in the code, so using one inside an action is faithful. The pool is a stack: the port that
came back last is given out first, which is what makes an early return dangerous.

`GameLifecycle` follows a game from `POST /game/create` to the award of its points. One
action is what one thread does between two points where another can interfere.

| code | model |
|---|---|
| `/game/create` | `CreateGame`: temporary directory, then times and port, each of which may throw |
| `LaunchGameJob::run` | `pc[j]`: `CopyGameFiles`, `CopyLevelFile`, `LastCancelPoint`, `WriteGameConfig`; `CleanUp` is its catch block |
| `SimpleJob::update_status` | the guard on `canceled[j]` in those steps |
| `GameManager::add` | `InsertRow`, `ArmTimer`, `TrackTimer`, `LaunchGame`; `UnwindAdd` destroys the `Game` argument |
| `JobManager::worker_finished` | `JobFinished`, which destroys the job's Reservation if it was not moved |
| the game server | `ReadPrefs` (it reads its port some time after it was launched), `ChildExits` |
| `terminate_game` | for each caller, `TakeOut`, `KillChild`, `ReleasePort`, `Rank` |
| timer handler | `TimerFires`, then `Untrack` |
| `terminate_timers_` without a lock | `TimerMapRace`: two threads at the map (of two games, or `add` and the early handler of the same game), after which the process may be dead |

A game is named by the job that launches it: both ids are never reused. `GameLease` is the
abstract specification: a game leases a port nobody holds, its process runs only while it
holds the lease, and it is awarded at most once, after the lease ended. `Lease` in
`GameLifecycle` is the refinement mapping.

### GameScores

The requests about one game on several connections, its entry into the map, and its end.
The model starts when `add` has launched the game server: requests may come before the
game is in `running_games_` (`EnterMap`), and find nothing there. Each transaction is the unit SQLite makes it: what a transaction writes appears at its commit,
`writer` holds the write lock from a score's first write to its commit, and any write may be refused
(the busy timeout is 0). A `BEGIN` takes no lock: the ranking (`Rank`) of a game that
somebody finished is refused while a score transaction is open, whereas that of a game
nobody finished only reads, and commits beside a score that is still to be committed. What is outside a transaction is interleaved: the search of
`running_games_` and its use (`Find`, `Use`), the three statements of
`process_connect_player`, the row and the running game's checkpoint count.

`overlap`, `late` and `early` are history variables: they remember whose requests were
handled at the same time, whose pass time was set directly after the ranking, and whether
the last checkpoint count was handled before the game was in the map, so that the
properties can say exactly when the guarantee is lost in the code.

### Purchases, Sale

`PurchaseItem` commits a pending row (`PurchaseItem`), sets `retry_timer_` (`ArmTimer`),
calls the game center (`CallCenter`) and handles the answer in one transaction
(`CommitAnswer`); `GiveUp` is its catch block. The timer's callback is `TimerFires`,
`PickPending` or `PickFails`, after which it goes through the same steps as the request.
The call blocks its thread without a timeout, so the callback can send the same row while
the first call waits. `Crash` and `Restart` keep the rows and the game center's memory.

Some buyers have no row in `members` (`strangers`) until they get one (`Register`). What
such a buyer is delivered goes to member id 0, which may have one row of the item
(`nobodys`); the delivery that would add a second one breaks the key of `equipment`
(`Refused`), so `CommitAnswer` rolls back the answer and the closing of the row with it, at
this call and at each retry.

The game center is not in the repository. It is modelled from its use: it charges or
refuses, and the constant `Idempotent` says whether it answers a transaction it has seen
as before, under the same id. `Sale` is what a purchase promises: charged or refused once,
delivered exactly if charged.

### Members

The first login of a name is notified by the client (`OnNotifyLoginNameReq`): the name is
looked for, inserted, and given its starting items one after the other. None of this is in
a transaction, so each statement is a step, and deliveries, uses, the same notification
again and a crash come between. `Equipment::insert` is two steps where it finds no row and
one where it does: a `SELECT` that has a row keeps its read lock until the statement is
destroyed, and nothing writes before the `UPDATE`.

| code | model |
|---|---|
| `OnNotifyLoginNameReq`, `Member::find_by_login_name` | `Notify`, `Answer` |
| `Member::insert` | `InsertMember`, then `GiveFound` or `FindNoRow` and `InsertItem` for each item |
| a statement that is refused, the process ending | `Fails`, `Restart` |
| `Equipment::insert` inside the transaction of a purchase's answer (`CommitAnswer` of `Purchases`) | `DeliverItem` |
| `DecreaseItemCntReq`, `decrease_item_cnt` | `UseItem` |

`Alike[n]` is what `login_name LIKE n` finds. `given`, `bought`, `lost` and `broken` are
history: they say what a member should have, so that the counts can be held against it.
`given` says that a gift was handed out under a name, even where `LIKE` put it into
another's row; `EquippedUnlessBroken` therefore reads the tables, not `given`.

### JobManager

`job::Manager` and its workers. `start()` holds the mutex while it makes the entry, the
`Worker` and its thread, in the order C++14 allows; the thread runs beside it.

| code | model |
|---|---|
| `Impl::start` | `Start`, `StartReturns`; `ThreadFails` when `std::thread` throws |
| constructor of `Worker` | `ThreadStarts`, up to `StartReturns` |
| the thread of the worker | `RunEnds`, `Detach`, then `WorkerFinished` with `~Worker` |
| `/job/cancel`, `/job/info`, `/job/list` | `CancelJob`, `MissJob` (not found), `UseNull` (an entry without a worker) |

`GameLifecycle` and `ReleaseLoad` have the jobs that run on such threads, and take
`start()` and `worker_finished()` as one step each: `MissedIsOver` and `OverIsFreed` are
what they rely on.

### TlsListener

The two acceptors of a message server's port. Each has a mutex, so what a handler does is
one step; the constructor starts them before `run_io_workers` starts the threads.

| code | model |
|---|---|
| `start`, `start_locked` | `StartListener`; `StartLocked`, which is `Listen` or, after an exception, `RetryLater` |
| completion of `async_accept`, `on_accept_locked` | `AcceptCompletes`, with `Reject` (an error, or `remote_endpoint()` throws as the client is gone), `Drop` (any other exception up to the post: a live client is dropped) or `HandOn` |
| `initialize_connection_locked` | the `posted` connection, then `CallBack`, or `CallBackThrows` and the connection is dropped |
| `retry_timer_` | `RetryExpires`, then `Retry` |
| `dispose`, handlers that come after it | `Dispose`; `LateCompletion`, `Retry` of one that is disposed |
| the system: connecting, accepting | `Connect`, `AcceptSucceeds`, `AcceptFails`, `CanBind`, `Takes` |

`dualStack` is what the system says of IPv6 sockets, chosen at the start: with it, only
one of the listeners can have the port, and it takes the clients the other would. The
check of `original_acceptor` in the completion never tells anything apart: `start_locked`
makes a new acceptor only when no accept is under way. What `CallBack` begins is the start
of `MessageConnection`. The servers themselves never dispose of their listener.

Its definitions, like those of `FileSession`, have names of their own (`ListenerNext`,
`FilesNext`): `ServerProofs` extends these two beside `JobManager`.

### MessageConnection, RequestReply

`MessageConnection` follows one client of the message server from the TLS handshake to
the end of its object. Completions, timers and handlers run on any io thread; those of a
`MessageClient` take its mutex, so one step is what is done under the mutex at one go.
Bytes are counted, not looked at: a header is `HeaderLen` long, and a read may deliver any
part of what was sent.

| code | model |
|---|---|
| `TlsHandshaker::begin_handshake` | `Init`; its timer `HandshakeTimerExpires`, `HandshakeTimesOut`; its completion `HandshakeCompletes` or `HandshakeFails` |
| constructor of `MessageClient` throwing | `ServeThrows`, which ends the process |
| `reset_timeout_locked` | `ResetTimeout` inside each step that waits for the client; `TimeoutExpires`, then the handler `TimeOut` |
| `on_receive_header`, `on_receive_body` | `ReceiveHeader`, `ReceiveRest`, which go on reading or begin `ProcessMessage`; `ReceiveAstray` after a length below the header's, see below |
| `process_message_locked` | `ProcessMessage`, then `HandlerReturns` (an answer, or an `ErrorResponse` when the handler threw); an exception while the next read or write is begun is only logged |
| `on_transmit` | `Transmit`, which begins the next header |
| `close_locked` | `Close`, inside the steps that close; `Fails` is an operation that completes with an error |

A wait that has expired is out of reach of the timer: `expires_from_now` cancels waits
that are pending only. `wait` and `due` keep pending and expired waits apart.

The length in a header is checked against the maximum only. A client may send one below
the length of the header itself (`TooShort`): what is left to read wraps around, the reads
go on, and the position leaves `msg_buf`. What the program does then is undefined, so the
model records the position and takes the process to have ended; up to there every property
of the connection is held to it.

`RequestReply` is what a client relies on with either server: answers in the order of the
requests, each at most once, none after the end. The constant `Skips` tells the servers
apart: the message server never skips a request, the HTTP server leaves one unanswered
when handling it throws outside the handler's own try block (a handler's exception
becomes an error answer).

### HttpSession

A TLS session of the HTTP server. All its completions run in one strand, so each is one
step; what is hard is not threads but that up to three operations and a timer are under
way together, and that nothing but they hold the session.

| code | model |
|---|---|
| `TlsSession::run`, `on_handshake` | `Init`, `Handshake` |
| `do_read`, `expires_after` | `ReadOn`, `SetTimer`: a pending wait is canceled, its handler will be called |
| `on_read` with `Queue::operator()` | `ReadRequest` (with or without an answer), `ReadEnds` |
| `on_write` with `Queue::on_write` | `WriteAnswer`, `WriteNext`, `WriteFails` |
| `do_close`, `on_shutdown` | `DoClose`, `Shutdown` |
| `on_timer`, `do_timeout` | `DeadlinePasses`, `TimerExpires`, `OnTimer`, `DoTimeout` |

`Freed` is the session without an operation or a wait: no `shared_ptr` is left, and the
destructor closes the socket.

### ReleaseLoad

The download server's tables of releases, files and blocks, the jobs that load a directory
into them, and the admin and clients beside them. Each transaction is a step, since SQLite
makes it one; any write may be refused, and the server may be stopped in between.

| code | model |
|---|---|
| `/release/add`, `/release/set_active`, `/job/cancel` | `AddRequest`, `SetActive`, `CancelJob` |
| `DirectoryLoadJob::add_release` | `AddRelease`, which may meet a release another job was faster to add |
| `load_file`, until it has the hashes | `HashFile`, then `CheckCancel` |
| `load_file`, its transaction | `InsertFile`, under the id SQLite gives (`NextIds`) |
| `update_release_file_count`, `roll_back` | `UpdateFileCount`, `RollBack` |
| the catch block of `run()` that only logs | `Fails` |
| the launcher starting the server again | `Restart`: jobs are gone, rows stay |
| `GetLatestReleaseReq`, `GetFileIDsInReleaseReq` | `GetLatestRelease` (with no active release it answers a row that was never read: the client is `"misled"`), `GetFileIDs` |

The order in which a directory is listed is any order; a subdirectory is more paths. The
schema declares that rows of blocks go with their file, but SQLite heeds foreign keys only
on connections that ask it to, and none does: `RollBack` leaves `blocks` alone.

### FileSession

The stream that `GetFileDataReq` (download server) and `GetLevelDataReq` (master server)
keep per connection, with the id it was opened for. The two handlers are the same but for
a `close()` before `open()`, which the variable `server` tells apart. The state of the `std::ifstream` is
whether it is open, on what, and `good()`; the comment of the module says what `open`,
`close` and `read` do to it. `GetFileData` is the handler, split by its outcome:
`ReadKept`, `LookUpFails`, `Open`. A request may ask for id 0, which names no file but is
what a new connection keeps, so it is answered with no bytes. Rows and files change between requests; which file an
id is for does not, which is `IdsNameOneFile` of `ReleaseLoad`.

## Runs

| run | question | bounds | result |
|---|---|---|---|
| `lifecycle` | do ports, processes, directories, timers and awards stay consistent, is a cancel obeyed, and is the lease implemented? | 2 jobs, 2 ports, a directory each | holds |
| `lifecycle_live` | does every port come back, is every ended game ranked? | 2 jobs, 1 port, the shared directory of the shipped configuration | holds under fairness |
| `shared_prefs` | does each game server listen on its own port with a shared directory? | 2 jobs, 2 ports | violated |
| `jobs` | is a job that is not found over, is each worker freed and not in use, what ends the process? | 3 jobs | holds, also under fairness |
| `scores` | do records, times, ranks, points and counts agree? | 2 players, 2 connections, points and times 0..1; `FewOverlaps`: one player (or the count) at a time in `overlap`, one in `late` | holds |
| `purchases` | are purchases settled right, and nothing delivered that was not paid for, with an idempotent game center? | 2 purchases, 2 threads, 3 faults, buyers with a member row or without | holds, also under fairness |
| `members` | do the tables hold what members were given and bought, whoever comes between? | 3 names, two of them confused, 2 items, 2 notifications, 2 deliveries or uses | holds |
| `listener` | does each listener go on in exactly one way, is a client served? | 2 listeners, dual stack or not, 3 clients, 3 faults | holds, also under fairness |
| `connection` | is the buffer used once, the socket owned once, each request answered in order, and does each connection end? | header of 2 bytes, messages up to 4, lengths one below the header's and one above the maximum too, 2 requests, 1 exception | holds, also under fairness |
| `http` | are pipelined answers in order, is reading resumed, is each session shut down and freed? | queue of 2, 4 requests, 1 handler that throws | holds, also under fairness |
| `releases` | are counted releases complete, canceled ones empty, blocks those of their file, and do clients find what they were told of? | 2 jobs, 2 releases, 2 files of 1 and 2 blocks, 1 client | holds |
| `files` | is the data that of the file asked for? | either server, 2 files, one shorter than a block, blocks 0..2 | holds |

Why the bounds are enough: every race in these modules is between two actors (two jobs
for a port or for the timer map, timer and admin for one game, two connections for one
player, a request and a retry for one row), and each needs one more object only to be
told from the first. With two ports and two jobs the stack order of the pool matters; with
one port and two jobs the pool runs empty. Two players are what a ranking needs to be
wrong, two times make one better. Three faults allow a lost answer, a failed retry and a
crash in one run. `GameScores` needs no bound on steps: its state
is finite. Its run has one constraint, `FewOverlaps`: the history variables `overlap` and
`late`, which only excuse players from a property, name one player each, so that of two
players one is always held to it; the proofs have no such bound.
A header of two bytes is the shortest that arrives in parts; two requests follow each
other through one buffer; a message longer than its header, and one that is not, are both
there. A queue of two with four requests is full, is emptied by one and filled again.
Two loads are for two releases or for one; the file of two blocks is put where one of one
block was, and the other way round, when ids are used again. A stream knows two files
apart, the last block from others, and a file without a whole block.
Three jobs let one be started while one ends and one is looked for. Two notifications are
of one name, of two that are confused or of two that are not; a third name stays without a
member, and a delivery to it goes to nobody. Three faults take the port from each listener
and leave one more for the accept that follows.
The jobs, purchases, requests and faults are used up, so these models stop by themselves and
`CHECK_DEADLOCK` is off for them; it is on for `scores` and `files`.

Fairness. `lifecycle_live`: each thread that can run runs, and each timer that is armed
fires (`WF` for the steps of a job, a timer handler, a termination); nothing is assumed of
admins, nor that a game server ends by itself. Weak fairness is enough, as each step stays enabled until it
is taken. `purchases`: threads run, the timer fires, and the game center answers the calls it
gets. The last is an assumption about the environment the code depends on and does not
enforce: the call has no timeout. `connection`: timers expire and their handlers run,
message handlers return, operations that have failed complete; nothing is assumed of
clients or the network, which may stay silent. `http`: the strand
runs, time passes, and operations on a connection the client has closed or lost complete.
`jobs`: threads run and get the mutex; a job may take any time, but one that was canceled
ends, since it comes to `update_status` or to its end. `listener`: the constructor ends,
threads run, timers expire, the system takes clients from the queue of a socket that
listens, and a client that has not given up, or was dropped, tries again; exceptions are bounded, as nothing
is served where each attempt throws.

Each property has a mutant, a plausible bug in one definition that breaks it; they are the
"Faulty variant" operators beside the definitions they replace.

## Proofs

`GameLifecycleProofs` begins with the pool: taking a port from one without duplicates and
giving it back keep it so, and the first pool is every port once. Then, for any number of jobs and any port range. The properties are not
inductive by themselves: that the timer and an admin cannot both rank a game depends on
where the `Game` object is, which depends on where its job is. `LifecycleInv` ties these
together for each game: `JobInv` (the job's point and the object), `GameInv` (the object,
its port, its process), `CallerInv` (a caller between two steps of `terminate_game`, and
no other caller there). Each action has a lemma. From it follow `PortsAccountedFor`,
`LiveGameHoldsPort`, `AwardedOnce`, `TimedUnlessEarly`. `CanceledNeverLaunches` needs a
second step invariant, that a canceled job stays short of `add()`;
`ListensOnOwnPort` (with `CopyGame`) one more, that a directory of its own names the port
of its job; `LiveGameHasDirectory` a third, that the directory is there from the request to
one of the clean-ups, none of which comes while the process lives. `ImplementsLease`
maps each step to one of the lease or to a stutter.

`GameScoresProofs`: for any number of players and connections. `RankInv` says that only
the connection with the write lock is inside a score transaction, and that one which can
still store a pass time after the ranking is there only if the ranking wrote nothing, and
no other pass time was missed before: this is why `RankingMatchesTimes` may speak of at
most one `Missed` player, and of none when anybody has a rank. `RequestInv` says that
without a noted overlap nothing comes between the statements of a request, `CountInv` that
the counts agree from the launch on, not only from the map entry. `PlacesAreFilled` is
about the ranking itself: the places that players get in the order of their pass times
are 1, 2, ... without a gap (`PlacesAreTaken`).

`PurchasesProofs`: for any number of purchases, threads and faults. `AnswerInv`: a
recorded answer has closed its row. `IdempotentInv`: the price was taken at most once, and
delivered with the row's closing. `ThreadInv`: what a thread holds is the game center's
word. `ImplementsSale` follows for an idempotent game center. `DeliveredIsCharged` is
proved for any game center, also one that takes a repeated transaction for a new one: each
delivery, and each thread that is about to deliver, has a charge of its own (`ChargeInv`).
`SettledIsFinal`: a late answer or a retry finds its row closed and changes nothing.

`ServerProofs` has the three small components of the servers. The job manager, for any
number of jobs: `JobInv` ties the call of `start()`, the entry, the worker and the thread
of one job together; none of the three properties is inductive without it, since a worker
may be freed only if its thread has detached, which needs a complete worker, which needs a
`start()` that has returned. The listeners, for any clients and faults: `OneContinuation`
needs that nothing happens before the constructor and that `current_accepting_` is set
exactly while a completion waits (`ListenerInv`); with it, no retry can overwrite a client
that was accepted: it is handed on, or lost by giving up or by an exception of its own
hand-over, never by one of the accept that is started after it (`AcceptedIsHandedOn`). The file stream, for any files and numbers of
blocks: `DataIsOfFile` needs that a stream that is open and good is open on the file of
the id that is kept with it (`FilesInv`); a stream that is not good may be open on another.

`MembersProofs`: for any names, items, requests and patterns. `ItemsAccounted` needs that
rows and gifts are of members only (`RowInv`), and that one request alone creates a member
and gives each item once (`GiverInv`); `EquippedUnlessBroken` that what was not given is
still in its hands (`GiftInv`), and that what was given is in a row that the name is found
to have (`FoundInv`). `NothingLost` is about two sums, over the owners and over
the names. What a fold over a set computes is shown without induction: a set for which the
claim fails would have a smallest subset for which it fails (`SmallestSubset`, from the
library's theorem that the subsets of a finite set are well-founded), and that one is
refuted by taking an element away. From it: a sum exists for each finite set (`SumsExist`),
and changing the function at one point changes its sum by as much (`SumChange`).

`MessageConnectionProofs`: for any lengths and numbers of requests. `PhaseInv` says which
one operation is under way in each phase; `PositionInv` that positions lie in the buffer,
unless a length below the header's was sent and the process has ended by it; `OwnerInv`
that handshake and client object are not alive together; `NewInv` what is still untouched
before the client object exists. `ImplementsReplies`: each step maps to one of
`RequestReply` with `Skips` false, or to a stutter.

`HttpSessionProofs`: for every limit of the queue. `NeverStuckNorTwice` alone is not
inductive: an answer that ends the connection stays in the queue, and a failed read must
not leave a full queue behind (`FlowInv`). The order of the answers needs the order of
the queue, and that each written answer is of an earlier request than each queued one
(`OrderInv`). `NoAnswerIsLost` and `SessionIsWatched` follow along the same invariant.

`ReleaseLoadProofs`: for any number of jobs, releases, files and blocks. That a counted
release is complete needs that nobody else loads into it or rolls it back: `OwnerInv`, a
release belongs to the one job that added its row. `LoadInv`: the files of a release that
is being loaded are those its job has passed. `FileInv`: no two files have one id, so a
transaction that is refused for an old row of a block leaves the blocks of others alone.
`ClientFindsRelease` and `CountedIsFinal` follow from `CountedIsKept`: a release with a
count keeps it and its files. `IdsNameOneFile` needs that rows of blocks are never removed
(`BlocksStay`): those that a roll-back leaves behind make a second use of an id fail.

Assumptions of the proofs are the named ones of the modules: the ports are numbers, the
constants `None`, `Nothing`, `Nobody`, `Unknown` and `SharedDir` are none of the objects, the
bounds are natural numbers, the sets of players and of names are finite, a name is like
itself.

Only model-checked: the properties under fairness (`PortComesBack`, `RemovedIsRanked`,
`PendingIsSettled`, `ConnectionEnds`, `SessionShutsDown`, `SessionFreed`, `OverIsFreed`,
`ClientsAreServed`), which are out of the prover's reach. Every safety property of the
passing runs is proved.

Proved and not checked by a run of their own: `LiveGameHoldsPort`, `AwardedOnce` and
`ClosedIsBalanced`, since a checked refinement says the same, and `AcceptedIsHandedOn`,
`PlacesAreFilled`, `CountedIsFinal`, `IdsNameOneFile`, `NoAnswerIsLost`,
`SessionIsWatched`, `SettledIsFinal`. These were proved after TLC had found no violation
on the instances of the runs of their modules.

## Findings

- With `copy_game = false`, as the shipped configuration has it, all games append their
  port to one `server_prefs.cs`; two launches close together leave a game server on the
  other's port (`shared_prefs`).

Met while modelling, and in the models as they are, without a run of their own:

- `Equip_list::update_stock` (`Equip_list.cpp:49`) prepares its statement and never executes
  it, so "out of stock" is never caused by sales (`IsHavingStock`).
- The idle timer's handler (`MessageServer.cpp:83`) does not look whether the deadline has
  moved: a wait that expired just before a message arrived closes the connection before
  that message is answered (`TimeOut`). `Session::on_timer` of the HTTP server does look.
- `TlsSession::do_timeout` (`HttpServer.cpp:387`) closes nothing. When the shutdown it began
  times out in turn, a client that stays silent keeps the session and its socket for ever
  (`DoTimeout`), which the comments at `on_timer` and `on_shutdown` do not expect.
- A job whose thread is done before `Worker`'s constructor has assigned `thread_`
  (`JobManager.cpp:34`, `51`) detaches nothing, which throws and ends the process (`Detach`).
  If no thread can be started, `workers_` may keep a null pointer, which the next `/job/list`
  uses (`UseNull`).
- `Member::insert` is not a transaction: an interruption leaves a member without starting
  items for ever (`broken`). It answers the last rowid of the connection, which is that of
  a row of equipment by then (`Member.cpp:35`), and `isSucceed` is not set for a new member
  (`UserManageServices.cpp:296`).
- `Equipment::insert` finds the row to add to with `LIKE` (`Equipment.cpp:128`): names that
  differ in case, or contain `_` or `%`, get each other's items (`Found`).
- An item for a name without a member goes to id 0 (`lost` in `Members`, `nobodys` in
  `Purchases`). A second one of the same item breaks the primary key, inside the transaction
  that closes the purchase: charged, it stays pending and is sent again every five seconds,
  for ever unless the buyer becomes a member (`Refused`). The retry takes one row of a
  `SELECT` without an order, so it may never come to the rows behind (`Blocked`).
- The ranking of a game that nobody had finished takes no write lock
  (`GameHistoryDB.cpp:154`): a score transaction that is open at that moment may store a
  pass time which is never ranked (`Missed`).
- `set_game_checkpointcount` (`GameManager.cpp:203`) between the launch of the game server
  and its map entry (`GameManager.cpp:199`) sets the row of the game, but never the running
  game, which goes on with the old count (`early`).
- `get_latest_release` without an active release answers a `Releases_Model` whose id nobody
  has set (`Releases_Model.h:9`): the client is told of a release that need not exist
  (`"misled"`).
- An exception in `on_accept_locked` or in the callback (`TlsListener.cpp:124`, `140`)
  drops the connection of a client that is still there (`Drop`, `CallBackThrows`).
- A message length below the header's is not refused (`MessageServer.cpp:152`); the
  computation of what is left to read (`MessageServer.cpp:173`) is not meant for it
  (`ReceiveAstray`).
- A call to the game center has no timeout, and the retry is set before it
  (`ItemServices.cpp:250`): a silent game center takes one more io thread every five seconds.
- Where an IPv6 socket takes IPv4 clients too, the listener for IPv6 cannot have the port
  while the other has it: it fails every minute, and clients over IPv6 are refused
  (`CanBind`). It is the reserve of the other all the same, as `ClientsAreServed` shows.

Behaviours the properties make room for, because the code has them: a timer that fires
before its game is in the map (`early` of `GameLifecycle`), a checkpoint count that comes
before the map entry (`early` of `GameScores`), two rows in `game_records` after overlapping
requests (`overlap`), a pass time without a rank when it is set after the ranking
(`late`) or beside one that ranked nobody (`Missed`), a purchase whose delivery is refused
again and again (`Blocked`), a message length that is not checked (`Astray`), a refused ranking that nobody repeats, a chain of retries that ends with a
database error or a restart (`stopped`). In `ReleaseLoad`, `roll_back` leaves the rows of
blocks of the files it removes, so the insert of the next file, which is given the id of a
removed one, fails, and with it every later load (`InsertFile` to `"failed"`). In
`FileSession`, a request for a file whose last block was read before fails on the download
server, since `open()` is called on an open stream (`Open`, first case); and after a
request for an unknown id the stream of the file before counts as usable though it is
closed, and that file's next request is answered with no bytes (`ReadFrom`, first case).

## Limits

- `GameLifecycle` ends with the death of the master server (`up`): game servers it leaves
  behind are not followed. A restart is in `GameScores` and `Purchases`, where the
  database survives.
- `GameLifecycle` starts and finishes a job in one step each; the race between a worker's
  constructor and its thread is in `JobManager`.
- `Members` gives the starting items in any order, and has two of the ten. Ids are not
  numbers there: a member stands for its name, neither of which changes.
- `TlsListener` does not tell the system's refusals apart, and its queue has no limit.
- The console thread ends with its game server; a pipe kept open by others is not modelled.
- `GameScores` has one game. Games share only the write lock of the database, and any
  write may be refused there anyway.
- Waiting times, numbers of players, names, texts and times of day are left out: no
  property depends on them.
- `Purchases` has one kind of item, one unit at a time.
- Data races on containers and timers are a step after which the process may have died,
  where the property can tell; elsewhere they are listed as hazards only.
- After a position has left `msg_buf` (`ReceiveAstray`) nothing more is modelled.
- A handler that runs longer than `idle_timeout` loses its answer: the wait expires while
  the handler holds the mutex. This is a case of the late timeout and is not told apart.
- Connections of the message server share only the table of handlers, complete before the
  first connection; what a handler does is in the modules of the components it calls.
- Operations under way together on one TLS stream (a read beside a shutdown) complete in
  any order, with success or an error; what OpenSSL does in between is not modelled.
- `ReleaseLoad` bounds the ids of files by `MaxFileId`, more than are given out; it loads one directory,
  whose contents do not change. A canceled load leaves its release without a count: that
  such a release can be activated, and is then refused to clients, is in the model.
- `FileSession` takes the path of an id as fixed: what is left of a removed file's blocks
  keeps its id from another file (`ReleaseLoad`), and levels are never removed.
- `PROJECT.json` says of each component what is not modelled.

## Plan

Done: port pool, game lifecycle, scores, purchases, members, jobs, listener, message
connection, HTTP session, releases and files.

Not modelled, and why:

- Tokens: each request is one transaction and each verification one query, which SQLite puts
  in an order; what is left is time and randomness. Challenge and login keep a nonce in
  their connection and change no table.
- Futures: nothing uses them.
- The launcher of the download server: one thread in a loop; its destructor, the only other
  actor, does not run, since `run_io_workers` does not return.
- The upload of a level: one job with one transaction.
- The logger: lines under one mutex.

What could come next: a game center that never answers, with the io threads counted and
`Purchases`, `Members` and the connections competing for them; `TlsListener` composed with
several `MessageConnection`s.
