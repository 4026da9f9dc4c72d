----------------------------- MODULE ReleaseLoad -----------------------------
(***************************************************************************)
(* Releases of the download server: jobs that load the files of a          *)
(* directory into the database (DirectoryLoadJob.cpp), beside the admin    *)
(* who adds, cancels and activates, and the clients that ask which files   *)
(* the latest release has.                                                 *)
(*                                                                         *)
(* Each transaction is one step.  SQLite may refuse any write (nothing     *)
(* waits for a lock), and the server may be stopped between two steps.     *)
(* Foreign keys are declared in the database, but SQLite heeds them only   *)
(* on connections that ask it to, and none does.                           *)
(***************************************************************************)
EXTENDS Integers, FiniteSets

CONSTANTS Jobs,       \* jobs that are ever started
          Releases,   \* numbers of releases
          Paths,      \* the files of the directory that is loaded
          Blocks,     \* Blocks[p]: how many blocks the file p has, one at least
          Clients,
          MaxFileId   \* bounds the ids of files; more than are ever given out

ASSUME ReleasesAssumption == Releases \subseteq Nat
ASSUME BlocksAssumption == Blocks \in [Paths -> Nat \ {0}]
ASSUME MaxFileIdAssumption == MaxFileId \in Nat

VARIABLES
  rows, active, count,  \* table releases: the ids, and its columns
  files,     \* table files
  blocks,    \* table file_blocks, a hash by the file it is of
  pc,        \* where each job is
  rel,       \* its release_id_
  left,      \* the files its directory iterators have not come to
  cur,       \* the file whose hashes it has
  fileIndex, \* file_index_
  canceled,  \* the jobs that were canceled
  at, told, ids  \* of each client: where it is, the release it was told, its files

tables     == <<rows, active, count, files, blocks>>
jobVars    == <<pc, rel, left, cur, fileIndex, canceled>>
clientVars == <<at, told, ids>>
vars == <<tables, jobVars, clientVars>>

Running == {"add", "load", "insert", "rollback"}

FileRow  == [id : Nat, release : Releases, index : Nat, path : Paths]
BlockRow == [file : Nat, index : Nat, path : Paths]

TypeOK ==
  /\ rows \subseteq Releases /\ active \subseteq rows
  /\ count \in [Releases -> Nat]
  /\ files \subseteq FileRow /\ blocks \subseteq BlockRow
  /\ pc \in [Jobs -> Running \cup {"idle", "loaded", "canceled", "failed"}]
  /\ rel \in [Jobs -> Releases]
  /\ left \in [Jobs -> SUBSET Paths] /\ cur \in [Jobs -> SUBSET Paths]
  /\ fileIndex \in [Jobs -> Nat] /\ canceled \subseteq Jobs
  /\ at \in [Clients -> {"idle", "told", "listed", "refused", "misled"}]
  /\ told \in [Clients -> Releases] /\ ids \in [Clients -> SUBSET Nat]

Init ==
  /\ rows = {} /\ active = {} /\ count = [r \in Releases |-> 0]
  /\ files = {} /\ blocks = {}
  /\ pc = [j \in Jobs |-> "idle"] /\ rel \in [Jobs -> Releases]
  /\ left = [j \in Jobs |-> Paths] /\ cur = [j \in Jobs |-> {}]
  /\ fileIndex = [j \in Jobs |-> 0] /\ canceled = {}
  /\ at = [c \in Clients |-> "idle"] /\ told \in [Clients -> Releases]
  /\ ids = [c \in Clients |-> {}]

Goto(j, point) == pc' = [pc EXCEPT ![j] = point]

FilesOf(r) == {f \in files : f.release = r}
BlockRows(i, p) == {[file |-> i, index |-> n, path |-> p] : n \in 0 .. Blocks[p] - 1}
BlocksOf(i) == {b \in blocks : b.file = i}

(***************************************************************************)
(* The admin.                                                              *)
(***************************************************************************)
\* /release/add: a job is started unless there is such a release.
AddRequest(j) ==
  /\ pc[j] = "idle"
  /\ rel[j] \notin rows
  /\ Goto(j, "add")
  /\ UNCHANGED <<tables, rel, left, cur, fileIndex, canceled, clientVars>>

\* /job/cancel
CancelJob(j) ==
  /\ pc[j] \in Running
  /\ canceled' = canceled \cup {j}
  /\ UNCHANGED <<tables, pc, rel, left, cur, fileIndex, clientVars>>

\* /release/set_active, of whatever id
SetActive(r) ==
  /\ r \in rows
  /\ active' \in {active \cup {r}, active \ {r}}
  /\ UNCHANGED <<rows, count, files, blocks, jobVars, clientVars>>

(***************************************************************************)
(* A job.                                                                  *)
(***************************************************************************)
\* An exception that is none of a cancel: the job ends and leaves what it has loaded.
Fails(j) ==
  /\ pc[j] \in Running
  /\ Goto(j, "failed")
  /\ UNCHANGED <<tables, rel, left, cur, fileIndex, canceled, clientVars>>

\* Faulty variants: every exception rolls back; the count is entered at once.
AddOrRollBack(j) ==
  /\ pc[j] = "add"
  /\ Goto(j, IF rel[j] \in rows THEN "rollback" ELSE "load")
  /\ rows' = rows \cup {rel[j]}
  /\ UNCHANGED <<active, count, files, blocks, rel, left, cur, fileIndex, canceled, clientVars>>
AddCounted(j) ==
  /\ pc[j] = "add" /\ rel[j] \notin rows
  /\ Goto(j, "load")
  /\ rows' = rows \cup {rel[j]}
  /\ count' = [count EXCEPT ![rel[j]] = Cardinality(Paths)]
  /\ UNCHANGED <<active, files, blocks, rel, left, cur, fileIndex, canceled, clientVars>>

\* The id is the primary key: another job may have been faster.
AddRelease(j) ==
  /\ pc[j] = "add"
  /\ IF rel[j] \in rows
       THEN Goto(j, "failed") /\ UNCHANGED rows
       ELSE Goto(j, "load") /\ rows' = rows \cup {rel[j]}
  /\ UNCHANGED <<active, count, files, blocks, rel, left, cur, fileIndex, canceled, clientVars>>

\* SimpleJob::update_status
CheckCancel(j, point) == Goto(j, IF j \in canceled THEN "rollback" ELSE point)

HashFile(j) ==
  /\ pc[j] = "load"
  /\ \E p \in left[j] :
       /\ cur' = [cur EXCEPT ![j] = {p}]
       /\ left' = [left EXCEPT ![j] = @ \ {p}]
  /\ CheckCancel(j, "insert")
  /\ UNCHANGED <<tables, rel, fileIndex, canceled, clientVars>>

\* The id SQLite gives a new file: one more than the greatest there is.
NextIds ==
  {i \in 1 .. MaxFileId :
     /\ \A f \in files : f.id < i
     /\ i > 1 => \E f \in files : f.id + 1 = i}

\* Faulty variant: the rows that are left over are kept (INSERT OR IGNORE).
InsertOrIgnore(j) ==
  /\ pc[j] = "insert"
  /\ CheckCancel(j, "load")
  /\ fileIndex' = [fileIndex EXCEPT ![j] = @ + 1]
  /\ IF pc'[j] = "load"
       THEN \E i \in NextIds, p \in cur[j] :
              /\ files' = files \cup {[id |-> i, release |-> rel[j],
                                       index |-> fileIndex[j], path |-> p]}
              /\ blocks' = blocks \cup {b \in BlockRows(i, p) :
                                          \A a \in BlocksOf(i) : a.index # b.index}
       ELSE UNCHANGED <<files, blocks>>
  /\ cur' = [cur EXCEPT ![j] = {}]
  /\ UNCHANGED <<rows, active, count, rel, left, canceled, clientVars>>

\* One transaction for the file and its blocks, whose primary key is the id of the file
\* with the index: a row that was left over from an earlier file makes it fail.
InsertFile(j) ==
  /\ pc[j] = "insert"
  /\ CheckCancel(j, IF \E i \in NextIds : BlocksOf(i) # {} THEN "failed" ELSE "load")
  /\ fileIndex' = [fileIndex EXCEPT ![j] = @ + 1]
  /\ IF pc'[j] = "load"
       THEN \E i \in NextIds, p \in cur[j] :
              /\ files' = files \cup {[id |-> i, release |-> rel[j],
                                       index |-> fileIndex[j], path |-> p]}
              /\ blocks' = blocks \cup BlockRows(i, p)
       ELSE UNCHANGED <<files, blocks>>
  /\ cur' = [cur EXCEPT ![j] = {}]
  /\ UNCHANGED <<rows, active, count, rel, left, canceled, clientVars>>

UpdateFileCount(j) ==
  /\ pc[j] = "load" /\ left[j] = {}
  /\ count' = [count EXCEPT ![rel[j]] = fileIndex[j]]
  /\ Goto(j, "loaded")
  /\ UNCHANGED <<rows, active, files, blocks, rel, left, cur, fileIndex, canceled, clientVars>>

\* roll_back
RollBack(j) ==
  /\ pc[j] = "rollback"
  /\ files' = files \ FilesOf(rel[j])
  /\ Goto(j, "canceled")
  /\ UNCHANGED <<rows, active, count, blocks, rel, left, cur, fileIndex, canceled, clientVars>>

\* The server is stopped, and started again.
Restart ==
  /\ pc' = [j \in Jobs |-> IF pc[j] \in Running THEN "failed" ELSE pc[j]]
  /\ pc' # pc
  /\ UNCHANGED <<tables, rel, left, cur, fileIndex, canceled, clientVars>>

(***************************************************************************)
(* The clients.                                                            *)
(***************************************************************************)
\* GetLatestReleaseReq.  To ask for the files of a release without a count is an error.
\* When no release is active the answer is a row that was never filled in, with any id
\* and any count: such a client is not followed any further.
GetLatestRelease(c) ==
  /\ at[c] = "idle"
  /\ \/ \E r \in active :
          /\ \A s \in active : s <= r
          /\ told' = [told EXCEPT ![c] = r]
          /\ at' = [at EXCEPT ![c] = IF count[r] > 0 THEN "told" ELSE "refused"]
     \/ /\ active = {}
        /\ told' \in {[told EXCEPT ![c] = r] : r \in Releases}
        /\ at' = [at EXCEPT ![c] = "misled"]
  /\ UNCHANGED <<tables, jobVars, ids>>

\* GetFileIDsInReleaseReq for as many files as the client was told
GetFileIDs(c) ==
  /\ at[c] = "told"
  /\ ids' = [ids EXCEPT ![c] = {f.id : f \in FilesOf(told[c])}]
  /\ at' = [at EXCEPT ![c] = "listed"]
  /\ UNCHANGED <<tables, jobVars, told>>

-----------------------------------------------------------------------------
Job(j) ==
  \/ AddRelease(j) \/ HashFile(j) \/ InsertFile(j) \/ UpdateFileCount(j) \/ RollBack(j)
  \/ Fails(j)

Next ==
  \/ \E j \in Jobs : AddRequest(j) \/ CancelJob(j) \/ Job(j)
  \/ \E r \in Releases : SetActive(r)
  \/ \E c \in Clients : GetLatestRelease(c) \/ GetFileIDs(c)
  \/ Restart

Spec == Init /\ [][Next]_vars

-----------------------------------------------------------------------------
(***************************************************************************)
(* Properties.                                                             *)
(***************************************************************************)
\* The blocks listed for a file are those of the file, all of them and no others.
BlocksAreOfFile ==
  \A f \in files : BlocksOf(f.id) = BlockRows(f.id, f.path)

\* A release is loaded whole or, if its load was canceled, not at all, whatever jobs for it
\* were started, canceled or broken off beside that one: with a file count it has each file
\* of the directory under a number of its own below the count; a canceled load leaves no
\* file, and none comes back.
CountedIsComplete ==
  \A r \in Releases : count[r] > 0 =>
    /\ {f.path : f \in FilesOf(r)} = Paths
    /\ {f.index : f \in FilesOf(r)} = 0 .. count[r] - 1
    /\ \A f, g \in FilesOf(r) : f.index = g.index => f = g
CanceledLeavesNoFile ==
  \A j \in Jobs : pc[j] = "canceled" => FilesOf(rel[j]) = {}
AllOrNothing == CountedIsComplete /\ CanceledLeavesNoFile

\* A client that was told of files is given all of them, and keeps finding them.
ClientFindsRelease ==
  \A c \in Clients : at[c] = "listed" =>
    {f.path : f \in {g \in files : g.id \in ids[c] /\ g.release = told[c]}} = Paths

\* Once a release has its count it is final: no load that was started beside it, no
\* roll-back and no restart adds a file to it or takes one away.
CountedIsFinal ==
  [][\A r \in Releases : count[r] > 0 =>
       count'[r] = count[r] /\ FilesOf(r)' = FilesOf(r)]_vars

\* The id of a file is never given to another file, not even after a roll-back has
\* removed the first: the blocks that stay behind occupy it.  Streams that are kept by
\* the id of their file (FileSession) rely on this.
NamesOnly(i, p) == \A f \in files : f.id = i => f.path = p
IdsNameOneFile ==
  \A i \in 1 .. MaxFileId, p \in Paths :
    []((\E f \in files : f.id = i /\ f.path = p) => []NamesOnly(i, p))

\* The inductive invariant: a release belongs to the one job that added it (OwnerInv),
\* ids of files are used once (FileInv), and what a job has loaded of its release is what
\* its iterators have passed (LoadInv).  A client has been told of a release with a count
\* (ClientInv).
Owners == {j \in Jobs : pc[j] \in {"load", "insert", "rollback", "canceled", "loaded"}}
OwnerInv ==
  /\ \A j \in Owners : rel[j] \in rows
  /\ \A j, k \in Owners : rel[j] = rel[k] => j = k
  /\ \A r \in Releases : count[r] > 0 =>
       r \in rows /\ \A j \in Owners : rel[j] = r => pc[j] = "loaded"
FileInv ==
  /\ \A f \in files : f.release \in rows
  /\ \A f, g \in files : f.id = g.id => f = g
LoadInv ==
  /\ \A j \in Jobs : pc[j] \in {"idle", "add"} =>
       left[j] = Paths /\ cur[j] = {} /\ fileIndex[j] = 0
  /\ \A j \in Jobs : pc[j] = "load" => cur[j] = {}
  /\ \A j \in Jobs : pc[j] = "insert" => \E p \in Paths \ left[j] : cur[j] = {p}
  /\ \A j \in Jobs : pc[j] \in {"load", "insert"} =>
       /\ {f.path : f \in FilesOf(rel[j])} = Paths \ (left[j] \cup cur[j])
       /\ {f.index : f \in FilesOf(rel[j])} = 0 .. fileIndex[j] - 1
       /\ \A f, g \in FilesOf(rel[j]) : f.index = g.index => f = g
ClientInv ==
  \A c \in Clients : at[c] \in {"told", "listed"} => count[told[c]] > 0
ReleaseInv ==
  /\ TypeOK /\ OwnerInv /\ FileInv /\ LoadInv
  /\ BlocksAreOfFile /\ CountedIsComplete /\ CanceledLeavesNoFile
=============================================================================
