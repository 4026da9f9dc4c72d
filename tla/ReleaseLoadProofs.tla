-------------------------- MODULE ReleaseLoadProofs --------------------------
(***************************************************************************)
(* Proofs about ReleaseLoad, for any number of jobs, releases, files and   *)
(* clients.                                                                *)
(***************************************************************************)
EXTENDS ReleaseLoad, TLAPS

LEMMA InitInv == Init => ReleaseInv
  BY ReleasesAssumption, BlocksAssumption
     DEF Init, ReleaseInv, TypeOK, OwnerInv, FileInv, LoadInv, Owners, FilesOf,
         BlocksAreOfFile, CountedIsComplete, CanceledLeavesNoFile, Running

\* Steps that leave the tables alone, and let jobs start or fail.
LEMMA QuietInv ==
  ASSUME ReleaseInv, TypeOK',
         UNCHANGED <<rows, count, files, blocks, rel, left, cur, fileIndex>>,
         \A j \in Jobs : \/ pc'[j] = pc[j]
                         \/ pc'[j] = "failed"
                         \/ pc[j] = "idle" /\ pc'[j] = "add"
  PROVE  ReleaseInv'
  <1> USE DEF ReleaseInv
  <1>1. OwnerInv'
    BY DEF OwnerInv, Owners
  <1>2. FileInv' /\ BlocksAreOfFile' /\ CountedIsComplete'
    BY DEF FileInv, BlocksAreOfFile, CountedIsComplete, BlocksOf, FilesOf, BlockRows
  <1>3. LoadInv' /\ CanceledLeavesNoFile'
    BY DEF LoadInv, CanceledLeavesNoFile, FilesOf
  <1> QED BY <1>1, <1>2, <1>3

LEMMA OutsideInv ==
  ASSUME ReleaseInv,
         \/ \E j \in Jobs : AddRequest(j) \/ CancelJob(j) \/ Fails(j)
         \/ \E r \in Releases : SetActive(r)
         \/ \E c \in Clients : GetLatestRelease(c) \/ GetFileIDs(c)
         \/ Restart
         \/ UNCHANGED vars
  PROVE  ReleaseInv'
  <1> USE DEF ReleaseInv, tables, jobVars, clientVars, Goto
  <1>1. ASSUME NEW j \in Jobs, AddRequest(j) \/ CancelJob(j) \/ Fails(j)
        PROVE  ReleaseInv'
    <2>1. TypeOK'
      BY <1>1 DEF AddRequest, CancelJob, Fails, TypeOK, Running
    <2>2. UNCHANGED <<rows, count, files, blocks, rel, left, cur, fileIndex>>
      BY <1>1 DEF AddRequest, CancelJob, Fails
    <2>3. \A k \in Jobs : \/ pc'[k] = pc[k]
                          \/ pc'[k] = "failed"
                          \/ pc[k] = "idle" /\ pc'[k] = "add"
      BY <1>1 DEF AddRequest, CancelJob, Fails, TypeOK
    <2> QED BY <2>1, <2>2, <2>3, QuietInv
  <1>2. ASSUME NEW r \in Releases, SetActive(r)
        PROVE  ReleaseInv'
    <2>1. TypeOK'
      BY <1>2 DEF SetActive, TypeOK
    <2> QED BY <1>2, <2>1, QuietInv DEF SetActive
  <1>3. ASSUME NEW c \in Clients, GetLatestRelease(c) \/ GetFileIDs(c)
        PROVE  ReleaseInv'
    <2>1. UNCHANGED <<tables, jobVars>>
      BY <1>3 DEF GetLatestRelease, GetFileIDs
    <2>2. /\ at' \in [Clients -> {"idle", "told", "listed", "refused", "misled"}]
          /\ told' \in [Clients -> Releases] /\ ids' \in [Clients -> SUBSET Nat]
      <3>1. CASE GetLatestRelease(c)
        BY <3>1 DEF GetLatestRelease, TypeOK
      <3>2. CASE GetFileIDs(c)
        <4>1. {f.id : f \in FilesOf(told[c])} \subseteq Nat
          BY DEF TypeOK, FilesOf, FileRow
        <4> QED BY <3>2, <4>1 DEF GetFileIDs, TypeOK
      <3> QED BY <1>3, <3>1, <3>2
    <2>3. TypeOK'
      BY <2>1, <2>2 DEF TypeOK
    <2> QED BY <2>1, <2>3, QuietInv
  <1>4. CASE Restart
    <2>1. TypeOK'
      BY <1>4 DEF Restart, TypeOK
    <2> QED BY <1>4, <2>1, QuietInv DEF Restart
  <1>5. CASE UNCHANGED vars
    <2>1. TypeOK'
      BY <1>5 DEF vars, TypeOK
    <2> QED BY <1>5, <2>1, QuietInv DEF vars
  <1> QED BY <1>1, <1>2, <1>3, <1>4, <1>5

LEMMA AddReleaseInv ==
  ASSUME ReleaseInv, NEW j \in Jobs, AddRelease(j)
  PROVE  ReleaseInv'
  <1> USE DEF ReleaseInv
  <1>1. UNCHANGED <<active, count, files, blocks, rel, left, cur, fileIndex, canceled, at,
                    told, ids>>
    BY DEF AddRelease, clientVars
  <1>2. TypeOK'
    BY DEF AddRelease, Goto, clientVars, TypeOK, Running
  <1>3. CASE rel[j] \in rows
    <2>1. UNCHANGED rows /\ \A k \in Jobs : pc'[k] = pc[k] \/ pc'[k] = "failed"
      BY <1>3 DEF AddRelease, Goto, TypeOK
    <2> QED BY <1>1, <1>2, <2>1, QuietInv
  <1>4. CASE rel[j] \notin rows
    <2>1. /\ rows' = rows \cup {rel[j]} /\ pc[j] = "add"
          /\ pc' = [pc EXCEPT ![j] = "load"] /\ rel[j] \in Releases /\ pc'[j] = "load"
          /\ \A k \in Jobs : k # j => pc'[k] = pc[k]
      BY <1>4 DEF AddRelease, Goto, TypeOK
    <2>2. Owners' = Owners \cup {j} /\ j \notin Owners
      BY <2>1 DEF Owners
    <2>3. count[rel[j]] = 0 /\ FilesOf(rel[j]) = {}
      BY <1>4, <2>1 DEF OwnerInv, FileInv, FilesOf, TypeOK
    <2>4. OwnerInv'
      <3>1. \A k \in Owners' : rel'[k] \in rows'
        BY <1>1, <2>1, <2>2 DEF OwnerInv
      <3>2. \A k, l \in Owners' : rel'[k] = rel'[l] => k = l
        BY <1>1, <1>4, <2>2 DEF OwnerInv
      <3>3. \A r \in Releases : count'[r] > 0 =>
              r \in rows' /\ \A k \in Owners' : rel'[k] = r => pc'[k] = "loaded"
        <4> SUFFICES ASSUME NEW r \in Releases, count[r] > 0
                     PROVE  r \in rows' /\ \A k \in Owners' : rel[k] = r => pc'[k] = "loaded"
          BY <1>1
        <4>1. r \in rows /\ \A k \in Owners : rel[k] = r => pc[k] = "loaded"
          BY DEF OwnerInv
        <4>2. \A k \in Owners : k \in Jobs /\ k # j
          BY <2>2 DEF Owners
        <4> QED BY <1>4, <2>1, <2>2, <4>1, <4>2
      <3> QED BY <3>1, <3>2, <3>3 DEF OwnerInv
    <2>5. FileInv' /\ BlocksAreOfFile' /\ CountedIsComplete'
      BY <1>1, <2>1 DEF FileInv, BlocksAreOfFile, CountedIsComplete, BlocksOf, FilesOf,
                        BlockRows
    <2>6. LoadInv'
      <3>1. left[j] = Paths /\ cur[j] = {} /\ fileIndex[j] = 0
        BY <2>1 DEF LoadInv
      <3>2. 0 .. fileIndex[j] - 1 = {} /\ Paths \ (left[j] \cup cur[j]) = {}
        BY <3>1
      <3> QED BY <1>1, <2>1, <2>3, <3>1, <3>2 DEF LoadInv, FilesOf
    <2>7. CanceledLeavesNoFile'
      BY <1>1, <2>1 DEF CanceledLeavesNoFile, FilesOf
    <2> QED BY <1>2, <2>4, <2>5, <2>6, <2>7
  <1> QED BY <1>3, <1>4

\* A job that goes on, is done or gives up keeps its release.
LEMMA OwnerKept ==
  ASSUME ReleaseInv, NEW j \in Owners,
         UNCHANGED <<rows, count, rel>>, count[rel[j]] = 0,
         \A k \in Jobs : k # j => pc'[k] = pc[k]
  PROVE  OwnerInv'
  <1>1. \A k \in Owners' : k \in Owners
    BY DEF Owners
  <1>2. \A k \in Owners : k \in Jobs
    BY DEF Owners
  <1> QED BY <1>1, <1>2 DEF OwnerInv, ReleaseInv

\* While a job loads, its release has no count.
LEMMA Uncounted ==
  ASSUME ReleaseInv, NEW j \in Jobs, pc[j] \in {"load", "insert", "rollback"}
  PROVE  j \in Owners /\ rel[j] \in Releases /\ count[rel[j]] = 0
  BY DEF ReleaseInv, OwnerInv, Owners, TypeOK

LEMMA HashFileInv ==
  ASSUME ReleaseInv, NEW j \in Jobs, HashFile(j)
  PROVE  ReleaseInv'
  <1> USE DEF ReleaseInv
  <1>1. /\ UNCHANGED <<rows, active, count, files, blocks, rel, fileIndex, canceled, at,
                       told, ids>>
        /\ pc[j] = "load"
    BY DEF HashFile, tables, clientVars
  <1>2. PICK p \in left[j] : /\ cur' = [cur EXCEPT ![j] = {p}]
                             /\ left' = [left EXCEPT ![j] = @ \ {p}]
    BY DEF HashFile
  <1>3. /\ pc'[j] \in {"insert", "rollback"}
        /\ \A k \in Jobs : k # j => pc'[k] = pc[k] /\ left'[k] = left[k] /\ cur'[k] = cur[k]
        /\ cur'[j] = {p} /\ left'[j] = left[j] \ {p} /\ left[j] \subseteq Paths
    BY <1>2 DEF HashFile, CheckCancel, Goto, TypeOK
  <1>4. TypeOK'
    BY <1>1, <1>2 DEF HashFile, CheckCancel, Goto, TypeOK, Running
  <1>5. OwnerInv'
    BY <1>1, <1>3, Uncounted, OwnerKept
  <1>6. FileInv' /\ BlocksAreOfFile' /\ CountedIsComplete'
    BY <1>1 DEF FileInv, BlocksAreOfFile, CountedIsComplete, BlocksOf, FilesOf, BlockRows
  <1>7. LoadInv'
    <2>1. cur[j] = {}
      BY <1>1 DEF LoadInv
    <2>2. left'[j] \cup cur'[j] = left[j] \cup cur[j]
      BY <1>2, <1>3, <2>1
    <2> QED BY <1>1, <1>2, <1>3, <2>2 DEF LoadInv, FilesOf
  <1>8. CanceledLeavesNoFile'
    BY <1>1, <1>3 DEF CanceledLeavesNoFile, FilesOf
  <1> QED BY <1>4, <1>5, <1>6, <1>7, <1>8

\* The job is canceled, or its transaction fails: the tables stay as they are.
LEMMA InsertNothingInv ==
  ASSUME ReleaseInv, NEW j \in Jobs, InsertFile(j), pc'[j] # "load"
  PROVE  ReleaseInv'
  <1> USE DEF ReleaseInv
  <1>1. /\ UNCHANGED <<rows, active, count, files, blocks, rel, left, canceled, at, told, ids>>
        /\ pc[j] = "insert" /\ pc'[j] \in {"rollback", "failed"}
        /\ \A k \in Jobs : k # j => /\ pc'[k] = pc[k] /\ cur'[k] = cur[k]
                                   /\ fileIndex'[k] = fileIndex[k]
    BY DEF InsertFile, CheckCancel, Goto, clientVars, TypeOK
  <1>2. TypeOK'
    BY <1>1 DEF InsertFile, CheckCancel, Goto, TypeOK, Running
  <1>3. OwnerInv'
    BY <1>1, Uncounted, OwnerKept
  <1>4. FileInv' /\ BlocksAreOfFile' /\ CountedIsComplete'
    BY <1>1 DEF FileInv, BlocksAreOfFile, CountedIsComplete, BlocksOf, FilesOf, BlockRows
  <1>5. LoadInv' /\ CanceledLeavesNoFile'
    BY <1>1 DEF LoadInv, CanceledLeavesNoFile, FilesOf
  <1> QED BY <1>2, <1>3, <1>4, <1>5

\* The id of a new file is that of none before.
LEMMA NextIdIsNew ==
  ASSUME TypeOK, NEW i \in NextIds
  PROVE  i \in Nat /\ \A f \in files : f.id # i
  BY MaxFileIdAssumption DEF NextIds, TypeOK, FileRow

LEMMA InsertFileInv ==
  ASSUME ReleaseInv, NEW j \in Jobs, InsertFile(j), pc'[j] = "load"
  PROVE  ReleaseInv'
  <1> USE DEF ReleaseInv
  <1>1. /\ UNCHANGED <<rows, active, count, rel, left, canceled, at, told, ids>>
        /\ pc[j] = "insert" /\ fileIndex' = [fileIndex EXCEPT ![j] = @ + 1]
        /\ cur' = [cur EXCEPT ![j] = {}]
        /\ pc' = [pc EXCEPT ![j] = "load"]
    BY DEF InsertFile, CheckCancel, Goto, clientVars, TypeOK
  <1>2. /\ \A k \in Jobs : k # j => /\ pc'[k] = pc[k] /\ cur'[k] = cur[k]
                                   /\ fileIndex'[k] = fileIndex[k]
        /\ cur'[j] = {} /\ fileIndex'[j] = fileIndex[j] + 1 /\ fileIndex[j] \in Nat
    BY <1>1 DEF TypeOK
  <1>3. PICK i \in NextIds, p \in cur[j] :
          /\ files' = files \cup {[id |-> i, release |-> rel[j],
                                   index |-> fileIndex[j], path |-> p]}
          /\ blocks' = blocks \cup BlockRows(i, p)
    BY DEF InsertFile
  <1>4. BlocksOf(i) = {}
    BY <1>1, <1>3 DEF InsertFile, CheckCancel, Goto, TypeOK
  <1>5. PICK new : new = [id |-> i, release |-> rel[j], index |-> fileIndex[j], path |-> p]
    OBVIOUS
  <1>6. /\ j \in Owners /\ rel[j] \in Releases /\ count[rel[j]] = 0
        /\ p \in Paths \ left[j] /\ cur[j] = {p}
    BY <1>1, <1>3, Uncounted DEF LoadInv
  <1>7. /\ i \in Nat /\ new \in FileRow /\ new \notin files /\ files' = files \cup {new}
        /\ \A f \in files : f.id # new.id
    BY <1>2, <1>3, <1>5, <1>6, NextIdIsNew DEF FileRow
  <1>8. /\ FilesOf(rel[j])' = FilesOf(rel[j]) \cup {new}
        /\ \A r \in Releases : r # rel[j] => {f \in files' : f.release = r} = FilesOf(r)
    BY <1>1, <1>5, <1>7 DEF FilesOf
  <1>9. TypeOK'
    <2>1. BlockRows(i, p) \subseteq BlockRow
      BY <1>6, <1>7, BlocksAssumption DEF BlockRows, BlockRow
    <2>2. /\ pc' \in [Jobs -> Running \cup {"idle", "loaded", "canceled", "failed"}]
          /\ cur' \in [Jobs -> SUBSET Paths] /\ fileIndex' \in [Jobs -> Nat]
      BY <1>1 DEF TypeOK, Running
    <2> QED BY <1>1, <1>3, <1>7, <2>1, <2>2 DEF TypeOK
  <1>10. OwnerInv'
    BY <1>1, <1>2, <1>6, OwnerKept
  <1>11. FileInv'
    BY <1>1, <1>5, <1>6, <1>7 DEF FileInv, OwnerInv
  <1>12. LoadInv'
    <2>1. \A k \in Jobs : pc'[k] \in {"idle", "add"} =>
            left'[k] = Paths /\ cur'[k] = {} /\ fileIndex'[k] = 0
      BY <1>1, <1>2 DEF LoadInv, TypeOK
    <2>2. \A k \in Jobs : pc'[k] = "load" => cur'[k] = {}
      BY <1>1, <1>2 DEF LoadInv
    <2>3. \A k \in Jobs : pc'[k] = "insert" => \E q \in Paths \ left'[k] : cur'[k] = {q}
      BY <1>1, <1>2 DEF LoadInv, TypeOK
    <2>4. ASSUME NEW k \in Jobs, pc'[k] \in {"load", "insert"}
          PROVE  /\ {f.path : f \in FilesOf(rel[k])'} = Paths \ (left'[k] \cup cur'[k])
                 /\ {f.index : f \in FilesOf(rel[k])'} = 0 .. fileIndex'[k] - 1
                 /\ \A f, g \in FilesOf(rel[k])' : f.index = g.index => f = g
      <3>1. CASE k = j
        <4>1. /\ {f.path : f \in FilesOf(rel[j])} = Paths \ (left[j] \cup {p})
              /\ {f.index : f \in FilesOf(rel[j])} = 0 .. fileIndex[j] - 1
              /\ \A f, g \in FilesOf(rel[j]) : f.index = g.index => f = g
          BY <1>1, <1>6 DEF LoadInv
        <4>2. {f.path : f \in FilesOf(rel[j])'} = {f.path : f \in FilesOf(rel[j])} \cup {p}
          BY <1>5, <1>8
        <4>3. {f.index : f \in FilesOf(rel[j])'} =
                {f.index : f \in FilesOf(rel[j])} \cup {fileIndex[j]}
          BY <1>5, <1>8
        <4>4. {f.path : f \in FilesOf(rel[j])'} = Paths \ (left'[j] \cup cur'[j])
          BY <1>1, <1>2, <1>6, <4>1, <4>2
        <4>5. {f.index : f \in FilesOf(rel[j])'} = 0 .. fileIndex'[j] - 1
          <5>1. \A n \in Nat : (0 .. n - 1) \cup {n} = 0 .. (n + 1) - 1
            OBVIOUS
          <5> QED BY <1>2, <4>1, <4>3, <5>1
        <4>6. \A f \in FilesOf(rel[j]) : f.index # new.index
          <5>1. \A f \in FilesOf(rel[j]) : f.index \in 0 .. fileIndex[j] - 1
            BY <4>1
          <5> QED BY <1>2, <1>5, <5>1
        <4>7. \A f, g \in FilesOf(rel[j])' : f.index = g.index => f = g
          BY <1>8, <4>1, <4>6
        <4> QED BY <3>1, <4>4, <4>5, <4>7
      <3>2. CASE k # j
        <4>1. pc[k] \in {"load", "insert"} /\ rel[k] \in Releases
          BY <1>2, <2>4, <3>2 DEF TypeOK
        <4>2. rel[k] # rel[j]
          BY <1>6, <3>2, <4>1 DEF OwnerInv, Owners
        <4>3. FilesOf(rel[k])' = FilesOf(rel[k])
          BY <1>1, <1>8, <4>1, <4>2 DEF FilesOf
        <4> QED BY <1>1, <1>2, <3>2, <4>1, <4>3 DEF LoadInv
      <3> QED BY <3>1, <3>2
    <2>5. \A k \in Jobs : FilesOf(rel[k])' = {f \in files' : f.release = rel'[k]}
      BY <1>1 DEF FilesOf
    <2> QED BY <1>1, <2>1, <2>2, <2>3, <2>4 DEF LoadInv
  <1>13. BlocksAreOfFile'
    <2>1. ASSUME NEW f \in files'
          PROVE  {b \in blocks' : b.file = f.id} = BlockRows(f.id, f.path)
      <3>1. \A b \in BlockRows(i, p) : b.file = i
        BY DEF BlockRows
      <3>2. CASE f = new
        BY <1>3, <1>4, <1>5, <3>1, <3>2 DEF BlocksOf
      <3>3. CASE f \in files
        <4>1. f.id # i
          BY <1>5, <1>7, <3>3
        <4>2. {b \in blocks' : b.file = f.id} = {b \in blocks : b.file = f.id}
          BY <1>3, <3>1, <4>1
        <4> QED BY <3>3, <4>2 DEF BlocksAreOfFile, BlocksOf
      <3> QED BY <1>7, <3>2, <3>3
    <2> QED BY <2>1 DEF BlocksAreOfFile, BlocksOf, BlockRows
  <1>14. CountedIsComplete'
    <2>1. \A r \in Releases : count[r] > 0 => {f \in files' : f.release = r} = FilesOf(r)
      <3>1. ~(count[rel[j]] > 0)
        BY <1>6
      <3> QED BY <1>8, <3>1
    <2> QED BY <1>1, <2>1 DEF CountedIsComplete, FilesOf
  <1>15. CanceledLeavesNoFile'
    <2>1. ASSUME NEW k \in Jobs, pc'[k] = "canceled"
          PROVE  {f \in files' : f.release = rel[k]} = {}
      <3>1. k # j /\ pc[k] = "canceled" /\ rel[k] \in Releases
        BY <1>1, <1>2, <2>1 DEF TypeOK
      <3>2. rel[k] # rel[j]
        BY <1>6, <3>1 DEF OwnerInv, Owners
      <3> QED BY <1>8, <3>1, <3>2 DEF CanceledLeavesNoFile
    <2> QED BY <1>1, <2>1 DEF CanceledLeavesNoFile, FilesOf
  <1> QED BY <1>9, <1>10, <1>11, <1>12, <1>13, <1>14, <1>15

LEMMA UpdateFileCountInv ==
  ASSUME ReleaseInv, NEW j \in Jobs, UpdateFileCount(j)
  PROVE  ReleaseInv'
  <1> USE DEF ReleaseInv
  <1>1. /\ UNCHANGED <<rows, active, files, blocks, rel, left, cur, fileIndex, canceled, at,
                       told, ids>>
        /\ pc[j] = "load" /\ left[j] = {}
        /\ count' = [count EXCEPT ![rel[j]] = fileIndex[j]]
        /\ pc' = [pc EXCEPT ![j] = "loaded"]
    BY DEF UpdateFileCount, Goto, clientVars
  <1>2. /\ \A k \in Jobs : k # j => pc'[k] = pc[k]
        /\ pc'[j] = "loaded" /\ fileIndex[j] \in Nat /\ count'[rel[j]] = fileIndex[j]
        /\ \A r \in Releases : r # rel[j] => count'[r] = count[r]
    BY <1>1 DEF TypeOK
  <1>3. j \in Owners /\ rel[j] \in Releases
    BY <1>1, Uncounted
  <1>4. TypeOK'
    BY <1>1 DEF TypeOK, Running
  <1>5. OwnerInv'
    <2>1. Owners' = Owners /\ Owners \subseteq Jobs
      BY <1>1, <1>2 DEF Owners
    <2>2. \A k \in Owners : rel[k] = rel[j] => k = j
      BY <1>3 DEF OwnerInv
    <2>3. ASSUME NEW r \in Releases, count'[r] > 0
          PROVE  r \in rows /\ \A k \in Owners : rel[k] = r => pc'[k] = "loaded"
      <3>1. CASE r = rel[j]
        BY <1>2, <1>3, <2>2, <3>1 DEF OwnerInv
      <3>2. CASE r # rel[j]
        BY <1>2, <2>1, <2>3, <3>2 DEF OwnerInv
      <3> QED BY <3>1, <3>2
    <2> QED BY <1>1, <2>1, <2>3 DEF OwnerInv
  <1>6. FileInv' /\ BlocksAreOfFile'
    BY <1>1 DEF FileInv, BlocksAreOfFile, BlocksOf, BlockRows
  <1>7. LoadInv' /\ CanceledLeavesNoFile'
    BY <1>1, <1>2 DEF LoadInv, CanceledLeavesNoFile, FilesOf
  <1>8. CountedIsComplete'
    <2>1. ASSUME NEW r \in Releases, count'[r] > 0
          PROVE  /\ {f.path : f \in FilesOf(r)} = Paths
                 /\ {f.index : f \in FilesOf(r)} = 0 .. count'[r] - 1
                 /\ \A f, g \in FilesOf(r) : f.index = g.index => f = g
      <3>1. CASE r = rel[j]
        <4>1. Paths \ (left[j] \cup cur[j]) = Paths
          BY <1>1 DEF LoadInv
        <4> QED BY <1>1, <1>2, <3>1, <4>1 DEF LoadInv
      <3>2. CASE r # rel[j]
        BY <1>2, <2>1, <3>2 DEF CountedIsComplete
      <3> QED BY <3>1, <3>2
    <2> QED BY <1>1, <2>1 DEF CountedIsComplete, FilesOf
  <1> QED BY <1>4, <1>5, <1>6, <1>7, <1>8

LEMMA RollBackInv ==
  ASSUME ReleaseInv, NEW j \in Jobs, RollBack(j)
  PROVE  ReleaseInv'
  <1> USE DEF ReleaseInv
  <1>1. /\ UNCHANGED <<rows, active, count, blocks, rel, left, cur, fileIndex, canceled, at,
                       told, ids>>
        /\ pc[j] = "rollback" /\ pc' = [pc EXCEPT ![j] = "canceled"]
        /\ files' = files \ FilesOf(rel[j])
    BY DEF RollBack, Goto, clientVars
  <1>2. pc'[j] = "canceled" /\ \A k \in Jobs : k # j => pc'[k] = pc[k]
    BY <1>1 DEF TypeOK
  <1>3. j \in Owners /\ rel[j] \in Releases /\ count[rel[j]] = 0
    BY <1>1, Uncounted
  <1>4. /\ {f \in files' : f.release = rel[j]} = {} /\ files' \subseteq files
        /\ \A r \in Releases : r # rel[j] => {f \in files' : f.release = r} = FilesOf(r)
    BY <1>1 DEF FilesOf
  <1>5. TypeOK'
    BY <1>1, <1>4 DEF TypeOK, Running
  <1>6. OwnerInv'
    BY <1>1, <1>2, <1>3, OwnerKept
  <1>7. FileInv' /\ BlocksAreOfFile'
    BY <1>1, <1>4 DEF FileInv, BlocksAreOfFile, BlocksOf, BlockRows
  <1>8. \A k \in Jobs : k # j /\ pc[k] \in {"load", "insert", "canceled"} =>
          {f \in files' : f.release = rel[k]} = FilesOf(rel[k])
    <2>1. \A k \in Jobs : k # j /\ pc[k] \in {"load", "insert", "canceled"} =>
            rel[k] # rel[j] /\ rel[k] \in Releases
      BY <1>3 DEF OwnerInv, Owners, TypeOK
    <2> QED BY <1>4, <2>1
  <1>9. LoadInv'
    BY <1>1, <1>2, <1>8 DEF LoadInv, FilesOf
  <1>10. CanceledLeavesNoFile'
    BY <1>1, <1>2, <1>4, <1>8 DEF CanceledLeavesNoFile, FilesOf
  <1>11. CountedIsComplete'
    <2>1. \A r \in Releases : count[r] > 0 => {f \in files' : f.release = r} = FilesOf(r)
      <3>1. ~(count[rel[j]] > 0)
        BY <1>3
      <3> QED BY <1>4, <3>1
    <2> QED BY <1>1, <2>1 DEF CountedIsComplete, FilesOf
  <1> QED BY <1>5, <1>6, <1>7, <1>9, <1>10, <1>11

\* The inductive invariant of the database and the jobs that load it.
THEOREM ReleaseInvHolds == Spec => []ReleaseInv
  <1>1. Init => ReleaseInv
    BY InitInv
  <1>2. ReleaseInv /\ [Next]_vars => ReleaseInv'
    <2> SUFFICES ASSUME ReleaseInv, [Next]_vars
                 PROVE  ReleaseInv'
      OBVIOUS
    <2>1. ASSUME NEW j \in Jobs,
                 \/ AddRelease(j) \/ HashFile(j) \/ InsertFile(j)
                 \/ UpdateFileCount(j) \/ RollBack(j)
          PROVE  ReleaseInv'
      BY <2>1, AddReleaseInv, HashFileInv, InsertNothingInv, InsertFileInv,
         UpdateFileCountInv, RollBackInv
    <2>2. CASE \/ \E j \in Jobs : AddRequest(j) \/ CancelJob(j) \/ Fails(j)
               \/ \E r \in Releases : SetActive(r)
               \/ \E c \in Clients : GetLatestRelease(c) \/ GetFileIDs(c)
               \/ Restart
               \/ UNCHANGED vars
      BY <2>2, OutsideInv
    <2> QED BY <2>1, <2>2 DEF Next, Job
  <1> QED BY <1>1, <1>2, PTL DEF Spec

\* The blocks listed for a file are always its own.
THEOREM BlocksFollowFiles == Spec => []BlocksAreOfFile
  <1>1. ReleaseInv => BlocksAreOfFile
    BY DEF ReleaseInv
  <1> QED BY <1>1, ReleaseInvHolds, PTL

\* A release with a count is complete for good, and a load that was canceled leaves no file.
THEOREM ReleasesAreAllOrNothing == Spec => []AllOrNothing
  <1>1. ReleaseInv => AllOrNothing
    BY DEF ReleaseInv, AllOrNothing
  <1> QED BY <1>1, ReleaseInvHolds, PTL

-----------------------------------------------------------------------------
(***************************************************************************)
(* What clients were told.                                                 *)
(***************************************************************************)
\* A release with a count keeps it, and keeps its files.
LEMMA CountedIsKept ==
  ASSUME ReleaseInv, [Next]_vars, NEW r \in Releases, count[r] > 0
  PROVE  count'[r] = count[r] /\ FilesOf(r)' = FilesOf(r)
  <1> DEFINE Kept == count'[r] = count[r] /\ FilesOf(r)' = FilesOf(r)
  <1> USE DEF FilesOf
  <1>1. ASSUME NEW j \in Owners, pc[j] # "loaded" PROVE rel[j] # r
    BY <1>1 DEF ReleaseInv, OwnerInv
  <1>2. ASSUME NEW j \in Jobs, UpdateFileCount(j) PROVE Kept
    <2>1. rel[j] # r
      BY <1>1, <1>2 DEF UpdateFileCount, Owners
    <2> QED BY <1>2, <2>1 DEF UpdateFileCount, ReleaseInv, TypeOK
  <1>3. ASSUME NEW j \in Jobs, RollBack(j) PROVE Kept
    <2>1. rel[j] # r
      BY <1>1, <1>3 DEF RollBack, Owners
    <2> QED BY <1>3, <2>1 DEF RollBack
  <1>4. ASSUME NEW j \in Jobs, InsertFile(j) PROVE Kept
    <2>1. rel[j] # r
      BY <1>1, <1>4 DEF InsertFile, Owners
    <2>2. \A f \in files' : f \in files \/ f.release = rel[j]
      BY <1>4 DEF InsertFile
    <2>3. files \subseteq files' /\ count' = count
      BY <1>4 DEF InsertFile
    <2> QED BY <2>1, <2>2, <2>3
  <1>5. CASE \/ \E j \in Jobs : \/ AddRequest(j) \/ CancelJob(j) \/ Fails(j)
                               \/ AddRelease(j) \/ HashFile(j)
             \/ \E s \in Releases : SetActive(s)
             \/ \E c \in Clients : GetLatestRelease(c) \/ GetFileIDs(c)
             \/ Restart
             \/ UNCHANGED vars
    <2>1. UNCHANGED <<files, count>>
      BY <1>5 DEF AddRequest, CancelJob, Fails, AddRelease, HashFile, SetActive,
                  GetLatestRelease, GetFileIDs, Restart, vars, tables
    <2> QED BY <2>1
  <1> QED BY <1>2, <1>3, <1>4, <1>5 DEF Next, Job

LEMMA ClientStep ==
  ASSUME ReleaseInv, ReleaseInv', ClientInv, ClientFindsRelease, [Next]_vars,
         NEW c \in Clients
  PROVE  /\ at'[c] \in {"told", "listed"} => count'[told'[c]] > 0
         /\ at'[c] = "listed" =>
              {f.path : f \in {g \in files' : g.id \in ids'[c] /\ g.release = told'[c]}}
                = Paths
  <1> DEFINE Found(fs, is, r) == {f.path : f \in {g \in fs : g.id \in is /\ g.release = r}}
  <1>1. told[c] \in Releases
    BY DEF ReleaseInv, TypeOK
  <1>2. CASE at'[c] = at[c] /\ told'[c] = told[c] /\ ids'[c] = ids[c]
    <2>1. at[c] \in {"told", "listed"} => count'[told[c]] > 0
      BY <1>1, CountedIsKept DEF ClientInv
    <2>2. ASSUME at[c] = "listed"
          PROVE  Found(files', ids[c], told[c]) = Paths
      <3>1. PICK r \in Releases : r = told[c]
        BY <1>1
      <3> HIDE DEF Found
      <3>2. \A f \in files : f.release = told[c] => f \in files'
        <4>1. count[r] > 0
          BY <2>2, <3>1 DEF ClientInv
        <4>2. FilesOf(r) \subseteq FilesOf(r)'
          BY <4>1, CountedIsKept
        <4> QED BY <3>1, <4>2 DEF FilesOf
      <3> USE DEF Found
      <3>3. Found(files, ids[c], told[c]) = Paths
        BY <2>2 DEF ClientFindsRelease
      <3>4. \A f \in files' : f.path \in Paths
        BY DEF ReleaseInv, TypeOK, FileRow
      <3> QED BY <3>2, <3>3, <3>4
    <2> QED BY <1>2, <2>1, <2>2
  <1>3. CASE GetLatestRelease(c)
    <2>1. count' = count
      BY <1>3 DEF GetLatestRelease, tables
    <2>2. CASE active = {}
      <3>1. at'[c] = "misled"
        BY <1>3, <2>2 DEF GetLatestRelease, ReleaseInv, TypeOK
      <3> QED BY <3>1
    <2>3. CASE active # {}
      <3>1. PICK r \in active :
              /\ told' = [told EXCEPT ![c] = r]
              /\ at' = [at EXCEPT ![c] = IF count[r] > 0 THEN "told" ELSE "refused"]
        BY <1>3, <2>3 DEF GetLatestRelease
      <3> QED BY <2>1, <3>1 DEF ReleaseInv, TypeOK
    <2> QED BY <2>2, <2>3
  <1>4. CASE GetFileIDs(c)
    <2>1. /\ at[c] = "told" /\ at'[c] = "listed"
          /\ ids'[c] = {f.id : f \in FilesOf(told[c])}
          /\ UNCHANGED <<files, count, told>>
      BY <1>4 DEF GetFileIDs, tables, ReleaseInv, TypeOK
    <2>2. count[told[c]] > 0
      BY <2>1 DEF ClientInv
    <2>3. {f.path : f \in FilesOf(told[c])} = Paths
      BY <1>1, <2>2 DEF ReleaseInv, CountedIsComplete
    <2>4. {g \in files' : g.id \in ids'[c] /\ g.release = told'[c]} = FilesOf(told[c])
      BY <2>1 DEF FilesOf
    <2> QED BY <2>1, <2>2, <2>3, <2>4
  <1>5. CASE UNCHANGED clientVars
    BY <1>2, <1>5 DEF clientVars
  <1>6. ASSUME NEW d \in Clients, d # c, GetLatestRelease(d) \/ GetFileIDs(d)
        PROVE  at'[c] = at[c] /\ told'[c] = told[c] /\ ids'[c] = ids[c]
    BY <1>6 DEF GetLatestRelease, GetFileIDs, ReleaseInv, TypeOK
  <1>7. CASE \/ \E j \in Jobs : AddRequest(j) \/ CancelJob(j) \/ Job(j)
             \/ \E r \in Releases : SetActive(r)
             \/ Restart
             \/ UNCHANGED vars
    BY <1>5, <1>7 DEF AddRequest, CancelJob, Job, Fails, AddRelease, HashFile, InsertFile,
                      UpdateFileCount, RollBack, SetActive, Restart, vars
  <1> QED BY <1>2, <1>3, <1>4, <1>6, <1>7 DEF Next

\* A client that asked for the files of the latest release has got all of them, and they
\* stay where they are.
THEOREM ClientsFindReleases == Spec => []ClientFindsRelease
  <1>1. Init => ClientInv /\ ClientFindsRelease
    BY DEF Init, ClientInv, ClientFindsRelease
  <1>2. /\ ReleaseInv /\ ReleaseInv' /\ ClientInv /\ ClientFindsRelease
        /\ [Next]_vars
        => ClientInv' /\ ClientFindsRelease'
    BY ClientStep DEF ClientInv, ClientFindsRelease
  <1> QED BY <1>1, <1>2, ReleaseInvHolds, PTL DEF Spec

\* A release with a count keeps it and its files, whatever is loaded, canceled or broken
\* off beside it.
THEOREM CountedReleasesAreFinal == Spec => CountedIsFinal
  <1> DEFINE A == \A r \in Releases : count[r] > 0 =>
                   count'[r] = count[r] /\ FilesOf(r)' = FilesOf(r)
  <1>1. ReleaseInv /\ [Next]_vars => [A]_vars
    BY CountedIsKept
  <1> HIDE DEF A
  <1>2. Spec => [][A]_vars
    BY <1>1, ReleaseInvHolds, PTL DEF Spec
  <1> QED BY <1>2 DEF A, CountedIsFinal

-----------------------------------------------------------------------------
(***************************************************************************)
(* The ids of files.                                                       *)
(***************************************************************************)
\* Rows of blocks stay, and none are added to those of an id that has some.
LEMMA BlocksStay ==
  ASSUME ReleaseInv, [Next]_vars, NEW i, BlocksOf(i) # {}
  PROVE  BlocksOf(i)' = BlocksOf(i)
  <1>1. ASSUME NEW j \in Jobs, InsertFile(j) PROVE BlocksOf(i)' = BlocksOf(i)
    <2>1. CASE pc'[j] # "load"
      BY <1>1, <2>1 DEF InsertFile, BlocksOf
    <2>2. CASE pc'[j] = "load"
      <3>1. PICK k \in NextIds, p \in cur[j] : blocks' = blocks \cup BlockRows(k, p)
        BY <1>1, <2>2 DEF InsertFile
      <3>2. BlocksOf(k) = {}
        BY <1>1, <2>2 DEF InsertFile, CheckCancel, Goto, ReleaseInv, TypeOK
      <3>3. \A b \in BlockRows(k, p) : b.file # i
        BY <3>2 DEF BlockRows
      <3> QED BY <3>1, <3>3 DEF BlocksOf
    <2> QED BY <2>1, <2>2
  <1>2. CASE \/ \E j \in Jobs : \/ AddRequest(j) \/ CancelJob(j) \/ Fails(j)
                               \/ AddRelease(j) \/ HashFile(j) \/ UpdateFileCount(j)
                               \/ RollBack(j)
             \/ \E s \in Releases : SetActive(s)
             \/ \E c \in Clients : GetLatestRelease(c) \/ GetFileIDs(c)
             \/ Restart
             \/ UNCHANGED vars
    <2>1. UNCHANGED blocks
      BY <1>2 DEF AddRequest, CancelJob, Fails, AddRelease, HashFile, UpdateFileCount,
                  RollBack, SetActive, GetLatestRelease, GetFileIDs, Restart, vars, tables
    <2> QED BY <2>1 DEF BlocksOf
  <1> QED BY <1>1, <1>2 DEF Next, Job

\* Files with the same rows of blocks are the same file.
LEMMA RowsOfFile ==
  ASSUME NEW i, NEW p \in Paths, NEW q \in Paths, BlockRows(i, p) = BlockRows(i, q)
  PROVE  BlockRows(i, p) # {} /\ p = q
  <1>1. [file |-> i, index |-> 0, path |-> p] \in BlockRows(i, p)
    BY BlocksAssumption DEF BlockRows
  <1>2. \A b \in BlockRows(i, q) : b.path = q
    BY DEF BlockRows
  <1> QED BY <1>1, <1>2

\* A file that has had an id is the only one that ever has it.
THEOREM FileIdsNameOneFile == Spec => IdsNameOneFile
  <1> SUFFICES ASSUME NEW i \in 1 .. MaxFileId, NEW p \in Paths
               PROVE  Spec => []((\E f \in files : f.id = i /\ f.path = p)
                                   => []NamesOnly(i, p))
    BY DEF IdsNameOneFile
  <1> DEFINE Has == \E f \in files : f.id = i /\ f.path = p
             Own == BlocksOf(i) = BlockRows(i, p)
  <1>1. ReleaseInv /\ Has => Own
    BY DEF ReleaseInv, BlocksAreOfFile
  <1>2. ReleaseInv /\ Own /\ [Next]_vars => Own'
    BY BlocksStay, RowsOfFile
  <1>3. ReleaseInv /\ Own => NamesOnly(i, p)
    <2> SUFFICES ASSUME ReleaseInv, Own, NEW f \in files, f.id = i PROVE f.path = p
      BY DEF NamesOnly
    <2>1. f.path \in Paths /\ BlocksOf(i) = BlockRows(i, f.path)
      BY DEF ReleaseInv, BlocksAreOfFile, TypeOK, FileRow
    <2> QED BY <2>1, RowsOfFile
  <1> HIDE DEF Has, Own
  <1>4. Spec => [](Has => []NamesOnly(i, p))
    BY <1>1, <1>2, <1>3, ReleaseInvHolds, PTL DEF Spec
  <1> QED BY <1>4 DEF Has
=============================================================================
