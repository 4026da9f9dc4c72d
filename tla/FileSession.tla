----------------------------- MODULE FileSession -----------------------------
(***************************************************************************)
(* One connection that reads files block by block: GetFileDataReq of the   *)
(* download server (CommonClientServices.cpp) and GetLevelDataReq of the   *)
(* master server (LevelServices.cpp).  The NetSession of the connection    *)
(* keeps the stream that was opened last and the id it was opened for.     *)
(*                                                                         *)
(* The stream is a std::ifstream: open() fails on a stream that is open,   *)
(* and clears the state of one that it opens; close() fails on one that is *)
(* not, and clears nothing; reading past the end, or without a file, sets  *)
(* failbit; good() looks at these flags only.                              *)
(*                                                                         *)
(* The id of a file is never given to another one: what ReleaseLoad leaves *)
(* of the blocks of a removed file keeps its id occupied.                  *)
(***************************************************************************)
EXTENDS Naturals

CONSTANTS Ids,         \* ids of files
          Paths,
          PathOf,      \* PathOf[i]: where the file i is, physical_path
          Full,        \* Full[p]: how many whole blocks p has
          MaxBlock     \* bounds the blocks that are asked for

\* What a request may name: a file, or no file at all, which is what a new session has
\* in cur_file_id.
Asked == Ids \cup {0}

ASSUME IdsAssumption == Ids \subseteq Nat \ {0}
ASSUME PathsAssumption == PathOf \in [Ids -> Paths] /\ Full \in [Paths -> Nat]
ASSUME MaxBlockAssumption == MaxBlock \in Nat

VARIABLES
  server, \* the server the connection is to
  known,  \* ids with a row in the database
  disk,   \* files that can be opened
  cur,    \* cur_file_id, 0 before the first file
  open,   \* cur_file_stream: the file it is open on, if any
  good,   \* cur_file_stream.good()
  last    \* the last request and its answer

filesVars == <<server, known, disk, cur, open, good, last>>

\* Answers: a whole block; the rest of a file, which may be empty; no bytes, as there is
\* no file; two errors.
Answers == {"whole", "rest", "nothing", "unknown", "unreadable"}
NoAnswer == [id |-> 0, block |-> 0, answer |-> "none", of |-> {}]

FilesTypeOK ==
  /\ server \in {"download", "master"}
  /\ known \subseteq Ids /\ disk \subseteq Paths
  /\ cur \in Asked
  /\ open \in {{}} \cup {{p} : p \in Paths} /\ good \in BOOLEAN
  /\ last \in [id : Asked, block : 0 .. MaxBlock, answer : Answers, of : SUBSET Paths]
             \cup {NoAnswer}

FilesInit ==
  /\ server \in {"download", "master"}
  /\ known \in SUBSET Ids /\ disk \in SUBSET Paths
  /\ cur = 0 /\ open = {} /\ good = TRUE
  /\ last = NoAnswer

Answer(i, b, answer, stream) ==
  last' = [id |-> i, block |-> b, answer |-> answer, of |-> stream]

-----------------------------------------------------------------------------
\* What a load, a roll-back or an upload does to the rows, and others to the files.
RowsChange == known' \in SUBSET Ids /\ UNCHANGED <<server, disk, cur, open, good, last>>
DiskChanges == disk' \in SUBSET Paths /\ UNCHANGED <<server, known, cur, open, good, last>>

\* The stream after the close() that a change of the file brings.
OpenAfter(i) == IF cur # i THEN {} ELSE open
GoodAfter(i) == good /\ (cur # i => open # {})

\* Faulty variant: a stream that is good is used for any file.
KeptIfGood(i) == good

\* Whether the stream is used as it is.
Kept(i) == cur = i /\ good

\* Faulty variant: one block too far is read.
ReadNext(stream, i, b) ==
  /\ cur' = i /\ open' = stream
  /\ \/ stream = {} /\ Answer(i, b + 1, "nothing", {}) /\ good' = FALSE
     \/ \E p \in stream :
          \/ b + 1 < Full[p] /\ Answer(i, b + 1, "whole", stream) /\ good' = TRUE
          \/ b + 1 >= Full[p] /\ Answer(i, b + 1, "rest", stream) /\ good' = FALSE
  /\ UNCHANGED <<server, known, disk>>

\* seekg and read
ReadFrom(stream, i, b) ==
  /\ cur' = i /\ open' = stream
  /\ \/ stream = {} /\ Answer(i, b, "nothing", {}) /\ good' = FALSE
     \/ \E p \in stream :
          \/ b < Full[p] /\ Answer(i, b, "whole", stream) /\ good' = TRUE
          \/ b >= Full[p] /\ Answer(i, b, "rest", stream) /\ good' = FALSE
  /\ UNCHANGED <<server, known, disk>>

Refuse(i, b, answer, stream, state) ==
  /\ open' = stream /\ good' = state
  /\ Answer(i, b, answer, {})
  /\ UNCHANGED <<server, known, disk, cur>>

\* The file is as before, and nothing went wrong with it.
ReadKept(i, b) == Kept(i) /\ ReadFrom(open, i, b)

\* find_by_id throws, without a row or for the database's reasons.
LookUpFails(i, b) ==
  ~Kept(i) /\ Refuse(i, b, "unknown", OpenAfter(i), GoodAfter(i))

\* open(), in the master server after another close()
Open(i, b) ==
  /\ ~Kept(i) /\ i \in known
  /\ IF OpenAfter(i) # {} /\ server = "download"
       THEN Refuse(i, b, "unreadable", OpenAfter(i), FALSE)
     ELSE IF PathOf[i] \in disk
       THEN ReadFrom({PathOf[i]}, i, b)
       ELSE Refuse(i, b, "unreadable", {}, FALSE)

GetFileData(i, b) == ReadKept(i, b) \/ LookUpFails(i, b) \/ Open(i, b)

FilesNext ==
  \/ RowsChange \/ DiskChanges
  \/ \E i \in Asked, b \in 0 .. MaxBlock : GetFileData(i, b)

FilesSpec == FilesInit /\ [][FilesNext]_filesVars

-----------------------------------------------------------------------------
(***************************************************************************)
(* Properties.                                                             *)
(***************************************************************************)
\* Bytes that are sent are those of the file that was asked for, however requests for
\* several files, errors and changes of the rows and the disk are mixed; a request for no
\* file gets none.
DataIsOfFile ==
  last.answer \in {"whole", "rest"} => last.id \in Ids /\ last.of = {PathOf[last.id]}

\* The inductive invariant: a stream that is good and open is open on the file of the
\* id that is kept with it.  What is kept for a stream that is not good may be any file.
FilesInv ==
  /\ FilesTypeOK /\ DataIsOfFile
  /\ good /\ open # {} => cur \in Ids /\ open = {PathOf[cur]}
=============================================================================
