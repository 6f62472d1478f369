----------------------------- MODULE RecordFiles -----------------------------
(***************************************************************************)
(* Records with a file column, and the bucket their files are kept in.     *)
(* $Table.rawInsert, rawUpdate and rawDelete name the files of a request,  *)
(* $Database prepares its statements with three callbacks, and             *)
(* $DatabaseRawImpl runs onRun (upload), the batch, and then onSuccess     *)
(* (delete what is no longer referred to) or onError (delete what was      *)
(* uploaded).  Only the batch is atomic.  pc names what a request does     *)
(* next.                                                                   *)
(***************************************************************************)
EXTENDS Integers, FiniteSets

CONSTANTS
  Calls,       \* requests that may be served at the same time
  Keys,        \* the record ids in use
  Names,       \* the file names normalizeFileName may make, never made twice
  FileOps,     \* the operations of the instance
  rowsPerStatement,  \* how many rows one INSERT statement writes
  MaxLost      \* bound: batches that commit without an answer

NoFile == "null"
NoRecord == "none"

ASSUME RecordFilesAssumption ==
  /\ MaxLost \in Nat /\ rowsPerStatement \in Nat \ {0}
  /\ NoFile \notin Names /\ NoRecord \notin Names

VARIABLES
  fileTable,   \* autoDeleteR2Files and allowMultipleFileRef of the table
  records,     \* the file column of each record, NoFile, or NoRecord
  bucket,      \* the objects in storage
  call,        \* the state of each request
  named,       \* the names made so far
  unheard,     \* how many answers were lost
  shared,      \* history: files that several records have referred to
  waived,      \* history: files a batch wrote and its request did not hear of, and
               \* files that were referred to, without a check, while not stored
  abandoned    \* history: files whose request died, or could not delete them

filesVars == <<fileTable, records, bucket, call, named, unheard, shared, waived, abandoned>>

(* The configurations the constructor of $Table accepts.                   *)
FileTables == {t \in [autoDelete : BOOLEAN, multipleRef : BOOLEAN] :
                 ~(t.autoDelete /\ t.multipleRef)}

NoValues == [k \in {} |-> NoFile]

(* What a request still knows when it comes to clean up.                   *)
Cleaning(pc, upload, delete) ==
  [pc |-> pc, op |-> "none", where |-> {}, set |-> NoValues,
   upload |-> upload, ref |-> {}, returned |-> TRUE, delete |-> delete]

Resting == Cleaning("idle", {}, {})

FileRequest ==
  [pc : {"idle", "check", "upload", "run", "error", "success"}, op : {"none"} \cup FileOps,
   where : SUBSET Keys, set : UNION {[keys -> Names \cup {NoFile}] : keys \in SUBSET Keys},
   upload : SUBSET Names, ref : SUBSET Names, returned : BOOLEAN, delete : SUBSET Names]

FilesTypeOK ==
  /\ fileTable \in FileTables
  /\ records \in [Keys -> Names \cup {NoFile, NoRecord}]
  /\ bucket \in SUBSET Names /\ named \in SUBSET Names
  /\ {shared, waived, abandoned} \subseteq SUBSET Names
  /\ unheard \in 0 .. MaxLost
  /\ call \in [Calls -> FileRequest]
  /\ \A c \in Calls : call[c].set \in [call[c].where -> Names \cup {NoFile}]

FilesInit ==
  /\ fileTable \in FileTables
  /\ records = [k \in Keys |-> NoRecord]
  /\ bucket = {} /\ named = {} /\ shared = {}
  /\ waived = {} /\ abandoned = {}
  /\ call = [c \in Calls |-> Resting]
  /\ unheard = 0

Exists(k) == records[k] # NoRecord
ReferredTo == {records[k] : k \in Keys} \ {NoFile, NoRecord}

-----------------------------------------------------------------------------
(* filesToUpload: each file of the request gets a name nobody has used.    *)
(* Inserted rows carry a file each; an update gives the same values to     *)
(* every row it matches.                                                   *)
Request(op, keys, set, upload, ref, returned, checked) ==
  [pc |-> IF ref # {} /\ checked THEN "check" ELSE IF upload # {} THEN "upload" ELSE "run",
   op |-> op, where |-> keys, set |-> set, upload |-> upload, ref |-> ref,
   returned |-> returned, delete |-> {}]

Start(c, request) ==
  /\ call[c] = Resting /\ request.where # {} /\ request.op \in FileOps
  /\ call' = [call EXCEPT ![c] = request]
  /\ named' = named \cup request.upload \cup request.ref
  /\ UNCHANGED <<fileTable, records, bucket, unheard, shared, abandoned>>

Starts(c, op, keys, set, upload, ref) ==
  Start(c, Request(op, keys, set, upload, ref, TRUE, TRUE)) /\ UNCHANGED waived

(* The statements return the file column when the first row of the list    *)
(* names it.  All rows of one statement have the same columns, so that it  *)
(* is in a later statement that a file can go unreturned.                  *)
Insert(c) ==
  \E keys \in SUBSET Keys : \E set \in [keys -> (Names \ named) \cup {NoFile}] :
  \E returned \in BOOLEAN :
    /\ \A k, l \in keys : k # l /\ set[k] # NoFile => set[k] # set[l]
    /\ ~returned => /\ Cardinality({k \in keys : set[k] = NoFile}) >= rowsPerStatement
                    /\ \E k \in keys : set[k] # NoFile
    /\ Start(c, Request("insert", keys, set, {set[k] : k \in keys} \ {NoFile}, {},
                        returned, TRUE))
    /\ UNCHANGED waived

Update(c) ==
  \E keys \in SUBSET Keys : \E f \in Names \ named :
    Starts(c, "update", keys, [k \in keys |-> f], {f}, {})

Clear(c) ==
  \E keys \in SUBSET Keys : Starts(c, "clear", keys, [k \in keys |-> NoFile], {}, {})

InHand == UNION {call[c].upload \cup call[c].delete : c \in Calls}

(* A string in a file field refers to a file of another record: refused    *)
(* unless the table allows it.  A client knows the names it was shown, and *)
(* may make up one that no file will ever be given.  With the header       *)
(* x-check-file-references: false nobody looks whether the file is there.  *)
Refer(c) ==
  /\ fileTable.multipleRef
  /\ \E k \in Keys : \E f \in (Names \ InHand) \cup ReferredTo : \E checked \in BOOLEAN :
       /\ Start(c, Request("refer", {k}, [x \in {k} |-> f], {}, {f}, TRUE, checked))
       /\ waived' = IF checked THEN waived ELSE waived \cup ({f} \ bucket)

Delete(c) ==
  \E keys \in SUBSET Keys : Starts(c, "delete", keys, [k \in keys |-> NoFile], {}, {})

-----------------------------------------------------------------------------
Goto(c, pc) == call' = [call EXCEPT ![c].pc = pc]

Cleans(c, pc, delete) == call' = [call EXCEPT ![c] = Cleaning(pc, call[c].upload, delete)]
Fails(c) == Cleans(c, "error", {})

(* _refCheckFiles: HEAD on every name that is referred to.                 *)
CheckRefs(c) ==
  /\ call[c].pc = "check"
  /\ IF call[c].ref \subseteq bucket THEN Goto(c, "run") ELSE Fails(c)
  /\ UNCHANGED <<fileTable, records, bucket, named, unheard, shared, waived, abandoned>>

(* Deleting in the bucket may fail, and then part of the objects remain.   *)
RemoveFiles(files, gone) ==
  /\ gone \subseteq files
  /\ bucket' = bucket \ gone
  /\ abandoned' = abandoned \cup (files \ gone)

(* _uploadFiles: all puts at once, each of which may fail; when one does,  *)
(* what was stored is deleted again.                                       *)
Upload(c) ==
  /\ call[c].pc = "upload"
  /\ bucket' = bucket \cup call[c].upload
  /\ Goto(c, "run")
  /\ UNCHANGED <<fileTable, records, named, unheard, shared, waived, abandoned>>

UploadFails(c) ==
  /\ call[c].pc = "upload"
  /\ \E stored \in SUBSET call[c].upload :
       /\ stored # call[c].upload
       /\ bucket' = bucket \cup stored
  /\ Fails(c)
  /\ UNCHANGED <<fileTable, records, named, unheard, shared, waived, abandoned>>

-----------------------------------------------------------------------------
(* The rows a statement reaches: those the where clause and the rules of   *)
(* the table let through, of those that exist when it runs.                *)
Reach(c, keys) ==
  /\ keys \subseteq call[c].where
  /\ call[c].op # "insert" => \A k \in keys : Exists(k)

(* A duplicate id, or any other constraint, undoes the whole batch.        *)
Conflicts(c) == call[c].op = "insert" /\ \E k \in call[c].where : Exists(k)

WrittenRecords(c, keys) ==
  [k \in Keys |-> IF k \notin keys THEN records[k]
                  ELSE IF call[c].op = "delete" THEN NoRecord ELSE call[c].set[k]]

SharedBy(recs) == {f \in Names : \E k, l \in Keys : k # l /\ recs[k] = f /\ recs[l] = f}

OldFiles(keys) == {records[k] : k \in keys} \cap Names
NewFiles(c, keys) == {call[c].set[k] : k \in keys} \cap Names

(* The files of the rows that come back: without the column, of none.      *)
Returned(c, keys) == IF call[c].returned THEN NewFiles(c, keys) ELSE {}
Unheard(c, keys) == NewFiles(c, keys) \ Returned(c, keys)

(* Mutant: with the old files goes what the update has just written.       *)
ToDeleteWritten(c, keys) ==
  (call[c].upload \ NewFiles(c, keys)) \cup OldFiles(keys) \cup NewFiles(c, keys)

(* _cleanupFilesToUpload: uploads no returned row refers to, and what the  *)
(* rows referred to before (the select that runs in the same batch, or the *)
(* RETURNING of the deletion).                                             *)
ToDelete(c, keys) ==
  (call[c].upload \ Returned(c, keys))
    \cup (IF fileTable.autoDelete /\ call[c].op # "insert"
          THEN OldFiles(keys) \ Returned(c, keys) ELSE {})

(* Mutant: the rows an update reached are not looked at.                   *)
RunForgetsOld(c) ==
  /\ call[c].pc = "run" /\ ~Conflicts(c)
  /\ \E keys \in SUBSET Keys :
       /\ Reach(c, keys)
       /\ records' = WrittenRecords(c, keys)
       /\ shared' = shared \cup SharedBy(records')
       /\ waived' = waived \cup Unheard(c, keys)
       /\ Cleans(c, "success", call[c].upload \ Returned(c, keys))
  /\ UNCHANGED <<fileTable, bucket, named, unheard, abandoned>>

Run(c) ==
  /\ call[c].pc = "run" /\ ~Conflicts(c)
  /\ \E keys \in SUBSET Keys :
       /\ Reach(c, keys)
       /\ records' = WrittenRecords(c, keys)
       /\ shared' = shared \cup SharedBy(records')
       /\ waived' = waived \cup Unheard(c, keys)
       /\ Cleans(c, "success", ToDelete(c, keys))
  /\ UNCHANGED <<fileTable, bucket, named, unheard, abandoned>>

(* The batch is refused, or the connection fails before it commits.        *)
RunFails(c) ==
  /\ call[c].pc = "run"
  /\ Fails(c)
  /\ UNCHANGED <<fileTable, records, bucket, named, unheard, shared, waived, abandoned>>

(* It commits and the answer is lost: the request sees an error.           *)
RunLost(c) ==
  /\ call[c].pc = "run" /\ ~Conflicts(c) /\ unheard < MaxLost
  /\ \E keys \in SUBSET Keys :
       /\ Reach(c, keys)
       /\ records' = WrittenRecords(c, keys)
       /\ shared' = shared \cup SharedBy(records')
       /\ waived' = waived \cup NewFiles(c, keys)
       /\ abandoned' = abandoned \cup ToDelete(c, keys)
  /\ unheard' = unheard + 1
  /\ Fails(c)
  /\ UNCHANGED <<fileTable, bucket, named>>

(* onError deletes what the request uploaded; the error is rethrown.       *)
OnError(c) ==
  /\ call[c].pc = "error"
  /\ \E gone \in SUBSET call[c].upload : RemoveFiles(call[c].upload, gone)
  /\ call' = [call EXCEPT ![c] = Resting]
  /\ UNCHANGED <<fileTable, records, named, unheard, shared, waived>>

(* onSuccess; an error of it is logged and the request succeeds.           *)
OnSuccess(c) ==
  /\ call[c].pc = "success"
  /\ \E gone \in SUBSET call[c].delete : RemoveFiles(call[c].delete, gone)
  /\ call' = [call EXCEPT ![c] = Resting]
  /\ UNCHANGED <<fileTable, records, named, unheard, shared, waived>>

(* The worker is evicted: what the request still had to delete stays.      *)
Evicted(c) ==
  /\ call[c] # Resting
  /\ abandoned' = abandoned \cup call[c].upload \cup call[c].delete
  /\ call' = [call EXCEPT ![c] = Resting]
  /\ UNCHANGED <<fileTable, records, bucket, named, unheard, shared, waived>>

Begins(c) == Insert(c) \/ Update(c) \/ Clear(c) \/ Refer(c) \/ Delete(c)
Proceeds(c) == \/ CheckRefs(c) \/ Upload(c) \/ UploadFails(c) \/ Run(c)
               \/ RunFails(c) \/ RunLost(c) \/ OnError(c) \/ OnSuccess(c)

FilesNext == \E c \in Calls : Begins(c) \/ Proceeds(c) \/ Evicted(c)

FilesSpec == FilesInit /\ [][FilesNext]_filesVars

-----------------------------------------------------------------------------
(* A record has the file it names: whatever uploads, deletions and         *)
(* evictions overlap, a file is missing under a record only when several   *)
(* records have referred to it, when its batch committed without an        *)
(* answer, when it came in a list of rows whose first row names no file,   *)
(* or when a reference to what was not there went unchecked.               *)
RecordsHaveTheirFiles ==
  ReferredTo \subseteq bucket \cup shared \cup waived

(* "No orphaned files" (docs/recipes.md): a stored object that no record   *)
(* refers to is on its way to a record or to deletion, was given up by a   *)
(* request that died or could not delete it, or belongs to a table that    *)
(* keeps its old files.                                                    *)
NoOrphans ==
  fileTable.autoDelete => bucket \subseteq ReferredTo \cup InHand \cup abandoned \cup shared
=============================================================================
