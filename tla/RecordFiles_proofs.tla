------------------------- MODULE RecordFiles_proofs -------------------------
(***************************************************************************)
(* Theorems about records and their files: for any records, names and      *)
(* number of overlapping requests, any of which may fail or be evicted.    *)
(***************************************************************************)
EXTENDS RecordFiles, TLAPS

Unwritten(c) == call[c].pc \in {"check", "upload", "run"}

(* What the request is going to write, and what it may delete.             *)
Writes(c) == {call[c].set[k] : k \in call[c].where} \cap Names
Doomed(c) == IF call[c].pc = "success" THEN call[c].delete ELSE call[c].upload

AllDoomed == UNION {Doomed(c) : c \in Calls}

(* Files that the properties make no promise about.                        *)
Excepted == shared \cup waived

(* A request writes what it uploads or what it refers to, never both.      *)
Shapes ==
  \A c \in Calls :
    /\ Writes(c) \subseteq call[c].upload \cup call[c].ref
    /\ call[c].ref # {} => fileTable.multipleRef /\ call[c].upload = {}
    /\ call[c].op = "delete" => call[c].upload = {} /\ call[c].ref = {}

AllNamed ==
  /\ ReferredTo \subseteq named
  /\ \A c \in Calls : Writes(c) \subseteq named /\ Doomed(c) \subseteq named

SharedNoted == SharedBy(records) \subseteq shared

(* Nobody deletes what a record refers to, or what another request is      *)
(* going to write.                                                         *)
DoomedUnused ==
  \A c \in Calls :
    /\ Doomed(c) \cap ReferredTo \subseteq Excepted
    /\ \A d \in Calls \ {c} : Unwritten(d) => Doomed(c) \cap Writes(d) \subseteq Excepted

(* What is about to be written is stored: a request that refers to files   *)
(* has looked for them, another one has uploaded its own.                  *)
StoredFirst ==
  \A c \in Calls :
    /\ call[c].pc = "run" => Writes(c) \subseteq bucket \cup Excepted
    /\ call[c].pc = "check" => call[c].ref # {}
    /\ call[c].pc = "upload" => call[c].ref = {}

(* NoOrphans, without the uploads of requests that have written them.      *)
Accounted ==
  fileTable.autoDelete =>
    bucket \subseteq ReferredTo \cup AllDoomed \cup abandoned \cup shared

FilesInv ==
  /\ FilesTypeOK /\ Shapes /\ AllNamed /\ SharedNoted
  /\ DoomedUnused /\ StoredFirst /\ Accounted
  /\ RecordsHaveTheirFiles

-----------------------------------------------------------------------------
LEMMA RestingTyped ==
  Resting \in FileRequest /\ Resting.set \in [Resting.where -> Names \cup {NoFile}]
<1>1. /\ NoValues \in [{} -> Names \cup {NoFile}] /\ {} \in SUBSET Keys
      /\ {} \in SUBSET Names
  BY DEF NoValues
<1>2. NoValues \in UNION {[keys -> Names \cup {NoFile}] : keys \in SUBSET Keys}
  BY <1>1
<1>. QED
  BY <1>1, <1>2 DEF Resting, Cleaning, FileRequest

LEMMA FilesInitInv == FilesInit => FilesInv
<1>. SUFFICES ASSUME FilesInit  PROVE FilesInv
  OBVIOUS
<1>. USE DEF FilesInit
<1>1. /\ ReferredTo = {} /\ SharedBy(records) = {}
      /\ \A c \in Calls : call[c] = Resting /\ Writes(c) = {} /\ Doomed(c) = {}
  BY RecordFilesAssumption DEF ReferredTo, SharedBy, Writes, Doomed, Resting, Cleaning
<1>2. FilesTypeOK
  <2>1. Resting \in FileRequest /\ Resting.set \in [Resting.where -> Names \cup {NoFile}]
    BY RestingTyped
  <2>. QED
    BY <2>1, RecordFilesAssumption DEF FilesTypeOK
<1>3. Shapes /\ AllNamed /\ SharedNoted /\ DoomedUnused /\ StoredFirst
  BY <1>1 DEF Shapes, AllNamed, SharedNoted, DoomedUnused, StoredFirst, Resting, Cleaning
<1>4. Accounted /\ RecordsHaveTheirFiles
  BY <1>1 DEF Accounted, RecordsHaveTheirFiles
<1>. QED
  BY <1>2, <1>3, <1>4 DEF FilesInv

(* A request is a record whose fields have their types.                    *)
LEMMA RequestFields ==
  ASSUME FilesTypeOK, NEW c \in Calls
  PROVE  /\ call[c] \in FileRequest
         /\ call[c].where \in SUBSET Keys
         /\ call[c].set \in [call[c].where -> Names \cup {NoFile}]
         /\ call[c].upload \in SUBSET Names /\ call[c].ref \in SUBSET Names
         /\ call[c].delete \in SUBSET Names
         /\ Writes(c) \in SUBSET Names /\ Doomed(c) \in SUBSET Names
BY DEF FilesTypeOK, FileRequest, Writes, Doomed

(* A request that has left the statement behind asks nothing of storage.   *)
LEMMA SameStored ==
  ASSUME StoredFirst, NEW c \in Calls, ~Unwritten(c)', UNCHANGED bucket,
         \A d \in Calls \ {c} : call'[d] = call[d] /\ Writes(d)' = Writes(d),
         Excepted \subseteq Excepted'
  PROVE  StoredFirst'
<1>. SUFFICES ASSUME NEW d \in Calls
              PROVE  /\ call'[d].pc = "run" => Writes(d)' \subseteq bucket' \cup Excepted'
                     /\ call'[d].pc = "check" => call'[d].ref # {}
                     /\ call'[d].pc = "upload" => call'[d].ref = {}
  BY DEF StoredFirst
<1>1. CASE d = c
  BY <1>1 DEF Unwritten
<1>2. CASE d # c
  BY <1>2 DEF StoredFirst
<1>. QED
  BY <1>1, <1>2

(* A request goes on to its statement, having stored its uploads.          *)
LEMMA Moves ==
  ASSUME FilesInv, NEW c \in Calls, Unwritten(c), Goto(c, "run"),
         NEW stored \in SUBSET call[c].upload,
         bucket' = bucket \cup stored, Writes(c) \subseteq bucket' \cup Excepted,
         UNCHANGED <<fileTable, records, named, unheard, shared, waived, abandoned>>
  PROVE  FilesInv'
<1>. USE DEF FilesInv
<1>1. call[c] \in FileRequest /\ call[c].upload \in SUBSET Names
  BY RequestFields
<1>2. \A d \in Calls :
        /\ call'[d].where = call[d].where /\ call'[d].set = call[d].set
        /\ call'[d].upload = call[d].upload /\ call'[d].ref = call[d].ref
        /\ call'[d].delete = call[d].delete /\ call'[d].op = call[d].op
        /\ d # c => call'[d] = call[d]
  BY <1>1 DEF Goto, FilesTypeOK, FileRequest
<1>3. \A d \in Calls : Writes(d)' = Writes(d) /\ Doomed(d)' = Doomed(d)
  BY <1>1, <1>2 DEF Writes, Doomed, Goto, Unwritten, FilesTypeOK
<1>4. \A d \in Calls : Unwritten(d)' => Unwritten(d)
  BY <1>2 DEF Unwritten
<1>5. ReferredTo' = ReferredTo /\ SharedBy(records)' = SharedBy(records) /\ Excepted' = Excepted
  BY DEF ReferredTo, SharedBy, Excepted
<1>6. FilesTypeOK'
  <2>1. call' \in [Calls -> FileRequest]
    BY <1>1 DEF Goto, FilesTypeOK, FileRequest
  <2>. QED
    BY <1>1, <1>2, <2>1 DEF FilesTypeOK
<1>7. Shapes' /\ AllNamed' /\ SharedNoted'
  BY <1>2, <1>3, <1>5 DEF Shapes, AllNamed, SharedNoted
<1>8. DoomedUnused'
  BY <1>3, <1>4, <1>5 DEF DoomedUnused
<1>9. StoredFirst'
  BY <1>1, <1>2, <1>3, <1>5 DEF StoredFirst, Goto, FilesTypeOK
<1>10. Accounted'
  <2>1. AllDoomed' = AllDoomed
    BY <1>3 DEF AllDoomed
  <2>2. stored \subseteq AllDoomed
    BY DEF AllDoomed, Doomed, Unwritten
  <2>. QED
    BY <1>5, <2>1, <2>2 DEF Accounted
<1>11. RecordsHaveTheirFiles'
  BY <1>5 DEF RecordsHaveTheirFiles
<1>. QED
  BY <1>6, <1>7, <1>8, <1>9, <1>10, <1>11

(* A request that only cleans up writes nothing.                           *)
LEMMA OnlyCleans ==
  ASSUME FilesInv, NEW c \in Calls, NEW pc \in {"success", "error"},
         NEW delete \in SUBSET Names, Cleans(c, pc, delete)
  PROVE  /\ call' \in [Calls -> FileRequest]
         /\ \A d \in Calls : call'[d].set \in [call'[d].where -> Names \cup {NoFile}]
         /\ \A d \in Calls \ {c} : call'[d] = call[d]
         /\ Writes(c)' = {} /\ ~Unwritten(c)'
         /\ Doomed(c)' = IF pc = "success" THEN delete ELSE call[c].upload
         /\ call'[c].ref = {} /\ call'[c].op = "none" /\ call'[c].pc = pc
         /\ \A d \in Calls \ {c} : /\ Writes(d)' = Writes(d) /\ Doomed(d)' = Doomed(d)
                                   /\ Unwritten(d)' = Unwritten(d)
<1>. USE DEF FilesInv
<1>. DEFINE New == Cleaning(pc, call[c].upload, delete)
<1>1. New = [pc |-> pc, op |-> "none", where |-> {}, set |-> NoValues,
             upload |-> call[c].upload, ref |-> {}, returned |-> TRUE, delete |-> delete]
  BY DEF Cleaning
<1>2. New \in FileRequest /\ New.set \in [New.where -> Names \cup {NoFile}]
  BY <1>1, RequestFields DEF FileRequest, NoValues
<1>3. call'[c] = New /\ \A d \in Calls \ {c} : call'[d] = call[d]
  BY DEF Cleans, FilesTypeOK
<1>4. call' \in [Calls -> FileRequest]
  BY <1>2 DEF Cleans, FilesTypeOK
<1>5. \A d \in Calls : call'[d].set \in [call'[d].where -> Names \cup {NoFile}]
  BY <1>2, <1>3 DEF FilesTypeOK
<1>6. Writes(c)' = {} /\ ~Unwritten(c)'
      /\ Doomed(c)' = IF pc = "success" THEN delete ELSE call[c].upload
  BY <1>1, <1>3 DEF Writes, Unwritten, Doomed
<1>7. \A d \in Calls \ {c} : /\ Writes(d)' = Writes(d) /\ Doomed(d)' = Doomed(d)
                             /\ Unwritten(d)' = Unwritten(d)
  BY <1>3 DEF Writes, Unwritten, Doomed
<1>. QED
  BY <1>1, <1>3, <1>4, <1>5, <1>6, <1>7

(* A request fails, having stored some of its uploads.                     *)
LEMMA FailsKeeps ==
  ASSUME FilesInv, NEW c \in Calls, Unwritten(c), Fails(c),
         NEW stored \in SUBSET call[c].upload, bucket' = bucket \cup stored,
         UNCHANGED <<fileTable, records, named, unheard, shared, waived, abandoned>>
  PROVE  FilesInv'
<1>. USE DEF FilesInv
<1>1. {} \in SUBSET Names /\ Cleans(c, "error", {})
  BY DEF Fails
<1>2. /\ call' \in [Calls -> FileRequest]
      /\ \A d \in Calls : call'[d].set \in [call'[d].where -> Names \cup {NoFile}]
      /\ \A d \in Calls \ {c} : call'[d] = call[d]
      /\ Writes(c)' = {} /\ ~Unwritten(c)' /\ Doomed(c)' = call[c].upload
      /\ call'[c].ref = {} /\ call'[c].op = "none" /\ call'[c].pc = "error"
      /\ \A d \in Calls \ {c} : /\ Writes(d)' = Writes(d) /\ Doomed(d)' = Doomed(d)
                                /\ Unwritten(d)' = Unwritten(d)
  BY <1>1, OnlyCleans
<1>3. Doomed(c) = call[c].upload /\ call[c].upload \in SUBSET Names
  BY RequestFields DEF Doomed, Unwritten
<1>4. ReferredTo' = ReferredTo /\ SharedBy(records)' = SharedBy(records) /\ Excepted' = Excepted
  BY DEF ReferredTo, SharedBy, Excepted
<1>5. FilesTypeOK'
  BY <1>2, <1>3 DEF FilesTypeOK
<1>6. Shapes' /\ AllNamed' /\ SharedNoted'
  BY <1>2, <1>3, <1>4 DEF Shapes, AllNamed, SharedNoted
<1>7. DoomedUnused'
  BY <1>2, <1>3, <1>4 DEF DoomedUnused
<1>8. StoredFirst'
  BY <1>2, <1>4 DEF StoredFirst
<1>9. Accounted'
  <2>1. AllDoomed' = AllDoomed /\ stored \subseteq AllDoomed
    BY <1>2, <1>3 DEF AllDoomed
  <2>. QED
    BY <1>4, <2>1 DEF Accounted
<1>10. RecordsHaveTheirFiles'
  BY <1>4 DEF RecordsHaveTheirFiles
<1>. QED
  BY <1>5, <1>6, <1>7, <1>8, <1>9, <1>10

(* What a request asks for: new names, or a file that a record shows, or   *)
(* one that nobody is going to delete.                                     *)
Asks(op, keys, set, upload, ref) ==
  /\ op \in FileOps /\ keys \in SUBSET Keys /\ set \in [keys -> Names \cup {NoFile}]
  /\ upload \in SUBSET (Names \ named)
  /\ ref \in SUBSET ((Names \ InHand) \cup (ReferredTo \cap Names))
  /\ \A k \in keys : set[k] \in upload \cup ref \cup {NoFile}
  /\ ref # {} => fileTable.multipleRef /\ upload = {}
  /\ op = "delete" => upload = {} /\ ref = {}

(* It looks for the files it refers to, or they are stored, or waived.     *)
Begun(c, pc, op, keys, set, upload, ref, returned) ==
  /\ Start(c, [pc |-> pc, op |-> op, where |-> keys, set |-> set, upload |-> upload,
               ref |-> ref, returned |-> returned, delete |-> {}])
  /\ waived \subseteq waived' /\ waived' \in SUBSET Names
  /\ pc \in {"check", "upload", "run"} /\ returned \in BOOLEAN
  /\ pc = "check" => ref # {}
  /\ pc = "upload" => ref = {}
  /\ pc = "run" => upload = {} /\ ref \subseteq bucket \cup waived'

LEMMA StartKeeps ==
  ASSUME FilesInv, NEW c \in Calls, NEW pc, NEW op, NEW keys, NEW set, NEW upload, NEW ref,
         NEW returned, Asks(op, keys, set, upload, ref),
         Begun(c, pc, op, keys, set, upload, ref, returned)
  PROVE  FilesInv'
<1>. DEFINE request == [pc |-> pc, op |-> op, where |-> keys, set |-> set, upload |-> upload,
                        ref |-> ref, returned |-> returned, delete |-> {}]
<1>. USE DEF Asks, Begun
<1>. USE DEF FilesInv, Start
<1>1. call'[c] = request /\ \A d \in Calls \ {c} : call'[d] = call[d]
  BY DEF FilesTypeOK
<1>2. Writes(c)' \subseteq upload \cup ref /\ Doomed(c)' = upload
  BY <1>1, RecordFilesAssumption DEF Writes, Doomed
<1>3. Doomed(c) = {}
  BY DEF Doomed, Resting, Cleaning
<1>4. \A d \in Calls \ {c} :
        /\ Writes(d)' = Writes(d) /\ Doomed(d)' = Doomed(d)
        /\ Unwritten(d)' = Unwritten(d)
  BY <1>1 DEF Writes, Doomed, Unwritten
<1>5. /\ ReferredTo' = ReferredTo /\ SharedBy(records)' = SharedBy(records)
      /\ Excepted \subseteq Excepted' /\ waived' \subseteq Excepted'
  BY DEF ReferredTo, SharedBy, Excepted
<1>6. FilesTypeOK'
  <2>1. request \in FileRequest
    BY DEF FileRequest
  <2>2. call' \in [Calls -> FileRequest]
    BY <2>1 DEF FilesTypeOK
  <2>3. \A d \in Calls : call'[d].set \in [call'[d].where -> Names \cup {NoFile}]
    BY <1>1 DEF FilesTypeOK
  <2>4. named' \in SUBSET Names
    BY DEF FilesTypeOK
  <2>. QED
    BY <2>2, <2>3, <2>4 DEF FilesTypeOK
<1>7. Shapes'
  BY <1>1, <1>2, <1>4 DEF Shapes
<1>8. AllNamed'
  BY <1>2, <1>4, <1>5 DEF AllNamed
<1>9. SharedNoted'
  BY <1>5 DEF SharedNoted
<1>10. DoomedUnused'
  <2>. SUFFICES ASSUME NEW d \in Calls
                PROVE  /\ Doomed(d)' \cap ReferredTo \subseteq Excepted
                       /\ \A e \in Calls \ {d} : Unwritten(e)' =>
                             Doomed(d)' \cap Writes(e)' \subseteq Excepted
    BY <1>5 DEF DoomedUnused
  <2>1. CASE d = c
    <3>1. upload \cap named = {}
      OBVIOUS
    <3>. QED
      BY <2>1, <3>1, <1>2, <1>4 DEF AllNamed
  <2>2. CASE d # c
    <3>1. /\ Doomed(d) \cap ReferredTo \subseteq Excepted /\ Doomed(d) \subseteq named
          /\ Doomed(d) \subseteq InHand
      BY DEF DoomedUnused, AllNamed, Doomed, InHand
    <3>2. Doomed(d) \cap Writes(c)' \subseteq Excepted
      BY <3>1, <1>2
    <3>. QED
      BY <2>2, <3>1, <3>2, <1>4 DEF DoomedUnused
  <2>. QED
    BY <2>1, <2>2
<1>11. StoredFirst'
  BY <1>1, <1>2, <1>4, <1>5 DEF StoredFirst
<1>12. Accounted'
  <2>1. AllDoomed \subseteq AllDoomed'
    BY <1>3, <1>4 DEF AllDoomed
  <2>. QED
    BY <1>5, <2>1 DEF Accounted
<1>13. RecordsHaveTheirFiles'
  BY <1>5 DEF RecordsHaveTheirFiles
<1>. QED
  BY <1>6, <1>7, <1>8, <1>9, <1>10, <1>11, <1>12, <1>13

(* The same for the requests that check their references.                  *)
LEMMA StartsKeeps ==
  ASSUME FilesInv, NEW c \in Calls, NEW op, NEW keys, NEW set, NEW upload, NEW ref,
         NEW returned \in BOOLEAN, Asks(op, keys, set, upload, ref),
         Start(c, Request(op, keys, set, upload, ref, returned, TRUE)), UNCHANGED waived
  PROVE  FilesInv'
<1>. DEFINE pc == IF ref # {} THEN "check" ELSE IF upload # {} THEN "upload" ELSE "run"
<1>1. Begun(c, pc, op, keys, set, upload, ref, returned)
  BY DEF Begun, Request, FilesInv, FilesTypeOK
<1>. HIDE DEF pc
<1>. QED
  BY <1>1, StartKeeps

(* A request is over: of what it was to delete, some is gone and the rest  *)
(* is given up.                                                            *)
LEMMA Ends ==
  ASSUME FilesInv, NEW c \in Calls, call' = [call EXCEPT ![c] = Resting],
         NEW gone \in SUBSET Doomed(c), bucket' = bucket \ gone,
         abandoned' \in SUBSET Names, abandoned \cup (Doomed(c) \ gone) \subseteq abandoned',
         UNCHANGED <<fileTable, records, named, unheard, shared, waived>>
  PROVE  FilesInv'
<1>. USE DEF FilesInv
<1>1. call'[c] = Resting /\ \A d \in Calls \ {c} : call'[d] = call[d]
  BY DEF FilesTypeOK
<1>2. Writes(c)' = {} /\ Doomed(c)' = {} /\ ~Unwritten(c)'
  BY <1>1 DEF Writes, Doomed, Unwritten, Resting, Cleaning
<1>3. \A d \in Calls \ {c} :
        /\ Writes(d)' = Writes(d) /\ Doomed(d)' = Doomed(d)
        /\ Unwritten(d)' = Unwritten(d)
  BY <1>1 DEF Writes, Doomed, Unwritten
<1>4. ReferredTo' = ReferredTo /\ SharedBy(records)' = SharedBy(records) /\ Excepted' = Excepted
  BY DEF ReferredTo, SharedBy, Excepted
<1>5. FilesTypeOK'
  <2>1. Resting \in FileRequest /\ Resting.set \in [Resting.where -> Names \cup {NoFile}]
    BY RestingTyped
  <2>2. call' \in [Calls -> FileRequest]
    BY <2>1 DEF FilesTypeOK
  <2>3. \A d \in Calls : call'[d].set \in [call'[d].where -> Names \cup {NoFile}]
    BY <1>1, <2>1 DEF FilesTypeOK
  <2>. QED
    BY <2>2, <2>3 DEF FilesTypeOK
<1>6. Shapes' /\ AllNamed' /\ SharedNoted'
  BY <1>1, <1>2, <1>3, <1>4 DEF Shapes, AllNamed, SharedNoted, Resting, Cleaning
<1>7. DoomedUnused'
  BY <1>2, <1>3, <1>4 DEF DoomedUnused
<1>8. StoredFirst'
  <2>. SUFFICES ASSUME NEW d \in Calls \ {c}, call[d].pc = "run"
                PROVE  Writes(d) \subseteq bucket' \cup Excepted
    BY <1>1, <1>3, <1>4 DEF StoredFirst, Resting, Cleaning
  <2>1. Doomed(c) \cap Writes(d) \subseteq Excepted
    BY DEF DoomedUnused, Unwritten
  <2>2. Writes(d) \subseteq bucket \cup Excepted
    BY DEF StoredFirst
  <2>. QED
    BY <2>1, <2>2
<1>9. Accounted'
  <2>. SUFFICES ASSUME fileTable.autoDelete, NEW f \in bucket'
                PROVE  f \in ReferredTo \cup AllDoomed' \cup abandoned' \cup shared
    BY <1>4 DEF Accounted
  <2>1. CASE f \in Doomed(c)
    BY <2>1
  <2>2. CASE f \notin Doomed(c)
    <3>1. f \in ReferredTo \cup abandoned \cup shared
          \/ \E d \in Calls : f \in Doomed(d)
      BY DEF Accounted, AllDoomed
    <3>. QED
      BY <2>2, <3>1, <1>3 DEF AllDoomed
  <2>. QED
    BY <2>1, <2>2
<1>10. RecordsHaveTheirFiles'
  BY <1>4 DEF RecordsHaveTheirFiles, DoomedUnused, Excepted
<1>. QED
  BY <1>5, <1>6, <1>7, <1>8, <1>9, <1>10

(* The statement commits, its answer heard or not.  What it replaced is to *)
(* be deleted, if the table deletes its files.                             *)
LEMMA Commits ==
  ASSUME FilesInv, NEW c \in Calls, call[c].pc = "run", ~Conflicts(c),
         NEW keys \in SUBSET Keys, Reach(c, keys), records' = WrittenRecords(c, keys),
         shared' = shared \cup SharedBy(records'),
         NEW pc \in {"success", "error"}, NEW delete \in SUBSET Names,
         Cleans(c, pc, delete),
         Doomed(c)' \subseteq call[c].upload \cup ToDelete(c, keys),
         Doomed(c)' \cap NewFiles(c, keys) \subseteq waived',
         ToDelete(c, keys) \subseteq Doomed(c)' \cup abandoned',
         waived \subseteq waived', abandoned \subseteq abandoned',
         waived' \in SUBSET Names, abandoned' \in SUBSET Names,
         unheard' \in 0 .. MaxLost, UNCHANGED <<fileTable, bucket, named>>
  PROVE  FilesInv'
<1>. USE DEF FilesInv
<1>. DEFINE New == NewFiles(c, keys)
            Old == OldFiles(keys)
<1>1. /\ call[c] \in FileRequest /\ call[c].where \in SUBSET Keys
      /\ call[c].set \in [call[c].where -> Names \cup {NoFile}]
      /\ call[c].upload \in SUBSET Names
  BY RequestFields
<1>2. /\ call' \in [Calls -> FileRequest]
      /\ \A d \in Calls : call'[d].set \in [call'[d].where -> Names \cup {NoFile}]
      /\ \A d \in Calls \ {c} : call'[d] = call[d]
      /\ Doomed(c)' = IF pc = "success" THEN delete ELSE call[c].upload
      /\ call'[c].ref = {} /\ call'[c].op = "none" /\ call'[c].pc = pc
  BY OnlyCleans
<1>4. /\ Writes(c)' = {} /\ ~Unwritten(c)'
      /\ \A d \in Calls \ {c} : /\ Writes(d)' = Writes(d) /\ Doomed(d)' = Doomed(d)
                                /\ Unwritten(d)' = Unwritten(d)
  BY OnlyCleans
<1>5. keys \subseteq call[c].where /\ New \subseteq Writes(c) /\ New \subseteq Names
  BY <1>1 DEF Reach, NewFiles, Writes
<1>6. records' \in [Keys -> Names \cup {NoFile, NoRecord}]
  BY <1>1, <1>5 DEF WrittenRecords, FilesTypeOK
<1>7. /\ Old \subseteq ReferredTo /\ ReferredTo \subseteq Names /\ ReferredTo' \subseteq Names
  BY <1>6, RecordFilesAssumption DEF OldFiles, ReferredTo, FilesTypeOK
<1>8. ASSUME NEW f \in ReferredTo', f \notin New
      PROVE  \E l \in Keys \ keys : records[l] = f
  BY <1>8, <1>1, <1>5, <1>7, RecordFilesAssumption
     DEF ReferredTo, WrittenRecords, NewFiles
<1>9. ReferredTo' \subseteq ReferredTo \cup New
  BY <1>8 DEF ReferredTo
<1>10. ASSUME fileTable.autoDelete, NEW f \in ReferredTo, f \notin ReferredTo'
       PROVE  f \in ToDelete(c, keys)
  <2>1. PICK k \in Keys : records[k] = f
    BY <1>10 DEF ReferredTo
  <2>2. k \in keys
    BY <1>10, <2>1 DEF ReferredTo, WrittenRecords
  <2>3. f \in Old
    BY <1>7, <1>10, <2>1, <2>2 DEF OldFiles
  <2>4. call[c].op # "insert"
    BY <1>5, <1>10, <2>1, <2>2 DEF Conflicts, Exists, ReferredTo
  <2>5. f \notin New
    <3>. SUFFICES ASSUME NEW l \in keys, call[c].set[l] = f, f \in Names  PROVE FALSE
      BY DEF NewFiles
    <3>1. call[c].op = "delete"
      BY <1>10, RecordFilesAssumption DEF ReferredTo, WrittenRecords
    <3>2. Writes(c) = {}
      BY <3>1 DEF Shapes
    <3>. QED
      BY <3>2, <1>5 DEF NewFiles
  <2>. QED
    BY <1>10, <2>3, <2>4, <2>5 DEF ToDelete, Returned
<1>11. Excepted \subseteq Excepted' /\ shared \subseteq shared'
  BY DEF Excepted
<1>12. \A f \in ToDelete(c, keys) : f \in call[c].upload \/ (fileTable.autoDelete /\ f \in Old)
  BY DEF ToDelete
<1>13. FilesTypeOK'
  <2>1. shared' \in SUBSET Names
    BY DEF SharedBy, FilesTypeOK
  <2>. QED
    BY <1>2, <1>6, <2>1 DEF FilesTypeOK
<1>14. Shapes'
  BY <1>2, <1>4 DEF Shapes
<1>15. AllNamed'
  <2>1. Writes(c) \subseteq named /\ call[c].upload \subseteq named /\ Old \subseteq named
    BY <1>7 DEF AllNamed, Doomed
  <2>2. Doomed(c)' \subseteq named
    BY <1>12, <2>1
  <2>. QED
    BY <1>4, <1>5, <1>9, <2>1, <2>2 DEF AllNamed
<1>16. SharedNoted'
  BY DEF SharedNoted
<1>17. DoomedUnused'
  <2>1. Doomed(c)' \cap ReferredTo' \subseteq Excepted'
    <3>. SUFFICES ASSUME NEW f \in Doomed(c)', f \in ReferredTo', f \notin New
                  PROVE  f \in Excepted'
      BY DEF Excepted
    <3>1. PICK l \in Keys \ keys : records[l] = f
      BY <1>8
    <3>2. CASE f \in call[c].upload
      BY <1>9, <1>11, <3>2 DEF DoomedUnused, Doomed
    <3>3. CASE f \in Old
      <4>1. PICK k \in keys : records[k] = f /\ f \in Names
        BY <3>3 DEF OldFiles
      <4>2. f \in SharedBy(records)
        BY <3>1, <4>1 DEF SharedBy
      <4>. QED
        BY <4>2, <1>11 DEF SharedNoted, Excepted
    <3>. QED
      BY <1>12, <3>2, <3>3
  <2>2. ASSUME NEW e \in Calls \ {c}, Unwritten(e)
        PROVE  Doomed(c)' \cap Writes(e) \subseteq Excepted'
    <3>. SUFFICES ASSUME NEW f \in Doomed(c)', f \in Writes(e)
                  PROVE  f \in Excepted
      BY <1>11
    <3>1. CASE f \in call[c].upload
      BY <2>2, <3>1 DEF DoomedUnused, Doomed
    <3>2. CASE fileTable.autoDelete /\ f \in Old
      <4>1. call[e].ref = {}
        BY <3>2 DEF Shapes, FilesTypeOK, FileTables
      <4>2. f \in Doomed(e)
        BY <2>2, <4>1 DEF Shapes, Doomed, Unwritten
      <4>. QED
        BY <1>7, <3>2, <4>2 DEF DoomedUnused
    <3>. QED
      BY <1>12, <3>1, <3>2
  <2>3. ASSUME NEW d \in Calls \ {c}
        PROVE  Doomed(d) \cap ReferredTo' \subseteq Excepted'
    <3>1. Doomed(d) \cap ReferredTo \subseteq Excepted
      BY DEF DoomedUnused
    <3>2. Doomed(d) \cap Writes(c) \subseteq Excepted
      BY <2>3 DEF DoomedUnused, Unwritten
    <3>. QED
      BY <3>1, <3>2, <1>5, <1>9, <1>11
  <2>4. ASSUME NEW d \in Calls \ {c}, NEW e \in Calls \ {d}, Unwritten(e)'
        PROVE  Doomed(d) \cap Writes(e) \subseteq Excepted'
    <3>1. e # c /\ Unwritten(e)
      BY <2>4, <1>4
    <3>. QED
      BY <3>1, <1>11 DEF DoomedUnused
  <2>. QED
    BY <1>4, <2>1, <2>2, <2>3, <2>4 DEF DoomedUnused
<1>18. StoredFirst'
  <2>1. \A d \in Calls \ {c} : call'[d] = call[d] /\ Writes(d)' = Writes(d)
    BY <1>2, <1>4
  <2>. QED
    BY <1>4, <1>11, <2>1, SameStored
<1>19. Accounted'
  <2>. SUFFICES ASSUME fileTable.autoDelete, NEW f \in bucket
                PROVE  f \in ReferredTo' \cup AllDoomed' \cup abandoned' \cup shared'
    BY DEF Accounted
  <2>1. f \in ReferredTo \cup abandoned \cup shared \/ \E d \in Calls : f \in Doomed(d)
    BY DEF Accounted, AllDoomed
  <2>2. CASE f \in ToDelete(c, keys)
    BY <2>2 DEF AllDoomed
  <2>3. CASE f \in ReferredTo
    BY <1>10, <2>2, <2>3
  <2>4. CASE f \in Doomed(c)
    <3>1. f \in call[c].upload
      BY <2>4 DEF Doomed
    <3>2. CASE f \in New
      <4>1. PICK k \in keys : call[c].set[k] = f /\ f \in Names
        BY <3>2 DEF NewFiles
      <4>2. call[c].op # "delete"
        BY <3>1 DEF Shapes
      <4>3. records'[k] = f
        BY <4>1, <4>2 DEF WrittenRecords
      <4>. QED
        BY <4>1, <4>3, RecordFilesAssumption DEF ReferredTo
    <3>. QED
      BY <2>2, <3>1, <3>2 DEF ToDelete, Returned
  <2>5. CASE \E d \in Calls \ {c} : f \in Doomed(d)
    BY <2>5, <1>4 DEF AllDoomed
  <2>. QED
    BY <2>1, <2>3, <2>4, <2>5, <1>11
<1>20. RecordsHaveTheirFiles'
  <2>1. New \subseteq bucket \cup Excepted
    BY <1>5 DEF StoredFirst
  <2>. QED
    BY <2>1, <1>9, <1>11 DEF RecordsHaveTheirFiles, Excepted
<1>. QED
  BY <1>13, <1>14, <1>15, <1>16, <1>17, <1>18, <1>19, <1>20

-----------------------------------------------------------------------------
LEMMA BeginsKeeps == \A c \in Calls : FilesInv /\ Begins(c) => FilesInv'
<1>. SUFFICES ASSUME NEW c \in Calls, FilesInv, Begins(c)  PROVE FilesInv'
  OBVIOUS
<1>1. ASSUME NEW op, NEW keys, NEW set, NEW upload, NEW ref,
             Starts(c, op, keys, set, upload, ref)
      PROVE  /\ op \in FileOps /\ UNCHANGED waived
             /\ Start(c, Request(op, keys, set, upload, ref, TRUE, TRUE))
  <2>1. Request(op, keys, set, upload, ref, TRUE, TRUE).op = op
    BY DEF Request
  <2>. QED
    BY <1>1, <2>1 DEF Starts, Start
<1>2. ASSUME NEW op, NEW keys, NEW set, NEW upload, Asks(op, keys, set, upload, {}),
             Starts(c, op, keys, set, upload, {})
      PROVE  FilesInv'
  BY <1>1, <1>2, StartsKeeps
<1>3. CASE Insert(c)
  <2>0. PICK keys \in SUBSET Keys : \E set \in [keys -> (Names \ named) \cup {NoFile}] :
          \E returned \in BOOLEAN :
            /\ Start(c, Request("insert", keys, set, {set[k] : k \in keys} \ {NoFile}, {},
                                returned, TRUE))
            /\ UNCHANGED waived
    BY <1>3 DEF Insert
  <2>1. PICK set \in [keys -> (Names \ named) \cup {NoFile}], returned \in BOOLEAN :
          /\ Start(c, Request("insert", keys, set, {set[k] : k \in keys} \ {NoFile}, {},
                              returned, TRUE))
          /\ UNCHANGED waived
    BY <2>0
  <2>. DEFINE upload == {set[k] : k \in keys} \ {NoFile}
  <2>2. Asks("insert", keys, set, upload, {})
    BY <2>1 DEF Asks, Start, Request
  <2>3. Start(c, Request("insert", keys, set, upload, {}, returned, TRUE)) /\ UNCHANGED waived
    BY <2>1
  <2>. HIDE DEF upload
  <2>. QED
    BY <2>2, <2>3, StartsKeeps
<1>4. CASE Update(c)
  <2>1. PICK keys \in SUBSET Keys, f \in Names \ named :
          Starts(c, "update", keys, [k \in keys |-> f], {f}, {})
    BY <1>4 DEF Update
  <2>. DEFINE set == [k \in keys |-> f]
              upload == {f}
  <2>2. Starts(c, "update", keys, set, upload, {})
    BY <2>1
  <2>3. Asks("update", keys, set, upload, {})
    BY <1>1, <2>2 DEF Asks
  <2>. HIDE DEF set, upload
  <2>. QED
    BY <2>2, <2>3, <1>2
<1>5. CASE Clear(c)
  <2>1. PICK keys \in SUBSET Keys :
          Starts(c, "clear", keys, [k \in keys |-> NoFile], {}, {})
    BY <1>5 DEF Clear
  <2>. DEFINE set == [k \in keys |-> NoFile]
              upload == {}
  <2>2. Starts(c, "clear", keys, set, upload, {})
    BY <2>1
  <2>3. Asks("clear", keys, set, upload, {})
    BY <1>1, <2>2 DEF Asks
  <2>. HIDE DEF set, upload
  <2>. QED
    BY <2>2, <2>3, <1>2
<1>6. CASE Refer(c)
  <2>0. PICK k \in Keys, f \in (Names \ InHand) \cup ReferredTo, checked \in BOOLEAN :
          /\ Start(c, Request("refer", {k}, [x \in {k} |-> f], {}, {f}, TRUE, checked))
          /\ waived' = IF checked THEN waived ELSE waived \cup ({f} \ bucket)
    BY <1>6 DEF Refer
  <2>. DEFINE op == "refer"
              keys == {k}
              set == [x \in keys |-> f]
              upload == {}
              ref == {f}
              pc == IF checked THEN "check" ELSE "run"
  <2>1. f \in Names /\ fileTable.multipleRef /\ waived \in SUBSET Names
    BY <1>6 DEF Refer, ReferredTo, FilesInv, FilesTypeOK
  <2>2. Asks(op, keys, set, upload, ref)
    BY <2>0, <2>1 DEF Asks, Start, Request
  <2>3. Begun(c, pc, op, keys, set, upload, ref, TRUE)
    BY <2>0, <2>1 DEF Begun, Request
  <2>. HIDE DEF op, keys, set, upload, ref, pc
  <2>. QED
    BY <2>2, <2>3, StartKeeps
<1>7. CASE Delete(c)
  <2>1. PICK keys \in SUBSET Keys :
          Starts(c, "delete", keys, [k \in keys |-> NoFile], {}, {})
    BY <1>7 DEF Delete
  <2>. DEFINE set == [k \in keys |-> NoFile]
              upload == {}
  <2>2. Starts(c, "delete", keys, set, upload, {})
    BY <2>1
  <2>3. Asks("delete", keys, set, upload, {})
    BY <1>1, <2>2 DEF Asks
  <2>. HIDE DEF set, upload
  <2>. QED
    BY <2>2, <2>3, <1>2
<1>. QED
  BY <1>3, <1>4, <1>5, <1>6, <1>7 DEF Begins

LEMMA ProceedsKeeps == \A c \in Calls : FilesInv /\ Proceeds(c) => FilesInv'
<1>. SUFFICES ASSUME NEW c \in Calls, FilesInv, Proceeds(c)  PROVE FilesInv'
  OBVIOUS
<1>1. /\ call[c] \in FileRequest /\ call[c].upload \in SUBSET Names
      /\ call[c].delete \in SUBSET Names /\ Shapes /\ FilesTypeOK
  BY RequestFields DEF FilesInv
<1>. DEFINE None == {}
<1>2. None \in SUBSET call[c].upload /\ bucket = bucket \cup None
  OBVIOUS
<1>3. CASE CheckRefs(c)
  <2>1. /\ Unwritten(c) /\ bucket' = bucket
        /\ UNCHANGED <<fileTable, records, named, unheard, shared, waived, abandoned>>
    BY <1>3 DEF CheckRefs, Unwritten
  <2>2. CASE call[c].ref \subseteq bucket
    <3>1. call[c].ref # {}
      BY <1>3, <1>1 DEF CheckRefs, FilesInv, StoredFirst
    <3>2. Writes(c) \subseteq bucket \cup Excepted /\ Goto(c, "run")
      BY <1>1, <1>3, <2>2, <3>1 DEF Shapes, CheckRefs
    <3>. QED
      BY <1>2, <2>1, <3>2, Moves
  <2>3. CASE ~(call[c].ref \subseteq bucket)
    <3>1. Fails(c)
      BY <1>3, <2>3 DEF CheckRefs
    <3>. QED
      BY <1>2, <2>1, <3>1, FailsKeeps
  <2>. QED
    BY <2>2, <2>3
<1>4. CASE Upload(c)
  <2>1. Writes(c) \subseteq bucket' \cup Excepted
    BY <1>4, <1>1 DEF Upload, Shapes, FilesInv, StoredFirst
  <2>2. call[c].upload \in SUBSET call[c].upload /\ Unwritten(c)
    BY <1>4 DEF Upload, Unwritten
  <2>. QED
    BY <1>4, <2>1, <2>2, Moves DEF Upload
<1>5. CASE UploadFails(c)
  <2>1. PICK stored \in SUBSET call[c].upload : bucket' = bucket \cup stored
    BY <1>5 DEF UploadFails
  <2>2. Unwritten(c)
    BY <1>5 DEF UploadFails, Unwritten
  <2>. QED
    BY <1>5, <2>1, <2>2, FailsKeeps DEF UploadFails
<1>6. CASE RunFails(c)
  <2>1. /\ Unwritten(c) /\ bucket' = bucket /\ Fails(c)
        /\ UNCHANGED <<fileTable, records, named, unheard, shared, waived, abandoned>>
    BY <1>6 DEF RunFails, Unwritten
  <2>. QED
    BY <1>2, <2>1, FailsKeeps
<1>7. CASE Run(c)
  <2>1. PICK keys \in SUBSET Keys :
          /\ Reach(c, keys) /\ records' = WrittenRecords(c, keys)
          /\ shared' = shared \cup SharedBy(records')
          /\ waived' = waived \cup Unheard(c, keys)
          /\ Cleans(c, "success", ToDelete(c, keys))
    BY <1>7 DEF Run
  <2>2. /\ ToDelete(c, keys) \in SUBSET Names /\ Unheard(c, keys) \in SUBSET Names
        /\ Returned(c, keys) \subseteq NewFiles(c, keys)
    BY <1>1 DEF ToDelete, OldFiles, NewFiles, Unheard, Returned
  <2>3. Doomed(c)' = ToDelete(c, keys)
    BY <2>1, <2>2, OnlyCleans
  <2>4. Doomed(c)' \cap NewFiles(c, keys) \subseteq Unheard(c, keys)
    BY <2>3 DEF ToDelete, Unheard
  <2>5. /\ waived' \in SUBSET Names /\ abandoned \in SUBSET Names
        /\ unheard \in 0 .. MaxLost
    BY <1>1, <2>1, <2>2 DEF FilesTypeOK
  <2>6. /\ call[c].pc = "run" /\ ~Conflicts(c)
        /\ UNCHANGED <<fileTable, bucket, named, abandoned, unheard>>
    BY <1>7 DEF Run
  <2>. QED
    BY <2>1, <2>2, <2>3, <2>4, <2>5, <2>6, Commits
<1>8. CASE RunLost(c)
  <2>1. PICK keys \in SUBSET Keys :
          /\ Reach(c, keys) /\ records' = WrittenRecords(c, keys)
          /\ shared' = shared \cup SharedBy(records')
          /\ waived' = waived \cup NewFiles(c, keys)
          /\ abandoned' = abandoned \cup ToDelete(c, keys)
    BY <1>8 DEF RunLost
  <2>2. ToDelete(c, keys) \in SUBSET Names /\ NewFiles(c, keys) \in SUBSET Names
    BY <1>1 DEF ToDelete, OldFiles, NewFiles
  <2>3. Cleans(c, "error", None) /\ None \in SUBSET Names
    BY <1>8 DEF RunLost, Fails
  <2>4. Doomed(c)' = call[c].upload
    BY <2>3, OnlyCleans
  <2>5. /\ waived' \in SUBSET Names /\ abandoned' \in SUBSET Names
        /\ unheard' \in 0 .. MaxLost
    BY <1>1, <1>8, <2>1, <2>2, RecordFilesAssumption DEF RunLost, FilesTypeOK
  <2>. QED
    BY <1>1, <1>8, <2>1, <2>2, <2>3, <2>4, <2>5, Commits DEF RunLost
<1>9. CASE OnError(c)
  <2>1. PICK gone \in SUBSET call[c].upload : RemoveFiles(call[c].upload, gone)
    BY <1>9 DEF OnError
  <2>2. Doomed(c) = call[c].upload
    BY <1>9 DEF OnError, Doomed
  <2>3. abandoned' \in SUBSET Names
    BY <1>1, <2>1 DEF RemoveFiles, FilesTypeOK
  <2>. QED
    BY <1>9, <2>1, <2>2, <2>3, Ends DEF OnError, RemoveFiles
<1>10. CASE OnSuccess(c)
  <2>1. PICK gone \in SUBSET call[c].delete : RemoveFiles(call[c].delete, gone)
    BY <1>10 DEF OnSuccess
  <2>2. Doomed(c) = call[c].delete
    BY <1>10 DEF OnSuccess, Doomed
  <2>3. abandoned' \in SUBSET Names
    BY <1>1, <2>1 DEF RemoveFiles, FilesTypeOK
  <2>. QED
    BY <1>10, <2>1, <2>2, <2>3, Ends DEF OnSuccess, RemoveFiles
<1>. QED
  BY <1>3, <1>4, <1>5, <1>6, <1>7, <1>8, <1>9, <1>10 DEF Proceeds

LEMMA EvictedKeeps == \A c \in Calls : FilesInv /\ Evicted(c) => FilesInv'
<1>. SUFFICES ASSUME NEW c \in Calls, FilesInv, Evicted(c)  PROVE FilesInv'
  OBVIOUS
<1>1. /\ call[c].upload \in SUBSET Names /\ call[c].delete \in SUBSET Names
      /\ abandoned \in SUBSET Names
  BY RequestFields DEF FilesInv, FilesTypeOK
<1>2. Doomed(c) \subseteq call[c].upload \cup call[c].delete
  BY DEF Doomed
<1>3. {} \in SUBSET Doomed(c) /\ bucket' = bucket \ {}
  BY DEF Evicted
<1>. QED
  BY <1>1, <1>2, <1>3, Ends DEF Evicted

-----------------------------------------------------------------------------
(* The inductive invariant of records and their files.                     *)
THEOREM FilesInvariant == FilesSpec => []FilesInv
<1>1. FilesInv /\ [FilesNext]_filesVars => FilesInv'
  <2>1. FilesInv /\ UNCHANGED filesVars => FilesInv'
    BY DEF FilesInv, filesVars, FilesTypeOK, Shapes, AllNamed, SharedNoted, DoomedUnused,
           StoredFirst, Accounted, AllDoomed, RecordsHaveTheirFiles, Excepted, Unwritten,
           Writes, Doomed, ReferredTo, SharedBy
  <2>. QED
    BY <2>1, BeginsKeeps, ProceedsKeeps, EvictedKeeps DEF FilesNext
<1>. QED
  BY <1>1, FilesInitInv, PTL DEF FilesSpec

(* Type correctness of records and their files.                            *)
THEOREM FilesTypeCorrect == FilesSpec => []FilesTypeOK
BY FilesInvariant, PTL DEF FilesInv

(* A file is missing under a record only when several records have         *)
(* referred to it, when its request did not hear that its batch had        *)
(* written it, or when it was referred to, unchecked, while not stored.    *)
THEOREM FilesOfRecordsKept == FilesSpec => []RecordsHaveTheirFiles
BY FilesInvariant, PTL DEF FilesInv

(* On a table that deletes its files no stored object is forgotten.        *)
THEOREM NoFileOrphaned == FilesSpec => []NoOrphans
<1>1. FilesInv => NoOrphans
  <2>1. AllDoomed \subseteq InHand
    BY DEF AllDoomed, InHand, Doomed
  <2>. QED
    BY <2>1 DEF FilesInv, Accounted, NoOrphans
<1>. QED
  BY <1>1, FilesInvariant, PTL
=============================================================================
