------------------------------ MODULE Storages ------------------------------
(***************************************************************************)
(* Storage records (crates/file-storage/src/storages) and what depends on  *)
(* them: upload sessions, files, objects and the public readers of files.  *)
(*                                                                         *)
(* Administrators change records in transactions that first take one       *)
(* advisory lock (STORAGE_LIFECYCLE_LOCK) and then read the row; an upload *)
(* starts under the same lock.  Completions, deletions of files and        *)
(* readers do not take it: they resolve the record by id and use what they *)
(* read while it may change.                                               *)
(*                                                                         *)
(* The upload protocol itself is the subject of Uploads: here one worker   *)
(* at a time acts on an upload, and its object has one name.               *)
(***************************************************************************)
EXTENDS Naturals, FiniteSets

CONSTANTS
    Ids,        \* storage ids, serial and never reused
    First,      \* the storage the seed creates
    Places,     \* driver and object location of a record: root, bucket, endpoint, ...
    LocalPlaces,\* the places of driver local
    HomeOf,     \* the place a record is created with
    Keys,       \* access and secret keys an administrator may enter
    Blank,      \* an empty key
    Files,      \* uploads and the files they become, or imported URLs
    Requests,   \* administrator transactions and upload starts in progress
    Readers,    \* requests for /uploads/{object} in progress
    NoOne, NoId, NoPlace, NoFile

Pairs == (Keys \cup {Blank}) \X (Keys \cup {Blank})

ASSUME StoragesConstants ==
    /\ First \in Ids
    /\ LocalPlaces \subseteq Places
    /\ HomeOf \in [Ids -> Places]
    /\ HomeOf[First] \in LocalPlaces
    /\ Blank \notin Keys
    /\ NoOne \notin Requests /\ NoId \notin Ids /\ NoPlace \notin Places /\ NoFile \notin Files

VARIABLES
    records,    \* sys_storages
    lock,       \* who holds the lifecycle lock
    reqs,       \* transactions that hold it
    files,      \* uploaded_file_sessions and uploaded_files: what the row of an upload is
    objects,    \* <<place, file>>: the objects in the backends
    workers,    \* the completion, reaper or deletion at work on an upload
    readers     \* public readers

vars == <<records, lock, reqs, files, objects, workers, readers>>

NoRecord == [row |-> "new", enabled |-> FALSE, isDefault |-> FALSE,
             place |-> NoPlace, keys |-> <<Blank, Blank>>]
NoRequest == [pc |-> "idle", op |-> "none", id |-> NoId, place |-> NoPlace,
              enabled |-> FALSE, keys |-> <<Blank, Blank>>, seen |-> NoRecord]
NoWork == [pc |-> "idle", place |-> NoPlace]
NoRead == [pc |-> "idle", file |-> NoFile, id |-> NoId, place |-> NoPlace]

-----------------------------------------------------------------------------
(* Configurations.                                                         *)

Driver(place) == IF place \in LocalPlaces THEN "local" ELSE "s3"

\* merge_secret, for either key: an empty one keeps the stored one.
Merge(entered, stored) ==
    <<IF entered[1] = Blank THEN stored[1] ELSE entered[1],
      IF entered[2] = Blank THEN stored[2] ELSE entered[2]>>

\* config_from_record, config_from_input and validate_config: an S3 record needs both keys.
ValidConfig(place, keys) == Driver(place) = "s3" => keys[1] # Blank /\ keys[2] # Blank
KeptKeys(place, keys) == IF Driver(place) = "s3" THEN keys ELSE <<Blank, Blank>>

\* config_from_record, then validate_config: what the row says is usable.
ValidRecord(rec) == ValidConfig(rec.place, rec.keys)

\* same_location: every field of the location, and none of the secrets.
SameLocation(place, other) == place = other

InDatabase(id) == records[id].row = "row"
Default == {id \in Ids : InDatabase(id) /\ records[id].isDefault}

\* StorageService::load, at the start of a process.
Loadable ==
    /\ \A id \in Ids : InDatabase(id) => ValidRecord(records[id])
    /\ Default # {}
    /\ \A id \in Default : records[id].enabled

-----------------------------------------------------------------------------
(* Transactions under the lifecycle lock: it is taken, and the row is read.*)
(* A request that is refused on what it read rolls back (Refuse); one that *)
(* finds no row has no step.                                               *)

\* Variant: the transaction does not wait for the lock.
FreeAlways == TRUE

Free == lock = NoOne

Locked(r, q) ==
    /\ reqs[r].pc = "idle"
    /\ Free
    /\ InDatabase(q.id)
    /\ lock' = r
    /\ reqs' = [reqs EXCEPT ![r] = [q EXCEPT !.pc = "locked", !.seen = records[q.id]]]
    /\ UNCHANGED <<records, files, objects, workers, readers>>

Done(r) ==
    /\ lock' = IF lock = r THEN NoOne ELSE lock
    /\ reqs' = [reqs EXCEPT ![r] = NoRequest]

BeginUpdate(r) ==
    \E id \in Ids, place \in Places, enabled \in BOOLEAN, keys \in Pairs :
        Locked(r, [NoRequest EXCEPT !.op = "update", !.id = id, !.place = place,
                                    !.enabled = enabled, !.keys = KeptKeys(place, keys)])

BeginSetEnabled(r) ==
    \E id \in Ids, enabled \in BOOLEAN :
        Locked(r, [NoRequest EXCEPT !.op = "setEnabled", !.id = id, !.enabled = enabled])

BeginSetDefault(r) ==
    \E id \in Ids : Locked(r, [NoRequest EXCEPT !.op = "setDefault", !.id = id])

BeginDelete(r) ==
    \E id \in Ids : Locked(r, [NoRequest EXCEPT !.op = "delete", !.id = id])

\* default_id_locked: the lock, then the default record.
BeginUpload(r) ==
    \E id \in Default : Locked(r, [NoRequest EXCEPT !.op = "start", !.id = id])

\* Variant: an update may move the location.
MayUpdateAnywhere(q) ==
    /\ q.seen.isDefault => q.enabled
    /\ ValidConfig(q.place, Merge(q.keys, q.seen.keys))

\* update: code, driver and location are those stored, the default stays
\* enabled, and the merged configuration is valid.
MayUpdate(q) ==
    /\ SameLocation(q.place, q.seen.place)
    /\ q.seen.isDefault => q.enabled
    /\ ValidConfig(q.place, Merge(q.keys, q.seen.keys))

\* Variant: the default may be disabled.
MayEnableAny(q) == q.seen.enabled # q.enabled

MayEnable(q) ==
    /\ q.seen.isDefault => q.enabled
    /\ q.seen.enabled # q.enabled
    /\ q.enabled => ValidRecord(q.seen)

MayBeDefault(q) == q.seen.enabled /\ ~q.seen.isDefault
MayStart(q) == q.seen.enabled /\ ValidRecord(q.seen)

UpdateRecord(r) ==
    LET q == reqs[r]
    IN  /\ q.pc = "locked" /\ q.op = "update" /\ MayUpdate(q)
        /\ records' = [records EXCEPT ![q.id].place = q.place, ![q.id].enabled = q.enabled,
                                      ![q.id].keys = Merge(q.keys, q.seen.keys)]
        /\ Done(r)
        /\ UNCHANGED <<files, objects, workers, readers>>

SetEnabled(r) ==
    LET q == reqs[r]
    IN  /\ q.pc = "locked" /\ q.op = "setEnabled" /\ MayEnable(q)
        /\ records' = [records EXCEPT ![q.id].enabled = q.enabled]
        /\ Done(r)
        /\ UNCHANGED <<files, objects, workers, readers>>

\* The old default is cleared and the new one set in one transaction.
SetDefault(r) ==
    LET q == reqs[r]
    IN  /\ q.pc = "locked" /\ q.op = "setDefault" /\ MayBeDefault(q)
        /\ records' = [id \in Ids |-> [records[id] EXCEPT !.isDefault = id = q.id]]
        /\ Done(r)
        /\ UNCHANGED <<files, objects, workers, readers>>

\* The rows that name a storage: sessions until their upload ends, files until they are removed.
SessionRows(id) == {f \in Files : files[f].row = "session" /\ files[f].id = id}
FileRows(id) == {f \in Files : files[f].row \in {"file", "pending"} /\ files[f].id = id}

\* Files and sessions are counted by one statement, hence at one moment.
CountReferences(id) == Cardinality(FileRows(id)) + Cardinality(SessionRows(id))

Count(r) ==
    LET q == reqs[r]
    IN  /\ q.pc = "locked" /\ q.op = "delete" /\ ~q.seen.isDefault
        /\ CountReferences(q.id) = 0
        /\ reqs' = [reqs EXCEPT ![r].pc = "counted"]
        /\ UNCHANGED <<records, lock, files, objects, workers, readers>>

\* Foreign keys would refuse the deletion while a row names the storage.
DeleteRecord(r) ==
    LET q == reqs[r]
    IN  /\ q.pc = "counted"
        /\ records' = IF FileRows(q.id) \cup SessionRows(q.id) = {}
                      THEN [records EXCEPT ![q.id] = [NoRecord EXCEPT !.row = "gone"]]
                      ELSE records
        /\ Done(r)
        /\ UNCHANGED <<files, objects, workers, readers>>

InsertSession(r) ==
    LET q == reqs[r]
    IN  /\ q.pc = "locked" /\ q.op = "start" /\ MayStart(q)
        /\ InDatabase(q.id)
        /\ \E f \in Files :
               /\ files[f].row = "none"
               /\ files' = [files EXCEPT ![f] = [row |-> "session", id |-> q.id]]
        /\ Done(r)
        /\ UNCHANGED <<records, objects, workers, readers>>

\* An early return, a failed statement or a dropped request: the transaction rolls back.
Refuse(r) ==
    /\ reqs[r].pc # "idle"
    /\ Done(r)
    /\ UNCHANGED <<records, files, objects, workers, readers>>

\* create is one insert without the lock; a used code is refused by its unique index.
Create(id) ==
    \E enabled \in BOOLEAN, entered \in Pairs :
        LET keys == KeptKeys(HomeOf[id], entered)
        IN  /\ records[id].row = "new"
            /\ ValidConfig(HomeOf[id], keys)
            /\ records' = [records EXCEPT ![id] =
                   [row |-> "row", enabled |-> enabled, isDefault |-> FALSE,
                    place |-> HomeOf[id], keys |-> keys]]
            /\ UNCHANGED <<lock, reqs, files, objects, workers, readers>>

-----------------------------------------------------------------------------
(* Work on one upload or file: the record is resolved first, its location  *)
(* used later.                                                             *)

\* backend_for_id; a record that is gone or invalid ends the operation.
Resolve(f) ==
    LET rec == records[files[f].id]
    IN  /\ files[f].row \in {"session", "pending"}
        /\ workers[f].pc = "idle"
        /\ rec.row = "row" /\ ValidRecord(rec)
        /\ \E pc \in (IF files[f].row = "session" THEN {"write", "reap"} ELSE {"delete"}) :
               workers' = [workers EXCEPT ![f] = [pc |-> pc, place |-> rec.place]]
        /\ UNCHANGED <<records, lock, reqs, files, objects, readers>>

WriteObject(f) ==
    /\ workers[f].pc = "write"
    /\ objects' = objects \cup {<<workers[f].place, f>>}
    /\ workers' = [workers EXCEPT ![f].pc = "commit"]
    /\ UNCHANGED <<records, lock, reqs, files, readers>>

\* The final transaction of a completion turns the session into a file.
CommitFile(f) ==
    /\ workers[f].pc = "commit"
    /\ files' = [files EXCEPT ![f].row = "file"]
    /\ workers' = [workers EXCEPT ![f] = NoWork]
    /\ UNCHANGED <<records, lock, reqs, objects, readers>>

\* FileService::delete on a stored file: the row is marked first.
MarkDeleted(f) ==
    /\ files[f].row = "file" /\ files[f].id # NoId
    /\ files' = [files EXCEPT ![f].row = "pending"]
    /\ UNCHANGED <<records, lock, reqs, objects, workers, readers>>

RemoveObject(f) ==
    /\ workers[f].pc \in {"reap", "delete"}
    /\ objects' = objects \ {<<workers[f].place, f>>}
    /\ workers' = [workers EXCEPT ![f].pc = "forget"]
    /\ UNCHANGED <<records, lock, reqs, files, readers>>

RemoveRow(f) ==
    /\ workers[f].pc = "forget"
    /\ files' = [files EXCEPT ![f].row = "gone"]
    /\ workers' = [workers EXCEPT ![f] = NoWork]
    /\ UNCHANGED <<records, lock, reqs, objects, readers>>

\* The operation fails or its process stops; a retry or recover() begins again.
Interrupt(f) ==
    /\ workers[f].pc # "idle"
    /\ workers' = [workers EXCEPT ![f] = NoWork]
    /\ UNCHANGED <<records, lock, reqs, files, objects, readers>>

\* import_url, and the deletion of such a file: no storage is involved.
Import(f) ==
    /\ files[f].row = "none"
    /\ files' = [files EXCEPT ![f] = [row |-> "file", id |-> NoId]]
    /\ UNCHANGED <<records, lock, reqs, objects, workers, readers>>

DeleteImported(f) ==
    /\ files[f].row = "file" /\ files[f].id = NoId
    /\ files' = [files EXCEPT ![f].row = "gone"]
    /\ UNCHANGED <<records, lock, reqs, objects, workers, readers>>

-----------------------------------------------------------------------------
(* read_local_object: the row, the record, the object's size, its bytes.   *)

Read(rd, next) ==
    /\ readers' = [readers EXCEPT ![rd] = next]
    /\ UNCHANGED <<records, lock, reqs, files, objects, workers>>

ReadRow(rd) ==
    \E f \in Files :
        /\ readers[rd].pc = "idle"
        /\ files[f].row = "file" /\ files[f].id # NoId
        /\ Read(rd, [NoRead EXCEPT !.pc = "row", !.file = f, !.id = files[f].id])

\* Variant: the reader looks in the default storage.
ReadDefaultRecord(rd) ==
    /\ readers[rd].pc = "row"
    /\ \E id \in Default :
           Read(rd, IF Driver(records[id].place) = "local"
                    THEN [readers[rd] EXCEPT !.pc = "stat", !.place = records[id].place]
                    ELSE [readers[rd] EXCEPT !.pc = "missing"])

\* An S3 object is not served here: the reader answers 404 and is done.
ReadRecord(rd) ==
    LET rec == records[readers[rd].id]
    IN  /\ readers[rd].pc = "row"
        /\ IF rec.row # "row" \/ ~ValidRecord(rec)
           THEN Read(rd, [readers[rd] EXCEPT !.pc = "missing"])
           ELSE Read(rd, IF Driver(rec.place) = "local"
                         THEN [readers[rd] EXCEPT !.pc = "stat", !.place = rec.place]
                         ELSE NoRead)

There(rd) == <<readers[rd].place, readers[rd].file>> \in objects

Stat(rd) ==
    /\ readers[rd].pc = "stat"
    /\ Read(rd, [readers[rd] EXCEPT !.pc = IF There(rd) THEN "stream" ELSE "missing"])

Stream(rd) ==
    /\ readers[rd].pc = "stream"
    /\ Read(rd, IF There(rd) THEN NoRead ELSE [readers[rd] EXCEPT !.pc = "missing"])

\* The failure is answered.
Answer(rd) ==
    /\ readers[rd].pc = "missing"
    /\ Read(rd, NoRead)

-----------------------------------------------------------------------------
(* Specification.                                                          *)

\* The seed has created the first storage, enabled and default.
Init ==
    /\ records = [id \in Ids |-> IF id = First
           THEN [row |-> "row", enabled |-> TRUE, isDefault |-> TRUE,
                 place |-> HomeOf[id], keys |-> <<Blank, Blank>>]
           ELSE NoRecord]
    /\ lock = NoOne
    /\ reqs = [r \in Requests |-> NoRequest]
    /\ files = [f \in Files |-> [row |-> "none", id |-> NoId]]
    /\ objects = {}
    /\ workers = [f \in Files |-> NoWork]
    /\ readers = [rd \in Readers |-> NoRead]

Transaction(r) ==
    \/ BeginUpdate(r)
    \/ BeginSetEnabled(r)
    \/ BeginSetDefault(r)
    \/ BeginDelete(r)
    \/ BeginUpload(r)
    \/ UpdateRecord(r)
    \/ SetEnabled(r)
    \/ SetDefault(r)
    \/ Count(r)
    \/ DeleteRecord(r)
    \/ InsertSession(r)
    \/ Refuse(r)

Work(f) ==
    \/ Resolve(f)
    \/ WriteObject(f)
    \/ CommitFile(f)
    \/ MarkDeleted(f)
    \/ RemoveObject(f)
    \/ RemoveRow(f)
    \/ Interrupt(f)
    \/ Import(f)
    \/ DeleteImported(f)

Serve(rd) ==
    \/ ReadRow(rd)
    \/ ReadRecord(rd)
    \/ Stat(rd)
    \/ Stream(rd)
    \/ Answer(rd)

Next ==
    \/ \E r \in Requests : Transaction(r)
    \/ \E id \in Ids : Create(id)
    \/ \E f \in Files : Work(f)
    \/ \E rd \in Readers : Serve(rd)

Spec == Init /\ [][Next]_vars

-----------------------------------------------------------------------------
(* Properties.                                                             *)

Records == [row : {"new", "row", "gone"}, enabled : BOOLEAN, isDefault : BOOLEAN,
            place : Places \cup {NoPlace}, keys : Pairs]

\* Types, and the lock never outlives the transaction that took it
\* (pg_advisory_xact_lock is released at commit or rollback).
TypeOK ==
    /\ records \in [Ids -> Records]
    /\ reqs \in [Requests -> [pc : {"idle", "locked", "counted"},
           op : {"none", "update", "setEnabled", "setDefault", "delete", "start"},
           id : Ids \cup {NoId}, place : Places \cup {NoPlace}, enabled : BOOLEAN,
           keys : Pairs, seen : Records]]
    /\ lock = NoOne \/ reqs[lock].pc # "idle"
    /\ files \in [Files -> [row : {"none", "session", "file", "pending", "gone"}, id : Ids \cup {NoId}]]
    /\ objects \subseteq Places \X Files
    /\ workers \in [Files -> [pc : {"idle", "write", "commit", "reap", "delete", "forget"},
                              place : Places \cup {NoPlace}]]
    /\ readers \in [Readers -> [pc : {"idle", "row", "stat", "stream", "missing"},
           file : Files \cup {NoFile}, id : Ids \cup {NoId}, place : Places \cup {NoPlace}]]

\* A process can start at any moment: there is one default, it is enabled,
\* and every record, a disabled or freshly updated one too, has a valid
\* configuration (StorageService::load refuses to start otherwise).
StartupSucceeds == Loadable /\ Cardinality(Default) = 1

\* The record an upload start has read is still the enabled default when the
\* session is inserted, whatever administrators do (default_id_locked).
UploadsStartOnDefault ==
    \A r \in Requests : reqs[r].pc = "locked" /\ reqs[r].op = "start" =>
        reqs[r].id \in Default /\ records[reqs[r].id].enabled

\* No session or file comes to name a storage between the count of its
\* references and its deletion: a storage in use is refused as in use, and
\* the foreign keys are never what refuses it (StorageService::delete).
CountHoldsUntilDeletion ==
    \A r \in Requests : reqs[r].pc = "counted" =>
        FileRows(reqs[r].id) \cup SessionRows(reqs[r].id) = {}

\* What was checked under the lifecycle lock still holds when it is acted upon:
\* the default of an upload start, and the count before a deletion.
ChecksHoldUntilWritten == UploadsStartOnDefault /\ CountHoldsUntilDeletion

\* Every stored file can be read where its record says it is: no sequence of
\* updates, default changes, disablings and deletions of storages, also one
\* that overlaps its upload, separates the two.
FilesReadable ==
    \A f \in Files : files[f].row = "file" /\ files[f].id # NoId =>
        /\ InDatabase(files[f].id)
        /\ <<records[files[f].id].place, f>> \in objects

\* Every object is in the place of a storage that its row still names, so the
\* deletion or the reaper that has to remove it will find it.
ObjectsReachable ==
    \A x \in objects :
        /\ files[x[2]].row \in {"session", "file", "pending"}
        /\ InDatabase(files[x[2]].id)
        /\ records[files[x[2]].id].place = x[1]

\* Types, and rows and objects agree on where a file is, from the first write to the last
\* deletion, whatever is done to its storage meanwhile.
FilesMatchObjects == TypeOK /\ FilesReadable /\ ObjectsReachable

\* A public reader that has found the row fails only if the file was deleted
\* meanwhile (read_local_object, and the stream it returns).
ReadersFindFiles ==
    \A rd \in Readers : readers[rd].pc = "missing" =>
        files[readers[rd].file].row \in {"pending", "gone"}

=============================================================================
