--------------------------- MODULE StoragesProofs ---------------------------
(***************************************************************************)
(* Proofs, for any storages, places, keys, uploads, requests and readers,  *)
(* of what Storages promises: a process can always be started, what was    *)
(* checked under the lifecycle lock holds until it is acted upon, files    *)
(* and objects match, and public readers miss only deleted files.          *)
(***************************************************************************)
EXTENDS Storages, FiniteSetTheorems, TLAPS

-----------------------------------------------------------------------------
(* The inductive invariant.                                                *)

\* A record stays where it was created, is valid, and one enabled one is default.
RecordInv ==
    /\ \A id \in Ids : InDatabase(id) => records[id].place = HomeOf[id] /\ ValidRecord(records[id])
    /\ \E d \in Ids : InDatabase(d) /\ records[d].enabled /\ Default = {d}

\* The lifecycle lock belongs to the one transaction, which has read its row as it is.
LockInv ==
    /\ lock \in Requests \cup {NoOne}
    /\ \A r \in Requests : reqs[r].pc # "idle" =>
           /\ lock = r
           /\ reqs[r].id \in Ids /\ InDatabase(reqs[r].id) /\ reqs[r].seen = records[reqs[r].id]
           /\ reqs[r].op = "start" => reqs[r].seen.isDefault
           /\ reqs[r].pc = "counted" =>
                  /\ reqs[r].op = "delete" /\ ~reqs[r].seen.isDefault
                  /\ FileRows(reqs[r].id) \cup SessionRows(reqs[r].id) = {}

\* The storages that rows name exist, and the rows are finitely many.
FileInv ==
    /\ \A f \in Files : files[f].row \in {"session", "pending"} => files[f].id # NoId
    /\ \A f \in Files : files[f].row \in {"session", "file", "pending"} /\ files[f].id # NoId =>
           files[f].id \in Ids /\ InDatabase(files[f].id)
    /\ IsFiniteSet({f \in Files : files[f].row # "none"})

\* A file has its object, and an object a row that finds it.
ObjectInv ==
    /\ FilesReadable
    /\ \A x \in objects :
           /\ files[x[2]].row \in {"session", "file", "pending"}
           /\ files[x[2]].id \in Ids /\ HomeOf[files[x[2]].id] = x[1]

\* What is known of an upload that is worked on, and of its object.
WorkerInv ==
    \A f \in Files :
        LET work == workers[f]
        IN  /\ work.pc \in {"write", "commit", "reap"} => files[f].row = "session"
            /\ work.pc = "delete" => files[f].row = "pending"
            /\ work.pc = "forget" => files[f].row \in {"session", "pending"}
            /\ work.pc # "idle" => work.place = HomeOf[files[f].id]
            /\ work.pc = "commit" => <<work.place, f>> \in objects
            /\ work.pc = "forget" => <<work.place, f>> \notin objects

\* A reader looks for a file that was stored where the reader looks.
ReaderInv ==
    \A rd \in Readers :
        LET reader == readers[rd]
        IN  /\ reader.pc # "idle" =>
                   /\ reader.file \in Files /\ reader.id \in Ids
                   /\ files[reader.file].id = reader.id
                   /\ files[reader.file].row \in {"file", "pending", "gone"}
            /\ reader.pc \in {"stat", "stream"} => reader.place = HomeOf[reader.id]
            /\ reader.pc = "missing" => files[reader.file].row \in {"pending", "gone"}

InductiveInv == RecordInv /\ LockInv /\ FileInv /\ ObjectInv /\ WorkerInv /\ ReaderInv

-----------------------------------------------------------------------------
(* Types of what the actions build.                                        *)

Request == [pc : {"idle", "locked", "counted"},
            op : {"none", "update", "setEnabled", "setDefault", "delete", "start"},
            id : Ids \cup {NoId}, place : Places \cup {NoPlace}, enabled : BOOLEAN,
            keys : Pairs, seen : Records]

LEMMA KeyPairs ==
  /\ <<Blank, Blank>> \in Pairs
  /\ \A place : \A keys \in Pairs : KeptKeys(place, keys) \in Pairs
  /\ \A entered, stored \in Pairs : Merge(entered, stored) \in Pairs
<1>1. <<Blank, Blank>> \in Pairs
  BY DEF Pairs
<1>2. ASSUME NEW entered \in Pairs, NEW stored \in Pairs
      PROVE  Merge(entered, stored) \in Pairs
  BY DEF Pairs, Merge
<1>3. ASSUME NEW place, NEW keys \in Pairs
      PROVE  KeptKeys(place, keys) \in Pairs
  BY <1>1 DEF KeptKeys
<1> QED
  BY <1>1, <1>2, <1>3

LEMMA InitialValues ==
  /\ NoRecord \in Records /\ NoRecord.row = "new" /\ ~NoRecord.isDefault
  /\ NoRequest \in Request /\ NoRequest.pc = "idle"
  /\ NoWork.pc = "idle" /\ NoWork.place = NoPlace
  /\ NoRead.pc = "idle"
<1>1. NoRecord \in Records
  BY KeyPairs DEF NoRecord, Records
<1> QED
  BY <1>1, KeyPairs DEF NoRecord, NoRequest, Request, NoWork, NoRead

-----------------------------------------------------------------------------
(* Steps that change transactions only.                                    *)

LEMMA RequestStep ==
  ASSUME TypeOK, InductiveInv, UNCHANGED <<records, files, objects, workers, readers>>,
         reqs' \in [Requests -> Request], LockInv',
         lock' = NoOne \/ reqs'[lock'].pc # "idle"
  PROVE  TypeOK' /\ InductiveInv'
<1>1. TypeOK'
  BY DEF TypeOK, Request
<1>2. RecordInv'
  BY DEF InductiveInv, RecordInv, InDatabase, Default
<1>3. FileInv'
  BY DEF InductiveInv, FileInv, InDatabase
<1>4. ObjectInv' /\ WorkerInv' /\ ReaderInv'
  BY DEF InductiveInv, ObjectInv, WorkerInv, ReaderInv, FilesReadable, InDatabase
<1> QED
  BY <1>1, <1>2, <1>3, <1>4 DEF InductiveInv

\* A transaction begins: it has the lock, and the row as it is.
LEMMA LockedStep ==
  ASSUME TypeOK, InductiveInv, NEW r \in Requests, NEW q \in Request, q.id \in Ids, Locked(r, q),
         q.op = "start" => records[q.id].isDefault
  PROVE  TypeOK' /\ InductiveInv'
<1> DEFINE k == [q EXCEPT !.pc = "locked", !.seen = records[q.id]]
<1>1. InDatabase(q.id) /\ records[q.id] \in Records
  BY DEF Locked, TypeOK
<1>2. /\ k \in Request /\ k.pc = "locked" /\ k.id = q.id /\ k.op = q.op
      /\ k.seen = records[q.id]
  BY <1>1 DEF Request
<1>3. /\ lock = NoOne /\ lock' = r /\ reqs' = [reqs EXCEPT ![r] = k]
      /\ UNCHANGED <<records, files, objects, workers, readers>>
  BY DEF Locked, Free
<1> HIDE DEF k
<1>4. reqs' \in [Requests -> Request] /\ reqs'[r] = k /\ \A o \in Requests \ {r} : reqs'[o] = reqs[o]
  BY <1>2, <1>3 DEF TypeOK, Request
<1>5. \A o \in Requests \ {r} : reqs'[o].pc = "idle"
  BY <1>3, <1>4, StoragesConstants DEF InductiveInv, LockInv
<1>6. LockInv'
  BY <1>1, <1>2, <1>3, <1>4, <1>5 DEF LockInv, InDatabase
<1> QED
  BY <1>2, <1>3, <1>4, <1>6, RequestStep

LEMMA BeginStep ==
  ASSUME TypeOK, InductiveInv, NEW r \in Requests,
         \/ BeginUpdate(r)
         \/ BeginSetEnabled(r)
         \/ BeginSetDefault(r)
         \/ BeginDelete(r)
         \/ BeginUpload(r)
  PROVE  TypeOK' /\ InductiveInv'
<1> USE InitialValues
<1>1. CASE BeginUpdate(r)
  <2>1. PICK id \in Ids, place \in Places, enabled \in BOOLEAN, keys \in Pairs :
          Locked(r, [NoRequest EXCEPT !.op = "update", !.id = id, !.place = place,
                                      !.enabled = enabled, !.keys = KeptKeys(place, keys)])
    BY <1>1 DEF BeginUpdate
  <2> DEFINE q == [NoRequest EXCEPT !.op = "update", !.id = id, !.place = place,
                                    !.enabled = enabled, !.keys = KeptKeys(place, keys)]
  <2>2. q \in Request /\ q.id = id /\ q.op = "update"
    BY KeyPairs DEF Request
  <2> HIDE DEF q
  <2> QED
    BY <2>1, <2>2, LockedStep DEF q
<1>2. CASE BeginSetEnabled(r)
  <2>1. PICK id \in Ids, enabled \in BOOLEAN :
          Locked(r, [NoRequest EXCEPT !.op = "setEnabled", !.id = id, !.enabled = enabled])
    BY <1>2 DEF BeginSetEnabled
  <2> DEFINE q == [NoRequest EXCEPT !.op = "setEnabled", !.id = id, !.enabled = enabled]
  <2>2. q \in Request /\ q.id = id /\ q.op = "setEnabled"
    BY DEF Request
  <2> QED
    BY <2>1, <2>2, LockedStep
<1>3. CASE BeginSetDefault(r)
  <2>1. PICK id \in Ids : Locked(r, [NoRequest EXCEPT !.op = "setDefault", !.id = id])
    BY <1>3 DEF BeginSetDefault
  <2> DEFINE q == [NoRequest EXCEPT !.op = "setDefault", !.id = id]
  <2>2. q \in Request /\ q.id = id /\ q.op = "setDefault"
    BY DEF Request
  <2> QED
    BY <2>1, <2>2, LockedStep
<1>4. CASE BeginDelete(r)
  <2>1. PICK id \in Ids : Locked(r, [NoRequest EXCEPT !.op = "delete", !.id = id])
    BY <1>4 DEF BeginDelete
  <2> DEFINE q == [NoRequest EXCEPT !.op = "delete", !.id = id]
  <2>2. q \in Request /\ q.id = id /\ q.op = "delete"
    BY DEF Request
  <2> QED
    BY <2>1, <2>2, LockedStep
<1>5. CASE BeginUpload(r)
  <2>1. PICK id \in Default : Locked(r, [NoRequest EXCEPT !.op = "start", !.id = id])
    BY <1>5 DEF BeginUpload
  <2> DEFINE q == [NoRequest EXCEPT !.op = "start", !.id = id]
  <2>2. id \in Ids /\ records[id].isDefault
    BY DEF Default
  <2>3. q \in Request /\ q.id = id
    BY <2>2 DEF Request
  <2> QED
    BY <2>1, <2>2, <2>3, LockedStep
<1> QED
  BY <1>1, <1>2, <1>3, <1>4, <1>5

\* The end of a transaction.
LEMMA DoneStep ==
  ASSUME TypeOK, LockInv, NEW r \in Requests, reqs[r].pc # "idle", Done(r)
  PROVE  /\ reqs' \in [Requests -> Request] /\ lock' = NoOne
         /\ \A o \in Requests : reqs'[o].pc = "idle"
<1>1. lock = r /\ \A o \in Requests \ {r} : reqs[o].pc = "idle"
  BY DEF LockInv
<1>2. reqs' = [reqs EXCEPT ![r] = NoRequest] /\ lock' = NoOne
  BY <1>1 DEF Done
<1> QED
  BY <1>1, <1>2, InitialValues DEF TypeOK, Request

LEMMA RefuseStep ==
  ASSUME TypeOK, InductiveInv, NEW r \in Requests, Refuse(r)
  PROVE  TypeOK' /\ InductiveInv'
<1>1. reqs[r].pc # "idle" /\ Done(r) /\ UNCHANGED <<records, files, objects, workers, readers>>
  BY DEF Refuse
<1>2. reqs' \in [Requests -> Request] /\ lock' = NoOne /\ LockInv'
  BY <1>1, DoneStep DEF InductiveInv, LockInv
<1> QED
  BY <1>1, <1>2, RequestStep

\* The count sees that no row names the storage.
LEMMA CountStep ==
  ASSUME TypeOK, InductiveInv, NEW r \in Requests, Count(r)
  PROVE  TypeOK' /\ InductiveInv'
<1> DEFINE k == [reqs[r] EXCEPT !.pc = "counted"]
<1>1. /\ reqs[r].pc = "locked" /\ reqs[r].op = "delete" /\ ~reqs[r].seen.isDefault
      /\ CountReferences(reqs[r].id) = 0
      /\ reqs' = [reqs EXCEPT ![r] = k]
      /\ UNCHANGED <<records, lock, files, objects, workers, readers>>
  BY DEF Count
<1>2. reqs[r] \in Request
  BY DEF TypeOK, Request
<1>3. /\ k \in Request /\ k.pc = "counted" /\ k.op = reqs[r].op
      /\ k.id = reqs[r].id /\ k.seen = reqs[r].seen
  BY <1>2 DEF Request
<1> HIDE DEF k
<1>4. FileRows(reqs[r].id) = {} /\ SessionRows(reqs[r].id) = {}
  <2> DEFINE S == {f \in Files : files[f].row # "none"}
             F == FileRows(reqs[r].id)
             T == SessionRows(reqs[r].id)
  <2>1. F \in SUBSET S /\ T \in SUBSET S
    BY DEF FileRows, SessionRows
  <2>2. IsFiniteSet(S)
    BY DEF InductiveInv, FileInv
  <2> HIDE DEF S, F, T
  <2>3. IsFiniteSet(F) /\ IsFiniteSet(T)
    BY <2>1, <2>2, FS_Subset
  <2>4. Cardinality(F) \in Nat /\ Cardinality(T) \in Nat /\ Cardinality(F) + Cardinality(T) = 0
    BY <2>3, <1>1, FS_CardinalityType DEF CountReferences, F, T
  <2>5. Cardinality(F) = 0 /\ Cardinality(T) = 0
    BY <2>4
  <2> QED
    BY <2>3, <2>5, FS_EmptySet DEF F, T
<1>5. reqs' \in [Requests -> Request] /\ reqs'[r] = k /\ \A o \in Requests \ {r} : reqs'[o] = reqs[o]
  BY <1>1, <1>3 DEF TypeOK, Request
<1>6. LockInv'
  BY <1>1, <1>3, <1>4, <1>5 DEF InductiveInv, LockInv, InDatabase, FileRows, SessionRows
<1>7. lock' = NoOne \/ reqs'[lock'].pc # "idle"
  BY <1>1, <1>3, <1>5 DEF InductiveInv, LockInv
<1> QED
  BY <1>1, <1>5, <1>6, <1>7, RequestStep

-----------------------------------------------------------------------------
(* Steps that change records.                                              *)

\* A record that rows name stays, in its place.
LEMMA RecordStep ==
  ASSUME TypeOK, InductiveInv, UNCHANGED <<files, objects, workers, readers>>,
         records' \in [Ids -> Records], reqs' \in [Requests -> Request],
         RecordInv', LockInv', lock' = NoOne \/ reqs'[lock'].pc # "idle",
         \A f \in Files : files[f].row \in {"session", "file", "pending"} /\ files[f].id # NoId =>
             records'[files[f].id].row = "row"
  PROVE  TypeOK' /\ InductiveInv'
<1>1. TypeOK'
  BY DEF TypeOK, Request
<1>2. FileInv'
  BY DEF InductiveInv, FileInv, InDatabase
<1>3. FilesReadable'
  <2> SUFFICES ASSUME NEW f \in Files, files[f].row = "file", files[f].id # NoId
               PROVE  records'[files[f].id].row = "row" /\ <<records'[files[f].id].place, f>> \in objects
    BY DEF FilesReadable, InDatabase
  <2>1. /\ files[f].id \in Ids /\ records[files[f].id].row = "row" /\ records'[files[f].id].row = "row"
        /\ <<records[files[f].id].place, f>> \in objects
    BY DEF InductiveInv, FileInv, ObjectInv, FilesReadable, InDatabase
  <2>2. records[files[f].id].place = HomeOf[files[f].id] /\ records'[files[f].id].place = HomeOf[files[f].id]
    BY <2>1 DEF InductiveInv, RecordInv, InDatabase
  <2> QED
    BY <2>1, <2>2
<1>4. ObjectInv' /\ WorkerInv' /\ ReaderInv'
  BY <1>3 DEF InductiveInv, ObjectInv, WorkerInv, ReaderInv
<1> QED
  BY <1>1, <1>2, <1>4 DEF InductiveInv

\* A transaction that changes one record of the database ends.
LEMMA ChangeStep ==
  ASSUME TypeOK, InductiveInv, NEW r \in Requests, reqs[r].pc # "idle", Done(r),
         NEW rec \in Records, records' = [records EXCEPT ![reqs[r].id] = rec],
         UNCHANGED <<files, objects, workers, readers>>,
         rec.row = "row", rec.place = HomeOf[reqs[r].id], ValidRecord(rec),
         rec.isDefault = records[reqs[r].id].isDefault, rec.isDefault => rec.enabled
  PROVE  TypeOK' /\ InductiveInv'
<1> DEFINE id == reqs[r].id
<1>1. id \in Ids /\ InDatabase(id)
  BY DEF InductiveInv, LockInv, InDatabase
<1>2. records' \in [Ids -> Records] /\ records'[id] = rec /\ \A i \in Ids \ {id} : records'[i] = records[i]
  BY <1>1 DEF TypeOK
<1> HIDE DEF id
<1>3. \A i \in Ids : records'[i].row = "row" <=> records[i].row = "row"
  BY <1>1, <1>2 DEF InDatabase
<1>4. Default' = Default
  BY <1>1, <1>2, <1>3 DEF Default, id, InDatabase
<1>5. RecordInv'
  <2>1. \A i \in Ids : records'[i].row = "row" => records'[i].place = HomeOf[i] /\ ValidRecord(records'[i])
    BY <1>2, <1>3 DEF InductiveInv, RecordInv, id, InDatabase
  <2>2. PICK d \in Ids : InDatabase(d) /\ records[d].enabled /\ Default = {d}
    BY DEF InductiveInv, RecordInv, InDatabase
  <2>3. records'[d].enabled
    BY <1>2, <2>2 DEF Default, id, InDatabase
  <2> QED
    BY <1>3, <1>4, <2>1, <2>2, <2>3 DEF RecordInv, InDatabase
<1>6. /\ reqs' \in [Requests -> Request] /\ lock' = NoOne
      /\ \A o \in Requests : reqs'[o].pc = "idle"
  BY DoneStep DEF InductiveInv
<1>7. LockInv'
  BY <1>6 DEF LockInv, InDatabase
<1>8. \A f \in Files : files[f].row \in {"session", "file", "pending"} /\ files[f].id # NoId =>
          records'[files[f].id].row = "row"
  BY <1>3 DEF InductiveInv, FileInv, InDatabase
<1> QED
  BY <1>2, <1>5, <1>6, <1>7, <1>8, RecordStep

LEMMA UpdateRecordStep ==
  ASSUME TypeOK, InductiveInv, NEW r \in Requests, UpdateRecord(r)
  PROVE  TypeOK' /\ InductiveInv'
<1> DEFINE q == reqs[r]
           rec == [records[q.id] EXCEPT !.place = q.place, !.enabled = q.enabled,
                                        !.keys = Merge(q.keys, q.seen.keys)]
<1>1. /\ q.pc = "locked" /\ MayUpdate(q) /\ Done(r)
      /\ records' = [records EXCEPT ![q.id] = rec]
      /\ UNCHANGED <<files, objects, workers, readers>>
  BY DEF UpdateRecord
<1>2. q \in Request /\ records \in [Ids -> Records]
  BY DEF TypeOK, Request
<1>3. q.id \in Ids /\ InDatabase(q.id) /\ q.seen = records[q.id]
  BY <1>1 DEF InductiveInv, LockInv, InDatabase
<1>4. Merge(q.keys, q.seen.keys) \in Pairs
  BY <1>2, KeyPairs DEF Request, Records
<1>5. /\ rec \in Records /\ rec.row = records[q.id].row /\ rec.isDefault = records[q.id].isDefault
      /\ rec.place = q.place /\ rec.enabled = q.enabled /\ rec.keys = Merge(q.keys, q.seen.keys)
  BY <1>2, <1>3, <1>4 DEF Request, Records
<1> HIDE DEF rec
<1>6. /\ rec.row = "row" /\ rec.place = HomeOf[q.id] /\ ValidRecord(rec)
      /\ rec.isDefault => rec.enabled
  BY <1>1, <1>3, <1>5
     DEF InDatabase, MayUpdate, SameLocation, ValidRecord, InductiveInv, RecordInv
<1> QED
  BY <1>1, <1>5, <1>6, ChangeStep

LEMMA SetEnabledStep ==
  ASSUME TypeOK, InductiveInv, NEW r \in Requests, SetEnabled(r)
  PROVE  TypeOK' /\ InductiveInv'
<1> DEFINE q == reqs[r]
           rec == [records[q.id] EXCEPT !.enabled = q.enabled]
<1>1. /\ q.pc = "locked" /\ MayEnable(q) /\ Done(r)
      /\ records' = [records EXCEPT ![q.id] = rec]
      /\ UNCHANGED <<files, objects, workers, readers>>
  BY DEF SetEnabled
<1>2. q \in Request /\ records \in [Ids -> Records]
  BY DEF TypeOK, Request
<1>3. q.id \in Ids /\ InDatabase(q.id) /\ q.seen = records[q.id]
  BY <1>1 DEF InductiveInv, LockInv, InDatabase
<1>4. /\ rec \in Records /\ rec.row = records[q.id].row /\ rec.isDefault = records[q.id].isDefault
      /\ rec.place = records[q.id].place /\ rec.enabled = q.enabled /\ rec.keys = records[q.id].keys
  BY <1>2, <1>3 DEF Request, Records
<1> HIDE DEF rec
<1>5. /\ rec.row = "row" /\ rec.place = HomeOf[q.id] /\ ValidRecord(rec)
      /\ rec.isDefault => rec.enabled
  BY <1>1, <1>3, <1>4 DEF InDatabase, MayEnable, ValidRecord, InductiveInv, RecordInv
<1> QED
  BY <1>1, <1>4, <1>5, ChangeStep

\* The default moves to an enabled record.
LEMMA SetDefaultStep ==
  ASSUME TypeOK, InductiveInv, NEW r \in Requests, SetDefault(r)
  PROVE  TypeOK' /\ InductiveInv'
<1> DEFINE q == reqs[r]
<1>1. /\ q.pc = "locked" /\ MayBeDefault(q) /\ Done(r)
      /\ records' = [id \in Ids |-> [records[id] EXCEPT !.isDefault = id = q.id]]
      /\ UNCHANGED <<files, objects, workers, readers>>
  BY DEF SetDefault, InDatabase
<1>2. q.id \in Ids /\ InDatabase(q.id) /\ q.seen = records[q.id]
  BY <1>1 DEF InductiveInv, LockInv, InDatabase
<1>3. ASSUME NEW id \in Ids
      PROVE  /\ records'[id] \in Records /\ records'[id].row = records[id].row
             /\ records'[id].place = records[id].place /\ records'[id].keys = records[id].keys
             /\ records'[id].enabled = records[id].enabled /\ records'[id].isDefault = (id = q.id)
  <2> DEFINE b == id = q.id
  <2>1. b \in BOOLEAN /\ records[id] \in Records
    BY DEF TypeOK
  <2>2. records'[id] = [records[id] EXCEPT !.isDefault = b]
    BY <1>1
  <2> HIDE DEF b
  <2>3. /\ records'[id] \in Records /\ records'[id].row = records[id].row
        /\ records'[id].place = records[id].place /\ records'[id].keys = records[id].keys
        /\ records'[id].enabled = records[id].enabled /\ records'[id].isDefault = b
    BY <2>1, <2>2 DEF Records
  <2> QED
    BY <2>3 DEF b
<1>4. records' \in [Ids -> Records]
  BY <1>1, <1>3
<1>5. \A id \in Ids : records'[id].row = "row" <=> records[id].row = "row"
  BY <1>3 DEF InDatabase
<1>6. RecordInv'
  <2>1. \A id \in Ids : records'[id].row = "row" => records'[id].place = HomeOf[id] /\ ValidRecord(records'[id])
    BY <1>3, <1>5 DEF InductiveInv, RecordInv, ValidRecord, InDatabase
  <2>2. records'[q.id].enabled /\ records'[q.id].row = "row"
    BY <1>1, <1>2, <1>3, <1>5 DEF MayBeDefault, InDatabase
  <2>3. Default' = {q.id}
    BY <1>2, <1>3, <1>5 DEF Default, InDatabase
  <2> QED
    BY <1>2, <2>1, <2>2, <2>3 DEF RecordInv, InDatabase
<1>7. /\ reqs' \in [Requests -> Request] /\ lock' = NoOne
      /\ \A o \in Requests : reqs'[o].pc = "idle"
  BY <1>1, DoneStep DEF InductiveInv
<1>8. LockInv'
  BY <1>7 DEF LockInv, InDatabase
<1>9. \A f \in Files : files[f].row \in {"session", "file", "pending"} /\ files[f].id # NoId =>
          records'[files[f].id].row = "row"
  BY <1>5 DEF InductiveInv, FileInv, InDatabase
<1> QED
  BY <1>1, <1>4, <1>6, <1>7, <1>8, <1>9, RecordStep

\* No row names the record that goes, and it is not the default.
LEMMA DeleteRecordStep ==
  ASSUME TypeOK, InductiveInv, NEW r \in Requests, DeleteRecord(r)
  PROVE  TypeOK' /\ InductiveInv'
<1> DEFINE q == reqs[r]
           rec == [NoRecord EXCEPT !.row = "gone"]
<1>1. /\ q.pc = "counted" /\ Done(r)
      /\ UNCHANGED <<files, objects, workers, readers>>
  BY DEF DeleteRecord
<1>2. /\ q.id \in Ids /\ InDatabase(q.id) /\ q.seen = records[q.id] /\ ~q.seen.isDefault
      /\ FileRows(q.id) \cup SessionRows(q.id) = {}
  BY <1>1 DEF InductiveInv, LockInv, InDatabase
<1>3. records' = [records EXCEPT ![q.id] = rec]
  BY <1>2 DEF DeleteRecord
<1>4. rec \in Records /\ rec.row = "gone"
  BY InitialValues DEF Records
<1> HIDE DEF rec
<1>5. /\ records' \in [Ids -> Records] /\ records'[q.id] = rec
      /\ \A i \in Ids \ {q.id} : records'[i] = records[i]
  BY <1>2, <1>3, <1>4 DEF TypeOK
<1>6. records'[q.id].row # "row" /\ \A i \in Ids \ {q.id} : records'[i].row = "row" <=> records[i].row = "row"
  BY <1>2, <1>4, <1>5 DEF InDatabase
<1>7. RecordInv'
  <2>1. PICK d \in Ids : InDatabase(d) /\ records[d].enabled /\ Default = {d}
    BY DEF InductiveInv, RecordInv, InDatabase
  <2>2. d # q.id
    BY <1>2, <2>1 DEF Default, InDatabase
  <2>3. Default' = {d}
    BY <1>5, <1>6, <2>1, <2>2 DEF Default, InDatabase
  <2>4. records'[d].row = "row" /\ records'[d].enabled
    BY <1>5, <1>6, <2>1, <2>2 DEF InDatabase
  <2>5. \A i \in Ids : records'[i].row = "row" => records'[i].place = HomeOf[i] /\ ValidRecord(records'[i])
    BY <1>5, <1>6 DEF InductiveInv, RecordInv, InDatabase
  <2> QED
    BY <2>3, <2>4, <2>5 DEF RecordInv, InDatabase
<1>8. /\ reqs' \in [Requests -> Request] /\ lock' = NoOne
      /\ \A o \in Requests : reqs'[o].pc = "idle"
  BY <1>1, DoneStep DEF InductiveInv
<1>9. LockInv'
  BY <1>8 DEF LockInv, InDatabase
<1>10. \A f \in Files : files[f].row \in {"session", "file", "pending"} /\ files[f].id # NoId =>
           records'[files[f].id].row = "row"
  BY <1>2, <1>6 DEF InductiveInv, FileInv, FileRows, SessionRows, InDatabase
<1> QED
  BY <1>1, <1>5, <1>7, <1>8, <1>9, <1>10, RecordStep

\* A new record is valid and not the default.
LEMMA CreateStep ==
  ASSUME TypeOK, InductiveInv, NEW id \in Ids, Create(id)
  PROVE  TypeOK' /\ InductiveInv'
<1>1. PICK enabled \in BOOLEAN, entered \in Pairs :
        /\ records[id].row = "new"
        /\ ValidConfig(HomeOf[id], KeptKeys(HomeOf[id], entered))
        /\ records' = [records EXCEPT ![id] =
               [row |-> "row", enabled |-> enabled, isDefault |-> FALSE,
                place |-> HomeOf[id], keys |-> KeptKeys(HomeOf[id], entered)]]
        /\ UNCHANGED <<lock, reqs, files, objects, workers, readers>>
  BY DEF Create
<1> DEFINE rec == [row |-> "row", enabled |-> enabled, isDefault |-> FALSE,
                   place |-> HomeOf[id], keys |-> KeptKeys(HomeOf[id], entered)]
<1>2. rec \in Records /\ ValidRecord(rec) /\ rec.row = "row" /\ ~rec.isDefault /\ rec.place = HomeOf[id]
  BY <1>1, KeyPairs, StoragesConstants DEF Records, ValidRecord
<1>3. records' = [records EXCEPT ![id] = rec]
  BY <1>1
<1> HIDE DEF rec
<1>4. /\ records' \in [Ids -> Records] /\ records'[id] = rec /\ ~InDatabase(id)
      /\ \A i \in Ids \ {id} : records'[i] = records[i]
  BY <1>1, <1>2, <1>3 DEF TypeOK, InDatabase
<1>5. records'[id].row = "row" /\ \A i \in Ids \ {id} : records'[i].row = "row" <=> records[i].row = "row"
  BY <1>2, <1>4 DEF InDatabase
<1>6. RecordInv'
  <2>1. Default' = Default
    BY <1>2, <1>4, <1>5 DEF Default, InDatabase
  <2>2. PICK d \in Ids : InDatabase(d) /\ records[d].enabled /\ Default = {d}
    BY DEF InductiveInv, RecordInv, InDatabase
  <2>3. d # id /\ records'[d].row = "row" /\ records'[d].enabled
    BY <1>4, <1>5, <2>2 DEF InDatabase
  <2>4. \A i \in Ids : records'[i].row = "row" => records'[i].place = HomeOf[i] /\ ValidRecord(records'[i])
    BY <1>2, <1>4, <1>5 DEF InductiveInv, RecordInv, InDatabase
  <2> QED
    BY <2>1, <2>2, <2>3, <2>4 DEF RecordInv, InDatabase
<1>7. LockInv'
  BY <1>1, <1>4, <1>5 DEF InductiveInv, LockInv, FileRows, SessionRows, InDatabase
<1>8. reqs' \in [Requests -> Request] /\ (lock' = NoOne \/ reqs'[lock'].pc # "idle")
  BY <1>1 DEF TypeOK, Request
<1>9. \A f \in Files : files[f].row \in {"session", "file", "pending"} /\ files[f].id # NoId =>
           records'[files[f].id].row = "row"
  BY <1>5 DEF InductiveInv, FileInv, InDatabase
<1> QED
  BY <1>1, <1>4, <1>6, <1>7, <1>8, <1>9, RecordStep

-----------------------------------------------------------------------------
(* Steps of uploads and files.                                             *)

LEMMA FinitelyManyRows ==
  ASSUME FileInv, NEW f \in Files, \A g \in Files \ {f} : files'[g] = files[g]
  PROVE  IsFiniteSet({g \in Files : files'[g].row # "none"})
<1> DEFINE S == {g \in Files : files[g].row # "none"}
           T == {g \in Files : files'[g].row # "none"}
<1>1. IsFiniteSet(S)
  BY DEF FileInv
<1>2. T \in SUBSET (S \cup {f})
  OBVIOUS
<1> HIDE DEF S, T
<1>3. IsFiniteSet(S \cup {f})
  BY <1>1, FS_AddElement
<1>4. IsFiniteSet(T)
  BY <1>2, <1>3, FS_Subset
<1> QED
  BY <1>4 DEF T

\* Transactions in progress stay right while no row comes to name their storage.
LEMMA LockKept ==
  ASSUME LockInv, UNCHANGED <<records, lock, reqs>>, NEW f \in Files,
         \A g \in Files \ {f} : files'[g] = files[g],
         \/ files'[f].row \notin {"session", "file", "pending"}
         \/ files'[f].id \notin Ids
         \/ files'[f].id = files[f].id /\ files[f].row \in {"session", "file", "pending"}
  PROVE  LockInv'
<1> SUFFICES ASSUME NEW r \in Requests, reqs[r].pc = "counted",
                    FileRows(reqs[r].id) \cup SessionRows(reqs[r].id) = {}, reqs[r].id \in Ids
             PROVE  (FileRows(reqs[r].id) \cup SessionRows(reqs[r].id) = {})'
  BY DEF LockInv, InDatabase
<1> QED
  BY DEF FileRows, SessionRows

LEMMA InsertSessionStep ==
  ASSUME TypeOK, InductiveInv, NEW r \in Requests, InsertSession(r)
  PROVE  TypeOK' /\ InductiveInv'
<1> DEFINE q == reqs[r]
<1>1. PICK f \in Files :
        /\ files[f].row = "none"
        /\ files' = [files EXCEPT ![f] = [row |-> "session", id |-> q.id]]
  BY DEF InsertSession
<1>2. q.pc = "locked" /\ Done(r) /\ InDatabase(q.id) /\ UNCHANGED <<records, objects, workers, readers>>
  BY DEF InsertSession
<1>3. q.id \in Ids
  BY <1>2 DEF InductiveInv, LockInv
<1>4. /\ files' \in [Files -> [row : {"none", "session", "file", "pending", "gone"}, id : Ids \cup {NoId}]]
      /\ files'[f].row = "session" /\ files'[f].id = q.id /\ \A g \in Files \ {f} : files'[g] = files[g]
  BY <1>1, <1>3 DEF TypeOK
<1>5. /\ reqs' \in [Requests -> Request] /\ lock' = NoOne
      /\ \A o \in Requests : reqs'[o].pc = "idle"
  BY <1>2, DoneStep DEF InductiveInv
<1>6. TypeOK'
  BY <1>2, <1>4, <1>5 DEF TypeOK, Request
<1>7. RecordInv' /\ LockInv'
  BY <1>2, <1>5 DEF InductiveInv, RecordInv, LockInv, InDatabase, Default
<1>8. FileInv'
  BY <1>2, <1>3, <1>4, FinitelyManyRows, StoragesConstants DEF InductiveInv, FileInv, InDatabase
<1>9. ObjectInv'
  BY <1>1, <1>2, <1>4 DEF InductiveInv, ObjectInv, FilesReadable, InDatabase, TypeOK
<1>10. WorkerInv' /\ ReaderInv'
  BY <1>1, <1>2, <1>4 DEF InductiveInv, WorkerInv, ReaderInv, TypeOK
<1> QED
  BY <1>6, <1>7, <1>8, <1>9, <1>10 DEF InductiveInv


\* A step on one upload that changes neither rows nor objects.
LEMMA WorkerStep ==
  ASSUME TypeOK, InductiveInv, UNCHANGED <<records, lock, reqs, files, objects, readers>>,
         workers' \in [Files -> [pc : {"idle", "write", "commit", "reap", "delete", "forget"},
                                 place : Places \cup {NoPlace}]],
         WorkerInv'
  PROVE  TypeOK' /\ InductiveInv'
<1>1. TypeOK'
  BY DEF TypeOK
<1>2. RecordInv' /\ FileInv'
  BY DEF InductiveInv, RecordInv, FileInv, InDatabase, Default
<1>3. LockInv'
  BY DEF InductiveInv, LockInv, InDatabase, FileRows, SessionRows
<1>4. ObjectInv' /\ ReaderInv'
  BY DEF InductiveInv, ObjectInv, ReaderInv, FilesReadable, InDatabase
<1> QED
  BY <1>1, <1>2, <1>3, <1>4 DEF InductiveInv

LEMMA ResolveStep ==
  ASSUME TypeOK, InductiveInv, NEW f \in Files, Resolve(f)
  PROVE  TypeOK' /\ InductiveInv'
<1>1. /\ files[f].row \in {"session", "pending"}
      /\ records[files[f].id].row = "row"
      /\ UNCHANGED <<records, lock, reqs, files, objects, readers>>
  BY DEF Resolve
<1>2. PICK pc \in (IF files[f].row = "session" THEN {"write", "reap"} ELSE {"delete"}) :
        workers' = [workers EXCEPT ![f] = [pc |-> pc, place |-> records[files[f].id].place]]
  BY DEF Resolve
<1>3. files[f].id \in Ids /\ records[files[f].id].place = HomeOf[files[f].id]
  BY <1>1 DEF InductiveInv, FileInv, RecordInv, InDatabase
<1>4. records[files[f].id].place \in Places
  BY <1>3, StoragesConstants
<1>5. /\ workers' \in [Files -> [pc : {"idle", "write", "commit", "reap", "delete", "forget"},
                                 place : Places \cup {NoPlace}]]
      /\ workers'[f].pc = pc /\ workers'[f].place = records[files[f].id].place
      /\ \A g \in Files \ {f} : workers'[g] = workers[g]
  BY <1>2, <1>4 DEF TypeOK
<1>6. WorkerInv'
  BY <1>1, <1>2, <1>3, <1>5 DEF InductiveInv, WorkerInv
<1> QED
  BY <1>1, <1>5, <1>6, WorkerStep

LEMMA InterruptStep ==
  ASSUME TypeOK, InductiveInv, NEW f \in Files, Interrupt(f)
  PROVE  TypeOK' /\ InductiveInv'
<1>1. /\ workers' = [workers EXCEPT ![f] = NoWork]
      /\ UNCHANGED <<records, lock, reqs, files, objects, readers>>
  BY DEF Interrupt
<1>2. workers' \in [Files -> [pc : {"idle", "write", "commit", "reap", "delete", "forget"},
                              place : Places \cup {NoPlace}]]
  BY <1>1 DEF TypeOK, NoWork
<1>3. WorkerInv'
  BY <1>1, InitialValues DEF InductiveInv, WorkerInv, TypeOK
<1> QED
  BY <1>1, <1>2, <1>3, WorkerStep

\* The object is written where the record of the session is.
LEMMA WriteObjectStep ==
  ASSUME TypeOK, InductiveInv, NEW f \in Files, WriteObject(f)
  PROVE  TypeOK' /\ InductiveInv'
<1>1. /\ workers[f].pc = "write"
      /\ objects' = objects \cup {<<workers[f].place, f>>}
      /\ workers' = [workers EXCEPT ![f].pc = "commit"]
      /\ UNCHANGED <<records, lock, reqs, files, readers>>
  BY DEF WriteObject
<1>2. /\ files[f].row = "session" /\ files[f].id \in Ids
      /\ workers[f].place = HomeOf[files[f].id]
  BY <1>1 DEF InductiveInv, WorkerInv, FileInv
<1>3. workers[f].place \in Places
  BY <1>2, StoragesConstants
<1>4. /\ workers'[f].pc = "commit" /\ workers'[f].place = workers[f].place
      /\ \A g \in Files \ {f} : workers'[g] = workers[g]
  BY <1>1 DEF TypeOK
<1>5. TypeOK'
  BY <1>1, <1>3 DEF TypeOK
<1>6. RecordInv' /\ FileInv' /\ ReaderInv'
  BY <1>1 DEF InductiveInv, RecordInv, FileInv, ReaderInv, InDatabase, Default
<1>7. LockInv'
  BY <1>1 DEF InductiveInv, LockInv, InDatabase, FileRows, SessionRows
<1>8. ObjectInv'
  BY <1>1, <1>2 DEF InductiveInv, ObjectInv, FilesReadable, InDatabase
<1>9. WorkerInv'
  <2> SUFFICES ASSUME NEW g \in Files
               PROVE  LET work == workers'[g]
                      IN  /\ work.pc \in {"write", "commit", "reap"} => files[g].row = "session"
                          /\ work.pc = "delete" => files[g].row = "pending"
                          /\ work.pc = "forget" => files[g].row \in {"session", "pending"}
                          /\ work.pc # "idle" => work.place = HomeOf[files[g].id]
                          /\ work.pc = "commit" => <<work.place, g>> \in objects'
                          /\ work.pc = "forget" => <<work.place, g>> \notin objects'
    BY <1>1 DEF WorkerInv
  <2>1. CASE g = f
    BY <1>1, <1>2, <1>4, <2>1
  <2>2. CASE g # f
    BY <1>1, <1>4, <2>2 DEF InductiveInv, WorkerInv
  <2> QED
    BY <2>1, <2>2
<1> QED
  BY <1>5, <1>6, <1>7, <1>8, <1>9 DEF InductiveInv

\* The object goes, and neither a file nor a finished completion needs it.
LEMMA RemoveObjectStep ==
  ASSUME TypeOK, InductiveInv, NEW f \in Files, RemoveObject(f)
  PROVE  TypeOK' /\ InductiveInv'
<1>1. /\ workers[f].pc \in {"reap", "delete"}
      /\ objects' = objects \ {<<workers[f].place, f>>}
      /\ workers' = [workers EXCEPT ![f].pc = "forget"]
      /\ UNCHANGED <<records, lock, reqs, files, readers>>
  BY DEF RemoveObject
<1>2. files[f].row \in {"session", "pending"} /\ workers[f].place = HomeOf[files[f].id]
  BY <1>1 DEF InductiveInv, WorkerInv
<1>3. /\ workers'[f].pc = "forget" /\ workers'[f].place = workers[f].place
      /\ \A g \in Files \ {f} : workers'[g] = workers[g]
  BY <1>1 DEF TypeOK
<1>4. TypeOK'
  BY <1>1 DEF TypeOK
<1>5. RecordInv' /\ FileInv' /\ ReaderInv'
  BY <1>1 DEF InductiveInv, RecordInv, FileInv, ReaderInv, InDatabase, Default
<1>6. LockInv'
  BY <1>1 DEF InductiveInv, LockInv, InDatabase, FileRows, SessionRows
<1>7. ObjectInv'
  BY <1>1, <1>2 DEF InductiveInv, ObjectInv, FilesReadable, InDatabase
<1>8. WorkerInv'
  <2> SUFFICES ASSUME NEW g \in Files
               PROVE  LET work == workers'[g]
                      IN  /\ work.pc \in {"write", "commit", "reap"} => files[g].row = "session"
                          /\ work.pc = "delete" => files[g].row = "pending"
                          /\ work.pc = "forget" => files[g].row \in {"session", "pending"}
                          /\ work.pc # "idle" => work.place = HomeOf[files[g].id]
                          /\ work.pc = "commit" => <<work.place, g>> \in objects'
                          /\ work.pc = "forget" => <<work.place, g>> \notin objects'
    BY <1>1 DEF WorkerInv
  <2>1. CASE g = f
    BY <1>1, <1>2, <1>3, <2>1
  <2>2. CASE g # f
    BY <1>1, <1>3, <2>2 DEF InductiveInv, WorkerInv
  <2> QED
    BY <2>1, <2>2
<1> QED
  BY <1>4, <1>5, <1>6, <1>7, <1>8 DEF InductiveInv

-----------------------------------------------------------------------------
(* Steps that change the row of one upload or file.                        *)

\* Objects stay; the row that changes does not come to name another storage.
LEMMA RowStep ==
  ASSUME TypeOK, InductiveInv, NEW f \in Files, UNCHANGED <<records, lock, reqs, objects, readers>>,
         files' \in [Files -> [row : {"none", "session", "file", "pending", "gone"}, id : Ids \cup {NoId}]],
         workers' \in [Files -> [pc : {"idle", "write", "commit", "reap", "delete", "forget"},
                                 place : Places \cup {NoPlace}]],
         \A g \in Files \ {f} : files'[g] = files[g] /\ workers'[g] = workers[g],
         files'[f].id \in {files[f].id, NoId},
         files'[f].row \in {"session", "file", "pending"} /\ files'[f].id # NoId =>
             files[f].row \in {"session", "file", "pending"},
         files'[f].row \in {"session", "pending"} => files'[f].id # NoId,
         files'[f].row = "file" /\ files'[f].id # NoId => <<HomeOf[files[f].id], f>> \in objects,
         (\E place : <<place, f>> \in objects) =>
             files'[f].row \in {"session", "file", "pending"} /\ files'[f].id = files[f].id,
         files[f].row = "none" => files'[f].row # "session",
         files[f].row = "file" => files'[f].row \in {"pending", "gone"} /\ files'[f].id = files[f].id,
         files[f].row \in {"pending", "gone"} =>
             files'[f].row \in {"pending", "gone"} /\ files'[f].id = files[f].id,
         workers'[f].pc # "idle" =>
             workers'[f] = workers[f] /\ files'[f] = files[f]
  PROVE  TypeOK' /\ InductiveInv'
<1>1. TypeOK'
  BY DEF TypeOK
<1>2. RecordInv'
  BY DEF InductiveInv, RecordInv, InDatabase, Default
<1>3. LockInv'
  BY LockKept, StoragesConstants DEF InductiveInv, FileInv
<1>4. FileInv'
  <2>1. IsFiniteSet({g \in Files : files'[g].row # "none"})
    BY FinitelyManyRows DEF InductiveInv
  <2>2. \A g \in Files : files'[g].row \in {"session", "pending"} => files'[g].id # NoId
    BY DEF InductiveInv, FileInv
  <2>3. \A g \in Files : files'[g].row \in {"session", "file", "pending"} /\ files'[g].id # NoId =>
            files'[g].id \in Ids /\ records[files'[g].id].row = "row"
    BY DEF InductiveInv, FileInv, InDatabase
  <2> QED
    BY <2>1, <2>2, <2>3 DEF FileInv, InDatabase
<1>5. FilesReadable'
  <2> SUFFICES ASSUME NEW g \in Files, files'[g].row = "file", files'[g].id # NoId
               PROVE  /\ records[files'[g].id].row = "row"
                      /\ <<records[files'[g].id].place, g>> \in objects
    BY DEF FilesReadable, InDatabase
  <2>1. files'[g].id \in Ids /\ records[files'[g].id].row = "row"
    BY <1>4 DEF FileInv, InDatabase
  <2>2. records[files'[g].id].place = HomeOf[files'[g].id]
    BY <2>1 DEF InductiveInv, RecordInv, InDatabase
  <2>3. CASE g = f
    BY <2>1, <2>2, <2>3
  <2>4. CASE g # f
    BY <2>1, <2>4 DEF InductiveInv, ObjectInv, FilesReadable, InDatabase
  <2> QED
    BY <2>3, <2>4
<1>6. ObjectInv'
  <2> SUFFICES ASSUME NEW x \in objects
               PROVE  /\ files'[x[2]].row \in {"session", "file", "pending"}
                      /\ files'[x[2]].id \in Ids /\ HomeOf[files'[x[2]].id] = x[1]
    BY <1>5 DEF ObjectInv
  <2>1. x = <<x[1], x[2]>> /\ x[2] \in Files
    BY DEF TypeOK
  <2>2. files[x[2]].id \in Ids /\ HomeOf[files[x[2]].id] = x[1] /\ files[x[2]].row \in {"session", "file", "pending"}
    BY DEF InductiveInv, ObjectInv
  <2>3. CASE x[2] = f
    <3>1. <<x[1], f>> \in objects
      BY <2>1, <2>3
    <3>2. files'[f].row \in {"session", "file", "pending"} /\ files'[f].id = files[f].id
      BY <3>1
    <3> QED
      BY <2>2, <2>3, <3>2
  <2>4. CASE x[2] # f
    BY <2>1, <2>2, <2>4
  <2> QED
    BY <2>3, <2>4
<1>7. WorkerInv'
  <2> SUFFICES ASSUME NEW g \in Files, workers'[g].pc # "idle"
               PROVE  workers'[g] = workers[g] /\ files'[g] = files[g]
    BY DEF InductiveInv, WorkerInv
  <2> QED
    OBVIOUS
<1>8. ReaderInv'
  BY DEF InductiveInv, ReaderInv
<1> QED
  BY <1>1, <1>2, <1>3, <1>4, <1>6, <1>7, <1>8 DEF InductiveInv


\* The session becomes a file, whose object was written.
LEMMA CommitFileStep ==
  ASSUME TypeOK, InductiveInv, NEW f \in Files, CommitFile(f)
  PROVE  TypeOK' /\ InductiveInv'
<1>1. /\ workers[f].pc = "commit"
      /\ files' = [files EXCEPT ![f].row = "file"]
      /\ workers' = [workers EXCEPT ![f] = NoWork]
      /\ UNCHANGED <<records, lock, reqs, objects, readers>>
  BY DEF CommitFile
<1>2. files[f].row = "session" /\ <<HomeOf[files[f].id], f>> \in objects
  BY <1>1 DEF InductiveInv, WorkerInv
<1>3. /\ files' \in [Files -> [row : {"none", "session", "file", "pending", "gone"}, id : Ids \cup {NoId}]]
      /\ files'[f].row = "file" /\ files'[f].id = files[f].id
      /\ workers' \in [Files -> [pc : {"idle", "write", "commit", "reap", "delete", "forget"},
                                 place : Places \cup {NoPlace}]]
      /\ workers'[f].pc = "idle"
      /\ \A g \in Files \ {f} : files'[g] = files[g] /\ workers'[g] = workers[g]
  BY <1>1 DEF TypeOK, NoWork
<1> QED
  BY <1>1, <1>2, <1>3, RowStep

LEMMA MarkDeletedStep ==
  ASSUME TypeOK, InductiveInv, NEW f \in Files, MarkDeleted(f)
  PROVE  TypeOK' /\ InductiveInv'
<1>1. /\ files[f].row = "file" /\ files[f].id # NoId
      /\ files' = [files EXCEPT ![f].row = "pending"]
      /\ UNCHANGED <<records, lock, reqs, objects, workers, readers>>
  BY DEF MarkDeleted
<1>2. workers[f].pc = "idle"
  BY <1>1 DEF InductiveInv, WorkerInv, TypeOK
<1>3. /\ files' \in [Files -> [row : {"none", "session", "file", "pending", "gone"}, id : Ids \cup {NoId}]]
      /\ files'[f].row = "pending" /\ files'[f].id = files[f].id
      /\ workers' \in [Files -> [pc : {"idle", "write", "commit", "reap", "delete", "forget"},
                                 place : Places \cup {NoPlace}]]
      /\ \A g \in Files \ {f} : files'[g] = files[g] /\ workers'[g] = workers[g]
  BY <1>1 DEF TypeOK
<1> QED
  BY <1>1, <1>2, <1>3, RowStep

\* The row goes after the object: no other place holds one of this upload.
LEMMA RemoveRowStep ==
  ASSUME TypeOK, InductiveInv, NEW f \in Files, RemoveRow(f)
  PROVE  TypeOK' /\ InductiveInv'
<1>1. /\ workers[f].pc = "forget"
      /\ files' = [files EXCEPT ![f].row = "gone"]
      /\ workers' = [workers EXCEPT ![f] = NoWork]
      /\ UNCHANGED <<records, lock, reqs, objects, readers>>
  BY DEF RemoveRow
<1>2. /\ files[f].row \in {"session", "pending"}
      /\ workers[f].place = HomeOf[files[f].id] /\ <<workers[f].place, f>> \notin objects
  BY <1>1 DEF InductiveInv, WorkerInv
<1>3. ~ \E place : <<place, f>> \in objects
  BY <1>2 DEF InductiveInv, ObjectInv
<1>4. /\ files' \in [Files -> [row : {"none", "session", "file", "pending", "gone"}, id : Ids \cup {NoId}]]
      /\ files'[f].row = "gone" /\ files'[f].id = files[f].id
      /\ workers' \in [Files -> [pc : {"idle", "write", "commit", "reap", "delete", "forget"},
                                 place : Places \cup {NoPlace}]]
      /\ workers'[f].pc = "idle"
      /\ \A g \in Files \ {f} : files'[g] = files[g] /\ workers'[g] = workers[g]
  BY <1>1 DEF TypeOK, NoWork
<1> QED
  BY <1>1, <1>2, <1>3, <1>4, RowStep

\* An imported URL names no storage.
LEMMA ImportStep ==
  ASSUME TypeOK, InductiveInv, NEW f \in Files, Import(f) \/ DeleteImported(f)
  PROVE  TypeOK' /\ InductiveInv'
<1>1. ~ \E place : <<place, f>> \in objects
  BY StoragesConstants DEF Import, DeleteImported, InductiveInv, ObjectInv
<1>2. workers[f].pc = "idle"
  BY DEF Import, DeleteImported, InductiveInv, WorkerInv, TypeOK
<1>3. /\ files' \in [Files -> [row : {"none", "session", "file", "pending", "gone"}, id : Ids \cup {NoId}]]
      /\ workers' \in [Files -> [pc : {"idle", "write", "commit", "reap", "delete", "forget"},
                                 place : Places \cup {NoPlace}]]
      /\ \A g \in Files \ {f} : files'[g] = files[g] /\ workers'[g] = workers[g]
      /\ UNCHANGED <<records, lock, reqs, objects, readers>> /\ workers'[f] = workers[f]
  BY DEF TypeOK, Import, DeleteImported
<1>4. CASE Import(f)
  <2>1. files[f].row = "none" /\ files'[f].row = "file" /\ files'[f].id = NoId
    BY <1>4 DEF Import, TypeOK
  <2> QED
    BY <1>1, <1>2, <1>3, <2>1, RowStep
<1>5. CASE DeleteImported(f)
  <2>1. files[f].row = "file" /\ files'[f].row = "gone" /\ files'[f].id = files[f].id
    BY <1>5 DEF DeleteImported, TypeOK
  <2> QED
    BY <1>1, <1>2, <1>3, <2>1, RowStep
<1> QED
  BY <1>4, <1>5

-----------------------------------------------------------------------------
(* Steps of the public readers.                                            *)

Reader == [pc : {"idle", "row", "stat", "stream", "missing"},
           file : Files \cup {NoFile}, id : Ids \cup {NoId}, place : Places \cup {NoPlace}]

LEMMA ReadStep ==
  ASSUME TypeOK, InductiveInv, NEW rd \in Readers, NEW next \in Reader, Read(rd, next),
         next.pc # "idle" =>
             /\ next.file \in Files /\ next.id \in Ids
             /\ files[next.file].id = next.id
             /\ files[next.file].row \in {"file", "pending", "gone"},
         next.pc \in {"stat", "stream"} => next.place = HomeOf[next.id],
         next.pc = "missing" => files[next.file].row \in {"pending", "gone"}
  PROVE  TypeOK' /\ InductiveInv'
<1>1. /\ readers' = [readers EXCEPT ![rd] = next]
      /\ UNCHANGED <<records, lock, reqs, files, objects, workers>>
  BY DEF Read
<1>2. TypeOK'
  BY <1>1 DEF TypeOK, Reader
<1>3. RecordInv' /\ FileInv'
  BY <1>1 DEF InductiveInv, RecordInv, FileInv, InDatabase, Default
<1>4. LockInv'
  BY <1>1 DEF InductiveInv, LockInv, InDatabase, FileRows, SessionRows
<1>5. ObjectInv' /\ WorkerInv'
  BY <1>1 DEF InductiveInv, ObjectInv, WorkerInv, FilesReadable, InDatabase
<1>6. readers'[rd] = next /\ \A o \in Readers \ {rd} : readers'[o] = readers[o]
  BY <1>1 DEF TypeOK
<1>7. ReaderInv'
  BY <1>1, <1>6 DEF InductiveInv, ReaderInv
<1> QED
  BY <1>2, <1>3, <1>4, <1>5, <1>7 DEF InductiveInv

LEMMA ServeStep ==
  ASSUME TypeOK, InductiveInv, NEW rd \in Readers, Serve(rd)
  PROVE  TypeOK' /\ InductiveInv'
<1> DEFINE reader == readers[rd]
<1>1. NoRead \in Reader /\ NoRead.pc = "idle"
  BY DEF NoRead, Reader
<1>2. reader \in Reader
  BY DEF TypeOK, Reader
<1>3. reader.pc # "idle" =>
          /\ reader.file \in Files /\ reader.id \in Ids
          /\ files[reader.file].id = reader.id
          /\ files[reader.file].row \in {"file", "pending", "gone"}
  BY DEF InductiveInv, ReaderInv
<1>4. CASE ReadRow(rd)
  <2>1. PICK f \in Files :
          /\ files[f].row = "file" /\ files[f].id # NoId
          /\ Read(rd, [NoRead EXCEPT !.pc = "row", !.file = f, !.id = files[f].id])
    BY <1>4 DEF ReadRow
  <2> DEFINE next == [NoRead EXCEPT !.pc = "row", !.file = f, !.id = files[f].id]
  <2>2. files[f].id \in Ids
    BY <2>1 DEF TypeOK
  <2>3. next \in Reader /\ next.pc = "row" /\ next.file = f /\ next.id = files[f].id
    BY <1>1, <2>2 DEF Reader
  <2> HIDE DEF next
  <2>4. Read(rd, next)
    BY <2>1 DEF next
  <2> QED
    BY <2>1, <2>2, <2>3, <2>4, ReadStep
<1>5. CASE ReadRecord(rd)
  <2> DEFINE rec == records[reader.id]
             missing == [reader EXCEPT !.pc = "missing"]
             stat == [reader EXCEPT !.pc = "stat", !.place = rec.place]
  <2>1. reader.pc = "row"
    BY <1>5 DEF ReadRecord
  <2>2. CASE rec.row # "row" \/ ~ValidRecord(rec)
    <3>1. Read(rd, missing)
      BY <1>5, <2>2 DEF ReadRecord
    <3>2. missing \in Reader /\ missing.pc = "missing" /\ missing.file = reader.file /\ missing.id = reader.id
      BY <1>2 DEF Reader
    <3>3. files[reader.file].row # "file"
      BY <1>3, <2>1, <2>2, StoragesConstants
         DEF InductiveInv, RecordInv, FileInv, InDatabase
    <3> HIDE DEF missing
    <3> QED
      BY <1>3, <2>1, <3>1, <3>2, <3>3, ReadStep
  <2>3. CASE rec.row = "row" /\ ValidRecord(rec) /\ Driver(rec.place) = "local"
    <3>1. Read(rd, stat)
      BY <1>5, <2>3 DEF ReadRecord
    <3>2. rec.place = HomeOf[reader.id] /\ rec.place \in Places
      BY <1>3, <2>1, <2>3, StoragesConstants DEF InductiveInv, RecordInv, InDatabase
    <3>3. /\ stat \in Reader /\ stat.pc = "stat" /\ stat.file = reader.file
          /\ stat.id = reader.id /\ stat.place = rec.place
      BY <1>2, <3>2 DEF Reader
    <3> HIDE DEF stat
    <3> QED
      BY <1>3, <2>1, <3>1, <3>2, <3>3, ReadStep
  <2>4. CASE rec.row = "row" /\ ValidRecord(rec) /\ Driver(rec.place) # "local"
    <3>1. Read(rd, NoRead)
      BY <1>5, <2>4 DEF ReadRecord
    <3> QED
      BY <1>1, <3>1, ReadStep
  <2> QED
    BY <2>2, <2>3, <2>4
<1>6. ASSUME reader.pc \in {"stat", "stream"}, ~There(rd)
      PROVE  files[reader.file].row \in {"pending", "gone"}
  <2>1. reader.place = HomeOf[reader.id]
    BY <1>6 DEF InductiveInv, ReaderInv
  <2>2. files[reader.file].row # "file"
    BY <1>3, <1>6, <2>1, StoragesConstants
       DEF There, InductiveInv, RecordInv, FileInv, ObjectInv, FilesReadable, InDatabase
  <2> QED
    BY <1>3, <1>6, <2>2
<1>7. CASE Stat(rd)
  <2> DEFINE pc == IF There(rd) THEN "stream" ELSE "missing"
             next == [reader EXCEPT !.pc = pc]
  <2>1. reader.pc = "stat" /\ Read(rd, next)
    BY <1>7 DEF Stat
  <2>2. next \in Reader /\ next.pc = pc /\ next.file = reader.file /\ next.id = reader.id /\ next.place = reader.place
    BY <1>2 DEF Reader
  <2>3. reader.place = HomeOf[reader.id]
    BY <2>1 DEF InductiveInv, ReaderInv
  <2> HIDE DEF next
  <2> QED
    BY <1>3, <1>6, <2>1, <2>2, <2>3, ReadStep
<1>8. CASE Stream(rd)
  <2> DEFINE missing == [reader EXCEPT !.pc = "missing"]
  <2>1. reader.pc = "stream" /\ Read(rd, IF There(rd) THEN NoRead ELSE missing)
    BY <1>8 DEF Stream
  <2>2. missing \in Reader /\ missing.pc = "missing" /\ missing.file = reader.file /\ missing.id = reader.id
    BY <1>2 DEF Reader
  <2> HIDE DEF missing
  <2>3. CASE There(rd)
    BY <1>1, <2>1, <2>3, ReadStep
  <2>4. CASE ~There(rd)
    BY <1>3, <1>6, <2>1, <2>2, <2>4, ReadStep
  <2> QED
    BY <2>3, <2>4
<1>9. CASE Answer(rd)
  BY <1>1, <1>9, ReadStep DEF Answer
<1> QED
  BY <1>4, <1>5, <1>7, <1>8, <1>9 DEF Serve


-----------------------------------------------------------------------------
(* The initial states, every step, and what follows.                       *)

LEMMA InitInv == Init => TypeOK /\ InductiveInv
<1> SUFFICES ASSUME Init
             PROVE  TypeOK /\ InductiveInv
  OBVIOUS
<1> USE InitialValues, KeyPairs, StoragesConstants
<1> DEFINE rec == [row |-> "row", enabled |-> TRUE, isDefault |-> TRUE,
                   place |-> HomeOf[First], keys |-> <<Blank, Blank>>]
<1>1. rec \in Records /\ rec.row = "row" /\ rec.enabled /\ rec.isDefault
  BY DEF Records
<1>2. ValidRecord(rec)
  BY DEF ValidRecord, ValidConfig, Driver
<1>3. rec.place = HomeOf[First]
  OBVIOUS
<1>4. records = [id \in Ids |-> IF id = First THEN rec ELSE NoRecord]
  BY DEF Init
<1> HIDE DEF rec
<1>5. /\ records \in [Ids -> Records] /\ records[First] = rec
      /\ \A id \in Ids \ {First} : records[id] = NoRecord /\ ~InDatabase(id)
  BY <1>1, <1>4 DEF InDatabase
<1>6. InDatabase(First) /\ Default = {First}
  BY <1>1, <1>5 DEF InDatabase, Default
<1>7. RecordInv
  BY <1>1, <1>2, <1>3, <1>5, <1>6 DEF RecordInv
<1>8. /\ lock = NoOne /\ reqs \in [Requests -> Request] /\ \A r \in Requests : reqs[r].pc = "idle"
      /\ \A f \in Files : files[f].row = "none" /\ workers[f].pc = "idle"
      /\ objects = {} /\ \A rd \in Readers : readers[rd].pc = "idle"
  BY DEF Init
<1>9. TypeOK
  BY <1>5, <1>8 DEF TypeOK, Init, Request, NoWork, NoRead
<1>10. LockInv /\ ObjectInv /\ WorkerInv /\ ReaderInv
  BY <1>8 DEF LockInv, ObjectInv, FilesReadable, WorkerInv, ReaderInv
<1>11. FileInv
  <2>1. {f \in Files : files[f].row # "none"} = {}
    BY <1>8
  <2> QED
    BY <1>8, <2>1, FS_EmptySet DEF FileInv
<1> QED
  BY <1>7, <1>9, <1>10, <1>11 DEF InductiveInv

LEMMA NextInv == TypeOK /\ InductiveInv /\ [Next]_vars => TypeOK' /\ InductiveInv'
<1> SUFFICES ASSUME TypeOK, InductiveInv, [Next]_vars
             PROVE  TypeOK' /\ InductiveInv'
  OBVIOUS
<1>1. CASE UNCHANGED vars
  <2>1. /\ reqs' \in [Requests -> Request] /\ LockInv'
        /\ lock' = NoOne \/ reqs'[lock'].pc # "idle"
    BY <1>1 DEF vars, TypeOK, Request, InductiveInv, LockInv, InDatabase, FileRows, SessionRows
  <2> QED
    BY <1>1, <2>1, RequestStep DEF vars
<1>2. ASSUME NEW r \in Requests, Transaction(r)
      PROVE  TypeOK' /\ InductiveInv'
  BY <1>2, BeginStep, UpdateRecordStep, SetEnabledStep, SetDefaultStep, CountStep,
     DeleteRecordStep, InsertSessionStep, RefuseStep DEF Transaction
<1>3. ASSUME NEW id \in Ids, Create(id)
      PROVE  TypeOK' /\ InductiveInv'
  BY <1>3, CreateStep
<1>4. ASSUME NEW f \in Files, Work(f)
      PROVE  TypeOK' /\ InductiveInv'
  BY <1>4, ResolveStep, WriteObjectStep, CommitFileStep, MarkDeletedStep, RemoveObjectStep,
     RemoveRowStep, InterruptStep, ImportStep DEF Work
<1>5. ASSUME NEW rd \in Readers, Serve(rd)
      PROVE  TypeOK' /\ InductiveInv'
  BY <1>5, ServeStep
<1> QED
  BY <1>1, <1>2, <1>3, <1>4, <1>5 DEF Next

\* Of every storages, uploads and readers: the types, the records that stay valid and where they
\* were created, and the lock under which administrators change them.
THEOREM Invariance == Spec => [](TypeOK /\ InductiveInv)
<1>1. Init => TypeOK /\ InductiveInv
  BY InitInv
<1>2. TypeOK /\ InductiveInv /\ [Next]_vars => (TypeOK /\ InductiveInv)'
  BY NextInv
<1> QED
  BY <1>1, <1>2, PTL DEF Spec

\* A process can be started whenever: no update, default change, disabling or deletion of storages
\* leaves a record that StorageService::load refuses, nor no default, nor two.
THEOREM StartupAlwaysSucceeds == Spec => []StartupSucceeds
<1>1. TypeOK /\ InductiveInv => StartupSucceeds
  <2> SUFFICES ASSUME RecordInv
               PROVE  Loadable /\ Cardinality(Default) = 1
    BY DEF InductiveInv, StartupSucceeds
  <2>1. PICK d \in Ids : InDatabase(d) /\ records[d].enabled /\ Default = {d}
    BY DEF RecordInv
  <2>2. Cardinality(Default) = 1
    BY <2>1, FS_Singleton
  <2>3. Loadable
    BY <2>1 DEF RecordInv, Loadable
  <2> QED
    BY <2>2, <2>3
<1> QED
  BY <1>1, Invariance, PTL

\* What a transaction has checked under the lifecycle lock is still so when it writes: an upload
\* starts on the enabled default, and no row names a storage that is being deleted.
THEOREM LockProtectsChecks == Spec => []ChecksHoldUntilWritten
<1>1. TypeOK /\ InductiveInv => ChecksHoldUntilWritten
  <2> SUFFICES ASSUME RecordInv, LockInv
               PROVE  UploadsStartOnDefault /\ CountHoldsUntilDeletion
    BY DEF InductiveInv, ChecksHoldUntilWritten
  <2>1. PICK d \in Ids : records[d].enabled /\ Default = {d}
    BY DEF RecordInv
  <2>2. UploadsStartOnDefault
    BY <2>1 DEF LockInv, UploadsStartOnDefault, Default
  <2>3. CountHoldsUntilDeletion
    BY DEF LockInv, CountHoldsUntilDeletion
  <2> QED
    BY <2>2, <2>3
<1> QED
  BY <1>1, Invariance, PTL

\* Completions, deletions and the reaper use the place of a record they have read before, without
\* the lock; still every file's object is where its record says, and every object is found by a row.
THEOREM RowsMatchObjects == Spec => []FilesMatchObjects
<1>1. TypeOK /\ InductiveInv => FilesMatchObjects
  <2> SUFFICES ASSUME TypeOK, RecordInv, FileInv, ObjectInv
               PROVE  FilesReadable /\ ObjectsReachable
    BY DEF InductiveInv, FilesMatchObjects
  <2>1. FilesReadable
    BY DEF ObjectInv
  <2>2. ASSUME NEW x \in objects
        PROVE  /\ files[x[2]].row \in {"session", "file", "pending"}
               /\ InDatabase(files[x[2]].id)
               /\ records[files[x[2]].id].place = x[1]
    <3>1. x[2] \in Files
      BY DEF TypeOK
    <3>2. /\ files[x[2]].row \in {"session", "file", "pending"}
          /\ files[x[2]].id \in Ids /\ HomeOf[files[x[2]].id] = x[1]
      BY DEF ObjectInv
    <3>3. InDatabase(files[x[2]].id)
      BY <3>1, <3>2, StoragesConstants DEF FileInv
    <3> QED
      BY <3>2, <3>3 DEF RecordInv
  <2> QED
    BY <2>1, <2>2 DEF ObjectsReachable
<1> QED
  BY <1>1, Invariance, PTL

\* read_local_object reads the row, the record, the size and the bytes one after the other, and
\* finds no object only if the file was marked deleted meanwhile.
THEOREM ReadersMissOnlyDeletedFiles == Spec => []ReadersFindFiles
<1>1. TypeOK /\ InductiveInv => ReadersFindFiles
  BY DEF InductiveInv, ReaderInv, ReadersFindFiles
<1> QED
  BY <1>1, Invariance, PTL

=============================================================================
