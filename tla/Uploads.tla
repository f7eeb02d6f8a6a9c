------------------------------- MODULE Uploads -------------------------------
(***************************************************************************)
(* One managed upload of crates/file-storage, from start_upload to the     *)
(* removal of its file row: the session row, the part rows and the file    *)
(* row in PostgreSQL, the objects in the storage backend, the advisory     *)
(* lock that covers object I/O, and the concurrent request handlers and    *)
(* starting processes that work on them.                                   *)
(*                                                                         *)
(* Upload ids are fresh UUIDs, and every row, lock and object key of an    *)
(* upload is keyed by its id, so uploads share no state but their storage  *)
(* record; one upload is followed here.  A database statement or           *)
(* transaction is one action, and so is one call to the storage backend.   *)
(*                                                                         *)
(* Time is two flags: whether updated_at, and operation_started_at, lie    *)
(* within UPLOAD_SESSION_TTL_SECONDS of now.  operation_started_at is      *)
(* never older than updated_at, so it is never the first to grow stale.    *)
(***************************************************************************)
EXTENDS Naturals, FiniteSets

CONSTANTS
  Workers,          \* concurrent handlers and starting processes
  Tokens,           \* the UUIDs that operations draw; bounds their number
  MaxClaims,        \* client operations claim until this many UUIDs are drawn
  NoToken,          \* SQL null
  NoWorker,         \* the advisory lock is free
  Sizes,            \* total sizes a client may announce (<= MAX_UPLOAD_BYTES)
  ChunkSizes,       \* chunk lengths a client may send (<= UPLOAD_CHUNK_BYTES)
  MaxFaults,        \* bound on I/O errors, database errors and crashes
  CleanupMayFail    \* whether a best-effort object delete can fail

ASSUME UploadsAssumption ==
  /\ NoToken \notin Tokens
  /\ NoWorker \notin Workers
  /\ Sizes \subseteq Nat
  /\ ChunkSizes \subseteq Nat \ {0}
  /\ MaxClaims \in Nat
  /\ MaxFaults \in Nat
  /\ CleanupMayFail \in BOOLEAN

VARIABLES
  session,          \* the uploaded_file_sessions row
  parts,            \* its uploaded_file_parts rows
  file,             \* the uploaded_files row
  part_objects,     \* objects under .uploads/{id}/, named by their writer
  objects,          \* final objects present in the backend
  contents,         \* the parts written into each final object
  io_lock,          \* holder of pg_advisory_lock(hashtextextended(id, 0))
  job,              \* what each worker is doing
  used,             \* UUIDs drawn so far
  accepted,         \* history: the chunks ever acknowledged
  faults            \* failures that may still happen

vars == <<session, parts, file, part_objects, objects, contents, io_lock,
          job, used, accepted, faults>>
store == <<part_objects, objects, contents>>
-----------------------------------------------------------------------------
\* A part row names the object its writer stored, abstracted to the token.
Part == [offset : Nat, size : Nat \ {0}, token : Tokens]

Session == [operation_state : {"absent", "uploading", "writing", "completing", "cleaning"},
            operation_token : Tokens \cup {NoToken},
            object_name     : Tokens \cup {NoToken},
            total_size      : Nat,
            uploaded_size   : Nat,
            updated_fresh   : BOOLEAN,
            operation_fresh : BOOLEAN]

NoSession == [operation_state |-> "absent", operation_token |-> NoToken,
              object_name |-> NoToken, total_size |-> 0, uploaded_size |-> 0,
              updated_fresh |-> FALSE, operation_fresh |-> FALSE]

\* "live" is listed and served; "deleting" has deletion_pending; "gone" was
\* deleted.
File == [state         : {"none", "live", "deleting", "gone"},
         object_name   : Tokens \cup {NoToken},
         parts_pending : BOOLEAN]

NoFile == [state |-> "none", object_name |-> NoToken, parts_pending |-> FALSE]

Job == [op       : {"none", "write", "complete", "reap", "clean", "delete"},
        step     : {"idle", "acquire", "heartbeat", "put", "persist",
                    "drop_previous", "open", "assemble", "unlock", "finalize",
                    "discard", "abandon", "release", "done", "prefix", "flag",
                    "claim", "object", "row"},
        token    : Tokens \cup {NoToken},
        previous : Tokens \cup {NoToken},  \* an object name read earlier
        offset   : Nat,
        size     : Nat,
        todo     : SUBSET Part]            \* part rows still to assemble

Idle == [op |-> "none", step |-> "idle", token |-> NoToken,
         previous |-> NoToken, offset |-> 0, size |-> 0, todo |-> {}]
-----------------------------------------------------------------------------
Present == session.operation_state # "absent"

\* Variant: only sessions without an operation are found stale.
StaleUploadingOnly == /\ Present
                      /\ ~session.updated_fresh
                      /\ session.operation_state = "uploading"

\* The stale condition of the two reaper queries.
Stale == /\ Present
         /\ ~session.updated_fresh
         /\ \/ session.operation_state = "uploading"
            \/ ~session.operation_fresh

Owns(w) == session.operation_token = job[w].token

At(w, op, step) == job[w].op = op /\ job[w].step = step

Go(w, step) == job' = [job EXCEPT ![w].step = step]

Finish(w) == job' = [job EXCEPT ![w] = Idle]

FreeLock(w) == io_lock' = IF io_lock = w THEN NoWorker ELSE io_lock

Fault == faults > 0 /\ faults' = faults - 1

NoFault == faults' = faults

\* operator.delete of a final object; deleting a missing one succeeds.
Remove(name) == /\ objects' = objects \ {name}
                /\ contents' = [contents EXCEPT ![name] = {}]

\* UUIDs are interchangeable, so it does not matter which unused one is drawn.
FreshToken(t) == /\ t \notin used
                 /\ t = CHOOSE unused \in Tokens : unused \notin used
                 /\ used' = used \cup {t}
-----------------------------------------------------------------------------
Init ==
  /\ session = NoSession
  /\ parts = {}
  /\ file = NoFile
  /\ part_objects = {}
  /\ objects = {}
  /\ contents = [t \in Tokens |-> {}]
  /\ io_lock = NoWorker
  /\ job = [w \in Workers |-> Idle]
  /\ used = {}
  /\ accepted = {}
  /\ faults = MaxFaults

\* start_upload: the row is inserted with a fresh object name.
StartUpload ==
  /\ used = {}
  /\ \E size \in Sizes, t \in Tokens :
       /\ FreshToken(t)
       /\ session' = [NoSession EXCEPT !.operation_state = "uploading",
                                       !.object_name = t,
                                       !.total_size = size,
                                       !.updated_fresh = TRUE]
  /\ UNCHANGED <<parts, file, store, io_lock, job, accepted, faults>>

\* The TTL of updated_at runs out.
SessionExpires ==
  /\ session.updated_fresh
  /\ session' = [session EXCEPT !.updated_fresh = FALSE]
  /\ UNCHANGED <<parts, file, store, io_lock, job, used, accepted, faults>>

\* The TTL of operation_started_at runs out.
OperationExpires ==
  /\ session.operation_fresh
  /\ ~session.updated_fresh
  /\ session' = [session EXCEPT !.operation_fresh = FALSE]
  /\ UNCHANGED <<parts, file, store, io_lock, job, used, accepted, faults>>
-----------------------------------------------------------------------------
(* Claiming an operation: UploadOperationClaim.                            *)

\* Variant: the end of the chunk is compared off by one.
ClaimWriteBeyondEnd(w) ==
  /\ job[w] = Idle
  /\ Cardinality(used) < MaxClaims
  /\ session.operation_state = "uploading"
  /\ session.updated_fresh
  /\ \E size \in ChunkSizes, t \in Tokens :
       /\ session.uploaded_size + size <= session.total_size + 1
       /\ FreshToken(t)
       /\ session' = [session EXCEPT !.operation_state = "writing",
                                     !.operation_token = t,
                                     !.operation_fresh = TRUE]
       /\ job' = [job EXCEPT ![w] = [Idle EXCEPT !.op = "write", !.step = "acquire",
                                       !.token = t, !.size = size,
                                       !.offset = session.uploaded_size]]
  /\ UNCHANGED <<parts, file, store, io_lock, accepted, faults>>

\* write_upload_chunk's conditional update of the row.
ClaimWrite(w) ==
  /\ job[w] = Idle
  /\ Cardinality(used) < MaxClaims
  /\ session.operation_state = "uploading"
  /\ session.updated_fresh
  /\ \E size \in ChunkSizes, t \in Tokens :
       /\ session.uploaded_size + size <= session.total_size
       /\ FreshToken(t)
       /\ session' = [session EXCEPT !.operation_state = "writing",
                                     !.operation_token = t,
                                     !.operation_fresh = TRUE]
       /\ job' = [job EXCEPT ![w] = [Idle EXCEPT !.op = "write", !.step = "acquire",
                                       !.token = t, !.size = size,
                                       !.offset = session.uploaded_size]]
  /\ UNCHANGED <<parts, file, store, io_lock, accepted, faults>>

\* complete_upload's claim, which also names a new final object.
ClaimComplete(w) ==
  /\ job[w] = Idle
  /\ Cardinality(used) < MaxClaims
  /\ session.operation_state = "uploading"
  /\ session.updated_fresh
  /\ session.uploaded_size = session.total_size
  /\ \E t \in Tokens :
       /\ FreshToken(t)
       /\ session' = [session EXCEPT !.operation_state = "completing",
                                     !.operation_token = t,
                                     !.operation_fresh = TRUE,
                                     !.object_name = t]
       /\ job' = [job EXCEPT ![w] = [Idle EXCEPT !.op = "complete", !.step = "acquire",
                                       !.token = t, !.size = session.total_size,
                                       !.previous = session.object_name]]
  /\ UNCHANGED <<parts, file, store, io_lock, accepted, faults>>

\* pg_try_advisory_lock: taken, or held by another worker.
Acquire(w) ==
  /\ job[w].op \in {"write", "complete"}
  /\ job[w].step = "acquire"
  /\ IF io_lock = NoWorker
     THEN io_lock' = w /\ Go(w, "heartbeat")
     ELSE UNCHANGED io_lock /\ Go(w, "release")
  /\ UNCHANGED <<session, parts, file, store, used, accepted, faults>>

\* storage_for or the lock query fails: the claim is released.
AcquireFails(w) ==
  /\ job[w].op \in {"write", "complete"}
  /\ job[w].step = "acquire"
  /\ Fault
  /\ Go(w, "release")
  /\ UNCHANGED <<session, parts, file, store, io_lock, used, accepted>>

\* refresh_upload_operation: the row is renewed if this worker still owns it.
Refreshable(w) == Present /\ Owns(w) /\ session.operation_fresh

\* Variant: the number of rows the renewal touched is not looked at.
HeartbeatUnchecked(w) ==
  /\ job[w].op \in {"write", "complete"}
  /\ job[w].step = "heartbeat"
  /\ Go(w, IF job[w].op = "write" THEN "put" ELSE "drop_previous")
  /\ UNCHANGED <<session, parts, file, store, io_lock, used, accepted, faults>>

Heartbeat(w) ==
  /\ job[w].op \in {"write", "complete"}
  /\ job[w].step = "heartbeat"
  /\ IF Refreshable(w)
     THEN Go(w, IF job[w].op = "write" THEN "put" ELSE "drop_previous")
     ELSE Go(w, "abandon")
  /\ UNCHANGED <<session, parts, file, store, io_lock, used, accepted, faults>>

HeartbeatFails(w) ==
  /\ job[w].op \in {"write", "complete"}
  /\ job[w].step = "heartbeat"
  /\ Fault
  /\ Go(w, "abandon")
  /\ UNCHANGED <<session, parts, file, store, io_lock, used, accepted>>

\* abandon: unlock first, then release the row.
Abandon(w) ==
  /\ job[w].step = "abandon"
  /\ FreeLock(w)
  /\ Go(w, "release")
  /\ UNCHANGED <<session, parts, file, store, used, accepted, faults>>

\* Variant: the release also sets updated_at.
ReleaseTouches(w) ==
  /\ job[w].step = "release"
  /\ \/ /\ NoFault
        /\ session' = IF Present /\ Owns(w)
                      THEN [session EXCEPT !.operation_state = "uploading",
                                           !.operation_token = NoToken,
                                           !.operation_fresh = FALSE,
                                           !.updated_fresh = TRUE]
                      ELSE session
     \/ Fault /\ UNCHANGED session
  /\ Finish(w)
  /\ UNCHANGED <<parts, file, store, io_lock, used, accepted>>

\* release_upload_operation: its own errors are only logged.
Release(w) ==
  /\ job[w].step = "release"
  /\ \/ /\ NoFault
        /\ session' = IF Present /\ Owns(w)
                      THEN [session EXCEPT !.operation_state = "uploading",
                                           !.operation_token = NoToken,
                                           !.operation_fresh = FALSE]
                      ELSE session
     \/ Fault /\ UNCHANGED session
  /\ Finish(w)
  /\ UNCHANGED <<parts, file, store, io_lock, used, accepted>>

\* release_object_io at the end of an operation.
Done(w) ==
  /\ job[w].step = "done"
  /\ FreeLock(w)
  /\ Finish(w)
  /\ UNCHANGED <<session, parts, file, store, used, accepted, faults>>
-----------------------------------------------------------------------------
(* write_upload_chunk under the claim.                                     *)

PutPart(w) ==
  /\ At(w, "write", "put")
  /\ part_objects' = part_objects \cup {job[w].token}
  /\ Go(w, "persist")
  /\ UNCHANGED <<session, parts, file, objects, contents, io_lock, used, accepted, faults>>

\* The write fails; deleting what it left is best effort.
PutPartFails(w) ==
  /\ At(w, "write", "put")
  /\ Fault
  /\ part_objects' \in {part_objects, part_objects \cup {job[w].token}}
  /\ Go(w, "abandon")
  /\ UNCHANGED <<session, parts, file, objects, contents, io_lock, used, accepted>>

\* Variant: the length of a part is off by one.
PartOfInclusive(w) ==
  [offset |-> job[w].offset, size |-> job[w].size - 1, token |-> job[w].token]

PartOf(w) == [offset |-> job[w].offset, size |-> job[w].size, token |-> job[w].token]

\* Variant: uploaded_size becomes the length of the last chunk.
CommitPartOverwrites(w) ==
  /\ parts' = parts \cup {PartOf(w)}
  /\ accepted' = accepted \cup {PartOf(w)}
  /\ session' = [session EXCEPT !.uploaded_size = job[w].size,
                                !.operation_state = "uploading",
                                !.operation_token = NoToken,
                                !.operation_fresh = FALSE,
                                !.updated_fresh = TRUE]

\* The effect of persist_upload_part's transaction.
CommitPart(w) ==
  /\ parts' = parts \cup {PartOf(w)}
  /\ accepted' = accepted \cup {PartOf(w)}
  /\ session' = [session EXCEPT !.uploaded_size = job[w].offset + job[w].size,
                                !.operation_state = "uploading",
                                !.operation_token = NoToken,
                                !.operation_fresh = FALSE,
                                !.updated_fresh = TRUE]

\* persist_upload_part commits, or finds the claim lost and rolls back.
PersistPart(w) ==
  /\ At(w, "write", "persist")
  /\ IF Refreshable(w) /\ session.operation_state = "writing"
     THEN CommitPart(w) /\ Go(w, "done")
     ELSE UNCHANGED <<session, parts, accepted>> /\ Go(w, "abandon")
  /\ UNCHANGED <<file, store, io_lock, used, faults>>

\* A database error: rolled back, or committed with the answer lost.
PersistPartFails(w) ==
  /\ At(w, "write", "persist")
  /\ Fault
  /\ \/ Refreshable(w) /\ session.operation_state = "writing" /\ CommitPart(w)
     \/ UNCHANGED <<session, parts, accepted>>
  /\ Go(w, "abandon")
  /\ UNCHANGED <<file, store, io_lock, used>>
-----------------------------------------------------------------------------
(* complete_upload under the claim.                                        *)

\* The object an earlier completion left is deleted, best effort.
DropPrevious(w) ==
  /\ At(w, "complete", "drop_previous")
  /\ \/ /\ NoFault
        /\ Remove(job[w].previous)
     \/ /\ CleanupMayFail
        /\ Fault
        /\ UNCHANGED <<objects, contents>>
  /\ Go(w, "open")
  /\ UNCHANGED <<session, parts, file, part_objects, io_lock, used, accepted>>

\* assemble_upload opens the writer and reads the part rows.
OpenWriter(w) ==
  /\ At(w, "complete", "open")
  /\ objects' = objects \cup {job[w].token}
  /\ job' = [job EXCEPT ![w].step = "assemble", ![w].todo = parts]
  /\ UNCHANGED <<session, parts, file, part_objects, contents, io_lock, used, accepted, faults>>

\* storage.writer fails before anything is created.
OpenWriterFails(w) ==
  /\ At(w, "complete", "open")
  /\ Fault
  /\ Go(w, "abandon")
  /\ UNCHANGED <<session, parts, file, store, io_lock, used, accepted>>

\* The next part row in offset order does not continue the object, or its
\* object cannot be read.
Corrupt(w, p) ==
  \/ p.offset # job[w].offset
  \/ p.size > job[w].size - job[w].offset
  \/ p.token \notin part_objects

\* One turn of the loop: check the row, copy the part, renew the claim.
AssemblePart(w) ==
  /\ At(w, "complete", "assemble")
  /\ \E p \in job[w].todo :
       /\ \A q \in job[w].todo : p.offset <= q.offset
       /\ IF Corrupt(w, p)
          THEN Go(w, "discard") /\ UNCHANGED contents
          ELSE /\ contents' = [contents EXCEPT ![job[w].token] = @ \cup {p}]
               /\ job' = [job EXCEPT ![w].todo = @ \ {p},
                                     ![w].offset = @ + p.size,
                                     ![w].step = IF Refreshable(w) THEN @ ELSE "discard"]
  /\ UNCHANGED <<session, parts, file, part_objects, objects, io_lock, used, accepted, faults>>

\* Variant: the loop may end early and the length is not checked.
CloseObjectEarly(w) ==
  /\ At(w, "complete", "assemble")
  /\ Go(w, IF Refreshable(w) THEN "unlock" ELSE "discard")
  /\ UNCHANGED <<session, parts, file, store, io_lock, used, accepted, faults>>

\* After the loop: the length check, close_object and the last heartbeat.
CloseObject(w) ==
  /\ At(w, "complete", "assemble")
  /\ job[w].todo = {}
  /\ Go(w, IF job[w].offset = job[w].size /\ Refreshable(w) THEN "unlock" ELSE "discard")
  /\ UNCHANGED <<session, parts, file, store, io_lock, used, accepted, faults>>

\* A query, read, write, close or heartbeat fails.
AssembleFails(w) ==
  /\ At(w, "complete", "assemble")
  /\ Fault
  /\ Go(w, "discard")
  /\ UNCHANGED <<session, parts, file, store, io_lock, used, accepted>>

\* release_object_io: the lock is dropped before the final transaction.
UnlockObject(w) ==
  /\ At(w, "complete", "unlock")
  /\ FreeLock(w)
  /\ Go(w, "finalize")
  /\ UNCHANGED <<session, parts, file, store, used, accepted, faults>>

\* The effect of the final transaction: file row in, session row out.
CommitFile(w) ==
  /\ file' = [state |-> "live", object_name |-> job[w].token, parts_pending |-> TRUE]
  /\ session' = NoSession
  /\ parts' = {}

OwnsCompletion(w) == Refreshable(w) /\ session.operation_state = "completing"

\* The final transaction, which verifies the claim under a row lock.
Finalize(w) ==
  /\ At(w, "complete", "finalize")
  /\ IF OwnsCompletion(w)
     THEN CommitFile(w) /\ Go(w, "prefix")
     ELSE UNCHANGED <<session, parts, file>> /\ Go(w, "discard")
  /\ UNCHANGED <<store, io_lock, used, accepted, faults>>

\* begin, select, insert or delete fails: rolled back and cleaned up.
FinalizeFails(w) ==
  /\ At(w, "complete", "finalize")
  /\ Fault
  /\ Go(w, "discard")
  /\ UNCHANGED <<session, parts, file, store, io_lock, used, accepted>>

\* Variant: an uncertain commit is treated like a failed one.
CommitUncertainDiscards(w) ==
  /\ At(w, "complete", "finalize")
  /\ OwnsCompletion(w)
  /\ Fault
  /\ CommitFile(w) \/ UNCHANGED <<session, parts, file>>
  /\ Go(w, "discard")
  /\ UNCHANGED <<store, io_lock, used, accepted>>

\* commit returns an error: its outcome is unknown, nothing is cleaned up.
CommitUncertain(w) ==
  /\ At(w, "complete", "finalize")
  /\ OwnsCompletion(w)
  /\ Fault
  /\ CommitFile(w) \/ UNCHANGED <<session, parts, file>>
  /\ Finish(w)
  /\ UNCHANGED <<store, io_lock, used, accepted>>

\* Variants: the failed completion also clears the upload prefix; it leaves
\* its object.
DiscardWithParts(w) ==
  /\ At(w, "complete", "discard")
  /\ Remove(job[w].token)
  /\ part_objects' = {}
  /\ job' = [job EXCEPT ![w].step = "abandon", ![w].todo = {}]
  /\ UNCHANGED <<session, parts, file, io_lock, used, accepted, faults>>

DiscardNothing(w) ==
  /\ At(w, "complete", "discard")
  /\ job' = [job EXCEPT ![w].step = "abandon", ![w].todo = {}]
  /\ UNCHANGED <<session, parts, file, store, io_lock, used, accepted, faults>>

\* cleanup_after_failure: abort and delete the object, log an error.
Discard(w) ==
  /\ At(w, "complete", "discard")
  /\ \/ /\ NoFault
        /\ Remove(job[w].token)
     \/ /\ CleanupMayFail
        /\ Fault
        /\ UNCHANGED <<objects, contents>>
  /\ job' = [job EXCEPT ![w].step = "abandon", ![w].todo = {}]
  /\ UNCHANGED <<session, parts, file, part_objects, io_lock, used, accepted>>
-----------------------------------------------------------------------------
(* cleanup_upload_parts: after a completion, on a repeated complete_upload, *)
(* at startup, and inside delete.                                          *)

\* complete_upload of a completed upload.
RetryCompleted(w) ==
  /\ job[w] = Idle
  /\ file.state = "live"
  /\ job' = [job EXCEPT ![w] = [Idle EXCEPT !.op = "clean", !.step = "prefix"]]
  /\ UNCHANGED <<session, parts, file, store, io_lock, used, accepted, faults>>

\* recover's third loop.
RecoverParts(w) ==
  /\ job[w] = Idle
  /\ file.parts_pending
  /\ job' = [job EXCEPT ![w] = [Idle EXCEPT !.op = "clean", !.step = "prefix"]]
  /\ UNCHANGED <<session, parts, file, store, io_lock, used, accepted, faults>>

CleanPrefix(w) ==
  /\ job[w].op \in {"complete", "clean", "delete"}
  /\ job[w].step = "prefix"
  /\ part_objects' = {}
  /\ Go(w, "flag")
  /\ UNCHANGED <<session, parts, file, objects, contents, io_lock, used, accepted, faults>>

\* The recursive delete fails, perhaps halfway.
CleanPrefixFails(w) ==
  /\ job[w].op \in {"complete", "clean", "delete"}
  /\ job[w].step = "prefix"
  /\ Fault
  /\ part_objects' \in SUBSET part_objects
  /\ Finish(w)
  /\ UNCHANGED <<session, parts, file, objects, contents, io_lock, used, accepted>>

\* upload_parts_pending := false, if the row is still there.
ClearPartsPending(w) ==
  /\ job[w].step = "flag"
  /\ \/ /\ NoFault
        /\ file' = [file EXCEPT !.parts_pending = FALSE]
        /\ IF job[w].op = "delete" THEN Go(w, "object") ELSE Finish(w)
     \/ Fault /\ UNCHANGED file /\ Finish(w)
  /\ UNCHANGED <<session, parts, store, io_lock, used, accepted>>
-----------------------------------------------------------------------------
(* delete, by a request or by recover's second loop.                       *)

\* Variant: a row already marked is not found again.
MarkDeletedOnce(w) ==
  /\ job[w] = Idle
  /\ file.state = "live"
  /\ file' = [file EXCEPT !.state = "deleting"]
  /\ job' = [job EXCEPT ![w] = [Idle EXCEPT !.op = "delete",
               !.step = IF file.parts_pending THEN "prefix" ELSE "object",
               !.previous = file.object_name]]
  /\ UNCHANGED <<session, parts, store, io_lock, used, accepted, faults>>

MarkDeleted(w) ==
  /\ job[w] = Idle
  /\ file.state \in {"live", "deleting"}
  /\ file' = [file EXCEPT !.state = "deleting"]
  /\ job' = [job EXCEPT ![w] = [Idle EXCEPT !.op = "delete",
               !.step = IF file.parts_pending THEN "prefix" ELSE "object",
               !.previous = file.object_name]]
  /\ UNCHANGED <<session, parts, store, io_lock, used, accepted, faults>>

DeleteObject(w) ==
  /\ At(w, "delete", "object")
  /\ Remove(job[w].previous)
  /\ Go(w, "row")
  /\ UNCHANGED <<session, parts, file, part_objects, io_lock, used, accepted, faults>>

\* finish_metadata_delete
FinishDelete(w) ==
  /\ At(w, "delete", "row")
  /\ file' = IF file.state = "deleting" THEN [NoFile EXCEPT !.state = "gone"] ELSE file
  /\ Finish(w)
  /\ UNCHANGED <<session, parts, store, io_lock, used, accepted, faults>>

\* Resolving the storage, deleting the object or deleting the row fails.
DeleteFails(w) ==
  /\ job[w].op = "delete"
  /\ job[w].step \in {"object", "row"}
  /\ Fault
  /\ Finish(w)
  /\ UNCHANGED <<session, parts, file, store, io_lock, used, accepted>>
-----------------------------------------------------------------------------
(* reap_stale_uploads, run by recover when a process starts.               *)

\* The listing: the object name is read here and used after the claim.
ListStale(w) ==
  /\ job[w] = Idle
  /\ Stale
  /\ job' = [job EXCEPT ![w] = [Idle EXCEPT !.op = "reap", !.step = "acquire",
                                            !.previous = session.object_name]]
  /\ UNCHANGED <<session, parts, file, store, io_lock, used, accepted, faults>>

ReapAcquire(w) ==
  /\ At(w, "reap", "acquire")
  /\ IF io_lock = NoWorker
     THEN io_lock' = w /\ Go(w, "claim")
     ELSE UNCHANGED io_lock /\ Finish(w)
  /\ UNCHANGED <<session, parts, file, store, used, accepted, faults>>

ReapClaim(w) ==
  /\ At(w, "reap", "claim")
  /\ IF Stale
     THEN \E t \in Tokens :
            /\ FreshToken(t)
            /\ session' = [session EXCEPT !.operation_state = "cleaning",
                                          !.operation_token = t,
                                          !.operation_fresh = TRUE]
            /\ job' = [job EXCEPT ![w].step = "object", ![w].token = t]
     ELSE Go(w, "done") /\ UNCHANGED <<session, used>>
  /\ UNCHANGED <<parts, file, store, io_lock, accepted, faults>>

ReapObject(w) ==
  /\ At(w, "reap", "object")
  /\ Remove(job[w].previous)
  /\ Go(w, "prefix")
  /\ UNCHANGED <<session, parts, file, part_objects, io_lock, used, accepted, faults>>

ReapPrefix(w) ==
  /\ At(w, "reap", "prefix")
  /\ part_objects' = {}
  /\ Go(w, "row")
  /\ UNCHANGED <<session, parts, file, objects, contents, io_lock, used, accepted, faults>>

\* A storage delete fails, a recursive one perhaps halfway: the claim is
\* released and the session stays for the next start.
ReapFails(w) ==
  /\ job[w].op = "reap"
  /\ job[w].step \in {"object", "prefix"}
  /\ Fault
  /\ IF job[w].step = "prefix"
     THEN part_objects' \in SUBSET part_objects
     ELSE UNCHANGED part_objects
  /\ Go(w, "abandon")
  /\ UNCHANGED <<session, parts, file, objects, contents, io_lock, used, accepted>>

\* The session row goes, its part rows with it (ON DELETE CASCADE).
ReapRow(w) ==
  /\ At(w, "reap", "row")
  /\ IF Present /\ Owns(w)
     THEN session' = NoSession /\ parts' = {}
     ELSE UNCHANGED <<session, parts>>
  /\ Go(w, "done")
  /\ UNCHANGED <<file, store, io_lock, used, accepted, faults>>
-----------------------------------------------------------------------------
\* A dropped request future or a dead process: its connection closes, which
\* frees the advisory lock; rows and objects stay as they are.  A database
\* error that `?` propagates out of the reaper has the same effect.
Crash(w) ==
  /\ job[w] # Idle
  /\ Fault
  /\ FreeLock(w)
  /\ Finish(w)
  /\ UNCHANGED <<session, parts, file, store, used, accepted>>

WriteUploadChunk(w) ==
  ClaimWrite(w) \/ PutPart(w) \/ PutPartFails(w) \/ PersistPart(w) \/ PersistPartFails(w)

CompleteUpload(w) ==
  \/ ClaimComplete(w) \/ DropPrevious(w) \/ OpenWriter(w) \/ OpenWriterFails(w)
  \/ AssemblePart(w) \/ CloseObject(w) \/ AssembleFails(w) \/ UnlockObject(w)
  \/ Finalize(w) \/ FinalizeFails(w) \/ CommitUncertain(w) \/ Discard(w)

OperationClaim(w) ==
  \/ Acquire(w) \/ AcquireFails(w) \/ Heartbeat(w) \/ HeartbeatFails(w)
  \/ Abandon(w) \/ Release(w) \/ Done(w)

CleanupUploadParts(w) ==
  \/ RetryCompleted(w) \/ RecoverParts(w)
  \/ CleanPrefix(w) \/ CleanPrefixFails(w) \/ ClearPartsPending(w)

Delete(w) == MarkDeleted(w) \/ DeleteObject(w) \/ FinishDelete(w) \/ DeleteFails(w)

ReapStaleUpload(w) ==
  \/ ListStale(w) \/ ReapAcquire(w) \/ ReapClaim(w)
  \/ ReapObject(w) \/ ReapPrefix(w) \/ ReapFails(w) \/ ReapRow(w)

Next ==
  \/ StartUpload \/ SessionExpires \/ OperationExpires
  \/ \E w \in Workers :
       \/ WriteUploadChunk(w) \/ CompleteUpload(w) \/ OperationClaim(w)
       \/ CleanupUploadParts(w) \/ Delete(w) \/ ReapStaleUpload(w) \/ Crash(w)

Spec == Init /\ [][Next]_vars

\* The steps that carry on what a worker has begun.
Proceed(w) ==
  \/ Acquire(w) \/ Heartbeat(w) \/ Abandon(w) \/ Release(w) \/ Done(w)
  \/ PutPart(w) \/ PersistPart(w)
  \/ DropPrevious(w) \/ OpenWriter(w) \/ AssemblePart(w) \/ CloseObject(w)
  \/ UnlockObject(w) \/ Finalize(w) \/ Discard(w)
  \/ CleanPrefix(w) \/ ClearPartsPending(w) \/ DeleteObject(w) \/ FinishDelete(w)
  \/ ReapAcquire(w) \/ ReapClaim(w) \/ ReapObject(w) \/ ReapPrefix(w) \/ ReapRow(w)

\* recover's second loop: delete for a row marked by an earlier process.
ResumeDelete(w) == file.state = "deleting" /\ MarkDeleted(w)

\* Handlers are driven by the runtime, time passes, and processes are started
\* again and again, each running recover.  Clients promise nothing.
Fairness ==
  /\ \A w \in Workers : WF_vars(Proceed(w))
  /\ WF_vars(SessionExpires) /\ WF_vars(OperationExpires)
  /\ SF_vars(\E w \in Workers : ListStale(w))
  /\ SF_vars(\E w \in Workers : ResumeDelete(w))
  /\ SF_vars(\E w \in Workers : RecoverParts(w))

FairSpec == Spec /\ Fairness
-----------------------------------------------------------------------------
(* Properties.                                                             *)

TypeOK ==
  /\ session \in Session
  /\ parts \subseteq Part
  /\ file \in File
  /\ part_objects \subseteq Tokens
  /\ objects \subseteq Tokens
  /\ contents \in [Tokens -> SUBSET Part]
  /\ io_lock \in Workers \cup {NoWorker}
  /\ job \in [Workers -> Job]
  /\ used \subseteq Tokens
  /\ accepted \subseteq Part
  /\ faults \in 0 .. MaxFaults

\* The steps at which a worker reads, writes or deletes objects of a session
\* under its claim.
InObjectIO(w) ==
  \/ job[w].op = "write" /\ job[w].step \in {"put", "persist"}
  \/ job[w].op = "complete" /\ job[w].step \in {"drop_previous", "open", "assemble", "unlock"}
  \/ job[w].op = "reap" /\ job[w].step \in {"object", "prefix", "row"}

\* While a worker does object I/O under the advisory lock, the session row
\* exists and carries its token: no reaper and no other handler takes the row
\* or the objects from under it, however long the I/O lasts (the lock is taken
\* after the row claim, so the heartbeat in acquire must catch a lost claim).
ObjectIOKeepsClaim ==
  \A w \in Workers : InObjectIO(w) =>
    /\ io_lock = w
    /\ Present /\ Owns(w)
    /\ \A v \in Workers \ {w} : ~InObjectIO(v)

\* A file that is listed and served has its object, holding exactly the chunks
\* that were acknowledged: no reaper, discarded completion, superseded-object
\* cleanup or uncertain commit destroys or truncates a committed object.
CommittedFileIntact ==
  file.state = "live" =>
    /\ file.object_name \in objects
    /\ contents[file.object_name] = accepted

\* uploaded_size is the end of a gapless, non-overlapping cover by the part
\* rows, so a completion never reports UploadCorrupt.
PartsTileUpload ==
  Present => \A k \in 0 .. session.total_size :
    Cardinality({p \in parts : p.offset <= k /\ k < p.offset + p.size})
      = IF k < session.uploaded_size THEN 1 ELSE 0

\* As long as the client may still write, complete, or have an operation in
\* progress, every acknowledged chunk can be read back.
AcknowledgedChunksReadable ==
  (Present /\ ~Stale /\ session.operation_state # "cleaning") =>
    /\ parts = accepted
    /\ \A p \in parts : p.token \in part_objects

\* Temporary objects never outlive the rows from which a restart finds them.
NoOrphanPartObjects ==
  part_objects # {} => Present \/ file.parts_pending

\* Rows and temporary objects match in both directions while handlers, retries,
\* reapers and crashes meet: no acknowledged chunk is without its object, and no
\* object without the row from which a restart finds it.
PartRowsAndObjectsMatch == AcknowledgedChunksReadable /\ NoOrphanPartObjects

\* When best-effort deletes succeed, every final object is named by a row, so
\* a restart can find and remove it, whatever crashed and wherever.
NoOrphanObjects ==
  objects \subseteq {session.object_name, file.object_name}

\* The upload is over for its client: nothing can be written or completed.
Expired ==
  \/ used # {} /\ ~Present
  \/ Present /\ ~session.updated_fresh
     /\ (session.operation_state \in {"uploading", "cleaning"} \/ ~session.operation_fresh)

KeepsExpired == Expired => Expired' /\ (file.state = "none" => file'.state = "none")

\* An expired session stays expired: no late heartbeat, persist, release or
\* failed reap revives it, and it never becomes a file.
ExpiredStaysExpired == [][KeepsExpired]_vars

\* The final object that a live completion writes is never removed by anybody
\* else while that completion can still commit it.
PendingObjectSurvives ==
  [][\A w \in Workers :
       (/\ job[w].op = "complete"
        /\ job[w].step \in {"unlock", "finalize"}
        /\ OwnsCompletion(w)
        /\ OwnsCompletion(w)')
       => contents'[job[w].token] = accepted]_vars

\* The phase a client can tell from the rows.
Phase == CASE file.state = "live"     -> "stored"
           [] file.state = "deleting" -> "deleting"
           [] file.state = "gone"     -> "deleted"
           [] used = {}               -> "new"
           [] OTHER                   -> IF Expired THEN "expired" ELSE "open"

\* upload_status: the session row, unless it is too old, or else the file.
UploadStatus ==
  CASE Present /\ (IF session.operation_state = "uploading"
                   THEN session.updated_fresh ELSE session.operation_fresh) -> "open"
    [] file.state = "live" -> "complete"
    [] OTHER -> "unknown"

\* A client that asks for its upload is told of every one that can go on and of
\* every stored file, and of an upload that is over only while the reaper is at
\* it; a size reported for an open upload covers every chunk ever acknowledged.
StatusTellsPhase ==
  /\ Phase = "open" => UploadStatus = "open"
  /\ Phase = "stored" <=> UploadStatus = "complete"
  /\ Phase = "expired" /\ UploadStatus = "open" => session.operation_state = "cleaning"
  /\ UploadStatus = "open" => \A p \in accepted : p.offset + p.size <= session.uploaded_size

\* The bookkeeping of an upload is right for its completion and for its client.
UploadAccountedFor == PartsTileUpload /\ StatusTellsPhase

\* Every session row leaves: completed, or reaped once its client is gone, also
\* when handlers and reapers crash at any point.
SessionsLeave == Present ~> ~Present

\* A deletion that was recorded is carried out.
PendingDeletionFinishes == file.state = "deleting" ~> file.state = "gone"

\* Temporary part objects do not stay in the backend.
PartObjectsReclaimed == part_objects # {} ~> part_objects = {}

\* What a crash or a failure left half done is carried through by the processes
\* started later: the deletion of a file, and of temporary objects (recover).
ReclaimedAfterRestarts == PendingDeletionFinishes /\ PartObjectsReclaimed

\* After an interrupted request, once nobody works on a session that has not
\* expired and still misses bytes, its client can resume at the persisted offset.
InterruptedUploadResumes ==
  (/\ Present /\ session.updated_fresh
   /\ session.uploaded_size < session.total_size
   /\ \A w \in Workers : job[w] = Idle)
    => session.operation_state = "uploading"
-----------------------------------------------------------------------------
(* Uploads implements UploadLifecycle.                                     *)

\* read_local_object serves the object of a file row not marked deleted.
Served == IF file.state = "live" /\ file.object_name \in objects
          THEN contents[file.object_name] ELSE {}

\* The bytes an open session still waits for.
Missing == IF Phase = "open" THEN session.total_size - session.uploaded_size ELSE 0

\* The client-visible contract, under the mapping above.
Lifecycle == INSTANCE UploadLifecycle WITH
  phase <- Phase, missing <- Missing, received <- accepted, served <- Served

ImplementsLifecycle == Lifecycle!Spec
-----------------------------------------------------------------------------
(* The inductive invariant behind the safety properties.                   *)

\* A token belongs to one worker at a time, and was drawn before.
TokensInv ==
  /\ {session.operation_token, session.object_name, file.object_name} \subseteq used \cup {NoToken}
  /\ \A w \in Workers :
       /\ {job[w].token, job[w].previous} \subseteq used \cup {NoToken}
       /\ job[w].op \in {"write", "complete"} => job[w].token # NoToken
       /\ job[w].op = "reap" /\ job[w].step \in {"object", "prefix", "row"} => job[w].token # NoToken
       /\ job[w].op = "write" => job[w].size # 0
       /\ job[w].op = "complete" => job[w].previous # job[w].token
       /\ \A v \in Workers : job[v].token = job[w].token => v = w \/ job[w].token = NoToken

\* The table's CHECK constraint, and what the token says of its holder.
RowInv ==
  /\ session.operation_token = NoToken <=> session.operation_state \in {"absent", "uploading"}
  /\ session.operation_fresh => session.operation_token # NoToken
  /\ ~Present => ~session.updated_fresh /\ parts = {}
  /\ \A w \in Workers : job[w].token # NoToken /\ Owns(w) =>
       \/ session.operation_state = "writing" /\ job[w].op = "write"
       \/ session.operation_state = "completing" /\ job[w].op = "complete"
       \/ session.operation_state = "cleaning" /\ job[w].op = "reap"

\* The advisory lock, and the claim it protects.
LockInv ==
  \A w \in Workers :
    /\ InObjectIO(w) => io_lock = w /\ Owns(w)
    /\ job[w].op \in {"write", "complete"} /\ job[w].step = "heartbeat" => io_lock = w
    /\ job[w].op = "reap" /\ job[w].step = "claim" => io_lock = w

\* An upload is a session or a file, never both, and only the dead are reaped.
PhaseInv ==
  /\ used = {} => ~Present /\ file.state = "none" /\ accepted = {}
  /\ file.state # "none" => ~Present
  /\ file.state = "none" => ~file.parts_pending
  /\ \A w \in Workers :
       /\ job[w].op = "reap" => Expired /\ file.state = "none"
       /\ job[w].op = "delete" => file.state \in {"deleting", "gone"}
  /\ Present => parts = accepted

\* What has been written into the object of a completion so far.
ContentInv ==
  /\ \A t \in Tokens \ used : contents[t] = {}
  /\ \A w \in Workers : job[w].op = "complete" =>
       /\ job[w].step \in {"acquire", "heartbeat", "drop_previous", "open"} => contents[job[w].token] = {}
       /\ job[w].step = "assemble" =>
            /\ job[w].token \in objects
            /\ job[w].todo \subseteq parts
            /\ contents[job[w].token] = parts \ job[w].todo
       /\ job[w].step = "unlock" \/ (job[w].step = "finalize" /\ Owns(w)) =>
            /\ job[w].token \in objects
            /\ contents[job[w].token] = parts
       /\ file.state = "live" /\ job[w].step \notin {"prefix", "flag"}
            => job[w].token # file.object_name

\* The strengthening of CommittedFileIntact and ObjectIOKeepsClaim that every
\* step preserves.
InductiveInv ==
  TokensInv /\ RowInv /\ LockInv /\ PhaseInv /\ ContentInv /\ CommittedFileIntact
=============================================================================
