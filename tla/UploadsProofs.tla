---------------------------- MODULE UploadsProofs ----------------------------
(***************************************************************************)
(* Proofs, for any set of workers and UUIDs and any number of failures,    *)
(* that Uploads keeps its types and the inductive invariant, and with it   *)
(* CommittedFileIntact and ObjectIOKeepsClaim.                             *)
(*                                                                         *)
(* One lemma per action: first what the action does to the fields of the   *)
(* worker's job and of the session row, then one step per conjunct.        *)
(***************************************************************************)
EXTENDS Uploads, TLAPS

Steps == {"idle", "acquire", "heartbeat", "put", "persist", "drop_previous", "open",
          "assemble", "unlock", "finalize", "discard", "abandon", "release", "done",
          "prefix", "flag", "claim", "object", "row"}

Others(w) == \A v \in Workers \ {w} : job'[v] = job[v]

\* The worker moves to another step and keeps everything else.
Moves(w, s) ==
  /\ job' \in [Workers -> Job]
  /\ Others(w)
  /\ job'[w].step = s
  /\ job'[w].op = job[w].op
  /\ job'[w].token = job[w].token
  /\ job'[w].previous = job[w].previous
  /\ job'[w].offset = job[w].offset
  /\ job'[w].size = job[w].size
  /\ job'[w].todo = job[w].todo

Ends(w) ==
  /\ job' \in [Workers -> Job]
  /\ Others(w)
  /\ job'[w] = Idle
  /\ job'[w].op = "none" /\ job'[w].step = "idle" /\ job'[w].token = NoToken
  /\ job'[w].previous = NoToken /\ job'[w].todo = {}

LEMMA GoMoves ==
  ASSUME job \in [Workers -> Job], NEW w \in Workers, NEW s \in Steps, Go(w, s)
  PROVE  Moves(w, s)
<1> DEFINE j == job[w]
<1>1. j \in Job
  OBVIOUS
<1>2. [j EXCEPT !.step = s] = [op |-> j.op, step |-> s, token |-> j.token, previous |-> j.previous,
                              offset |-> j.offset, size |-> j.size, todo |-> j.todo]
  BY <1>1 DEF Job
<1>3. [j EXCEPT !.step = s] \in Job
  BY <1>1, <1>2 DEF Job, Steps
<1>4. job' = [job EXCEPT ![w] = [j EXCEPT !.step = s]]
  BY DEF Go
<1> QED
  BY <1>2, <1>3, <1>4 DEF Moves, Others

LEMMA FinishEnds ==
  ASSUME job \in [Workers -> Job], NEW w \in Workers, Finish(w)
  PROVE  Ends(w)
<1>1. Idle \in Job
  BY DEF Idle, Job
<1> QED
  BY <1>1 DEF Finish, Ends, Others, Idle

\* The session row becomes this record.
RowBecomes(state, token, name, total, size, updated, operation) ==
  /\ session' \in Session
  /\ session'.operation_state = state
  /\ session'.operation_token = token
  /\ session'.object_name = name
  /\ session'.total_size = total
  /\ session'.uploaded_size = size
  /\ session'.updated_fresh = updated
  /\ session'.operation_fresh = operation

\* The worker's job becomes this record.
JobBecomes(w, op, step, token, previous, offset, size, todo) ==
  /\ job' \in [Workers -> Job]
  /\ Others(w)
  /\ job'[w].op = op
  /\ job'[w].step = step
  /\ job'[w].token = token
  /\ job'[w].previous = previous
  /\ job'[w].offset = offset
  /\ job'[w].size = size
  /\ job'[w].todo = todo
-----------------------------------------------------------------------------
(* Time and the start of an upload.                                        *)

LEMMA StartUploadStep ==
  ASSUME TypeOK, InductiveInv, StartUpload
  PROVE  TypeOK' /\ InductiveInv' /\ KeepsExpired
<1> USE UploadsAssumption DEF Owns, Present, Refreshable
<1>1. PICK size \in Sizes, t \in Tokens :
        /\ t \notin used /\ used' = used \cup {t}
        /\ session' = [NoSession EXCEPT !.operation_state = "uploading", !.object_name = t,
                                        !.total_size = size, !.updated_fresh = TRUE]
  BY DEF StartUpload, FreshToken
<1>2. RowBecomes("uploading", NoToken, t, size, 0, TRUE, FALSE)
  BY <1>1 DEF RowBecomes, NoSession, Session
<1>3. t \notin used /\ used' = used \cup {t} /\ used = {}
  BY <1>1 DEF StartUpload
<1>4. UNCHANGED <<parts, file, part_objects, objects, contents, io_lock, job, accepted, faults>>
  BY DEF StartUpload, store
<1> USE <1>1, <1>2, <1>3, <1>4 DEF InductiveInv, RowBecomes, Moves, Ends, Others
<1>5. TypeOK'
  BY DEF TypeOK
<1>6. TokensInv'
  BY DEF TokensInv, PhaseInv
<1>7. RowInv'
  BY DEF RowInv, TokensInv
<1>8. LockInv'
  BY DEF LockInv, InObjectIO, TokensInv, RowInv
<1>9. PhaseInv'
  BY DEF PhaseInv, Expired, TokensInv, RowInv
<1>10. ContentInv'
  BY DEF ContentInv, TokensInv, RowInv, LockInv, InObjectIO, PhaseInv
<1>11. CommittedFileIntact'
  BY DEF CommittedFileIntact, TokensInv, RowInv, LockInv, InObjectIO, PhaseInv, ContentInv
<1>12. KeepsExpired
  BY DEF KeepsExpired, Expired, PhaseInv
<1> QED
  BY <1>5, <1>6, <1>7, <1>8, <1>9, <1>10, <1>11, <1>12 DEF InductiveInv

LEMMA SessionExpiresStep ==
  ASSUME TypeOK, InductiveInv, SessionExpires
  PROVE  TypeOK' /\ InductiveInv' /\ KeepsExpired
<1> USE UploadsAssumption DEF Owns, Present, Refreshable
<1>1. RowBecomes(session.operation_state, session.operation_token,
                 session.object_name, session.total_size, session.uploaded_size,
                 FALSE, session.operation_fresh)
  BY DEF SessionExpires, RowBecomes, TypeOK, Session
<1>2. UNCHANGED <<parts, file, part_objects, objects, contents, io_lock, job, used, accepted, faults>>
  BY DEF SessionExpires, store
<1> USE <1>1, <1>2 DEF InductiveInv, RowBecomes, Moves, Ends, Others
<1>3. TypeOK'
  BY DEF TypeOK
<1>4. TokensInv'
  BY DEF TokensInv
<1>5. RowInv'
  BY DEF RowInv
<1>6. LockInv'
  BY DEF LockInv, InObjectIO
<1>7. PhaseInv'
  BY DEF PhaseInv, Expired
<1>8. ContentInv'
  BY DEF ContentInv
<1>9. CommittedFileIntact'
  BY DEF CommittedFileIntact
<1>10. KeepsExpired
  BY DEF KeepsExpired, Expired
<1> QED
  BY <1>3, <1>4, <1>5, <1>6, <1>7, <1>8, <1>9, <1>10 DEF InductiveInv

LEMMA OperationExpiresStep ==
  ASSUME TypeOK, InductiveInv, OperationExpires
  PROVE  TypeOK' /\ InductiveInv' /\ KeepsExpired
<1> USE UploadsAssumption DEF Owns, Present, Refreshable
<1>1. RowBecomes(session.operation_state, session.operation_token,
                 session.object_name, session.total_size, session.uploaded_size,
                 session.updated_fresh, FALSE)
  BY DEF OperationExpires, RowBecomes, TypeOK, Session
<1>2. ~session.updated_fresh
  BY DEF OperationExpires
<1>3. UNCHANGED <<parts, file, part_objects, objects, contents, io_lock, job, used, accepted, faults>>
  BY DEF OperationExpires, store
<1> USE <1>1, <1>2, <1>3 DEF InductiveInv, RowBecomes, Moves, Ends, Others
<1>4. TypeOK'
  BY DEF TypeOK
<1>5. TokensInv'
  BY DEF TokensInv
<1>6. RowInv'
  BY DEF RowInv
<1>7. LockInv'
  BY DEF LockInv, InObjectIO
<1>8. PhaseInv'
  BY DEF PhaseInv, Expired
<1>9. ContentInv'
  BY DEF ContentInv
<1>10. CommittedFileIntact'
  BY DEF CommittedFileIntact
<1>11. KeepsExpired
  BY DEF KeepsExpired, Expired
<1> QED
  BY <1>4, <1>5, <1>6, <1>7, <1>8, <1>9, <1>10, <1>11 DEF InductiveInv
-----------------------------------------------------------------------------
(* Claiming and releasing an operation.                                    *)

LEMMA ClaimWriteStep ==
  ASSUME TypeOK, InductiveInv, NEW w \in Workers, ClaimWrite(w)
  PROVE  TypeOK' /\ InductiveInv' /\ KeepsExpired
<1> USE UploadsAssumption DEF Owns, Present, Refreshable
<1>1. PICK size \in ChunkSizes, t \in Tokens :
        /\ t \notin used /\ used' = used \cup {t}
        /\ session' = [session EXCEPT !.operation_state = "writing", !.operation_token = t,
                                      !.operation_fresh = TRUE]
        /\ job' = [job EXCEPT ![w] = [Idle EXCEPT !.op = "write", !.step = "acquire", !.token = t, !.size = size,
                                     !.offset = session.uploaded_size]]
  BY DEF ClaimWrite, FreshToken
<1>2. RowBecomes("writing", t, session.object_name, session.total_size, session.uploaded_size,
                 session.updated_fresh, TRUE)
  BY <1>1 DEF RowBecomes, Session, TypeOK
<1>3. size \in Nat /\ session.uploaded_size \in Nat
  BY DEF TypeOK, Session
<1>4. JobBecomes(w, "write", "acquire", t, NoToken,
                 session.uploaded_size, size, {})
  <2> DEFINE k == [Idle EXCEPT !.op = "write", !.step = "acquire", !.token = t, !.size = size,
                        !.offset = session.uploaded_size]
  <2>1. /\ k \in Job
        /\ k.op = "write" /\ k.step = "acquire" /\ k.token = t /\ k.previous = NoToken
        /\ k.offset = session.uploaded_size /\ k.size = size /\ k.todo = {}
    BY <1>3 DEF Idle, Job
  <2>2. job' = [job EXCEPT ![w] = k] /\ job \in [Workers -> Job]
    BY <1>1 DEF TypeOK
  <2> HIDE DEF k
  <2> QED
    BY <2>1, <2>2 DEF JobBecomes, Others
<1>5. t \notin used /\ used' = used \cup {t} /\ session.operation_state = "uploading" /\ session.updated_fresh
  BY <1>1 DEF ClaimWrite
<1>6. job[w].token = NoToken /\ job[w].op = "none"
  BY DEF ClaimWrite, Idle
<1>7. UNCHANGED <<parts, file, part_objects, objects, contents, io_lock, accepted, faults>>
  BY DEF ClaimWrite, store
<1> USE <1>1, <1>2, <1>3, <1>4, <1>5, <1>6, <1>7 DEF InductiveInv, RowBecomes, JobBecomes, Moves, Ends, Others
<1>8. TypeOK'
  BY DEF TypeOK
<1>9. TokensInv'
  BY DEF TokensInv, PhaseInv
<1>10. RowInv'
  BY DEF RowInv, TokensInv
<1>11. LockInv'
  BY DEF LockInv, InObjectIO, TokensInv, RowInv
<1>12. PhaseInv'
  BY DEF PhaseInv, Expired, TokensInv, RowInv
<1>13. ContentInv'
  BY DEF ContentInv, TokensInv, RowInv, LockInv, InObjectIO, PhaseInv
<1>14. CommittedFileIntact'
  BY DEF CommittedFileIntact, TokensInv, RowInv, LockInv, InObjectIO, PhaseInv, ContentInv
<1>15. KeepsExpired
  BY DEF KeepsExpired, Expired, PhaseInv
<1> QED
  BY <1>8, <1>9, <1>10, <1>11, <1>12, <1>13, <1>14, <1>15 DEF InductiveInv

LEMMA ClaimCompleteStep ==
  ASSUME TypeOK, InductiveInv, NEW w \in Workers, ClaimComplete(w)
  PROVE  TypeOK' /\ InductiveInv' /\ KeepsExpired
<1> USE UploadsAssumption DEF Owns, Present, Refreshable
<1>1. PICK t \in Tokens :
        /\ t \notin used /\ used' = used \cup {t}
        /\ session' = [session EXCEPT !.operation_state = "completing", !.operation_token = t,
                                      !.operation_fresh = TRUE, !.object_name = t]
        /\ job' = [job EXCEPT ![w] = [Idle EXCEPT !.op = "complete", !.step = "acquire", !.token = t,
                                     !.size = session.total_size, !.previous = session.object_name]]
  BY DEF ClaimComplete, FreshToken
<1>2. RowBecomes("completing", t, t, session.total_size, session.uploaded_size,
                 session.updated_fresh, TRUE)
  BY <1>1 DEF RowBecomes, Session, TypeOK
<1>3. session.uploaded_size \in Nat /\ session.total_size \in Nat /\ session.object_name \in Tokens \cup {NoToken}
  BY DEF TypeOK, Session
<1>4. JobBecomes(w, "complete", "acquire", t, session.object_name,
                 0, session.total_size, {})
  <2> DEFINE k == [Idle EXCEPT !.op = "complete", !.step = "acquire", !.token = t,
                        !.size = session.total_size, !.previous = session.object_name]
  <2>1. /\ k \in Job
        /\ k.op = "complete" /\ k.step = "acquire" /\ k.token = t /\ k.previous = session.object_name
        /\ k.offset = 0 /\ k.size = session.total_size /\ k.todo = {}
    BY <1>3 DEF Idle, Job
  <2>2. job' = [job EXCEPT ![w] = k] /\ job \in [Workers -> Job]
    BY <1>1 DEF TypeOK
  <2> HIDE DEF k
  <2> QED
    BY <2>1, <2>2 DEF JobBecomes, Others
<1>5. t \notin used /\ used' = used \cup {t} /\ session.operation_state = "uploading" /\ session.updated_fresh
  BY <1>1 DEF ClaimComplete
<1>6. job[w].token = NoToken /\ job[w].op = "none"
  BY DEF ClaimComplete, Idle
<1>7. UNCHANGED <<parts, file, part_objects, objects, contents, io_lock, accepted, faults>>
  BY DEF ClaimComplete, store
<1> USE <1>1, <1>2, <1>3, <1>4, <1>5, <1>6, <1>7 DEF InductiveInv, RowBecomes, JobBecomes, Moves, Ends, Others
<1>8. TypeOK'
  BY DEF TypeOK
<1>9. TokensInv'
  BY DEF TokensInv, PhaseInv
<1>10. RowInv'
  BY DEF RowInv, TokensInv
<1>11. LockInv'
  BY DEF LockInv, InObjectIO, TokensInv, RowInv
<1>12. PhaseInv'
  BY DEF PhaseInv, Expired, TokensInv, RowInv
<1>13. ContentInv'
  BY SMTT(30) DEF TypeOK, ContentInv, TokensInv, RowInv, LockInv, InObjectIO, PhaseInv
<1>14. CommittedFileIntact'
  BY DEF CommittedFileIntact, TokensInv, RowInv, LockInv, InObjectIO, PhaseInv, ContentInv
<1>15. KeepsExpired
  BY DEF KeepsExpired, Expired, PhaseInv
<1> QED
  BY <1>8, <1>9, <1>10, <1>11, <1>12, <1>13, <1>14, <1>15 DEF InductiveInv

LEMMA AcquireStep ==
  ASSUME TypeOK, InductiveInv, NEW w \in Workers, Acquire(w)
  PROVE  TypeOK' /\ InductiveInv' /\ KeepsExpired
<1> USE UploadsAssumption DEF Owns, Present, Refreshable
<1>1. \/ io_lock = NoWorker /\ io_lock' = w /\ Moves(w, "heartbeat")
      \/ io_lock' = io_lock /\ Moves(w, "release")
  BY GoMoves DEF Acquire, TypeOK, Steps
<1> USE <1>1 DEF InductiveInv, Acquire, store, Moves, Ends, Others
<1>2. TypeOK'
  BY DEF TypeOK
<1>3. TokensInv'
  BY DEF TokensInv
<1>4. RowInv'
  BY DEF RowInv
<1>5. LockInv'
  BY DEF LockInv, InObjectIO
<1>6. PhaseInv'
  BY DEF PhaseInv, Expired
<1>7. ContentInv'
  BY SMTT(30) DEF ContentInv
<1>8. CommittedFileIntact'
  BY DEF CommittedFileIntact
<1>9. KeepsExpired
  BY DEF KeepsExpired, Expired
<1> QED
  BY <1>2, <1>3, <1>4, <1>5, <1>6, <1>7, <1>8, <1>9 DEF InductiveInv

LEMMA AcquireFailsStep ==
  ASSUME TypeOK, InductiveInv, NEW w \in Workers, AcquireFails(w)
  PROVE  TypeOK' /\ InductiveInv' /\ KeepsExpired
<1> USE UploadsAssumption DEF Owns, Present, Refreshable
<1>1. Moves(w, "release")
  BY GoMoves DEF AcquireFails, TypeOK, Steps
<1> USE <1>1 DEF InductiveInv, AcquireFails, Fault, store, Moves, Ends, Others
<1>2. TypeOK'
  BY DEF TypeOK
<1>3. TokensInv'
  BY DEF TokensInv
<1>4. RowInv'
  BY DEF RowInv
<1>5. LockInv'
  BY DEF LockInv, InObjectIO
<1>6. PhaseInv'
  BY DEF PhaseInv, Expired
<1>7. ContentInv'
  BY SMTT(30) DEF ContentInv
<1>8. CommittedFileIntact'
  BY DEF CommittedFileIntact
<1>9. KeepsExpired
  BY DEF KeepsExpired, Expired
<1> QED
  BY <1>2, <1>3, <1>4, <1>5, <1>6, <1>7, <1>8, <1>9 DEF InductiveInv

LEMMA HeartbeatStep ==
  ASSUME TypeOK, InductiveInv, NEW w \in Workers, Heartbeat(w)
  PROVE  TypeOK' /\ InductiveInv' /\ KeepsExpired
<1> USE UploadsAssumption DEF Owns, Present, Refreshable
<1>1. \/ Owns(w) /\ job[w].op = "write" /\ Moves(w, "put")
      \/ Owns(w) /\ job[w].op = "complete" /\ Moves(w, "drop_previous")
      \/ Moves(w, "abandon")
  BY GoMoves DEF Heartbeat, TypeOK, Steps
<1> USE <1>1 DEF InductiveInv, Heartbeat, store, Moves, Ends, Others
<1>2. TypeOK'
  BY DEF TypeOK
<1>3. TokensInv'
  BY DEF TokensInv
<1>4. RowInv'
  BY DEF RowInv
<1>5. LockInv'
  BY DEF LockInv, InObjectIO
<1>6. PhaseInv'
  BY DEF PhaseInv, Expired
<1>7. ContentInv'
  BY DEF ContentInv
<1>8. CommittedFileIntact'
  BY DEF CommittedFileIntact
<1>9. KeepsExpired
  BY DEF KeepsExpired, Expired
<1> QED
  BY <1>2, <1>3, <1>4, <1>5, <1>6, <1>7, <1>8, <1>9 DEF InductiveInv

LEMMA HeartbeatFailsStep ==
  ASSUME TypeOK, InductiveInv, NEW w \in Workers, HeartbeatFails(w)
  PROVE  TypeOK' /\ InductiveInv' /\ KeepsExpired
<1> USE UploadsAssumption DEF Owns, Present, Refreshable
<1>1. Moves(w, "abandon")
  BY GoMoves DEF HeartbeatFails, TypeOK, Steps
<1> USE <1>1 DEF InductiveInv, HeartbeatFails, Fault, store, Moves, Ends, Others
<1>2. TypeOK'
  BY DEF TypeOK
<1>3. TokensInv'
  BY DEF TokensInv
<1>4. RowInv'
  BY DEF RowInv
<1>5. LockInv'
  BY DEF LockInv, InObjectIO
<1>6. PhaseInv'
  BY DEF PhaseInv, Expired
<1>7. ContentInv'
  BY SMTT(30) DEF ContentInv
<1>8. CommittedFileIntact'
  BY DEF CommittedFileIntact
<1>9. KeepsExpired
  BY DEF KeepsExpired, Expired
<1> QED
  BY <1>2, <1>3, <1>4, <1>5, <1>6, <1>7, <1>8, <1>9 DEF InductiveInv

LEMMA AbandonStep ==
  ASSUME TypeOK, InductiveInv, NEW w \in Workers, Abandon(w)
  PROVE  TypeOK' /\ InductiveInv' /\ KeepsExpired
<1> USE UploadsAssumption DEF Owns, Present, Refreshable
<1>1. Moves(w, "release")
  BY GoMoves DEF Abandon, TypeOK, Steps
<1> USE <1>1 DEF InductiveInv, Abandon, FreeLock, store, Moves, Ends, Others
<1>2. TypeOK'
  BY DEF TypeOK
<1>3. TokensInv'
  BY DEF TokensInv
<1>4. RowInv'
  BY DEF RowInv
<1>5. LockInv'
  BY DEF LockInv, InObjectIO
<1>6. PhaseInv'
  BY DEF PhaseInv, Expired
<1>7. ContentInv'
  BY SMTT(30) DEF ContentInv
<1>8. CommittedFileIntact'
  BY DEF CommittedFileIntact
<1>9. KeepsExpired
  BY DEF KeepsExpired, Expired
<1> QED
  BY <1>2, <1>3, <1>4, <1>5, <1>6, <1>7, <1>8, <1>9 DEF InductiveInv

LEMMA ReleaseStep ==
  ASSUME TypeOK, InductiveInv, NEW w \in Workers, Release(w)
  PROVE  TypeOK' /\ InductiveInv' /\ KeepsExpired
<1> USE UploadsAssumption DEF Owns, Present, Refreshable
<1>1. job[w].step = "release"
  BY DEF Release
<1>2. Ends(w)
  BY FinishEnds DEF Release, TypeOK, Steps
<1>3. \/ /\ Present /\ Owns(w)
         /\ RowBecomes("uploading", NoToken, session.object_name, session.total_size, session.uploaded_size,
                       session.updated_fresh, FALSE)
      \/ session' = session
  <2>1. ASSUME session' = [session EXCEPT !.operation_state = "uploading", !.operation_token = NoToken,
                                         !.operation_fresh = FALSE]
        PROVE  RowBecomes("uploading", NoToken, session.object_name, session.total_size, session.uploaded_size,
                          session.updated_fresh, FALSE)
    BY <2>1 DEF RowBecomes, TypeOK, Session
  <2> QED
    BY <2>1 DEF Release
<1>4. UNCHANGED <<parts, file, part_objects, objects, contents, io_lock, used, accepted>>
  BY DEF Release, store
<1>5. faults' \in 0 .. MaxFaults
  BY DEF Release, Fault, NoFault, TypeOK
<1> USE <1>1, <1>2, <1>3, <1>4, <1>5 DEF InductiveInv, RowBecomes, Moves, Ends, Others
<1>6. TypeOK'
  BY DEF TypeOK
<1>7. TokensInv'
  BY DEF TokensInv
<1>8. RowInv'
  BY DEF RowInv
<1>9. LockInv'
  BY DEF LockInv, InObjectIO, TokensInv, RowInv
<1>10. PhaseInv'
  BY DEF PhaseInv, Expired, RowInv, TokensInv
<1>11. ContentInv'
  BY SMTT(30) DEF ContentInv, TokensInv
<1>12. CommittedFileIntact'
  BY DEF CommittedFileIntact
<1>13. KeepsExpired
  BY DEF KeepsExpired, Expired
<1> QED
  BY <1>6, <1>7, <1>8, <1>9, <1>10, <1>11, <1>12, <1>13 DEF InductiveInv

LEMMA DoneStep ==
  ASSUME TypeOK, InductiveInv, NEW w \in Workers, Done(w)
  PROVE  TypeOK' /\ InductiveInv' /\ KeepsExpired
<1> USE UploadsAssumption DEF Owns, Present, Refreshable
<1>1. Ends(w)
  BY FinishEnds DEF Done, TypeOK, Steps
<1> USE <1>1 DEF InductiveInv, Done, FreeLock, store, Moves, Ends, Others
<1>2. TypeOK'
  BY DEF TypeOK
<1>3. TokensInv'
  BY DEF TokensInv
<1>4. RowInv'
  BY DEF RowInv
<1>5. LockInv'
  BY DEF LockInv, InObjectIO
<1>6. PhaseInv'
  BY DEF PhaseInv, Expired
<1>7. ContentInv'
  BY DEF ContentInv
<1>8. CommittedFileIntact'
  BY DEF CommittedFileIntact
<1>9. KeepsExpired
  BY DEF KeepsExpired, Expired
<1> QED
  BY <1>2, <1>3, <1>4, <1>5, <1>6, <1>7, <1>8, <1>9 DEF InductiveInv
-----------------------------------------------------------------------------
(* write_upload_chunk.                                                     *)

LEMMA PutPartStep ==
  ASSUME TypeOK, InductiveInv, NEW w \in Workers, PutPart(w)
  PROVE  TypeOK' /\ InductiveInv' /\ KeepsExpired
<1> USE UploadsAssumption DEF Owns, Present, Refreshable
<1>1. Moves(w, "persist")
  BY GoMoves DEF PutPart, TypeOK, Steps
<1> USE <1>1 DEF InductiveInv, PutPart, At, store, Moves, Ends, Others
<1>2. TypeOK'
  <2>1. job[w].token \in Tokens
    BY DEF TypeOK, Job, TokensInv
  <2> QED
    BY <2>1 DEF TypeOK
<1>3. TokensInv'
  BY DEF TokensInv
<1>4. RowInv'
  BY DEF RowInv
<1>5. LockInv'
  BY DEF LockInv, InObjectIO
<1>6. PhaseInv'
  BY DEF PhaseInv, Expired
<1>7. ContentInv'
  BY DEF ContentInv
<1>8. CommittedFileIntact'
  BY DEF CommittedFileIntact
<1>9. KeepsExpired
  BY DEF KeepsExpired, Expired
<1> QED
  BY <1>2, <1>3, <1>4, <1>5, <1>6, <1>7, <1>8, <1>9 DEF InductiveInv

LEMMA PutPartFailsStep ==
  ASSUME TypeOK, InductiveInv, NEW w \in Workers, PutPartFails(w)
  PROVE  TypeOK' /\ InductiveInv' /\ KeepsExpired
<1> USE UploadsAssumption DEF Owns, Present, Refreshable
<1>1. Moves(w, "abandon")
  BY GoMoves DEF PutPartFails, TypeOK, Steps
<1> USE <1>1 DEF InductiveInv, PutPartFails, At, Fault, Moves, Ends, Others
<1>2. TypeOK'
  <2>1. job[w].token \in Tokens
    BY DEF TypeOK, Job, TokensInv
  <2> QED
    BY <2>1 DEF TypeOK
<1>3. TokensInv'
  BY DEF TokensInv
<1>4. RowInv'
  BY DEF RowInv
<1>5. LockInv'
  BY DEF LockInv, InObjectIO
<1>6. PhaseInv'
  BY DEF PhaseInv, Expired
<1>7. ContentInv'
  BY DEF ContentInv
<1>8. CommittedFileIntact'
  BY DEF CommittedFileIntact
<1>9. KeepsExpired
  BY DEF KeepsExpired, Expired
<1> QED
  BY <1>2, <1>3, <1>4, <1>5, <1>6, <1>7, <1>8, <1>9 DEF InductiveInv

LEMMA PersistPartStep ==
  ASSUME TypeOK, InductiveInv, NEW w \in Workers, PersistPart(w)
  PROVE  TypeOK' /\ InductiveInv' /\ KeepsExpired
<1> USE UploadsAssumption DEF Owns, Present, Refreshable
<1>1. job[w].op = "write" /\ job[w].step = "persist"
  BY DEF PersistPart, At
<1>2. job[w] \in Job /\ job[w].token \in Tokens /\ job[w].size # 0
  BY <1>1 DEF TypeOK, Job, InductiveInv, TokensInv
<1>3. PartOf(w) \in Part
  BY <1>2 DEF PartOf, Part, Job
<1>4. ASSUME CommitPart(w)
      PROVE  /\ parts' = parts \cup {PartOf(w)} /\ accepted' = accepted \cup {PartOf(w)}
             /\ RowBecomes("uploading", NoToken, session.object_name, session.total_size,
                           job[w].offset + job[w].size, TRUE, FALSE)
  <2>1. job[w].offset + job[w].size \in Nat
    BY <1>2 DEF Job
  <2>2. RowBecomes("uploading", NoToken, session.object_name, session.total_size,
                   job[w].offset + job[w].size, TRUE, FALSE)
    BY <1>4, <2>1 DEF CommitPart, RowBecomes, TypeOK, Session
  <2> QED
    BY <1>4, <2>2 DEF CommitPart
<1>5. \/ /\ Refreshable(w) /\ session.operation_state = "writing" /\ Moves(w, "done")
         /\ parts' = parts \cup {PartOf(w)} /\ accepted' = accepted \cup {PartOf(w)}
         /\ RowBecomes("uploading", NoToken, session.object_name, session.total_size,
                       job[w].offset + job[w].size, TRUE, FALSE)
      \/ UNCHANGED <<session, parts, accepted>> /\ Moves(w, "abandon")
  BY <1>4, GoMoves DEF PersistPart, TypeOK, Steps
<1>6. UNCHANGED <<file, part_objects, objects, contents, io_lock, used, faults>>
  BY DEF PersistPart, store
<1> USE <1>1, <1>2, <1>3, <1>4, <1>5, <1>6 DEF InductiveInv, RowBecomes, Moves, Ends, Others
<1>7. TypeOK'
  BY DEF TypeOK
<1>8. TokensInv'
  BY DEF TokensInv, PhaseInv
<1>9. RowInv'
  BY DEF RowInv, TokensInv
<1>10. LockInv'
  BY DEF LockInv, InObjectIO, TokensInv, RowInv
<1>11. PhaseInv'
  <2>1. CASE UNCHANGED <<session, parts, accepted>>
    BY <2>1 DEF PhaseInv, Expired
  <2>2. CASE ~UNCHANGED <<session, parts, accepted>>
    <3>1. Refreshable(w) /\ session.operation_state = "writing" /\ file.state = "none" /\ used # {}
          /\ parts' = accepted'
      BY <1>5, <2>2 DEF PhaseInv
    <3>2. \A v \in Workers : job[v].op # "reap" /\ job[v].op # "delete"
      BY <3>1 DEF PhaseInv, Expired
    <3> QED
      BY <3>1, <3>2 DEF PhaseInv
  <2> QED
    BY <2>1, <2>2
<1>12. ContentInv'
  BY SMTT(30) DEF ContentInv, TokensInv, RowInv, LockInv, InObjectIO, PhaseInv
<1>13. CommittedFileIntact'
  BY DEF CommittedFileIntact, TokensInv, RowInv, LockInv, InObjectIO, PhaseInv, ContentInv
<1>14. KeepsExpired
  BY DEF KeepsExpired, Expired, PhaseInv
<1> QED
  BY <1>7, <1>8, <1>9, <1>10, <1>11, <1>12, <1>13, <1>14 DEF InductiveInv

LEMMA PersistPartFailsStep ==
  ASSUME TypeOK, InductiveInv, NEW w \in Workers, PersistPartFails(w)
  PROVE  TypeOK' /\ InductiveInv' /\ KeepsExpired
<1> USE UploadsAssumption DEF Owns, Present, Refreshable
<1>1. job[w].op = "write" /\ job[w].step = "persist"
  BY DEF PersistPartFails, At
<1>2. job[w] \in Job /\ job[w].token \in Tokens /\ job[w].size # 0
  BY <1>1 DEF TypeOK, Job, InductiveInv, TokensInv
<1>3. PartOf(w) \in Part
  BY <1>2 DEF PartOf, Part, Job
<1>4. ASSUME CommitPart(w)
      PROVE  /\ parts' = parts \cup {PartOf(w)} /\ accepted' = accepted \cup {PartOf(w)}
             /\ RowBecomes("uploading", NoToken, session.object_name, session.total_size,
                           job[w].offset + job[w].size, TRUE, FALSE)
  <2>1. job[w].offset + job[w].size \in Nat
    BY <1>2 DEF Job
  <2>2. RowBecomes("uploading", NoToken, session.object_name, session.total_size,
                   job[w].offset + job[w].size, TRUE, FALSE)
    BY <1>4, <2>1 DEF CommitPart, RowBecomes, TypeOK, Session
  <2> QED
    BY <1>4, <2>2 DEF CommitPart
<1>5. \/ /\ Refreshable(w) /\ session.operation_state = "writing" /\ Moves(w, "abandon")
         /\ parts' = parts \cup {PartOf(w)} /\ accepted' = accepted \cup {PartOf(w)}
         /\ RowBecomes("uploading", NoToken, session.object_name, session.total_size,
                       job[w].offset + job[w].size, TRUE, FALSE)
      \/ UNCHANGED <<session, parts, accepted>> /\ Moves(w, "abandon")
  BY <1>4, GoMoves DEF PersistPartFails, TypeOK, Steps
<1>6. UNCHANGED <<file, part_objects, objects, contents, io_lock, used>>
  BY DEF PersistPartFails, store
<1>7. faults' \in 0 .. MaxFaults
  BY DEF PersistPartFails, Fault, TypeOK
<1> USE <1>1, <1>2, <1>3, <1>4, <1>5, <1>6, <1>7 DEF InductiveInv, RowBecomes, Moves, Ends, Others
<1>8. TypeOK'
  BY DEF TypeOK
<1>9. TokensInv'
  BY DEF TokensInv, PhaseInv
<1>10. RowInv'
  BY DEF RowInv, TokensInv
<1>11. LockInv'
  BY DEF LockInv, InObjectIO, TokensInv, RowInv
<1>12. PhaseInv'
  <2>1. CASE UNCHANGED <<session, parts, accepted>>
    BY <2>1 DEF PhaseInv, Expired
  <2>2. CASE ~UNCHANGED <<session, parts, accepted>>
    <3>1. Refreshable(w) /\ session.operation_state = "writing" /\ file.state = "none" /\ used # {}
          /\ parts' = accepted'
      BY <1>5, <2>2 DEF PhaseInv
    <3>2. \A v \in Workers : job[v].op # "reap" /\ job[v].op # "delete"
      BY <3>1 DEF PhaseInv, Expired
    <3> QED
      BY <3>1, <3>2 DEF PhaseInv
  <2> QED
    BY <2>1, <2>2
<1>13. ContentInv'
  BY SMTT(30) DEF ContentInv, TokensInv, RowInv, LockInv, InObjectIO, PhaseInv
<1>14. CommittedFileIntact'
  BY DEF CommittedFileIntact, TokensInv, RowInv, LockInv, InObjectIO, PhaseInv, ContentInv
<1>15. KeepsExpired
  BY DEF KeepsExpired, Expired, PhaseInv
<1> QED
  BY <1>8, <1>9, <1>10, <1>11, <1>12, <1>13, <1>14, <1>15 DEF InductiveInv
-----------------------------------------------------------------------------
(* complete_upload.                                                        *)

LEMMA DropPreviousStep ==
  ASSUME TypeOK, InductiveInv, NEW w \in Workers, DropPrevious(w)
  PROVE  TypeOK' /\ InductiveInv' /\ KeepsExpired
<1> USE UploadsAssumption DEF Owns, Present, Refreshable
<1>1. Moves(w, "open")
  BY GoMoves DEF DropPrevious, TypeOK, Steps
<1> USE <1>1 DEF InductiveInv, DropPrevious, At, Remove, Fault, NoFault, Moves, Ends, Others
<1>2. TypeOK'
  BY DEF TypeOK
<1>3. TokensInv'
  BY DEF TokensInv
<1>4. RowInv'
  BY DEF RowInv
<1>5. LockInv'
  BY DEF LockInv, InObjectIO
<1>6. PhaseInv'
  BY DEF PhaseInv, Expired
<1>7. ContentInv'
  BY SMTT(30) DEF TypeOK, ContentInv, TokensInv, RowInv, LockInv, InObjectIO, PhaseInv
<1>8. CommittedFileIntact'
  BY DEF CommittedFileIntact, TokensInv, RowInv, LockInv, InObjectIO, PhaseInv
<1>9. KeepsExpired
  BY DEF KeepsExpired, Expired
<1> QED
  BY <1>2, <1>3, <1>4, <1>5, <1>6, <1>7, <1>8, <1>9 DEF InductiveInv

LEMMA OpenWriterStep ==
  ASSUME TypeOK, InductiveInv, NEW w \in Workers, OpenWriter(w)
  PROVE  TypeOK' /\ InductiveInv' /\ KeepsExpired
<1> USE UploadsAssumption DEF Owns, Present, Refreshable
<1>1. job[w] \in Job
  BY DEF TypeOK
<1>2. parts \in SUBSET Part
  BY DEF TypeOK
<1>3. JobBecomes(w, job[w].op, "assemble", job[w].token, job[w].previous,
                 job[w].offset, job[w].size, parts)
  <2> DEFINE k == [job[w] EXCEPT !.step = "assemble", !.todo = parts]
  <2>1. /\ k \in Job
        /\ k.op = job[w].op /\ k.step = "assemble" /\ k.token = job[w].token /\ k.previous = job[w].previous
        /\ k.offset = job[w].offset /\ k.size = job[w].size /\ k.todo = parts
    BY <1>1, <1>2 DEF Job
  <2>2. job' = [job EXCEPT ![w] = k] /\ job \in [Workers -> Job]
    BY DEF OpenWriter, TypeOK
  <2> HIDE DEF k
  <2> QED
    BY <2>1, <2>2 DEF JobBecomes, Others
<1>4. job[w].op = "complete" /\ job[w].step = "open" /\ objects' = objects \cup {job[w].token}
  BY DEF OpenWriter, At
<1>5. job[w].token \in Tokens
  BY <1>1, <1>4 DEF Job, InductiveInv, TokensInv
<1>6. UNCHANGED <<session, parts, file, part_objects, contents, io_lock, used, accepted, faults>>
  BY DEF OpenWriter, store
<1> USE <1>1, <1>2, <1>3, <1>4, <1>5, <1>6 DEF InductiveInv, JobBecomes, Moves, Ends, Others
<1>7. TypeOK'
  BY DEF TypeOK
<1>8. TokensInv'
  BY DEF TokensInv
<1>9. RowInv'
  BY DEF RowInv
<1>10. LockInv'
  BY DEF LockInv, InObjectIO
<1>11. PhaseInv'
  BY DEF PhaseInv, Expired
<1>12. ContentInv'
  BY DEF ContentInv
<1>13. CommittedFileIntact'
  BY DEF CommittedFileIntact
<1>14. KeepsExpired
  BY DEF KeepsExpired, Expired
<1> QED
  BY <1>7, <1>8, <1>9, <1>10, <1>11, <1>12, <1>13, <1>14 DEF InductiveInv

LEMMA OpenWriterFailsStep ==
  ASSUME TypeOK, InductiveInv, NEW w \in Workers, OpenWriterFails(w)
  PROVE  TypeOK' /\ InductiveInv' /\ KeepsExpired
<1> USE UploadsAssumption DEF Owns, Present, Refreshable
<1>1. Moves(w, "abandon")
  BY GoMoves DEF OpenWriterFails, TypeOK, Steps
<1> USE <1>1 DEF InductiveInv, OpenWriterFails, At, Fault, store, Moves, Ends, Others
<1>2. TypeOK'
  BY DEF TypeOK
<1>3. TokensInv'
  BY DEF TokensInv
<1>4. RowInv'
  BY DEF RowInv
<1>5. LockInv'
  BY DEF LockInv, InObjectIO
<1>6. PhaseInv'
  BY DEF PhaseInv, Expired
<1>7. ContentInv'
  BY SMTT(30) DEF ContentInv
<1>8. CommittedFileIntact'
  BY DEF CommittedFileIntact
<1>9. KeepsExpired
  BY DEF KeepsExpired, Expired
<1> QED
  BY <1>2, <1>3, <1>4, <1>5, <1>6, <1>7, <1>8, <1>9 DEF InductiveInv

LEMMA AssemblePartStep ==
  ASSUME TypeOK, InductiveInv, NEW w \in Workers, AssemblePart(w)
  PROVE  TypeOK' /\ InductiveInv' /\ KeepsExpired
<1> USE UploadsAssumption DEF Owns, Present, Refreshable
<1>1. job[w].op = "complete" /\ job[w].step = "assemble"
  BY DEF AssemblePart, At
<1>2. job[w] \in Job /\ InObjectIO(w)
  BY <1>1 DEF TypeOK, InObjectIO
<1>3. /\ io_lock = w /\ Owns(w) /\ job[w].token \in objects /\ job[w].token \in Tokens
      /\ job[w].todo \subseteq parts /\ contents[job[w].token] = parts \ job[w].todo
  BY <1>1, <1>2 DEF InductiveInv, LockInv, ContentInv, TypeOK
<1>4. PICK p \in job[w].todo :
        \/ Go(w, "discard") /\ contents' = contents
        \/ /\ contents' = [contents EXCEPT ![job[w].token] = @ \cup {p}]
           /\ job' = [job EXCEPT ![w].todo = @ \ {p}, ![w].offset = @ + p.size,
                                 ![w].step = IF Refreshable(w) THEN @ ELSE "discard"]
  BY DEF AssemblePart
<1>5. UNCHANGED <<session, parts, file, part_objects, objects, io_lock, used, accepted, faults>>
  BY DEF AssemblePart
<1>6. CASE Go(w, "discard") /\ contents' = contents
  <2>1. Moves(w, "discard")
    BY <1>6, GoMoves DEF TypeOK, Steps
  <2> USE <1>1, <1>5, <1>6, <2>1 DEF TypeOK, InductiveInv, Moves, Others
  <2>2. TypeOK' /\ TokensInv'
    BY DEF TokensInv
  <2>3. RowInv' /\ LockInv'
    BY DEF RowInv, LockInv, InObjectIO
  <2>4. PhaseInv' /\ KeepsExpired
    BY DEF PhaseInv, Expired, KeepsExpired
  <2>5. ContentInv' /\ CommittedFileIntact'
    BY DEF ContentInv, CommittedFileIntact
  <2> QED
    BY <2>2, <2>3, <2>4, <2>5 DEF InductiveInv
<1>7. CASE /\ contents' = [contents EXCEPT ![job[w].token] = @ \cup {p}]
           /\ job' = [job EXCEPT ![w].todo = @ \ {p}, ![w].offset = @ + p.size,
                                 ![w].step = IF Refreshable(w) THEN @ ELSE "discard"]
  <2> DEFINE step == IF Refreshable(w) THEN job[w].step ELSE "discard"
             k == [job[w] EXCEPT !.todo = job[w].todo \ {p},
                                 !.offset = job[w].offset + p.size, !.step = step]
  <2>1. job' = [job EXCEPT ![w] = k] /\ job \in [Workers -> Job]
    BY <1>7 DEF TypeOK
  <2>2. step \in {"assemble", "discard"} /\ job[w].offset + p.size \in Nat
        /\ job[w].todo \ {p} \in SUBSET Part /\ p \in Part
    BY <1>1, <1>2 DEF Job, Part
  <2> HIDE DEF step
  <2>3. /\ k \in Job /\ k.op = job[w].op /\ k.step = step /\ k.token = job[w].token
        /\ k.previous = job[w].previous /\ k.offset = job[w].offset + p.size
        /\ k.size = job[w].size /\ k.todo = job[w].todo \ {p}
    BY <1>2, <2>2 DEF Job
  <2> HIDE DEF k
  <2>4. JobBecomes(w, job[w].op, step, job[w].token, job[w].previous,
                   job[w].offset + p.size, job[w].size, job[w].todo \ {p})
    BY <2>1, <2>3 DEF JobBecomes, Others
  <2>5. /\ contents' \in [Tokens -> SUBSET Part]
        /\ contents'[job[w].token] = parts \ (job[w].todo \ {p})
        /\ \A t \in Tokens : t # job[w].token => contents'[t] = contents[t]
    BY <1>3, <1>7, <2>2 DEF TypeOK
  <2> USE <1>1, <1>3, <1>5, <2>2, <2>4, <2>5 DEF TypeOK, InductiveInv, JobBecomes, Others
  <2>6. TypeOK' /\ TokensInv'
    BY DEF TokensInv
  <2>7. RowInv'
    BY DEF RowInv
  <2>8. LockInv'
    BY DEF LockInv, InObjectIO
  <2>9. PhaseInv' /\ KeepsExpired
    BY DEF PhaseInv, Expired, KeepsExpired
  <2>10. ContentInv'
    BY DEF ContentInv, TokensInv
  <2>11. CommittedFileIntact'
    BY <1>2 DEF CommittedFileIntact, RowInv, PhaseInv, TokensInv
  <2> QED
    BY <2>6, <2>7, <2>8, <2>9, <2>10, <2>11 DEF InductiveInv
<1> QED
  BY <1>4, <1>6, <1>7

LEMMA CloseObjectStep ==
  ASSUME TypeOK, InductiveInv, NEW w \in Workers, CloseObject(w)
  PROVE  TypeOK' /\ InductiveInv' /\ KeepsExpired
<1> USE UploadsAssumption DEF Owns, Present, Refreshable
<1>1. Moves(w, "unlock") \/ Moves(w, "discard")
  BY GoMoves DEF CloseObject, TypeOK, Steps
<1>2. job[w].op = "complete" /\ job[w].step = "assemble" /\ job[w].todo = {}
  BY DEF CloseObject, At
<1>3. job[w].token \in objects /\ contents[job[w].token] = parts \ job[w].todo
  BY <1>2 DEF InductiveInv, ContentInv
<1>4. job[w].token \in objects /\ contents[job[w].token] = parts
  BY <1>2, <1>3
<1> USE <1>1, <1>2, <1>3, <1>4 DEF InductiveInv, CloseObject, At, store, Moves, Ends, Others
<1>5. TypeOK'
  BY DEF TypeOK
<1>6. TokensInv'
  BY DEF TokensInv
<1>7. RowInv'
  BY DEF RowInv
<1>8. LockInv'
  BY DEF LockInv, InObjectIO
<1>9. PhaseInv'
  BY DEF PhaseInv, Expired
<1>10. ContentInv'
  <2>1. CASE Moves(w, "unlock")
    BY <2>1 DEF ContentInv
  <2>2. CASE Moves(w, "discard")
    BY <2>2 DEF ContentInv
  <2> QED
    BY <2>1, <2>2
<1>11. CommittedFileIntact'
  BY DEF CommittedFileIntact
<1>12. KeepsExpired
  BY DEF KeepsExpired, Expired
<1> QED
  BY <1>5, <1>6, <1>7, <1>8, <1>9, <1>10, <1>11, <1>12 DEF InductiveInv

LEMMA AssembleFailsStep ==
  ASSUME TypeOK, InductiveInv, NEW w \in Workers, AssembleFails(w)
  PROVE  TypeOK' /\ InductiveInv' /\ KeepsExpired
<1> USE UploadsAssumption DEF Owns, Present, Refreshable
<1>1. Moves(w, "discard")
  BY GoMoves DEF AssembleFails, TypeOK, Steps
<1> USE <1>1 DEF InductiveInv, AssembleFails, At, Fault, store, Moves, Ends, Others
<1>2. TypeOK'
  BY DEF TypeOK
<1>3. TokensInv'
  BY DEF TokensInv
<1>4. RowInv'
  BY DEF RowInv
<1>5. LockInv'
  BY DEF LockInv, InObjectIO
<1>6. PhaseInv'
  BY DEF PhaseInv, Expired
<1>7. ContentInv'
  BY DEF ContentInv
<1>8. CommittedFileIntact'
  BY DEF CommittedFileIntact
<1>9. KeepsExpired
  BY DEF KeepsExpired, Expired
<1> QED
  BY <1>2, <1>3, <1>4, <1>5, <1>6, <1>7, <1>8, <1>9 DEF InductiveInv

LEMMA UnlockObjectStep ==
  ASSUME TypeOK, InductiveInv, NEW w \in Workers, UnlockObject(w)
  PROVE  TypeOK' /\ InductiveInv' /\ KeepsExpired
<1> USE UploadsAssumption DEF Owns, Present, Refreshable
<1>1. Moves(w, "finalize")
  BY GoMoves DEF UnlockObject, TypeOK, Steps
<1> USE <1>1 DEF InductiveInv, UnlockObject, At, FreeLock, store, Moves, Ends, Others
<1>2. TypeOK'
  BY DEF TypeOK
<1>3. TokensInv'
  BY DEF TokensInv
<1>4. RowInv'
  BY DEF RowInv
<1>5. LockInv'
  BY DEF LockInv, InObjectIO
<1>6. PhaseInv'
  BY DEF PhaseInv, Expired
<1>7. ContentInv'
  BY SMTT(30) DEF ContentInv
<1>8. CommittedFileIntact'
  BY DEF CommittedFileIntact
<1>9. KeepsExpired
  BY DEF KeepsExpired, Expired
<1> QED
  BY <1>2, <1>3, <1>4, <1>5, <1>6, <1>7, <1>8, <1>9 DEF InductiveInv

LEMMA FinalizeStep ==
  ASSUME TypeOK, InductiveInv, NEW w \in Workers, Finalize(w)
  PROVE  TypeOK' /\ InductiveInv' /\ KeepsExpired
<1> USE UploadsAssumption DEF Owns, Present, Refreshable
<1>1. Moves(w, "prefix") \/ Moves(w, "discard")
  BY GoMoves DEF Finalize, TypeOK, Steps
<1>2. ASSUME CommitFile(w)
      PROVE  RowBecomes("absent", NoToken, NoToken, 0, 0, FALSE, FALSE)
             /\ file' \in File /\ file'.state = "live" /\ file'.object_name = job[w].token
             /\ file'.parts_pending /\ parts' = {}
  <2>1. job[w].token \in Tokens \cup {NoToken}
    BY DEF TypeOK, Job
  <2>2. session' = NoSession /\ file' = [state |-> "live", object_name |-> job[w].token, parts_pending |-> TRUE]
    BY <1>2 DEF CommitFile
  <2>3. RowBecomes("absent", NoToken, NoToken, 0, 0, FALSE, FALSE)
    BY <2>2 DEF RowBecomes, NoSession, Session
  <2>4. file' \in File /\ file'.state = "live" /\ file'.object_name = job[w].token /\ file'.parts_pending
    BY <2>1, <2>2 DEF File
  <2> QED
    BY <1>2, <2>3, <2>4 DEF CommitFile
<1>3. \/ /\ OwnsCompletion(w) /\ Moves(w, "prefix")
         /\ RowBecomes("absent", NoToken, NoToken, 0, 0, FALSE, FALSE)
         /\ file' \in File /\ file'.state = "live" /\ file'.object_name = job[w].token
         /\ file'.parts_pending /\ parts' = {}
      \/ ~OwnsCompletion(w) /\ Moves(w, "discard") /\ UNCHANGED <<session, parts, file>>
  BY <1>1, <1>2, GoMoves DEF Finalize, TypeOK, Steps
<1>4. job[w].op = "complete" /\ job[w].step = "finalize"
  BY DEF Finalize, At
<1>5. UNCHANGED <<part_objects, objects, contents, io_lock, used, accepted, faults>>
  BY DEF Finalize, store
<1> USE <1>1, <1>2, <1>3, <1>4, <1>5 DEF InductiveInv, RowBecomes, OwnsCompletion, Moves, Ends, Others
<1>6. TypeOK'
  BY DEF TypeOK
<1>7. TokensInv'
  BY DEF TokensInv, PhaseInv
<1>8. RowInv'
  BY DEF RowInv, TokensInv
<1>9. LockInv'
  BY DEF LockInv, InObjectIO, TokensInv, RowInv
<1>10. PhaseInv'
  BY DEF PhaseInv, Expired, TokensInv, RowInv
<1>11. ContentInv'
  BY SMTT(30) DEF ContentInv, TokensInv, RowInv, LockInv, InObjectIO, PhaseInv
<1>12. CommittedFileIntact'
  BY DEF CommittedFileIntact, TokensInv, RowInv, LockInv, InObjectIO, PhaseInv, ContentInv
<1>13. KeepsExpired
  BY DEF KeepsExpired, Expired, PhaseInv
<1> QED
  BY <1>6, <1>7, <1>8, <1>9, <1>10, <1>11, <1>12, <1>13 DEF InductiveInv

LEMMA FinalizeFailsStep ==
  ASSUME TypeOK, InductiveInv, NEW w \in Workers, FinalizeFails(w)
  PROVE  TypeOK' /\ InductiveInv' /\ KeepsExpired
<1> USE UploadsAssumption DEF Owns, Present, Refreshable
<1>1. Moves(w, "discard")
  BY GoMoves DEF FinalizeFails, TypeOK, Steps
<1> USE <1>1 DEF InductiveInv, FinalizeFails, At, Fault, store, Moves, Ends, Others
<1>2. TypeOK'
  BY DEF TypeOK
<1>3. TokensInv'
  BY DEF TokensInv
<1>4. RowInv'
  BY DEF RowInv
<1>5. LockInv'
  BY DEF LockInv, InObjectIO
<1>6. PhaseInv'
  BY DEF PhaseInv, Expired
<1>7. ContentInv'
  BY DEF ContentInv
<1>8. CommittedFileIntact'
  BY DEF CommittedFileIntact
<1>9. KeepsExpired
  BY DEF KeepsExpired, Expired
<1> QED
  BY <1>2, <1>3, <1>4, <1>5, <1>6, <1>7, <1>8, <1>9 DEF InductiveInv

LEMMA CommitUncertainStep ==
  ASSUME TypeOK, InductiveInv, NEW w \in Workers, CommitUncertain(w)
  PROVE  TypeOK' /\ InductiveInv' /\ KeepsExpired
<1> USE UploadsAssumption DEF Owns, Present, Refreshable
<1>1. Ends(w)
  BY FinishEnds DEF CommitUncertain, TypeOK, Steps
<1>2. ASSUME CommitFile(w)
      PROVE  RowBecomes("absent", NoToken, NoToken, 0, 0, FALSE, FALSE)
             /\ file' \in File /\ file'.state = "live" /\ file'.object_name = job[w].token
             /\ file'.parts_pending /\ parts' = {}
  <2>1. job[w].token \in Tokens \cup {NoToken}
    BY DEF TypeOK, Job
  <2>2. session' = NoSession /\ file' = [state |-> "live", object_name |-> job[w].token, parts_pending |-> TRUE]
    BY <1>2 DEF CommitFile
  <2>3. RowBecomes("absent", NoToken, NoToken, 0, 0, FALSE, FALSE)
    BY <2>2 DEF RowBecomes, NoSession, Session
  <2>4. file' \in File /\ file'.state = "live" /\ file'.object_name = job[w].token /\ file'.parts_pending
    BY <2>1, <2>2 DEF File
  <2> QED
    BY <1>2, <2>3, <2>4 DEF CommitFile
<1>3. \/ /\ OwnsCompletion(w) /\ Ends(w)
         /\ RowBecomes("absent", NoToken, NoToken, 0, 0, FALSE, FALSE)
         /\ file' \in File /\ file'.state = "live" /\ file'.object_name = job[w].token
         /\ file'.parts_pending /\ parts' = {}
      \/ Ends(w) /\ UNCHANGED <<session, parts, file>>
  BY <1>1, <1>2, GoMoves DEF CommitUncertain, TypeOK, Steps
<1>4. job[w].op = "complete" /\ job[w].step = "finalize"
  BY DEF CommitUncertain, At
<1>5. faults' \in 0 .. MaxFaults
  BY DEF CommitUncertain, Fault, TypeOK
<1>6. UNCHANGED <<part_objects, objects, contents, io_lock, used, accepted>>
  BY DEF CommitUncertain, store
<1> USE <1>1, <1>2, <1>3, <1>4, <1>5, <1>6 DEF InductiveInv, RowBecomes, OwnsCompletion, Moves, Ends, Others
<1>7. TypeOK'
  BY DEF TypeOK
<1>8. TokensInv'
  BY DEF TokensInv, PhaseInv
<1>9. RowInv'
  BY DEF RowInv, TokensInv
<1>10. LockInv'
  BY DEF LockInv, InObjectIO, TokensInv, RowInv
<1>11. PhaseInv'
  BY DEF PhaseInv, Expired, TokensInv, RowInv
<1>12. ContentInv'
  BY SMTT(30) DEF ContentInv, TokensInv, RowInv, LockInv, InObjectIO, PhaseInv
<1>13. CommittedFileIntact'
  BY DEF CommittedFileIntact, TokensInv, RowInv, LockInv, InObjectIO, PhaseInv, ContentInv
<1>14. KeepsExpired
  BY DEF KeepsExpired, Expired, PhaseInv
<1> QED
  BY <1>7, <1>8, <1>9, <1>10, <1>11, <1>12, <1>13, <1>14 DEF InductiveInv

LEMMA DiscardStep ==
  ASSUME TypeOK, InductiveInv, NEW w \in Workers, Discard(w)
  PROVE  TypeOK' /\ InductiveInv' /\ KeepsExpired
<1> USE UploadsAssumption DEF Owns, Present, Refreshable
<1>1. job[w] \in Job
  BY DEF TypeOK
<1>2. JobBecomes(w, job[w].op, "abandon", job[w].token, job[w].previous,
                 job[w].offset, job[w].size, {})
  <2> DEFINE k == [job[w] EXCEPT !.step = "abandon", !.todo = {}]
  <2>1. /\ k \in Job
        /\ k.op = job[w].op /\ k.step = "abandon" /\ k.token = job[w].token /\ k.previous = job[w].previous
        /\ k.offset = job[w].offset /\ k.size = job[w].size /\ k.todo = {}
    BY <1>1 DEF Job
  <2>2. job' = [job EXCEPT ![w] = k] /\ job \in [Workers -> Job]
    BY DEF Discard, TypeOK
  <2> HIDE DEF k
  <2> QED
    BY <2>1, <2>2 DEF JobBecomes, Others
<1> USE <1>1, <1>2 DEF InductiveInv, Discard, Remove, Fault, NoFault, At, JobBecomes, Moves, Ends, Others
<1>3. TypeOK'
  BY DEF TypeOK
<1>4. TokensInv'
  BY DEF TokensInv, PhaseInv
<1>5. RowInv'
  BY DEF RowInv, TokensInv
<1>6. LockInv'
  BY DEF LockInv, InObjectIO, TokensInv, RowInv
<1>7. PhaseInv'
  BY DEF PhaseInv, Expired, TokensInv, RowInv
<1>8. ContentInv'
  BY SMTT(30) DEF TypeOK, ContentInv, TokensInv, RowInv, LockInv, InObjectIO, PhaseInv
<1>9. CommittedFileIntact'
  BY DEF TypeOK, CommittedFileIntact, TokensInv, RowInv, LockInv, InObjectIO, PhaseInv, ContentInv
<1>10. KeepsExpired
  BY DEF KeepsExpired, Expired, PhaseInv
<1> QED
  BY <1>3, <1>4, <1>5, <1>6, <1>7, <1>8, <1>9, <1>10 DEF InductiveInv
-----------------------------------------------------------------------------
(* cleanup_upload_parts and delete.                                        *)

LEMMA RetryCompletedStep ==
  ASSUME TypeOK, InductiveInv, NEW w \in Workers, RetryCompleted(w)
  PROVE  TypeOK' /\ InductiveInv' /\ KeepsExpired
<1> USE UploadsAssumption DEF Owns, Present, Refreshable
<1>1. session.uploaded_size \in Nat /\ session.total_size \in Nat /\ session.object_name \in Tokens \cup {NoToken}
  BY DEF TypeOK, Session
<1>2. JobBecomes(w, "clean", "prefix", NoToken, NoToken,
                 0, 0, {})
  <2> DEFINE k == [Idle EXCEPT !.op = "clean", !.step = "prefix"]
  <2>1. /\ k \in Job
        /\ k.op = "clean" /\ k.step = "prefix" /\ k.token = NoToken /\ k.previous = NoToken
        /\ k.offset = 0 /\ k.size = 0 /\ k.todo = {}
    BY <1>1 DEF Idle, Job
  <2>2. job' = [job EXCEPT ![w] = k] /\ job \in [Workers -> Job]
    BY DEF RetryCompleted, TypeOK
  <2> HIDE DEF k
  <2> QED
    BY <2>1, <2>2 DEF JobBecomes, Others
<1>3. job[w].token = NoToken /\ job[w].op = "none" /\ file.state = "live"
  BY DEF RetryCompleted, Idle
<1>4. UNCHANGED <<session, parts, file, part_objects, objects, contents, io_lock, used, accepted, faults>>
  BY DEF RetryCompleted, store
<1> USE <1>1, <1>2, <1>3, <1>4 DEF InductiveInv, JobBecomes, Moves, Ends, Others
<1>5. TypeOK'
  BY DEF TypeOK
<1>6. TokensInv'
  BY DEF TokensInv
<1>7. RowInv'
  BY DEF RowInv
<1>8. LockInv'
  BY DEF LockInv, InObjectIO
<1>9. PhaseInv'
  BY DEF PhaseInv, Expired
<1>10. ContentInv'
  BY DEF ContentInv
<1>11. CommittedFileIntact'
  BY DEF CommittedFileIntact
<1>12. KeepsExpired
  BY DEF KeepsExpired, Expired
<1> QED
  BY <1>5, <1>6, <1>7, <1>8, <1>9, <1>10, <1>11, <1>12 DEF InductiveInv

LEMMA RecoverPartsStep ==
  ASSUME TypeOK, InductiveInv, NEW w \in Workers, RecoverParts(w)
  PROVE  TypeOK' /\ InductiveInv' /\ KeepsExpired
<1> USE UploadsAssumption DEF Owns, Present, Refreshable
<1>1. session.uploaded_size \in Nat /\ session.total_size \in Nat /\ session.object_name \in Tokens \cup {NoToken}
  BY DEF TypeOK, Session
<1>2. JobBecomes(w, "clean", "prefix", NoToken, NoToken,
                 0, 0, {})
  <2> DEFINE k == [Idle EXCEPT !.op = "clean", !.step = "prefix"]
  <2>1. /\ k \in Job
        /\ k.op = "clean" /\ k.step = "prefix" /\ k.token = NoToken /\ k.previous = NoToken
        /\ k.offset = 0 /\ k.size = 0 /\ k.todo = {}
    BY <1>1 DEF Idle, Job
  <2>2. job' = [job EXCEPT ![w] = k] /\ job \in [Workers -> Job]
    BY DEF RecoverParts, TypeOK
  <2> HIDE DEF k
  <2> QED
    BY <2>1, <2>2 DEF JobBecomes, Others
<1>3. job[w].token = NoToken /\ job[w].op = "none" /\ file.parts_pending
  BY DEF RecoverParts, Idle
<1>4. UNCHANGED <<session, parts, file, part_objects, objects, contents, io_lock, used, accepted, faults>>
  BY DEF RecoverParts, store
<1> USE <1>1, <1>2, <1>3, <1>4 DEF InductiveInv, JobBecomes, Moves, Ends, Others
<1>5. TypeOK'
  BY DEF TypeOK
<1>6. TokensInv'
  BY DEF TokensInv
<1>7. RowInv'
  BY DEF RowInv
<1>8. LockInv'
  BY DEF LockInv, InObjectIO
<1>9. PhaseInv'
  BY DEF PhaseInv, Expired
<1>10. ContentInv'
  BY DEF ContentInv
<1>11. CommittedFileIntact'
  BY DEF CommittedFileIntact
<1>12. KeepsExpired
  BY DEF KeepsExpired, Expired
<1> QED
  BY <1>5, <1>6, <1>7, <1>8, <1>9, <1>10, <1>11, <1>12 DEF InductiveInv

LEMMA CleanPrefixStep ==
  ASSUME TypeOK, InductiveInv, NEW w \in Workers, CleanPrefix(w)
  PROVE  TypeOK' /\ InductiveInv' /\ KeepsExpired
<1> USE UploadsAssumption DEF Owns, Present, Refreshable
<1>1. Moves(w, "flag")
  BY GoMoves DEF CleanPrefix, TypeOK, Steps
<1> USE <1>1 DEF InductiveInv, CleanPrefix, Moves, Ends, Others
<1>2. TypeOK'
  BY DEF TypeOK
<1>3. TokensInv'
  BY DEF TokensInv
<1>4. RowInv'
  BY DEF RowInv
<1>5. LockInv'
  BY DEF LockInv, InObjectIO
<1>6. PhaseInv'
  BY DEF PhaseInv, Expired
<1>7. ContentInv'
  BY SMTT(30) DEF ContentInv
<1>8. CommittedFileIntact'
  BY DEF CommittedFileIntact
<1>9. KeepsExpired
  BY DEF KeepsExpired, Expired
<1> QED
  BY <1>2, <1>3, <1>4, <1>5, <1>6, <1>7, <1>8, <1>9 DEF InductiveInv

LEMMA CleanPrefixFailsStep ==
  ASSUME TypeOK, InductiveInv, NEW w \in Workers, CleanPrefixFails(w)
  PROVE  TypeOK' /\ InductiveInv' /\ KeepsExpired
<1> USE UploadsAssumption DEF Owns, Present, Refreshable
<1>1. Ends(w)
  BY FinishEnds DEF CleanPrefixFails, TypeOK, Steps
<1> USE <1>1 DEF InductiveInv, CleanPrefixFails, Fault, Moves, Ends, Others
<1>2. TypeOK'
  BY DEF TypeOK
<1>3. TokensInv'
  BY DEF TokensInv
<1>4. RowInv'
  BY DEF RowInv
<1>5. LockInv'
  BY DEF LockInv, InObjectIO
<1>6. PhaseInv'
  BY DEF PhaseInv, Expired
<1>7. ContentInv'
  BY DEF ContentInv
<1>8. CommittedFileIntact'
  BY DEF CommittedFileIntact
<1>9. KeepsExpired
  BY DEF KeepsExpired, Expired
<1> QED
  BY <1>2, <1>3, <1>4, <1>5, <1>6, <1>7, <1>8, <1>9 DEF InductiveInv

LEMMA ClearPartsPendingStep ==
  ASSUME TypeOK, InductiveInv, NEW w \in Workers, ClearPartsPending(w)
  PROVE  TypeOK' /\ InductiveInv' /\ KeepsExpired
<1> USE UploadsAssumption DEF Owns, Present, Refreshable
<1>1. job[w].step = "flag" /\ ((job[w].op = "delete" /\ Moves(w, "object")) \/ Ends(w))
  BY GoMoves, FinishEnds DEF ClearPartsPending, TypeOK, Steps
<1>2. file' \in File /\ file'.state = file.state /\ file'.object_name = file.object_name
      /\ (file'.parts_pending => file.parts_pending)
  BY DEF ClearPartsPending, TypeOK, File
<1>3. UNCHANGED <<session, parts, part_objects, objects, contents, io_lock, used, accepted>>
  BY DEF ClearPartsPending, store
<1>4. faults' \in 0 .. MaxFaults
  BY DEF ClearPartsPending, Fault, NoFault, TypeOK
<1> USE <1>1, <1>2, <1>3, <1>4 DEF InductiveInv, Moves, Ends, Others
<1>5. TypeOK'
  BY DEF TypeOK
<1>6. TokensInv'
  BY DEF TokensInv
<1>7. RowInv'
  BY DEF RowInv
<1>8. LockInv'
  BY DEF LockInv, InObjectIO
<1>9. PhaseInv'
  BY DEF PhaseInv, Expired
<1>10. ContentInv'
  BY DEF ContentInv
<1>11. CommittedFileIntact'
  BY DEF CommittedFileIntact
<1>12. KeepsExpired
  BY DEF KeepsExpired, Expired
<1> QED
  BY <1>5, <1>6, <1>7, <1>8, <1>9, <1>10, <1>11, <1>12 DEF InductiveInv

LEMMA MarkDeletedStep ==
  ASSUME TypeOK, InductiveInv, NEW w \in Workers, MarkDeleted(w)
  PROVE  TypeOK' /\ InductiveInv' /\ KeepsExpired
<1> USE UploadsAssumption DEF Owns, Present, Refreshable
<1>1. file.object_name \in Tokens \cup {NoToken} /\ (IF file.parts_pending THEN "prefix" ELSE "object") \in {"prefix", "object"}
  BY DEF TypeOK, File
<1>2. JobBecomes(w, "delete", (IF file.parts_pending THEN "prefix" ELSE "object"), NoToken, file.object_name,
                 0, 0, {})
  <2> DEFINE k == [Idle EXCEPT !.op = "delete", !.step = IF file.parts_pending THEN "prefix" ELSE "object",
                        !.previous = file.object_name]
  <2>1. /\ k \in Job
        /\ k.op = "delete" /\ k.step = (IF file.parts_pending THEN "prefix" ELSE "object") /\ k.token = NoToken /\ k.previous = file.object_name
        /\ k.offset = 0 /\ k.size = 0 /\ k.todo = {}
    BY <1>1 DEF Idle, Job
  <2>2. job' = [job EXCEPT ![w] = k] /\ job \in [Workers -> Job]
    BY DEF MarkDeleted, TypeOK
  <2> HIDE DEF k
  <2> QED
    BY <2>1, <2>2 DEF JobBecomes, Others
<1>3. job[w].token = NoToken /\ job[w].op = "none" /\ file.state \in {"live", "deleting"}
  BY DEF MarkDeleted, Idle
<1>4. file' \in File /\ file'.state = "deleting" /\ file'.object_name = file.object_name
      /\ file'.parts_pending = file.parts_pending
  BY DEF MarkDeleted, TypeOK, File
<1>5. UNCHANGED <<session, parts, part_objects, objects, contents, io_lock, used, accepted, faults>>
  BY DEF MarkDeleted, store
<1> USE <1>1, <1>2, <1>3, <1>4, <1>5 DEF InductiveInv, JobBecomes, Moves, Ends, Others
<1>6. TypeOK'
  BY DEF TypeOK
<1>7. TokensInv'
  BY DEF TokensInv, PhaseInv
<1>8. RowInv'
  BY DEF RowInv, TokensInv
<1>9. LockInv'
  BY DEF LockInv, InObjectIO, TokensInv, RowInv
<1>10. PhaseInv'
  BY DEF PhaseInv, Expired, TokensInv, RowInv
<1>11. ContentInv'
  BY DEF ContentInv, TokensInv, RowInv, LockInv, InObjectIO, PhaseInv
<1>12. CommittedFileIntact'
  BY DEF CommittedFileIntact, TokensInv, RowInv, LockInv, InObjectIO, PhaseInv, ContentInv
<1>13. KeepsExpired
  BY DEF KeepsExpired, Expired, PhaseInv
<1> QED
  BY <1>6, <1>7, <1>8, <1>9, <1>10, <1>11, <1>12, <1>13 DEF InductiveInv

LEMMA DeleteObjectStep ==
  ASSUME TypeOK, InductiveInv, NEW w \in Workers, DeleteObject(w)
  PROVE  TypeOK' /\ InductiveInv' /\ KeepsExpired
<1> USE UploadsAssumption DEF Owns, Present, Refreshable
<1>1. Moves(w, "row")
  BY GoMoves DEF DeleteObject, TypeOK, Steps
<1> USE <1>1 DEF InductiveInv, DeleteObject, At, Remove, Moves, Ends, Others
<1>2. TypeOK'
  BY DEF TypeOK
<1>3. TokensInv'
  BY DEF TokensInv
<1>4. RowInv'
  BY DEF RowInv
<1>5. LockInv'
  BY DEF LockInv, InObjectIO
<1>6. PhaseInv'
  BY DEF PhaseInv, Expired
<1>7. ContentInv'
  BY DEF ContentInv, TokensInv, RowInv, LockInv, InObjectIO, PhaseInv
<1>8. CommittedFileIntact'
  BY DEF CommittedFileIntact, TokensInv, RowInv, LockInv, InObjectIO, PhaseInv
<1>9. KeepsExpired
  BY DEF KeepsExpired, Expired
<1> QED
  BY <1>2, <1>3, <1>4, <1>5, <1>6, <1>7, <1>8, <1>9 DEF InductiveInv

LEMMA FinishDeleteStep ==
  ASSUME TypeOK, InductiveInv, NEW w \in Workers, FinishDelete(w)
  PROVE  TypeOK' /\ InductiveInv' /\ KeepsExpired
<1> USE UploadsAssumption DEF Owns, Present, Refreshable
<1>1. Ends(w)
  BY FinishEnds DEF FinishDelete, TypeOK, Steps
<1>2. \/ file' \in File /\ file'.state = "gone" /\ file.state = "deleting" /\ file'.object_name = NoToken /\ ~file'.parts_pending
      \/ file' = file
  BY DEF FinishDelete, NoFile, File
<1>3. UNCHANGED <<session, parts, part_objects, objects, contents, io_lock, used, accepted, faults>>
  BY DEF FinishDelete, store
<1> USE <1>1, <1>2, <1>3 DEF InductiveInv, Moves, Ends, Others
<1>4. TypeOK'
  BY DEF TypeOK
<1>5. TokensInv'
  BY DEF TokensInv
<1>6. RowInv'
  BY DEF RowInv
<1>7. LockInv'
  BY DEF LockInv, InObjectIO
<1>8. PhaseInv'
  BY DEF PhaseInv, Expired
<1>9. ContentInv'
  BY DEF ContentInv
<1>10. CommittedFileIntact'
  BY DEF CommittedFileIntact
<1>11. KeepsExpired
  BY DEF KeepsExpired, Expired
<1> QED
  BY <1>4, <1>5, <1>6, <1>7, <1>8, <1>9, <1>10, <1>11 DEF InductiveInv

LEMMA DeleteFailsStep ==
  ASSUME TypeOK, InductiveInv, NEW w \in Workers, DeleteFails(w)
  PROVE  TypeOK' /\ InductiveInv' /\ KeepsExpired
<1> USE UploadsAssumption DEF Owns, Present, Refreshable
<1>1. Ends(w)
  BY FinishEnds DEF DeleteFails, TypeOK, Steps
<1> USE <1>1 DEF InductiveInv, DeleteFails, Fault, store, Moves, Ends, Others
<1>2. TypeOK'
  BY DEF TypeOK
<1>3. TokensInv'
  BY DEF TokensInv
<1>4. RowInv'
  BY DEF RowInv
<1>5. LockInv'
  BY DEF LockInv, InObjectIO
<1>6. PhaseInv'
  BY DEF PhaseInv, Expired
<1>7. ContentInv'
  BY DEF ContentInv
<1>8. CommittedFileIntact'
  BY DEF CommittedFileIntact
<1>9. KeepsExpired
  BY DEF KeepsExpired, Expired
<1> QED
  BY <1>2, <1>3, <1>4, <1>5, <1>6, <1>7, <1>8, <1>9 DEF InductiveInv
-----------------------------------------------------------------------------
(* reap_stale_uploads, and crashes.                                        *)

LEMMA ListStaleStep ==
  ASSUME TypeOK, InductiveInv, NEW w \in Workers, ListStale(w)
  PROVE  TypeOK' /\ InductiveInv' /\ KeepsExpired
<1> USE UploadsAssumption DEF Owns, Present, Refreshable
<1>1. session.uploaded_size \in Nat /\ session.total_size \in Nat /\ session.object_name \in Tokens \cup {NoToken}
  BY DEF TypeOK, Session
<1>2. JobBecomes(w, "reap", "acquire", NoToken, session.object_name,
                 0, 0, {})
  <2> DEFINE k == [Idle EXCEPT !.op = "reap", !.step = "acquire", !.previous = session.object_name]
  <2>1. /\ k \in Job
        /\ k.op = "reap" /\ k.step = "acquire" /\ k.token = NoToken /\ k.previous = session.object_name
        /\ k.offset = 0 /\ k.size = 0 /\ k.todo = {}
    BY <1>1 DEF Idle, Job
  <2>2. job' = [job EXCEPT ![w] = k] /\ job \in [Workers -> Job]
    BY DEF ListStale, TypeOK
  <2> HIDE DEF k
  <2> QED
    BY <2>1, <2>2 DEF JobBecomes, Others
<1>3. job[w].token = NoToken /\ job[w].op = "none" /\ Stale
  BY DEF ListStale, Idle
<1>4. UNCHANGED <<session, parts, file, part_objects, objects, contents, io_lock, used, accepted, faults>>
  BY DEF ListStale, store
<1> USE <1>1, <1>2, <1>3, <1>4 DEF InductiveInv, JobBecomes, Moves, Ends, Others
<1>5. TypeOK'
  BY DEF TypeOK
<1>6. TokensInv'
  BY DEF TokensInv, PhaseInv
<1>7. RowInv'
  BY DEF RowInv, TokensInv
<1>8. LockInv'
  BY DEF LockInv, InObjectIO, TokensInv, RowInv
<1>9. PhaseInv'
  BY DEF PhaseInv, Expired, TokensInv, RowInv, Stale
<1>10. ContentInv'
  BY SMTT(30) DEF ContentInv, TokensInv, RowInv, LockInv, InObjectIO, PhaseInv
<1>11. CommittedFileIntact'
  BY DEF CommittedFileIntact, TokensInv, RowInv, LockInv, InObjectIO, PhaseInv, ContentInv
<1>12. KeepsExpired
  BY DEF KeepsExpired, Expired, PhaseInv, Stale
<1> QED
  BY <1>5, <1>6, <1>7, <1>8, <1>9, <1>10, <1>11, <1>12 DEF InductiveInv

LEMMA ReapAcquireStep ==
  ASSUME TypeOK, InductiveInv, NEW w \in Workers, ReapAcquire(w)
  PROVE  TypeOK' /\ InductiveInv' /\ KeepsExpired
<1> USE UploadsAssumption DEF Owns, Present, Refreshable
<1>1. \/ io_lock = NoWorker /\ io_lock' = w /\ Moves(w, "claim")
      \/ io_lock' = io_lock /\ Ends(w)
  BY GoMoves, FinishEnds DEF ReapAcquire, TypeOK, Steps
<1> USE <1>1 DEF InductiveInv, ReapAcquire, At, store, Moves, Ends, Others
<1>2. TypeOK'
  BY DEF TypeOK
<1>3. TokensInv'
  BY DEF TokensInv
<1>4. RowInv'
  BY DEF RowInv
<1>5. LockInv'
  BY DEF LockInv, InObjectIO
<1>6. PhaseInv'
  BY DEF PhaseInv, Expired
<1>7. ContentInv'
  BY SMTT(30) DEF ContentInv
<1>8. CommittedFileIntact'
  BY DEF CommittedFileIntact
<1>9. KeepsExpired
  BY DEF KeepsExpired, Expired
<1> QED
  BY <1>2, <1>3, <1>4, <1>5, <1>6, <1>7, <1>8, <1>9 DEF InductiveInv

LEMMA ReapClaimTakenStep ==
  ASSUME TypeOK, InductiveInv, NEW w \in Workers, ReapClaim(w), Stale
  PROVE  TypeOK' /\ InductiveInv' /\ KeepsExpired
<1> USE UploadsAssumption DEF Owns, Present, Refreshable
<1>1. PICK t \in Tokens :
        /\ t \notin used /\ used' = used \cup {t}
        /\ session' = [session EXCEPT !.operation_state = "cleaning", !.operation_token = t,
                                      !.operation_fresh = TRUE]
        /\ job' = [job EXCEPT ![w].step = "object", ![w].token = t]
  BY DEF ReapClaim, FreshToken
<1>2. RowBecomes("cleaning", t, session.object_name, session.total_size, session.uploaded_size,
                 session.updated_fresh, TRUE)
  BY <1>1 DEF RowBecomes, Session, TypeOK
<1>3. job[w] \in Job
  BY DEF TypeOK
<1>4. JobBecomes(w, job[w].op, "object", t, job[w].previous,
                 job[w].offset, job[w].size, job[w].todo)
  <2> DEFINE k == [job[w] EXCEPT !.step = "object", !.token = t]
  <2>1. /\ k \in Job
        /\ k.op = job[w].op /\ k.step = "object" /\ k.token = t /\ k.previous = job[w].previous
        /\ k.offset = job[w].offset /\ k.size = job[w].size /\ k.todo = job[w].todo
    BY <1>3 DEF Job
  <2>2. job' = [job EXCEPT ![w] = k] /\ job \in [Workers -> Job]
    BY <1>1 DEF TypeOK
  <2> HIDE DEF k
  <2> QED
    BY <2>1, <2>2 DEF JobBecomes, Others
<1>5. t \notin used /\ used' = used \cup {t} /\ Stale
  BY <1>1
<1>6. job[w].op = "reap" /\ job[w].step = "claim"
  BY DEF ReapClaim, At
<1>7. UNCHANGED <<parts, file, part_objects, objects, contents, io_lock, accepted, faults>>
  BY DEF ReapClaim, store
<1> USE <1>1, <1>2, <1>3, <1>4, <1>5, <1>6, <1>7 DEF InductiveInv, RowBecomes, JobBecomes, Moves, Ends, Others
<1>8. TypeOK'
  BY DEF TypeOK
<1>9. TokensInv'
  BY DEF TokensInv, PhaseInv
<1>10. RowInv'
  BY DEF RowInv, TokensInv
<1>11. LockInv'
  BY DEF LockInv, InObjectIO, TokensInv, RowInv
<1>12. PhaseInv'
  BY DEF PhaseInv, Expired, TokensInv, RowInv, Stale
<1>13. ContentInv'
  BY SMTT(30) DEF ContentInv, TokensInv, RowInv, LockInv, InObjectIO, PhaseInv
<1>14. CommittedFileIntact'
  BY DEF CommittedFileIntact, TokensInv, RowInv, LockInv, InObjectIO, PhaseInv, ContentInv
<1>15. KeepsExpired
  BY DEF KeepsExpired, Expired, PhaseInv, Stale
<1> QED
  BY <1>8, <1>9, <1>10, <1>11, <1>12, <1>13, <1>14, <1>15 DEF InductiveInv

LEMMA ReapClaimLostStep ==
  ASSUME TypeOK, InductiveInv, NEW w \in Workers, ReapClaim(w), ~Stale
  PROVE  TypeOK' /\ InductiveInv' /\ KeepsExpired
<1> USE UploadsAssumption DEF Owns, Present, Refreshable
<1>1. Moves(w, "done")
  BY GoMoves DEF ReapClaim, TypeOK, Steps
<1>2. job[w].op = "reap"
  BY DEF ReapClaim, At
<1>3. UNCHANGED <<session, parts, file, part_objects, objects, contents, io_lock, used, accepted, faults>>
  BY DEF ReapClaim, store
<1>4. \A v \in Workers : job'[v].op = "complete" => v # w /\ job'[v] = job[v]
  BY <1>1, <1>2 DEF Moves, Others
<1> USE <1>1, <1>2, <1>3, <1>4 DEF InductiveInv, Moves, Ends, Others
<1>5. TypeOK'
  BY DEF TypeOK
<1>6. TokensInv'
  BY DEF TokensInv
<1>7. RowInv'
  BY DEF RowInv
<1>8. LockInv'
  BY DEF LockInv, InObjectIO
<1>9. PhaseInv'
  BY DEF PhaseInv, Expired
<1>10. ContentInv'
  BY <1>3, <1>4 DEF ContentInv
<1>11. CommittedFileIntact'
  BY DEF CommittedFileIntact
<1>12. KeepsExpired
  BY DEF KeepsExpired, Expired
<1> QED
  BY <1>5, <1>6, <1>7, <1>8, <1>9, <1>10, <1>11, <1>12 DEF InductiveInv

LEMMA ReapObjectStep ==
  ASSUME TypeOK, InductiveInv, NEW w \in Workers, ReapObject(w)
  PROVE  TypeOK' /\ InductiveInv' /\ KeepsExpired
<1> USE UploadsAssumption DEF Owns, Present, Refreshable
<1>1. Moves(w, "prefix")
  BY GoMoves DEF ReapObject, TypeOK, Steps
<1> USE <1>1 DEF InductiveInv, ReapObject, At, Remove, Moves, Ends, Others
<1>2. TypeOK'
  BY DEF TypeOK
<1>3. TokensInv'
  BY DEF TokensInv
<1>4. RowInv'
  BY DEF RowInv
<1>5. LockInv'
  BY DEF LockInv, InObjectIO
<1>6. PhaseInv'
  BY DEF PhaseInv, Expired
<1>7. ContentInv'
  BY SMTT(30) DEF ContentInv, TokensInv, RowInv, LockInv, InObjectIO, PhaseInv
<1>8. CommittedFileIntact'
  BY DEF CommittedFileIntact, TokensInv, RowInv, LockInv, InObjectIO, PhaseInv
<1>9. KeepsExpired
  BY DEF KeepsExpired, Expired
<1> QED
  BY <1>2, <1>3, <1>4, <1>5, <1>6, <1>7, <1>8, <1>9 DEF InductiveInv

LEMMA ReapPrefixStep ==
  ASSUME TypeOK, InductiveInv, NEW w \in Workers, ReapPrefix(w)
  PROVE  TypeOK' /\ InductiveInv' /\ KeepsExpired
<1> USE UploadsAssumption DEF Owns, Present, Refreshable
<1>1. Moves(w, "row")
  BY GoMoves DEF ReapPrefix, TypeOK, Steps
<1> USE <1>1 DEF InductiveInv, ReapPrefix, At, Moves, Ends, Others
<1>2. TypeOK'
  BY DEF TypeOK
<1>3. TokensInv'
  BY DEF TokensInv
<1>4. RowInv'
  BY DEF RowInv
<1>5. LockInv'
  BY DEF LockInv, InObjectIO
<1>6. PhaseInv'
  BY DEF PhaseInv, Expired
<1>7. ContentInv'
  BY DEF ContentInv
<1>8. CommittedFileIntact'
  BY DEF CommittedFileIntact
<1>9. KeepsExpired
  BY DEF KeepsExpired, Expired
<1> QED
  BY <1>2, <1>3, <1>4, <1>5, <1>6, <1>7, <1>8, <1>9 DEF InductiveInv

LEMMA ReapFailsStep ==
  ASSUME TypeOK, InductiveInv, NEW w \in Workers, ReapFails(w)
  PROVE  TypeOK' /\ InductiveInv' /\ KeepsExpired
<1> USE UploadsAssumption DEF Owns, Present, Refreshable
<1>1. Moves(w, "abandon")
  BY GoMoves DEF ReapFails, TypeOK, Steps
<1> USE <1>1 DEF InductiveInv, ReapFails, At, Fault, Moves, Ends, Others
<1>2. TypeOK'
  BY DEF TypeOK
<1>3. TokensInv'
  BY DEF TokensInv
<1>4. RowInv'
  BY DEF RowInv
<1>5. LockInv'
  BY DEF LockInv, InObjectIO
<1>6. PhaseInv'
  BY DEF PhaseInv, Expired
<1>7. ContentInv'
  BY DEF ContentInv
<1>8. CommittedFileIntact'
  BY DEF CommittedFileIntact
<1>9. KeepsExpired
  BY DEF KeepsExpired, Expired
<1> QED
  BY <1>2, <1>3, <1>4, <1>5, <1>6, <1>7, <1>8, <1>9 DEF InductiveInv

LEMMA ReapRowStep ==
  ASSUME TypeOK, InductiveInv, NEW w \in Workers, ReapRow(w)
  PROVE  TypeOK' /\ InductiveInv' /\ KeepsExpired
<1> USE UploadsAssumption DEF Owns, Present, Refreshable
<1>1. Moves(w, "done")
  BY GoMoves DEF ReapRow, TypeOK, Steps
<1>2. \/ Owns(w) /\ RowBecomes("absent", NoToken, NoToken, 0, 0, FALSE, FALSE) /\ parts' = {}
      \/ UNCHANGED <<session, parts>>
  <2>1. ASSUME session' = NoSession
        PROVE  RowBecomes("absent", NoToken, NoToken, 0, 0, FALSE, FALSE)
    BY <2>1 DEF RowBecomes, NoSession, Session
  <2> QED
    BY <2>1 DEF ReapRow
<1>3. job[w].op = "reap" /\ job[w].step = "row"
  BY DEF ReapRow, At
<1>4. UNCHANGED <<file, part_objects, objects, contents, io_lock, used, accepted, faults>>
  BY DEF ReapRow, store
<1> USE <1>1, <1>2, <1>3, <1>4 DEF InductiveInv, RowBecomes, Moves, Ends, Others
<1>5. TypeOK'
  BY DEF TypeOK
<1>6. TokensInv'
  BY DEF TokensInv
<1>7. RowInv'
  BY DEF RowInv
<1>8. LockInv'
  BY DEF LockInv, InObjectIO, TokensInv, RowInv
<1>9. PhaseInv'
  BY DEF PhaseInv, Expired, TokensInv
<1>10. ContentInv'
  BY SMTT(30) DEF TypeOK, ContentInv, TokensInv, RowInv, LockInv, InObjectIO
<1>11. CommittedFileIntact'
  BY DEF CommittedFileIntact
<1>12. KeepsExpired
  BY DEF KeepsExpired, Expired, PhaseInv
<1> QED
  BY <1>5, <1>6, <1>7, <1>8, <1>9, <1>10, <1>11, <1>12 DEF InductiveInv

LEMMA CrashStep ==
  ASSUME TypeOK, InductiveInv, NEW w \in Workers, Crash(w)
  PROVE  TypeOK' /\ InductiveInv' /\ KeepsExpired
<1> USE UploadsAssumption DEF Owns, Present, Refreshable
<1>1. Ends(w)
  BY FinishEnds DEF Crash, TypeOK, Steps
<1> USE <1>1 DEF InductiveInv, Crash, Fault, FreeLock, store, Moves, Ends, Others
<1>2. TypeOK'
  BY DEF TypeOK
<1>3. TokensInv'
  BY DEF TokensInv
<1>4. RowInv'
  BY DEF RowInv
<1>5. LockInv'
  BY DEF LockInv, InObjectIO
<1>6. PhaseInv'
  BY DEF PhaseInv, Expired
<1>7. ContentInv'
  BY DEF ContentInv
<1>8. CommittedFileIntact'
  BY DEF CommittedFileIntact
<1>9. KeepsExpired
  BY DEF KeepsExpired, Expired
<1> QED
  BY <1>2, <1>3, <1>4, <1>5, <1>6, <1>7, <1>8, <1>9 DEF InductiveInv
-----------------------------------------------------------------------------
(* The theorems.                                                          *)

LEMMA ReapClaimStep ==
  ASSUME TypeOK, InductiveInv, NEW w \in Workers, ReapClaim(w)
  PROVE  TypeOK' /\ InductiveInv' /\ KeepsExpired
  BY ReapClaimTakenStep, ReapClaimLostStep

LEMMA StutterStep ==
  ASSUME TypeOK, InductiveInv, UNCHANGED vars
  PROVE  TypeOK' /\ InductiveInv' /\ KeepsExpired
<1> USE DEF vars
<1>1. TypeOK'
  BY DEF TypeOK
<1>2. TokensInv' /\ RowInv'
  BY DEF InductiveInv, TokensInv, RowInv, Owns, Present
<1>3. LockInv'
  BY DEF InductiveInv, LockInv, InObjectIO, Owns
<1>4. PhaseInv' /\ KeepsExpired
  BY DEF InductiveInv, PhaseInv, Expired, Present, KeepsExpired
<1>5. ContentInv' /\ CommittedFileIntact'
  BY DEF InductiveInv, ContentInv, CommittedFileIntact, Owns
<1> QED
  BY <1>1, <1>2, <1>3, <1>4, <1>5 DEF InductiveInv

LEMMA InitInv ==
  ASSUME Init
  PROVE  TypeOK /\ InductiveInv
<1> USE UploadsAssumption DEF Init
<1>1. session \in Session /\ ~Present
  BY DEF NoSession, Session, Present
<1>2. file \in File /\ file.state = "none" /\ file.object_name = NoToken /\ ~file.parts_pending
  BY DEF NoFile, File
<1>3. /\ job \in [Workers -> Job]
      /\ \A w \in Workers : /\ job[w].op = "none" /\ job[w].step = "idle"
                            /\ job[w].token = NoToken /\ job[w].previous = NoToken
  BY DEF Idle, Job
<1>4. /\ session.operation_state = "absent" /\ session.operation_token = NoToken
      /\ session.object_name = NoToken /\ ~session.updated_fresh /\ ~session.operation_fresh
  BY DEF NoSession
<1>5. TypeOK
  BY <1>1, <1>2, <1>3 DEF TypeOK
<1>6. TokensInv
  BY <1>2, <1>3, <1>4 DEF TokensInv
<1>7. RowInv
  BY <1>3, <1>4 DEF RowInv, Present
<1>8. LockInv
  BY <1>3 DEF LockInv, InObjectIO
<1>9. PhaseInv
  BY <1>1, <1>2, <1>3, <1>4 DEF PhaseInv, Present
<1>10. ContentInv /\ CommittedFileIntact
  BY <1>2, <1>3 DEF ContentInv, CommittedFileIntact
<1> QED
  BY <1>5, <1>6, <1>7, <1>8, <1>9, <1>10 DEF InductiveInv

LEMMA NextStep ==
  ASSUME TypeOK, InductiveInv, [Next]_vars
  PROVE  TypeOK' /\ InductiveInv' /\ KeepsExpired
<1>1. CASE UNCHANGED vars
  BY <1>1, StutterStep
<1>2. CASE StartUpload \/ SessionExpires \/ OperationExpires
  BY <1>2, StartUploadStep, SessionExpiresStep, OperationExpiresStep
<1>3. ASSUME NEW w \in Workers, WriteUploadChunk(w) \/ OperationClaim(w)
      PROVE  TypeOK' /\ InductiveInv' /\ KeepsExpired
  BY <1>3, ClaimWriteStep, PutPartStep, PutPartFailsStep, PersistPartStep, PersistPartFailsStep,
     AcquireStep, AcquireFailsStep, HeartbeatStep, HeartbeatFailsStep, AbandonStep, ReleaseStep,
     DoneStep
  DEF WriteUploadChunk, OperationClaim
<1>4. ASSUME NEW w \in Workers, CompleteUpload(w)
      PROVE  TypeOK' /\ InductiveInv' /\ KeepsExpired
  BY <1>4, ClaimCompleteStep, DropPreviousStep, OpenWriterStep, OpenWriterFailsStep,
     AssemblePartStep, CloseObjectStep, AssembleFailsStep, UnlockObjectStep, FinalizeStep,
     FinalizeFailsStep, CommitUncertainStep, DiscardStep
  DEF CompleteUpload
<1>5. ASSUME NEW w \in Workers, CleanupUploadParts(w) \/ Delete(w)
      PROVE  TypeOK' /\ InductiveInv' /\ KeepsExpired
  BY <1>5, RetryCompletedStep, RecoverPartsStep, CleanPrefixStep, CleanPrefixFailsStep,
     ClearPartsPendingStep, MarkDeletedStep, DeleteObjectStep, FinishDeleteStep, DeleteFailsStep
  DEF CleanupUploadParts, Delete
<1>6. ASSUME NEW w \in Workers, ReapStaleUpload(w) \/ Crash(w)
      PROVE  TypeOK' /\ InductiveInv' /\ KeepsExpired
  BY <1>6, ListStaleStep, ReapAcquireStep, ReapClaimStep, ReapObjectStep, ReapPrefixStep,
     ReapFailsStep, ReapRowStep, CrashStep
  DEF ReapStaleUpload
<1> QED
  BY <1>1, <1>2, <1>3, <1>4, <1>5, <1>6 DEF Next

\* The inductive invariant of Uploads, with its type invariant: whatever the
\* handlers, reapers, failures and crashes of an upload do, and in any order,
\* tokens have one holder, object I/O holds the lock and the row claim, and a
\* completion's object holds what it has copied.
THEOREM Invariance == Spec => [](TypeOK /\ InductiveInv)
<1>1. Init => TypeOK /\ InductiveInv
  BY InitInv
<1>2. TypeOK /\ InductiveInv /\ [Next]_vars => (TypeOK /\ InductiveInv)'
  BY NextStep
<1> QED
  BY <1>1, <1>2, PTL DEF Spec

\* Every variable keeps its type.
THEOREM TypeCorrect == Spec => []TypeOK
  BY Invariance, PTL

\* A served file keeps its object with all acknowledged chunks, for any number
\* of handlers, starting processes, failures and crashes.
THEOREM CommittedFileStaysIntact == Spec => []CommittedFileIntact
<1>1. InductiveInv => CommittedFileIntact
  BY DEF InductiveInv
<1> QED
  BY <1>1, Invariance, PTL

\* A worker in object I/O holds the lock and still owns the row, alone.
THEOREM ObjectIOStaysClaimed == Spec => []ObjectIOKeepsClaim
<1>1. TypeOK /\ InductiveInv => ObjectIOKeepsClaim
  <2> SUFFICES ASSUME TypeOK, InductiveInv, NEW w \in Workers, InObjectIO(w)
               PROVE  io_lock = w /\ Present /\ Owns(w) /\ \A v \in Workers \ {w} : ~InObjectIO(v)
    BY DEF ObjectIOKeepsClaim
  <2>1. io_lock = w /\ Owns(w) /\ \A v \in Workers : InObjectIO(v) => io_lock = v
    BY DEF InductiveInv, LockInv
  <2>2. job[w].token # NoToken
    BY DEF InductiveInv, TokensInv, InObjectIO
  <2>3. Present
    BY <2>1, <2>2 DEF InductiveInv, RowInv, Owns, Present
  <2> QED
    BY <2>1, <2>3
<1> QED
  BY <1>1, Invariance, PTL

\* No step revives an expired session or turns it into a file: neither a late
\* heartbeat, persist or final transaction, nor a released or failed claim.
THEOREM ExpiredSessionsStayExpired == Spec => ExpiredStaysExpired
<1>1. TypeOK /\ InductiveInv /\ [Next]_vars => [KeepsExpired]_vars
  BY NextStep
<1> QED
  BY <1>1, Invariance, PTL DEF Spec, ExpiredStaysExpired
=============================================================================
