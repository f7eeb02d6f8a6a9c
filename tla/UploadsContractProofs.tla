------------------------ MODULE UploadsContractProofs ------------------------
(***************************************************************************)
(* Proofs, for any number of handlers, UUIDs, sizes and failures, of what  *)
(* an upload promises beyond the inductive invariant of UploadsProofs:     *)
(* that its rows account for every byte and every temporary object, that   *)
(* no final object is lost or left behind, and that Uploads implements the *)
(* life an upload has for its client, UploadLifecycle.                     *)
(*                                                                         *)
(* Every step is known to keep InductiveInv and the expired sessions       *)
(* expired (NextStep).  What is left for each action are the conjuncts it  *)
(* can disturb; the steps that only move a worker on are treated alike.    *)
(***************************************************************************)
EXTENDS UploadsProofs, FiniteSetTheorems

\* The parts cover the bytes below n, each of them once.
Tiles(S, n) ==
    /\ \A p \in S : p.offset + p.size <= n
    /\ \A k \in Nat : k < n => \E p \in S : p.offset <= k /\ k < p.offset + p.size
    /\ \A p, q \in S : p # q => p.offset + p.size <= q.offset \/ q.offset + q.size <= p.offset

\* The row and its parts, and what an operation under way knows of them.
RowsInv ==
    /\ Present => /\ session.total_size \in Sizes /\ session.uploaded_size <= session.total_size
                  /\ Tiles(parts, session.uploaded_size)
    /\ session.operation_state \in {"writing", "completing"} /\ session.updated_fresh => session.operation_fresh
    /\ session.operation_state = "cleaning" => ~session.updated_fresh
    /\ session.operation_state = "completing" => session.uploaded_size = session.total_size
    /\ \A w \in Workers : job[w].op = "write" =>
           /\ job[w].size \in ChunkSizes
           /\ Owns(w) => /\ job[w].offset = session.uploaded_size
                         /\ job[w].offset + job[w].size <= session.total_size

\* A worker that removes the temporary objects of a file, or has removed those
\* of a session or a file.
Cleaning(j) == j.step = "flag" \/ (j.step = "prefix" /\ j.op # "reap")

Cleaned(j) ==
    \/ j.op = "reap" /\ j.step = "row"
    \/ j.op # "reap" /\ j.step = "flag"
    \/ j.op = "delete" /\ j.step \in {"object", "row"}

\* The temporary objects: those of the parts are there, and the others are remembered.
PartObjectsInv ==
    /\ Present /\ ~Expired => \A p \in parts : p.token \in part_objects
    /\ part_objects # {} => Present \/ file.parts_pending
    /\ \A w \in Workers :
           /\ At(w, "write", "persist") => job[w].token \in part_objects
           /\ Cleaned(job[w]) => part_objects = {}
           /\ Cleaning(job[w]) => file.state # "none"

BookInv == RowsInv /\ PartObjectsInv

\* A step of the contract, or none.
Maps == Lifecycle!Next \/ UNCHANGED Lifecycle!vars

\* What is known before and after every step.
Before == TypeOK /\ InductiveInv /\ BookInv
After == TypeOK' /\ InductiveInv' /\ KeepsExpired

-----------------------------------------------------------------------------
(* Tilings.                                                                *)

LEMMA TilesNothing == Tiles({}, 0)
BY DEF Tiles

\* The next part goes behind the others.
LEMMA TilesGrow ==
  ASSUME NEW S, S \subseteq Part, NEW n \in Nat, Tiles(S, n), NEW p \in Part, p.offset = n
  PROVE  Tiles(S \cup {p}, n + p.size)
<1>1. p.size \in Nat /\ p.size > 0 /\ \A q \in S : q.offset \in Nat /\ q.size \in Nat /\ q.size > 0
  BY DEF Part
<1>2. \A q \in S \cup {p} : q.offset + q.size <= n + p.size
  BY <1>1 DEF Tiles
<1>3. ASSUME NEW k \in Nat, k < n + p.size
      PROVE  \E q \in S \cup {p} : q.offset <= k /\ k < q.offset + q.size
  <2>1. CASE k < n
    BY <2>1 DEF Tiles
  <2>2. CASE k >= n
    BY <1>1, <1>3, <2>2
  <2> QED
    BY <2>1, <2>2
<1>4. \A q, r \in S \cup {p} : q # r => q.offset + q.size <= r.offset \/ r.offset + r.size <= q.offset
  BY <1>1 DEF Tiles
<1> QED
  BY <1>2, <1>3, <1>4 DEF Tiles

\* So the next byte is behind all parts, and right behind the last one.
LEMMA TilesEnd ==
  ASSUME NEW S, S \subseteq Part, NEW n \in Nat, Tiles(S, n)
  PROVE  n = 0 \/ \E p \in S : p.offset + p.size = n
<1> SUFFICES ASSUME n # 0
             PROVE  \E p \in S : p.offset + p.size = n
  OBVIOUS
<1>1. PICK p \in S : p.offset <= n - 1 /\ n - 1 < p.offset + p.size
  BY DEF Tiles
<1>2. p.offset \in Nat /\ p.size \in Nat /\ p.offset + p.size <= n
  BY DEF Tiles, Part
<1> QED
  BY <1>1, <1>2

\* Every byte below n is in exactly one part, every other one in none.
LEMMA TilesOnce ==
  ASSUME NEW S, S \subseteq Part, NEW n \in Nat, Tiles(S, n), NEW k \in Nat
  PROVE  Cardinality({p \in S : p.offset <= k /\ k < p.offset + p.size}) = IF k < n THEN 1 ELSE 0
<1> DEFINE T == {p \in S : p.offset <= k /\ k < p.offset + p.size}
<1>1. \A p \in S : p.offset \in Nat /\ p.size \in Nat
  BY DEF Part
<1>2. CASE k < n
  <2>1. PICK p \in S : p.offset <= k /\ k < p.offset + p.size
    BY <1>2 DEF Tiles
  <2>2. \A q \in T : q = p
    BY <1>1, <2>1 DEF Tiles
  <2>3. T = {p}
    BY <2>1, <2>2
  <2> QED
    BY <1>2, <2>3, FS_Singleton
<1>3. CASE ~(k < n)
  <2>1. T = {}
    BY <1>1, <1>3 DEF Tiles
  <2> QED
    BY <1>3, <2>1, FS_EmptySet
<1> QED
  BY <1>2, <1>3

-----------------------------------------------------------------------------
(* The contract in terms of the rows.                                      *)

\* A served file is all that was acknowledged.
LEMMA ServedIsAccepted ==
  ASSUME CommittedFileIntact
  PROVE  Served = IF file.state = "live" THEN accepted ELSE {}
  BY DEF CommittedFileIntact, Served

\* Unless it acknowledges a chunk, or changes the state of the file, a step
\* is invisible to the client or ends an open session.
LEMMA SamePhase ==
  ASSUME Before, After, accepted' = accepted, file'.state = file.state, used = {} <=> used' = {},
         ~Expired => session'.uploaded_size = session.uploaded_size /\ session'.total_size = session.total_size
  PROVE  Maps
<1>1. Served' = Served
  <2>1. Served = IF file.state = "live" THEN accepted ELSE {}
    BY ServedIsAccepted DEF Before, InductiveInv
  <2>2. Served' = IF file'.state = "live" THEN accepted' ELSE {}
    BY DEF After, InductiveInv, CommittedFileIntact, Served
  <2> QED
    BY <2>1, <2>2
<1>2. CASE file.state # "none"
  <2>1. file.state \in {"live", "deleting", "gone"}
    BY <1>2 DEF Before, TypeOK, File
  <2>2. Phase' = Phase /\ Phase # "open"
    BY <2>1 DEF Phase
  <2> QED
    BY <1>1, <2>2 DEF Maps, Lifecycle!vars, Missing
<1>3. CASE file.state = "none" /\ used = {}
  <2>1. Phase' = "new" /\ Phase = "new"
    BY <1>3 DEF Phase
  <2> QED
    BY <1>1, <2>1 DEF Maps, Lifecycle!vars, Missing
<1>4. CASE file.state = "none" /\ used # {}
  <2>1. Phase = (IF Expired THEN "expired" ELSE "open") /\ Phase' = (IF Expired' THEN "expired" ELSE "open")
    BY <1>4 DEF Phase
  <2>2. CASE Expired
    BY <1>1, <2>1, <2>2 DEF Maps, Lifecycle!vars, Missing, After, KeepsExpired
  <2>3. CASE ~Expired /\ ~Expired'
    BY <1>1, <2>1, <2>3 DEF Maps, Lifecycle!vars, Missing
  <2>4. CASE ~Expired /\ Expired'
    BY <1>1, <2>1, <2>4 DEF Maps, Lifecycle!Next, Lifecycle!Expire, Missing
  <2> QED
    BY <2>2, <2>3, <2>4
<1> QED
  BY <1>2, <1>3, <1>4

-----------------------------------------------------------------------------
(* Steps that leave the rows and the temporary objects alone.              *)

\* Neither the row nor its parts change, and no chunk is announced.
LEMMA RowsFrame ==
  ASSUME Before, NEW w \in Workers, Others(w), UNCHANGED <<session, parts>>,
         job'[w].op = "write" => /\ job[w].op = "write" /\ job'[w].token = job[w].token
                                 /\ job'[w].offset = job[w].offset /\ job'[w].size = job[w].size
  PROVE  RowsInv'
<1>1. Tiles(parts, session.uploaded_size) => Tiles(parts', session'.uploaded_size)
  OBVIOUS
<1>2. \A v \in Workers : job'[v].op = "write" =>
        /\ job[v].op = "write" /\ job'[v].token = job[v].token
        /\ job'[v].offset = job[v].offset /\ job'[v].size = job[v].size
  BY DEF Others
<1> QED
  BY <1>1, <1>2 DEF Before, BookInv, RowsInv, Present, Owns

\* Neither the parts, the file nor a temporary object changes, and the worker
\* moves behind no removal.
LEMMA PartObjectsFrame ==
  ASSUME Before, After, NEW w \in Workers, Others(w), UNCHANGED <<parts, file, part_objects>>,
         Present' = Present,
         job'[w].op = "write" => job'[w].step # "persist",
         Cleaned(job'[w]) => Cleaned(job[w]) \/ part_objects = {},
         Cleaning(job'[w]) => file.state # "none"
  PROVE  PartObjectsInv'
<1>1. \A v \in Workers : /\ Cleaned(job'[v]) => part_objects = {}
                         /\ Cleaning(job'[v]) => file.state # "none"
  BY DEF Others, Before, BookInv, PartObjectsInv
<1>2. Expired => Expired'
  BY DEF After, KeepsExpired
<1> QED
  BY <1>1, <1>2 DEF Before, BookInv, PartObjectsInv, At, Others

LEMMA QuietStep ==
  ASSUME Before, After, NEW w \in Workers, Others(w),
         UNCHANGED <<session, parts, file, part_objects, used, accepted>>,
         job'[w].op = "write" => /\ job[w].op = "write" /\ job'[w].token = job[w].token
                                 /\ job'[w].offset = job[w].offset /\ job'[w].size = job[w].size
                                 /\ job'[w].step # "persist",
         Cleaned(job'[w]) => Cleaned(job[w]) \/ part_objects = {},
         Cleaning(job'[w]) => file.state # "none"
  PROVE  BookInv' /\ Maps
<1>1. RowsInv'
  BY RowsFrame
<1>2. PartObjectsInv'
  BY PartObjectsFrame DEF Present
<1>3. Maps
  BY SamePhase
<1> QED
  BY <1>1, <1>2, <1>3 DEF BookInv

LEMMA Rewritten ==
  ASSUME job \in [Workers -> Job], NEW w \in Workers, NEW k, job' = [job EXCEPT ![w] = k]
  PROVE  Others(w) /\ job'[w] = k
  BY DEF Others

\* The steps of a worker's job that only lead on.
Onward == {"acquire", "heartbeat", "put", "drop_previous", "open", "assemble", "unlock",
           "finalize", "discard", "abandon", "release", "done", "claim"}

LEMMA MovesOn ==
  ASSUME Before, After, NEW w \in Workers, NEW s \in Onward, Moves(w, s),
         UNCHANGED <<session, parts, file, part_objects, used, accepted>>
  PROVE  BookInv' /\ Maps
<1>1. /\ Others(w) /\ job'[w].step = s
      /\ job'[w].op = "write" => /\ job[w].op = "write" /\ job'[w].token = job[w].token
                                 /\ job'[w].offset = job[w].offset /\ job'[w].size = job[w].size
  BY DEF Moves
<1>2. ~Cleaned(job'[w]) /\ ~Cleaning(job'[w]) /\ job'[w].step # "persist"
  BY <1>1 DEF Cleaned, Cleaning, Onward
<1> QED
  BY <1>1, <1>2, QuietStep

LEMMA EndsNow ==
  ASSUME Before, After, NEW w \in Workers, Ends(w),
         UNCHANGED <<session, parts, file, part_objects, used, accepted>>
  PROVE  BookInv' /\ Maps
<1>1. Others(w) /\ job'[w].op = "none" /\ ~Cleaned(job'[w]) /\ ~Cleaning(job'[w])
  BY DEF Ends, Cleaned, Cleaning
<1> QED
  BY <1>1, QuietStep

\* An operation that takes, loses or gives back the lock, or gives up.
LEMMA BookOperationClaim ==
  ASSUME Before, After, NEW w \in Workers,
         Acquire(w) \/ AcquireFails(w) \/ Heartbeat(w) \/ HeartbeatFails(w) \/ Abandon(w) \/ Done(w)
  PROVE  BookInv' /\ Maps
<1> USE DEF Before, TypeOK, store, Onward, Steps
<1>1. CASE Acquire(w)
  <2>1. Moves(w, "heartbeat") \/ Moves(w, "release")
    BY <1>1, GoMoves DEF Acquire
  <2> QED
    BY <1>1, <2>1, MovesOn DEF Acquire
<1>2. CASE AcquireFails(w)
  BY <1>2, GoMoves, MovesOn DEF AcquireFails
<1>3. CASE Heartbeat(w)
  <2>1. Moves(w, "put") \/ Moves(w, "drop_previous") \/ Moves(w, "abandon")
    BY <1>3, GoMoves DEF Heartbeat
  <2> QED
    BY <1>3, <2>1, MovesOn DEF Heartbeat
<1>4. CASE HeartbeatFails(w)
  BY <1>4, GoMoves, MovesOn DEF HeartbeatFails
<1>5. CASE Abandon(w)
  BY <1>5, GoMoves, MovesOn DEF Abandon
<1>6. CASE Done(w)
  BY <1>6, FinishEnds, EndsNow DEF Done
<1> QED
  BY <1>1, <1>2, <1>3, <1>4, <1>5, <1>6

\* A completion while it writes its object, and when it gives up.
LEMMA BookComplete ==
  ASSUME Before, After, NEW w \in Workers,
         \/ DropPrevious(w) \/ OpenWriter(w) \/ OpenWriterFails(w) \/ AssemblePart(w) \/ CloseObject(w)
         \/ AssembleFails(w) \/ UnlockObject(w) \/ FinalizeFails(w) \/ Discard(w)
  PROVE  BookInv' /\ Maps
<1> USE DEF Before, TypeOK, store, Onward, Steps
<1>1. CASE DropPrevious(w)
  BY <1>1, GoMoves, MovesOn DEF DropPrevious
<1>2. ASSUME NEW k, k.op = "complete", k.step \in Onward, job' = [job EXCEPT ![w] = k],
             UNCHANGED <<session, parts, file, part_objects, used, accepted>>
      PROVE  BookInv' /\ Maps
  <2>1. Others(w) /\ job'[w] = k
    BY <1>2, Rewritten
  <2>2. ~Cleaned(job'[w]) /\ ~Cleaning(job'[w]) /\ job'[w].step # "persist" /\ job'[w].op = "complete"
    BY <1>2, <2>1 DEF Cleaned, Cleaning
  <2> QED
    BY <1>2, <2>1, <2>2, QuietStep
<1>3. CASE OpenWriter(w)
  <2> DEFINE k == [job[w] EXCEPT !.step = "assemble", !.todo = parts]
  <2>1. k.op = "complete" /\ k.step = "assemble" /\ job' = [job EXCEPT ![w] = k]
    BY <1>3 DEF OpenWriter, At, Job
  <2> HIDE DEF k
  <2> QED
    BY <1>2, <1>3, <2>1 DEF OpenWriter
<1>4. CASE Discard(w)
  <2> DEFINE k == [job[w] EXCEPT !.step = "abandon", !.todo = {}]
  <2>1. k.op = "complete" /\ k.step = "abandon" /\ job' = [job EXCEPT ![w] = k]
    BY <1>4 DEF Discard, At, Job
  <2> HIDE DEF k
  <2> QED
    BY <1>2, <1>4, <2>1 DEF Discard
<1>5. CASE AssemblePart(w) /\ ~Go(w, "discard")
  <2> DEFINE step == IF Refreshable(w) THEN job[w].step ELSE "discard"
             K(p) == [job[w] EXCEPT !.todo = job[w].todo \ {p},
                                    !.offset = job[w].offset + p.size, !.step = step]
  <2>1. PICK p : job' = [job EXCEPT ![w] = K(p)]
    BY <1>5 DEF AssemblePart
  <2>2. step \in {"assemble", "discard"} /\ job[w].op = "complete"
    BY <1>5 DEF AssemblePart, At
  <2> HIDE DEF step
  <2>3. K(p).op = "complete" /\ K(p).step = step
    BY <2>2 DEF Job
  <2> HIDE DEF K
  <2> QED
    BY <1>2, <1>5, <2>1, <2>2, <2>3 DEF AssemblePart
<1>6. CASE OpenWriterFails(w)
  BY <1>6, GoMoves, MovesOn DEF OpenWriterFails
<1>7. CASE AssemblePart(w) /\ Go(w, "discard")
  BY <1>7, GoMoves, MovesOn DEF AssemblePart
<1>8. CASE CloseObject(w)
  <2>1. Moves(w, "unlock") \/ Moves(w, "discard")
    BY <1>8, GoMoves DEF CloseObject
  <2> QED
    BY <1>8, <2>1, MovesOn DEF CloseObject
<1>9. CASE AssembleFails(w)
  BY <1>9, GoMoves, MovesOn DEF AssembleFails
<1>10. CASE UnlockObject(w)
  BY <1>10, GoMoves, MovesOn DEF UnlockObject
<1>11. CASE FinalizeFails(w)
  BY <1>11, GoMoves, MovesOn DEF FinalizeFails
<1> QED
  BY <1>1, <1>3, <1>4, <1>5, <1>6, <1>7, <1>8, <1>9, <1>10, <1>11

\* A cleanup, deletion or reaping that begins, goes on or gives up.
LEMMA BookBegin ==
  ASSUME Before, After, NEW w \in Workers,
         \/ RetryCompleted(w) \/ RecoverParts(w) \/ DeleteObject(w) \/ DeleteFails(w)
         \/ ListStale(w) \/ ReapAcquire(w) \/ ReapObject(w) \/ Crash(w)
  PROVE  BookInv' /\ Maps
<1> USE DEF Before, TypeOK, store, Onward, Steps
<1>1. CASE RetryCompleted(w) \/ RecoverParts(w)
  <2> DEFINE k == [Idle EXCEPT !.op = "clean", !.step = "prefix"]
  <2>1. k.op = "clean" /\ k.step = "prefix"
    BY DEF Idle
  <2> HIDE DEF k
  <2>3. Others(w) /\ job'[w] = k
    BY <1>1, Rewritten DEF RetryCompleted, RecoverParts, k
  <2>4. job'[w].op = "clean" /\ job'[w].step = "prefix" /\ ~Cleaned(job'[w])
    BY <2>1, <2>3 DEF Cleaned
  <2>2. file.state # "none"
    BY <1>1 DEF RetryCompleted, RecoverParts, InductiveInv, PhaseInv
  <2> QED
    BY <1>1, <2>2, <2>3, <2>4, QuietStep DEF RetryCompleted, RecoverParts
<1>2. CASE DeleteObject(w)
  <2>1. Moves(w, "row") /\ Cleaned(job[w]) /\ job[w].op = "delete"
    BY <1>2, GoMoves DEF DeleteObject, Cleaned, At
  <2>2. Others(w) /\ job'[w].op = "delete" /\ ~Cleaning(job'[w])
    BY <2>1 DEF Moves, Cleaning
  <2> QED
    BY <1>2, <2>1, <2>2, QuietStep DEF DeleteObject
<1>3. CASE DeleteFails(w)
  BY <1>3, FinishEnds, EndsNow DEF DeleteFails
<1>4. CASE ListStale(w)
  <2>1. Others(w) /\ job'[w].op = "reap" /\ ~Cleaned(job'[w]) /\ ~Cleaning(job'[w])
    BY <1>4 DEF ListStale, Others, Idle, Cleaned, Cleaning
  <2> QED
    BY <1>4, <2>1, QuietStep DEF ListStale
<1>5. CASE ReapAcquire(w)
  <2>1. Moves(w, "claim") \/ Ends(w)
    BY <1>5, GoMoves, FinishEnds DEF ReapAcquire
  <2> QED
    BY <1>5, <2>1, MovesOn, EndsNow DEF ReapAcquire
<1>6. CASE ReapObject(w)
  <2>1. Moves(w, "prefix") /\ job[w].op = "reap"
    BY <1>6, GoMoves DEF ReapObject, At
  <2>2. Others(w) /\ job'[w].op = "reap" /\ ~Cleaned(job'[w]) /\ ~Cleaning(job'[w])
    BY <2>1 DEF Moves, Cleaned, Cleaning
  <2> QED
    BY <1>6, <2>2, QuietStep DEF ReapObject
<1>7. CASE Crash(w)
  BY <1>7, FinishEnds, EndsNow DEF Crash
<1> QED
  BY <1>1, <1>2, <1>3, <1>4, <1>5, <1>6, <1>7

-----------------------------------------------------------------------------
(* Steps that change the session row, but not its parts.                   *)

\* No step creates or removes the row, its parts or the bytes they cover;
\* what is left to show is what the operations know of the row.
LEMMA RowRewritten ==
  ASSUME Before, After, NEW w \in Workers, Others(w), UNCHANGED <<parts, file, part_objects, accepted>>,
         Present, Present', used' # {},
         session'.total_size = session.total_size, session'.uploaded_size = session.uploaded_size,
         job'[w].op = "write" => job'[w].step # "persist",
         ~Cleaned(job'[w]), ~Cleaning(job'[w])
  PROVE  /\ PartObjectsInv' /\ Maps
         /\ session'.total_size \in Sizes /\ session'.uploaded_size <= session'.total_size
         /\ Tiles(parts', session'.uploaded_size)
<1>1. PartObjectsInv'
  BY PartObjectsFrame
<1>2. used # {}
  BY DEF Before, InductiveInv, PhaseInv
<1>3. Maps
  BY <1>2, SamePhase
<1>4. Tiles(parts, session.uploaded_size) => Tiles(parts', session'.uploaded_size)
  OBVIOUS
<1> QED
  BY <1>1, <1>3, <1>4 DEF Before, BookInv, RowsInv

LEMMA BookTime ==
  ASSUME Before, After, SessionExpires \/ OperationExpires
  PROVE  BookInv' /\ Maps
<1>1. /\ UNCHANGED <<parts, file, part_objects, job, used, accepted>>
      /\ session'.operation_state = session.operation_state
      /\ session'.operation_token = session.operation_token
      /\ session'.total_size = session.total_size
      /\ session'.uploaded_size = session.uploaded_size
      /\ ~session'.updated_fresh
  BY DEF SessionExpires, OperationExpires, store, Before, TypeOK, Session
<1>2. Tiles(parts, session.uploaded_size) => Tiles(parts', session'.uploaded_size)
  BY <1>1
<1>3. RowsInv'
  BY <1>1, <1>2 DEF Before, BookInv, RowsInv, Present, Owns
<1>4. PartObjectsInv'
  BY <1>1 DEF Before, BookInv, PartObjectsInv, Present, At, After, KeepsExpired
<1>5. Maps
  BY <1>1, SamePhase
<1> QED
  BY <1>3, <1>4, <1>5 DEF BookInv

LEMMA BookStartUpload ==
  ASSUME Before, After, StartUpload
  PROVE  BookInv' /\ Maps
<1>1. PICK size \in Sizes, t \in Tokens :
        /\ used' = used \cup {t}
        /\ session' = [NoSession EXCEPT !.operation_state = "uploading", !.object_name = t,
                                        !.total_size = size, !.updated_fresh = TRUE]
  BY DEF StartUpload, FreshToken
<1>2. RowBecomes("uploading", NoToken, t, size, 0, TRUE, FALSE)
  BY <1>1, UploadsAssumption DEF RowBecomes, NoSession, Session
<1>3. UNCHANGED <<parts, file, part_objects, objects, contents, job, accepted>> /\ used = {}
  BY DEF StartUpload, store
<1>4. ~Present /\ file.state = "none" /\ parts = {} /\ Present'
  BY <1>2, <1>3 DEF Before, InductiveInv, PhaseInv, RowInv, Present, RowBecomes
<1>5. \A v \in Workers : job[v].op # "write"
  BY <1>3 DEF Before, InductiveInv, TokensInv
<1>6. Tiles(parts', session'.uploaded_size) /\ session'.total_size \in Sizes
      /\ session'.uploaded_size <= session'.total_size
  BY <1>2, <1>3, <1>4, TilesNothing, UploadsAssumption DEF RowBecomes
<1>7. RowsInv'
  BY <1>2, <1>3, <1>5, <1>6 DEF RowsInv, RowBecomes
<1>8. PartObjectsInv'
  BY <1>3, <1>4, <1>5 DEF PartObjectsInv, Before, BookInv, At
<1>9. Phase = "new" /\ Phase' = "open" /\ used' # {} /\ ~Expired'
  BY <1>1, <1>2, <1>3, <1>4 DEF Phase, Expired, RowBecomes, Present
<1>10. Missing = 0 /\ Missing' = size
  BY <1>2, <1>9, UploadsAssumption DEF Missing, RowBecomes
<1>11. Served' = Served
  BY <1>3, <1>4 DEF Served
<1>12. Lifecycle!Start
  BY <1>3, <1>9, <1>10, <1>11 DEF Lifecycle!Start
<1> QED
  BY <1>7, <1>8, <1>12 DEF BookInv, Maps, Lifecycle!Next

LEMMA BookClaimWrite ==
  ASSUME Before, After, NEW w \in Workers, ClaimWrite(w)
  PROVE  BookInv' /\ Maps
<1>1. PICK size \in ChunkSizes, t \in Tokens :
        /\ session.uploaded_size + size <= session.total_size
        /\ t \notin used /\ used' = used \cup {t}
        /\ session' = [session EXCEPT !.operation_state = "writing", !.operation_token = t,
                                      !.operation_fresh = TRUE]
        /\ job' = [job EXCEPT ![w] = [Idle EXCEPT !.op = "write", !.step = "acquire", !.token = t, !.size = size,
                                     !.offset = session.uploaded_size]]
  BY DEF ClaimWrite, FreshToken
<1>2. RowBecomes("writing", t, session.object_name, session.total_size, session.uploaded_size,
                 session.updated_fresh, TRUE)
  BY <1>1 DEF RowBecomes, Session, Before, TypeOK
<1> DEFINE k == [Idle EXCEPT !.op = "write", !.step = "acquire", !.token = t, !.size = size,
                             !.offset = session.uploaded_size]
<1>3. k.op = "write" /\ k.step = "acquire" /\ k.token = t /\ k.offset = session.uploaded_size /\ k.size = size
  BY DEF Idle
<1>4. job' = [job EXCEPT ![w] = k] /\ job \in [Workers -> Job]
  BY <1>1 DEF Before, TypeOK
<1> HIDE DEF k
<1>5. Others(w) /\ job'[w] = k /\ ~Cleaned(k) /\ ~Cleaning(k)
  BY <1>3, <1>4, Rewritten DEF Cleaned, Cleaning
<1>6. UNCHANGED <<parts, file, part_objects, accepted>> /\ Present /\ Present' /\ used' # {}
  BY <1>1, <1>2 DEF ClaimWrite, store, Present, RowBecomes
<1>7. /\ PartObjectsInv' /\ Maps
      /\ session'.total_size \in Sizes /\ session'.uploaded_size <= session'.total_size
      /\ Tiles(parts', session'.uploaded_size)
  BY <1>2, <1>3, <1>5, <1>6, RowRewritten DEF RowBecomes
<1>8. \A v \in Workers \ {w} : job'[v] = job[v] /\ (job[v].op = "write" => job[v].token # t)
  BY <1>1, <1>5, UploadsAssumption DEF Others, Before, InductiveInv, TokensInv
<1>9. \A v \in Workers : job'[v].op = "write" =>
        /\ job'[v].size \in ChunkSizes
        /\ session'.operation_token = job'[v].token
             => job'[v].offset = session'.uploaded_size /\ job'[v].offset + job'[v].size <= session'.total_size
  <2> TAKE v \in Workers
  <2>1. CASE v = w
    BY <1>1, <1>2, <1>3, <1>5, <2>1 DEF RowBecomes
  <2>2. CASE v # w
    BY <1>2, <1>8, <2>2 DEF RowBecomes, Before, BookInv, RowsInv
  <2> QED
    BY <2>1, <2>2
<1>10. RowsInv'
  BY <1>2, <1>7, <1>9 DEF RowsInv, RowBecomes, Owns
<1> QED
  BY <1>7, <1>10 DEF BookInv

LEMMA BookClaimComplete ==
  ASSUME Before, After, NEW w \in Workers, ClaimComplete(w)
  PROVE  BookInv' /\ Maps
<1>1. PICK t \in Tokens :
        /\ t \notin used /\ used' = used \cup {t}
        /\ session' = [session EXCEPT !.operation_state = "completing", !.operation_token = t,
                                      !.operation_fresh = TRUE, !.object_name = t]
        /\ job' = [job EXCEPT ![w] = [Idle EXCEPT !.op = "complete", !.step = "acquire", !.token = t,
                                     !.size = session.total_size, !.previous = session.object_name]]
  BY DEF ClaimComplete, FreshToken
<1>2. RowBecomes("completing", t, t, session.total_size, session.uploaded_size,
                 session.updated_fresh, TRUE)
  BY <1>1 DEF RowBecomes, Session, Before, TypeOK
<1> DEFINE k == [Idle EXCEPT !.op = "complete", !.step = "acquire", !.token = t,
                             !.size = session.total_size, !.previous = session.object_name]
<1>3. k.op = "complete" /\ k.step = "acquire"
  BY DEF Idle
<1>4. job' = [job EXCEPT ![w] = k] /\ job \in [Workers -> Job]
  BY <1>1 DEF Before, TypeOK
<1> HIDE DEF k
<1>5. Others(w) /\ job'[w] = k /\ ~Cleaned(k) /\ ~Cleaning(k)
  BY <1>3, <1>4, Rewritten DEF Cleaned, Cleaning
<1>6. UNCHANGED <<parts, file, part_objects, accepted>> /\ Present /\ Present' /\ used' # {}
  BY <1>1, <1>2 DEF ClaimComplete, store, Present, RowBecomes
<1>7. /\ PartObjectsInv' /\ Maps
      /\ session'.total_size \in Sizes /\ session'.uploaded_size <= session'.total_size
      /\ Tiles(parts', session'.uploaded_size)
  BY <1>2, <1>3, <1>5, <1>6, RowRewritten DEF RowBecomes
<1>8. \A v \in Workers : job'[v].op = "write" =>
        job[v].op = "write" /\ job'[v] = job[v] /\ job[v].token # t
  BY <1>1, <1>3, <1>5, UploadsAssumption DEF Others, Before, InductiveInv, TokensInv
<1>9. session.uploaded_size = session.total_size
  BY DEF ClaimComplete
<1>10. RowsInv'
  BY <1>2, <1>7, <1>8, <1>9 DEF RowsInv, RowBecomes, Owns, Before, BookInv
<1> QED
  BY <1>7, <1>10 DEF BookInv

LEMMA BookRelease ==
  ASSUME Before, After, NEW w \in Workers, Release(w)
  PROVE  BookInv' /\ Maps
<1>1. Ends(w) /\ UNCHANGED <<parts, file, part_objects, used, accepted>>
  BY FinishEnds DEF Release, store, Before, TypeOK
<1>2. CASE session' = session
  BY <1>1, <1>2, EndsNow
<1>3. CASE session' # session
  <2>1. Present /\ session' = [session EXCEPT !.operation_state = "uploading",
                                              !.operation_token = NoToken, !.operation_fresh = FALSE]
    BY <1>3 DEF Release
  <2>2. RowBecomes("uploading", NoToken, session.object_name, session.total_size, session.uploaded_size,
                   session.updated_fresh, FALSE)
    BY <2>1, UploadsAssumption DEF RowBecomes, Session, Before, TypeOK
  <2>3. Others(w) /\ job'[w].op = "none" /\ ~Cleaned(job'[w]) /\ ~Cleaning(job'[w])
    BY <1>1 DEF Ends, Cleaned, Cleaning
  <2>4. Present' /\ used' # {}
    BY <1>1, <2>1, <2>2 DEF Present, RowBecomes, Before, InductiveInv, PhaseInv
  <2>5. /\ PartObjectsInv' /\ Maps
        /\ session'.total_size \in Sizes /\ session'.uploaded_size <= session'.total_size
        /\ Tiles(parts', session'.uploaded_size)
    BY <1>1, <2>1, <2>2, <2>3, <2>4, RowRewritten DEF RowBecomes
  <2>6. \A v \in Workers : job'[v].op = "write" => job[v].op = "write" /\ job'[v] = job[v] /\ job[v].token # NoToken
    BY <2>3 DEF Others, Before, InductiveInv, TokensInv
  <2>7. RowsInv'
    BY <2>2, <2>5, <2>6 DEF RowsInv, RowBecomes, Owns, Before, BookInv
  <2> QED
    BY <2>5, <2>7 DEF BookInv
<1> QED
  BY <1>2, <1>3

LEMMA BookReapClaim ==
  ASSUME Before, After, NEW w \in Workers, ReapClaim(w)
  PROVE  BookInv' /\ Maps
<1>1. CASE ~Stale
  BY <1>1, GoMoves, MovesOn DEF ReapClaim, Before, TypeOK, store, Onward, Steps
<1>2. CASE Stale
  <2>1. PICK t \in Tokens :
          /\ t \notin used /\ used' = used \cup {t}
          /\ session' = [session EXCEPT !.operation_state = "cleaning", !.operation_token = t,
                                        !.operation_fresh = TRUE]
          /\ job' = [job EXCEPT ![w].step = "object", ![w].token = t]
    BY <1>2 DEF ReapClaim, FreshToken
  <2>2. RowBecomes("cleaning", t, session.object_name, session.total_size, session.uploaded_size,
                   session.updated_fresh, TRUE)
    BY <2>1 DEF RowBecomes, Session, Before, TypeOK
  <2> DEFINE k == [job[w] EXCEPT !.step = "object", !.token = t]
  <2>3. k.op = "reap" /\ k.step = "object"
    BY DEF ReapClaim, At, Before, TypeOK, Job
  <2>4. job' = [job EXCEPT ![w] = k] /\ job \in [Workers -> Job]
    BY <2>1 DEF Before, TypeOK
  <2> HIDE DEF k
  <2>5. Others(w) /\ job'[w] = k /\ ~Cleaned(k) /\ ~Cleaning(k)
    BY <2>3, <2>4, Rewritten DEF Cleaned, Cleaning
  <2>6. UNCHANGED <<parts, file, part_objects, accepted>> /\ Present /\ Present' /\ used' # {} /\ ~session.updated_fresh
    BY <1>2, <2>1, <2>2 DEF ReapClaim, store, Present, RowBecomes, Stale
  <2>7. /\ PartObjectsInv' /\ Maps
        /\ session'.total_size \in Sizes /\ session'.uploaded_size <= session'.total_size
        /\ Tiles(parts', session'.uploaded_size)
    BY <2>2, <2>3, <2>5, <2>6, RowRewritten DEF RowBecomes
  <2>8. \A v \in Workers : job'[v].op = "write" =>
          job[v].op = "write" /\ job'[v] = job[v] /\ job[v].token # t
    BY <2>1, <2>3, <2>5, UploadsAssumption DEF Others, Before, InductiveInv, TokensInv
  <2>9. RowsInv'
    BY <2>2, <2>6, <2>7, <2>8 DEF RowsInv, RowBecomes, Owns, Before, BookInv
  <2> QED
    BY <2>7, <2>9 DEF BookInv
<1> QED
  BY <1>1, <1>2

-----------------------------------------------------------------------------
(* Writing a chunk.                                                        *)

\* Who does object I/O is alone with the session: nobody removes its objects.
LEMMA AloneInObjectIO ==
  ASSUME Before, NEW w \in Workers, InObjectIO(w)
  PROVE  /\ Present /\ file.state = "none" /\ Owns(w) /\ job[w].token # NoToken
         /\ \A v \in Workers \ {w} : ~InObjectIO(v)
         /\ \A v \in Workers \ {w} : ~Cleaned(job[v]) /\ ~Cleaning(job[v])
<1>1. io_lock = w /\ Owns(w) /\ \A v \in Workers : InObjectIO(v) => io_lock = v
  BY DEF Before, InductiveInv, LockInv
<1>2. job[w].token # NoToken
  BY DEF Before, InductiveInv, TokensInv, InObjectIO
<1>3. Present
  BY <1>1, <1>2 DEF Before, InductiveInv, RowInv, Owns, Present
<1>4. file.state = "none"
  BY <1>3 DEF Before, InductiveInv, PhaseInv
<1>5. \A v \in Workers \ {w} : ~InObjectIO(v)
  BY <1>1
<1>6. \A v \in Workers : ~Cleaning(job[v])
  BY <1>4 DEF Before, BookInv, PartObjectsInv
<1>7. \A v \in Workers \ {w} : ~Cleaned(job[v])
  BY <1>4, <1>5, <1>6 DEF Cleaned, Cleaning, InObjectIO, Before, InductiveInv, PhaseInv
<1> QED
  BY <1>1, <1>2, <1>3, <1>4, <1>5, <1>6, <1>7

LEMMA BookPutPart ==
  ASSUME Before, After, NEW w \in Workers, PutPart(w) \/ PutPartFails(w)
  PROVE  BookInv' /\ Maps
<1>1. /\ job[w].op = "write" /\ job[w].step = "put" /\ InObjectIO(w)
      /\ UNCHANGED <<session, parts, file, used, accepted>>
  BY DEF PutPart, PutPartFails, At, InObjectIO
<1>2. part_objects \subseteq part_objects'
  BY DEF PutPart, PutPartFails
<1>3. /\ Moves(w, "persist") \/ Moves(w, "abandon")
      /\ job'[w].step = "persist" => job[w].token \in part_objects'
  BY GoMoves DEF PutPart, PutPartFails, Before, TypeOK, Steps, Moves
<1>4. /\ Others(w) /\ job'[w].op = "write" /\ job'[w].token = job[w].token
      /\ job'[w].offset = job[w].offset /\ job'[w].size = job[w].size
      /\ job'[w].step \in {"persist", "abandon"}
  BY <1>1, <1>3 DEF Moves
<1>5. RowsInv'
  BY <1>1, <1>4, RowsFrame
<1>6. PartObjectsInv'
  <2>1. Expired => Expired'
    BY DEF After, KeepsExpired
  <2>2. \A v \in Workers : ~Cleaned(job'[v]) /\ ~Cleaning(job'[v])
    BY <1>1, <1>4, AloneInObjectIO DEF Others, Cleaned, Cleaning
  <2>3. Present /\ Present'
    BY <1>1, AloneInObjectIO DEF Present
  <2> QED
    BY <1>1, <1>2, <1>3, <1>4, <2>1, <2>2, <2>3 DEF PartObjectsInv, Before, BookInv, At, Others
<1>7. Maps
  BY <1>1, SamePhase
<1> QED
  BY <1>5, <1>6, <1>7 DEF BookInv

\* What both persist actions do when the transaction commits.
LEMMA BookCommitPart ==
  ASSUME Before, After, NEW w \in Workers, At(w, "write", "persist"), NEW s \in Onward, Moves(w, s),
         Refreshable(w), session.operation_state = "writing", CommitPart(w),
         UNCHANGED <<file, store, used>>
  PROVE  BookInv' /\ Maps
<1>1. /\ job[w].op = "write" /\ InObjectIO(w) /\ job[w].token \in part_objects
      /\ Present /\ Owns(w) /\ session.operation_fresh
  BY DEF At, InObjectIO, Before, BookInv, PartObjectsInv, Refreshable
<1>2. /\ job[w].token \in Tokens /\ job[w].size \in Nat \ {0} /\ job[w].size \in ChunkSizes
      /\ job[w].offset \in Nat /\ job[w].offset = session.uploaded_size
      /\ job[w].offset + job[w].size <= session.total_size
      /\ session.total_size \in Nat
  BY <1>1, UploadsAssumption DEF Before, TypeOK, Job, Session, InductiveInv, TokensInv, BookInv, RowsInv
<1>3. RowBecomes("uploading", NoToken, session.object_name, session.total_size,
                 job[w].offset + job[w].size, TRUE, FALSE)
  <2>1. job[w].offset + job[w].size \in Nat
    BY <1>2
  <2> QED
    BY <2>1 DEF CommitPart, RowBecomes, Before, TypeOK, Session
<1> DEFINE p == PartOf(w)
<1>4. p \in Part /\ p.offset = job[w].offset /\ p.size = job[w].size /\ p.token = job[w].token
  BY <1>2 DEF PartOf, Part
<1>5. parts' = parts \cup {p} /\ accepted' = accepted \cup {p}
  BY DEF CommitPart
<1>6. p = [offset |-> job[w].offset, size |-> job[w].size, token |-> job[w].token]
  BY DEF PartOf
<1> HIDE DEF p
<1>7. parts \subseteq Part /\ Tiles(parts, job[w].offset) /\ session.total_size \in Sizes
  BY <1>1, <1>2 DEF Before, TypeOK, BookInv, RowsInv
<1>8. Tiles(parts \cup {p}, job[w].offset + job[w].size)
  BY <1>2, <1>4, <1>7, TilesGrow
<1>9. Tiles(parts', session'.uploaded_size)
  BY <1>3, <1>5, <1>8 DEF RowBecomes
<1>10. \A v \in Workers : job'[v].op = "write" =>
         job[v].op = "write" /\ job'[v].size = job[v].size /\ job'[v].token = job[v].token /\ job[v].token # NoToken
  BY DEF Moves, Others, Before, InductiveInv, TokensInv
<1>11. session'.uploaded_size <= session'.total_size /\ session'.total_size \in Sizes
  BY <1>2, <1>3, <1>7 DEF RowBecomes
<1>12. RowsInv'
  BY <1>3, <1>9, <1>10, <1>11 DEF RowsInv, RowBecomes, Owns, Before, BookInv
<1>13. ~Expired /\ ~Expired' /\ Present' /\ part_objects' = part_objects /\ file' = file
  BY <1>1, <1>3 DEF Expired, RowBecomes, Present, store
<1>14. PartObjectsInv'
  <2>1. \A v \in Workers : ~Cleaned(job'[v]) /\ ~Cleaning(job'[v])
    BY <1>1, AloneInObjectIO DEF Moves, Others, Cleaned, Cleaning, Onward
  <2>2. \A q \in parts' : q.token \in part_objects
    BY <1>1, <1>4, <1>5, <1>13 DEF Before, BookInv, PartObjectsInv
  <2>3. \A v \in Workers : At(v, "write", "persist")' => job'[v].token \in part_objects
    BY DEF Moves, Others, Onward, At, Before, BookInv, PartObjectsInv
  <2> QED
    BY <1>13, <2>1, <2>2, <2>3 DEF PartObjectsInv
<1>15. Lifecycle!Receive
  <2>1. parts = accepted /\ file.state = "none" /\ used # {} /\ used' = used
    BY <1>1 DEF Before, InductiveInv, PhaseInv
  <2>2. Phase = "open" /\ Phase' = "open"
    BY <1>13, <2>1 DEF Phase
  <2>3. Missing = session.total_size - session.uploaded_size /\ Missing' = session'.total_size - session'.uploaded_size
    BY <2>2 DEF Missing
  <2>4. Missing' = Missing - job[w].size /\ job[w].size <= Missing
    BY <1>2, <1>3, <2>3 DEF RowBecomes
  <2>5. \A c \in accepted : c.offset + c.size <= job[w].offset
    BY <1>7, <2>1 DEF Tiles
  <2>6. job[w].offset = 0 \/ \E c \in accepted : c.offset + c.size = job[w].offset
    BY <1>2, <1>7, <2>1, TilesEnd
  <2>7. Lifecycle!NextOffset(job[w].offset)
    BY <2>5, <2>6 DEF Lifecycle!NextOffset
  <2>8. job[w].offset \in {0} \cup {c.offset + c.size : c \in accepted}
    BY <2>6
  <2>9. Served' = Served
    BY <1>13, <2>1 DEF Served
  <2> QED
    BY <1>2, <1>5, <1>6, <2>2, <2>4, <2>7, <2>8, <2>9 DEF Lifecycle!Receive
<1> QED
  BY <1>12, <1>14, <1>15 DEF BookInv, Maps, Lifecycle!Next

LEMMA BookPersistPart ==
  ASSUME Before, After, NEW w \in Workers, PersistPart(w) \/ PersistPartFails(w)
  PROVE  BookInv' /\ Maps
<1>1. At(w, "write", "persist") /\ (Moves(w, "done") \/ Moves(w, "abandon")) /\ UNCHANGED <<file, store, used>>
  BY GoMoves DEF PersistPart, PersistPartFails, Before, TypeOK, Steps
<1>2. \/ Refreshable(w) /\ session.operation_state = "writing" /\ CommitPart(w)
      \/ UNCHANGED <<session, parts, accepted>>
  BY DEF PersistPart, PersistPartFails
<1>3. "done" \in Onward /\ "abandon" \in Onward
  BY DEF Onward
<1> QED
  BY <1>1, <1>2, <1>3, BookCommitPart, MovesOn DEF store

-----------------------------------------------------------------------------
(* The final transaction.                                                  *)

LEMMA BookCommitFile ==
  ASSUME Before, After, NEW w \in Workers, At(w, "complete", "finalize"), OwnsCompletion(w), CommitFile(w),
         Others(w), job'[w].op # "write", ~Cleaned(job'[w]),
         UNCHANGED <<store, used, accepted>>
  PROVE  BookInv' /\ Maps
<1>1. /\ file'.state = "live" /\ file'.parts_pending
      /\ session'.operation_state = "absent" /\ session'.operation_token = NoToken
      /\ parts' = {} /\ part_objects' = part_objects
  BY DEF CommitFile, NoSession, store
<1>2. /\ Present /\ session.operation_state = "completing" /\ session.operation_fresh
      /\ session.uploaded_size = session.total_size
  BY DEF OwnsCompletion, Refreshable, Before, BookInv, RowsInv
<1>3. file.state = "none" /\ used # {} /\ ~Expired
  BY <1>2 DEF Before, InductiveInv, PhaseInv, Expired, Present
<1>4. \A v \in Workers : job'[v].op = "write" => job'[v] = job[v] /\ job[v].token # NoToken
  BY DEF Others, Before, InductiveInv, TokensInv
<1>5. RowsInv'
  BY <1>1, <1>4 DEF RowsInv, Present, Owns, Before, BookInv
<1>6. PartObjectsInv'
  <2>1. \A v \in Workers : Cleaned(job'[v]) => part_objects = {}
    BY DEF Others, Before, BookInv, PartObjectsInv
  <2> QED
    BY <1>1, <2>1 DEF PartObjectsInv, Present, Others, At, Before, BookInv
<1>7. Lifecycle!Store
  <2>1. Phase = "open" /\ Phase' = "stored"
    BY <1>1, <1>3 DEF Phase
  <2>2. session.total_size \in Nat
    BY DEF Before, TypeOK, Session
  <2>3. Missing = 0 /\ Missing' = 0
    BY <1>2, <2>1, <2>2 DEF Missing
  <2>4. Served' = accepted
    BY <1>1 DEF Served, After, InductiveInv, CommittedFileIntact
  <2> QED
    BY <2>1, <2>3, <2>4 DEF Lifecycle!Store
<1> QED
  BY <1>5, <1>6, <1>7 DEF BookInv, Maps, Lifecycle!Next

LEMMA BookFinalize ==
  ASSUME Before, After, NEW w \in Workers, Finalize(w) \/ CommitUncertain(w)
  PROVE  BookInv' /\ Maps
<1>1. At(w, "complete", "finalize") /\ UNCHANGED <<store, used, accepted>>
  BY DEF Finalize, CommitUncertain
<1>2. CASE Finalize(w) /\ OwnsCompletion(w)
  <2>1. CommitFile(w) /\ Moves(w, "prefix")
    BY <1>2, GoMoves DEF Finalize, Before, TypeOK, Steps
  <2>2. Others(w) /\ job'[w].op # "write" /\ ~Cleaned(job'[w])
    BY <1>1, <2>1 DEF Moves, Cleaned, At
  <2> QED
    BY <1>1, <1>2, <2>1, <2>2, BookCommitFile
<1>3. CASE Finalize(w) /\ ~OwnsCompletion(w)
  BY <1>3, GoMoves, MovesOn DEF Finalize, Before, TypeOK, Steps, Onward, store
<1>4. CASE CommitUncertain(w)
  <2>1. Ends(w) /\ OwnsCompletion(w) /\ (CommitFile(w) \/ UNCHANGED <<session, parts, file>>)
    BY <1>4, FinishEnds DEF CommitUncertain, Before, TypeOK
  <2>2. Others(w) /\ job'[w].op # "write" /\ ~Cleaned(job'[w])
    BY <2>1 DEF Ends, Cleaned
  <2>3. CASE CommitFile(w)
    BY <1>1, <2>1, <2>2, <2>3, BookCommitFile
  <2>4. CASE UNCHANGED <<session, parts, file>>
    BY <1>1, <2>1, <2>4, EndsNow DEF store
  <2> QED
    BY <2>1, <2>3, <2>4
<1> QED
  BY <1>2, <1>3, <1>4

-----------------------------------------------------------------------------
(* Removing the temporary objects, the file, a stale session.              *)

\* Nobody is about to record a part whose object goes.
LEMMA PartObjectsGo ==
  ASSUME Before, After, NEW w \in Workers, Others(w), UNCHANGED <<session, parts, file>>,
         part_objects' \subseteq part_objects, Expired \/ file.state # "none",
         \A v \in Workers : ~At(v, "write", "persist"),
         job'[w].op # "write",
         Cleaned(job'[w]) => part_objects' = {},
         Cleaning(job'[w]) => file.state # "none"
  PROVE  PartObjectsInv'
<1>1. Present' /\ ~Expired' => FALSE
  BY DEF After, KeepsExpired, Before, InductiveInv, PhaseInv, Present
<1>2. part_objects' # {} => Present' \/ file'.parts_pending
  BY DEF Before, BookInv, PartObjectsInv, Present
<1>3. \A v \in Workers : ~At(v, "write", "persist")'
  BY DEF Others, At
<1>4. \A v \in Workers : (Cleaned(job'[v]) => part_objects' = {}) /\ (Cleaning(job'[v]) => file.state # "none")
  BY DEF Others, Before, BookInv, PartObjectsInv
<1> QED
  BY <1>1, <1>2, <1>3, <1>4 DEF PartObjectsInv

LEMMA NobodyPersists ==
  ASSUME Before, NEW w \in Workers, file.state # "none" \/ (InObjectIO(w) /\ job[w].op = "reap")
  PROVE  \A v \in Workers : ~At(v, "write", "persist")
<1> SUFFICES ASSUME NEW v \in Workers, At(v, "write", "persist")
             PROVE  FALSE
  OBVIOUS
<1>1. InObjectIO(v) /\ job[v].op = "write"
  BY DEF At, InObjectIO
<1>2. file.state = "none" /\ \A u \in Workers \ {v} : ~InObjectIO(u)
  BY <1>1, AloneInObjectIO
<1> QED
  BY <1>1, <1>2

LEMMA BookClean ==
  ASSUME Before, After, NEW w \in Workers, CleanPrefix(w) \/ CleanPrefixFails(w)
  PROVE  BookInv' /\ Maps
<1>1. /\ UNCHANGED <<session, parts, file, used, accepted>>
      /\ job[w].op \notin {"write", "reap"} /\ job[w].step = "prefix"
      /\ part_objects' \subseteq part_objects
  BY DEF CleanPrefix, CleanPrefixFails
<1>2. file.state # "none"
  BY <1>1 DEF Before, BookInv, PartObjectsInv, Cleaning
<1>3. (Moves(w, "flag") /\ part_objects' = {}) \/ Ends(w)
  BY GoMoves, FinishEnds DEF CleanPrefix, CleanPrefixFails, Before, TypeOK, Steps
<1>4. Others(w) /\ job'[w].op # "write" /\ (Cleaned(job'[w]) => part_objects' = {})
  BY <1>1, <1>3 DEF Moves, Ends, Cleaned
<1>5. RowsInv'
  BY <1>1, <1>4, RowsFrame
<1>6. PartObjectsInv'
  BY <1>1, <1>2, <1>4, PartObjectsGo, NobodyPersists
<1>7. Maps
  BY <1>1, SamePhase
<1> QED
  BY <1>5, <1>6, <1>7 DEF BookInv

LEMMA BookClearPartsPending ==
  ASSUME Before, After, NEW w \in Workers, ClearPartsPending(w)
  PROVE  BookInv' /\ Maps
<1>1. UNCHANGED <<session, parts, part_objects, used, accepted>> /\ job[w].step = "flag"
  BY DEF ClearPartsPending, store
<1>2. file.state # "none" /\ job[w].op # "reap" /\ part_objects = {}
  BY <1>1 DEF Before, BookInv, PartObjectsInv, Cleaning, Cleaned, InductiveInv, PhaseInv
<1>3. (Moves(w, "object") /\ job[w].op = "delete") \/ Ends(w)
  BY GoMoves, FinishEnds DEF ClearPartsPending, Before, TypeOK, Steps
<1>4. Others(w) /\ job'[w].op # "write" /\ ~Cleaning(job'[w])
  BY <1>3 DEF Moves, Ends, Cleaning
<1>5. file'.state = file.state
  BY DEF ClearPartsPending, Before, TypeOK, File
<1>6. RowsInv'
  BY <1>1, <1>4, RowsFrame
<1>7. PartObjectsInv'
  <2>1. \A v \in Workers : ~At(v, "write", "persist")'
    BY <1>2, <1>4, NobodyPersists DEF Others, At
  <2>2. \A v \in Workers : Cleaning(job'[v]) => file.state # "none"
    BY <1>2
  <2>3. ~Present'
    BY <1>1, <1>2 DEF Before, InductiveInv, PhaseInv, Present
  <2> QED
    BY <1>1, <1>2, <1>5, <2>1, <2>2, <2>3 DEF PartObjectsInv
<1>8. Maps
  BY <1>1, <1>5, SamePhase
<1> QED
  BY <1>6, <1>7, <1>8 DEF BookInv

LEMMA BookMarkDeleted ==
  ASSUME Before, After, NEW w \in Workers, MarkDeleted(w)
  PROVE  BookInv' /\ Maps
<1> DEFINE k == [Idle EXCEPT !.op = "delete", !.step = IF file.parts_pending THEN "prefix" ELSE "object",
                             !.previous = file.object_name]
<1>1. k.op = "delete" /\ k.step = IF file.parts_pending THEN "prefix" ELSE "object"
  BY DEF Idle
<1>2. job' = [job EXCEPT ![w] = k] /\ job \in [Workers -> Job]
  BY DEF MarkDeleted, Before, TypeOK
<1> HIDE DEF k
<1>3. Others(w) /\ job'[w].op = "delete" /\ (Cleaned(job'[w]) => ~file.parts_pending)
  BY <1>1, <1>2, Rewritten DEF Cleaned
<1>4. /\ UNCHANGED <<session, parts, part_objects, used, accepted>>
      /\ file.state \in {"live", "deleting"} /\ file'.state = "deleting"
      /\ file'.parts_pending = file.parts_pending
  BY DEF MarkDeleted, store, Before, TypeOK, File
<1>5. ~Present /\ ~Present'
  BY <1>4 DEF Before, InductiveInv, PhaseInv, Present
<1>6. RowsInv'
  BY <1>3, <1>4, RowsFrame
<1>7. PartObjectsInv'
  <2>1. \A v \in Workers : Cleaned(job'[v]) => part_objects = {}
    BY <1>3, <1>5 DEF Others, Before, BookInv, PartObjectsInv
  <2>2. \A v \in Workers : ~At(v, "write", "persist")'
    BY <1>3, <1>4, NobodyPersists DEF Others, At
  <2> QED
    BY <1>4, <1>5, <2>1, <2>2 DEF PartObjectsInv, Before, BookInv
<1>8. Maps
  <2>1. CASE file.state = "deleting"
    BY <1>4, <2>1, SamePhase
  <2>2. CASE file.state = "live"
    <3>1. Phase = "stored" /\ Phase' = "deleting"
      BY <1>4, <2>2 DEF Phase, Before, InductiveInv, PhaseInv
    <3>2. Missing = 0 /\ Missing' = 0
      BY <3>1 DEF Missing
    <3>3. Served' = {}
      BY <1>4 DEF Served
    <3> QED
      BY <1>4, <3>1, <3>2, <3>3 DEF Maps, Lifecycle!Next, Lifecycle!MarkDeleted
  <2> QED
    BY <1>4, <2>1, <2>2
<1> QED
  BY <1>6, <1>7, <1>8 DEF BookInv

LEMMA BookFinishDelete ==
  ASSUME Before, After, NEW w \in Workers, FinishDelete(w)
  PROVE  BookInv' /\ Maps
<1>1. /\ UNCHANGED <<session, parts, part_objects, used, accepted>> /\ Ends(w)
      /\ job[w].op = "delete" /\ job[w].step = "row"
  BY FinishEnds DEF FinishDelete, store, At, Before, TypeOK
<1>2. CASE file.state # "deleting"
  BY <1>1, <1>2, EndsNow DEF FinishDelete
<1>3. CASE file.state = "deleting"
  <2>1. file'.state = "gone"
    BY <1>3 DEF FinishDelete, NoFile
  <2>2. part_objects = {}
    BY <1>1 DEF Before, BookInv, PartObjectsInv, Cleaned
  <2>3. Others(w) /\ job'[w].op = "none"
    BY <1>1 DEF Ends
  <2>4. RowsInv'
    BY <1>1, <2>3, RowsFrame
  <2>5. ~Present' /\ \A v \in Workers : ~At(v, "write", "persist")'
    BY <1>1, <1>3, <2>3, NobodyPersists DEF Others, At, Before, InductiveInv, PhaseInv, Present
  <2>6. PartObjectsInv'
    BY <1>1, <2>1, <2>2, <2>5 DEF PartObjectsInv
  <2>7. Phase = "deleting" /\ Phase' = "deleted" /\ Served' = Served
    BY <1>1, <1>3, <2>1 DEF Phase, Served, Before, InductiveInv, PhaseInv
  <2>8. Missing = 0 /\ Missing' = 0
    BY <2>7 DEF Missing
  <2> QED
    BY <1>1, <2>4, <2>6, <2>7, <2>8 DEF BookInv, Maps, Lifecycle!Next, Lifecycle!Remove
<1> QED
  BY <1>2, <1>3

LEMMA BookReapParts ==
  ASSUME Before, After, NEW w \in Workers, ReapPrefix(w) \/ ReapFails(w)
  PROVE  BookInv' /\ Maps
<1>1. /\ UNCHANGED <<session, parts, file, used, accepted>>
      /\ job[w].op = "reap" /\ InObjectIO(w) /\ part_objects' \subseteq part_objects
  BY DEF ReapPrefix, ReapFails, InObjectIO, At
<1>2. (Moves(w, "row") /\ part_objects' = {}) \/ Moves(w, "abandon")
  BY GoMoves DEF ReapPrefix, ReapFails, Before, TypeOK, Steps
<1>3. /\ Others(w) /\ job'[w].op = "reap" /\ ~Cleaning(job'[w])
      /\ Cleaned(job'[w]) => part_objects' = {}
  BY <1>1, <1>2 DEF Moves, Cleaned, Cleaning
<1>4. RowsInv'
  BY <1>1, <1>3, RowsFrame
<1>5. Expired
  BY <1>1 DEF Before, InductiveInv, PhaseInv
<1>6. PartObjectsInv'
  BY <1>1, <1>3, <1>5, PartObjectsGo, NobodyPersists
<1>7. Maps
  BY <1>1, SamePhase
<1> QED
  BY <1>4, <1>6, <1>7 DEF BookInv

LEMMA BookReapRow ==
  ASSUME Before, After, NEW w \in Workers, ReapRow(w)
  PROVE  BookInv' /\ Maps
<1>1. /\ UNCHANGED <<file, part_objects, used, accepted>> /\ Moves(w, "done")
      /\ job[w].op = "reap" /\ job[w].step = "row" /\ InObjectIO(w)
  BY GoMoves DEF ReapRow, store, At, InObjectIO, Before, TypeOK, Steps
<1>2. CASE UNCHANGED <<session, parts>>
  BY <1>1, <1>2, MovesOn DEF Onward
<1>3. CASE session' = NoSession /\ parts' = {}
  <2>1. session'.operation_state = "absent" /\ session'.operation_token = NoToken
    BY <1>3 DEF NoSession
  <2>2. /\ Expired /\ part_objects = {}
        /\ \A v \in Workers : ~At(v, "write", "persist")
    BY <1>1, NobodyPersists DEF Before, InductiveInv, PhaseInv, BookInv, PartObjectsInv, Cleaned
  <2>3. Others(w) /\ job'[w].op = "reap" /\ ~Cleaning(job'[w])
    BY <1>1 DEF Moves, Cleaning
  <2>4. \A v \in Workers : job'[v].op = "write" => job'[v] = job[v] /\ job[v].token # NoToken
    BY <2>3 DEF Others, Before, InductiveInv, TokensInv
  <2>5. RowsInv'
    BY <2>1, <2>4 DEF RowsInv, Present, Owns, Before, BookInv
  <2>6. PartObjectsInv'
    BY <1>1, <2>1, <2>2, <2>3 DEF PartObjectsInv, Present, Others, At, Before, BookInv
  <2>7. Maps
    BY <1>1, <2>2, SamePhase
  <2> QED
    BY <2>5, <2>6, <2>7 DEF BookInv
<1> QED
  BY <1>2, <1>3 DEF ReapRow

-----------------------------------------------------------------------------
(* The theorems.                                                           *)

LEMMA BookInit ==
  ASSUME Init
  PROVE  BookInv /\ Lifecycle!Init
<1> USE DEF Init
<1>1. /\ session.operation_state = "absent" /\ file.state = "none" /\ ~file.parts_pending
      /\ used = {} /\ part_objects = {}
  BY DEF NoSession, NoFile
<1>2. \A w \in Workers : job[w].op = "none" /\ job[w].step = "idle"
  BY DEF Idle
<1>3. RowsInv
  BY <1>1, <1>2 DEF RowsInv, Present
<1>4. PartObjectsInv
  BY <1>1, <1>2 DEF PartObjectsInv, Present, At, Cleaned, Cleaning
<1>5. Phase = "new" /\ Served = {}
  BY <1>1 DEF Phase, Served
<1>6. Missing = 0
  BY <1>5 DEF Missing
<1> QED
  BY <1>3, <1>4, <1>5, <1>6 DEF BookInv, Lifecycle!Init

LEMMA BookStutter ==
  ASSUME Before, After, UNCHANGED vars
  PROVE  BookInv' /\ Maps
<1> USE DEF vars
<1>1. Tiles(parts, session.uploaded_size) => Tiles(parts', session'.uploaded_size)
  OBVIOUS
<1>2. RowsInv'
  BY <1>1 DEF Before, BookInv, RowsInv, Present, Owns
<1>3. PartObjectsInv'
  BY DEF Before, BookInv, PartObjectsInv, Present, Expired, At
<1>4. Maps
  BY SamePhase
<1> QED
  BY <1>2, <1>3, <1>4 DEF BookInv

LEMMA BookStep ==
  ASSUME Before, [Next]_vars
  PROVE  After /\ BookInv' /\ Maps
<1>1. After
  BY NextStep DEF Before, After
<1>2. CASE UNCHANGED vars
  BY <1>1, <1>2, BookStutter
<1>3. CASE StartUpload \/ SessionExpires \/ OperationExpires
  BY <1>1, <1>3, BookStartUpload, BookTime
<1>4. ASSUME NEW w \in Workers, WriteUploadChunk(w) \/ OperationClaim(w)
      PROVE  BookInv' /\ Maps
  BY <1>1, <1>4, BookClaimWrite, BookPutPart, BookPersistPart, BookOperationClaim, BookRelease
  DEF WriteUploadChunk, OperationClaim
<1>5. ASSUME NEW w \in Workers, CompleteUpload(w)
      PROVE  BookInv' /\ Maps
  BY <1>1, <1>5, BookClaimComplete, BookComplete, BookFinalize DEF CompleteUpload
<1>6. ASSUME NEW w \in Workers, CleanupUploadParts(w) \/ Delete(w)
      PROVE  BookInv' /\ Maps
  BY <1>1, <1>6, BookBegin, BookClean, BookClearPartsPending, BookMarkDeleted, BookFinishDelete
  DEF CleanupUploadParts, Delete
<1>7. ASSUME NEW w \in Workers, ReapStaleUpload(w) \/ Crash(w)
      PROVE  BookInv' /\ Maps
  BY <1>1, <1>7, BookBegin, BookReapClaim, BookReapParts, BookReapRow DEF ReapStaleUpload
<1> QED
  BY <1>1, <1>2, <1>3, <1>4, <1>5, <1>6, <1>7 DEF Next

\* The books of an upload, in every reachable state: the part rows tile the
\* bytes below uploaded_size, an operation that owns the row knows that size,
\* and temporary objects match the rows.
THEOREM BooksAreKept == Spec => []Before
<1>1. Init => Before
  BY InitInv, BookInit DEF Before
<1>2. Before /\ [Next]_vars => Before'
  BY BookStep DEF Before, After
<1> QED
  BY <1>1, <1>2, PTL DEF Spec

\* Every byte below uploaded_size is in exactly one part row, and what a
\* client is told of its upload agrees with the phase the upload is in.
THEOREM UploadsAccountedFor == Spec => []UploadAccountedFor
<1>1. Before => PartsTileUpload
  <2> SUFFICES ASSUME Before, Present, NEW k \in 0 .. session.total_size
               PROVE  Cardinality({p \in parts : p.offset <= k /\ k < p.offset + p.size})
                        = IF k < session.uploaded_size THEN 1 ELSE 0
    BY DEF PartsTileUpload
  <2>1. parts \subseteq Part /\ session.uploaded_size \in Nat /\ session.total_size \in Nat
        /\ Tiles(parts, session.uploaded_size)
    BY DEF Before, TypeOK, Session, BookInv, RowsInv
  <2>2. k \in Nat
    BY <2>1
  <2> QED
    BY <2>1, <2>2, TilesOnce
<1>2. Before => StatusTellsPhase
  <2> SUFFICES ASSUME Before
               PROVE  StatusTellsPhase
    OBVIOUS
  <2>1. file.state # "none" => ~Present
    BY DEF Before, InductiveInv, PhaseInv
  <2>2. used = {} => ~Present /\ file.state = "none"
    BY DEF Before, InductiveInv, PhaseInv
  <2>3. file.state \in {"none", "live", "deleting", "gone"}
    BY DEF Before, TypeOK, File
  <2>4. Phase = "open" => UploadStatus = "open"
    <3> SUFFICES ASSUME Phase = "open"
                 PROVE  UploadStatus = "open"
      OBVIOUS
    <3>1. ~Expired /\ used # {}
      BY <2>3 DEF Phase
    <3>2. Present /\ file.state # "live"
      BY <2>1, <3>1 DEF Expired
    <3>3. IF session.operation_state = "uploading" THEN session.updated_fresh ELSE session.operation_fresh
      BY <3>1, <3>2 DEF Expired, Present, Before, BookInv, RowsInv, TypeOK, Session
    <3> QED
      BY <3>2, <3>3 DEF UploadStatus
  <2>5. Phase = "stored" <=> UploadStatus = "complete"
    BY <2>1, <2>2, <2>3 DEF Phase, UploadStatus
  <2>6. Phase = "expired" /\ UploadStatus = "open" => session.operation_state = "cleaning"
    BY <2>1, <2>2, <2>3 DEF Phase, UploadStatus, Expired
  <2>7. UploadStatus = "open" => \A p \in accepted : p.offset + p.size <= session.uploaded_size
    BY DEF UploadStatus, Before, InductiveInv, PhaseInv, BookInv, RowsInv, Tiles
  <2> QED
    BY <2>4, <2>5, <2>6, <2>7 DEF StatusTellsPhase
<1>3. Before => UploadAccountedFor
  BY <1>1, <1>2 DEF UploadAccountedFor
<1> QED
  BY <1>3, BooksAreKept, PTL

\* While its client can go on with an upload, each acknowledged chunk can be
\* read back; and no temporary object is left without a row that leads to it.
THEOREM RowsMatchPartObjects == Spec => []PartRowsAndObjectsMatch
<1>1. Before => AcknowledgedChunksReadable
  BY DEF Before, BookInv, PartObjectsInv, InductiveInv, PhaseInv, Expired, Stale, Present,
         AcknowledgedChunksReadable, RowsInv, TypeOK, Session
<1>2. Before => NoOrphanPartObjects
  BY DEF Before, BookInv, PartObjectsInv, NoOrphanPartObjects
<1>3. Before => PartRowsAndObjectsMatch
  BY <1>1, <1>2 DEF PartRowsAndObjectsMatch
<1> QED
  BY <1>3, BooksAreKept, PTL

\* Whatever handlers, reapers, failures and crashes do, the client of an
\* upload sees the life UploadLifecycle describes.
THEOREM UploadsImplementLifecycle == Spec => ImplementsLifecycle
<1>1. Init => Lifecycle!Init
  BY BookInit
<1>2. Before /\ [Next]_vars => [Lifecycle!Next]_(Lifecycle!vars)
  BY BookStep DEF Maps
<1> QED
  BY <1>1, <1>2, BooksAreKept, PTL DEF Spec, ImplementsLifecycle, Lifecycle!Spec

-----------------------------------------------------------------------------
(* The final objects.                                                      *)

\* Only a worker at one of these steps changes what an object holds.
LEMMA ContentsChange ==
  ASSUME Next, contents' # contents
  PROVE  \E v \in Workers : Others(v) /\ job[v].step \in {"drop_previous", "assemble", "discard", "object"}
<1>1. PICK v \in Workers : DropPrevious(v) \/ AssemblePart(v) \/ Discard(v) \/ DeleteObject(v) \/ ReapObject(v)
  BY DEF Next, StartUpload, SessionExpires, OperationExpires, store,
         WriteUploadChunk, ClaimWrite, PutPart, PutPartFails, PersistPart, PersistPartFails,
         CompleteUpload, ClaimComplete, OpenWriter, OpenWriterFails, CloseObject, AssembleFails, UnlockObject,
         Finalize, FinalizeFails, CommitUncertain,
         OperationClaim, Acquire, AcquireFails, Heartbeat, HeartbeatFails, Abandon, Release, Done,
         CleanupUploadParts, RetryCompleted, RecoverParts, CleanPrefix, CleanPrefixFails, ClearPartsPending,
         Delete, MarkDeleted, FinishDelete, DeleteFails,
         ReapStaleUpload, ListStale, ReapAcquire, ReapClaim, ReapPrefix, ReapFails, ReapRow, Crash
<1>2. job[v].step \in {"drop_previous", "assemble", "discard", "object"}
  BY <1>1 DEF DropPrevious, AssemblePart, Discard, DeleteObject, ReapObject, At
<1>3. \E k : job' = [job EXCEPT ![v] = k]
  BY <1>1 DEF DropPrevious, AssemblePart, Discard, DeleteObject, ReapObject, Go
<1>4. Others(v)
  BY <1>3 DEF Others
<1> QED
  BY <1>2, <1>4

\* Only the holder of a write claim acknowledges a chunk.
LEMMA AcceptedChange ==
  ASSUME Next, accepted' # accepted
  PROVE  session.operation_state = "writing"
<1>1. \E v \in Workers : PersistPart(v) \/ PersistPartFails(v)
  BY DEF Next, StartUpload, SessionExpires, OperationExpires, store,
         WriteUploadChunk, ClaimWrite, PutPart, PutPartFails,
         CompleteUpload, ClaimComplete, DropPrevious, OpenWriter, OpenWriterFails, AssemblePart, CloseObject,
         AssembleFails, UnlockObject, Finalize, FinalizeFails, CommitUncertain, Discard,
         OperationClaim, Acquire, AcquireFails, Heartbeat, HeartbeatFails, Abandon, Release, Done,
         CleanupUploadParts, RetryCompleted, RecoverParts, CleanPrefix, CleanPrefixFails, ClearPartsPending,
         Delete, MarkDeleted, DeleteObject, FinishDelete, DeleteFails,
         ReapStaleUpload, ListStale, ReapAcquire, ReapClaim, ReapObject, ReapPrefix, ReapFails, ReapRow, Crash
<1> QED
  BY <1>1 DEF PersistPart, PersistPartFails

\* The object of a completion that can still commit is touched by nobody else:
\* neither a reaper, a deletion, nor a completion that failed or came before.
THEOREM PendingObjectsSurvive == Spec => PendingObjectSurvives
<1> DEFINE Commits(w) == /\ job[w].op = "complete" /\ job[w].step \in {"unlock", "finalize"}
                         /\ OwnsCompletion(w) /\ OwnsCompletion(w)'
<1>1. ASSUME Before, Next
      PROVE  \A w \in Workers : Commits(w) => contents'[job[w].token] = accepted
  <2> SUFFICES ASSUME NEW w \in Workers, Commits(w)
               PROVE  contents'[job[w].token] = accepted
    OBVIOUS
  <2>1. /\ Owns(w) /\ Present /\ job[w].op = "complete" /\ job[w].step \in {"unlock", "finalize"}
        /\ session.operation_state = "completing" /\ OwnsCompletion(w)'
    BY DEF OwnsCompletion, Refreshable
  <2>2. contents[job[w].token] = accepted
    BY <1>1, <2>1 DEF Before, InductiveInv, ContentInv, PhaseInv
  <2>3. CASE contents' = contents
    BY <2>2, <2>3
  <2>4. CASE contents' # contents
    <3>1. job'[w] = job[w]
      BY <1>1, <2>1, <2>4, ContentsChange DEF Others
    <3>2. Owns(w)' /\ Present'
      BY <2>1 DEF OwnsCompletion, Refreshable
    <3>3. After
      BY <1>1, NextStep DEF Before, After
    <3>4. contents'[job'[w].token] = parts' /\ parts' = accepted'
      BY <2>1, <3>1, <3>2, <3>3 DEF After, InductiveInv, ContentInv, PhaseInv
    <3>5. accepted' = accepted
      BY <1>1, <2>1, AcceptedChange
    <3> QED
      BY <3>1, <3>4, <3>5
  <2> QED
    BY <2>3, <2>4
<1>2. Before /\ [Next]_vars => [\A w \in Workers : Commits(w) => contents'[job[w].token] = accepted]_vars
  BY <1>1
<1>3. (\A w \in Workers : Commits(w) => contents'[job[w].token] = accepted)
      <=> (\A w \in Workers :
             (/\ job[w].op = "complete"
              /\ job[w].step \in {"unlock", "finalize"}
              /\ OwnsCompletion(w)
              /\ OwnsCompletion(w)')
             => contents'[job[w].token] = accepted)
  OBVIOUS
<1> HIDE DEF Commits
<1> QED
  BY <1>2, <1>3, BooksAreKept, PTL DEF Spec, PendingObjectSurvives

\* The names of the final objects, when a best-effort delete never fails.
BeforeOpen == {"acquire", "heartbeat", "drop_previous", "open", "abandon", "release"}

Removed(j) ==
    \/ j.op = "reap" /\ j.step \in {"prefix", "row"}
    \/ j.op = "delete" /\ j.step = "row"

NamesInv ==
    /\ objects \subseteq {session.object_name, file.object_name}
    /\ ~Present => session.object_name = NoToken
    /\ file.state = "none" => file.object_name = NoToken
    /\ Present /\ ~Expired /\ session.operation_state \in {"uploading", "writing"} => objects = {}
    /\ file.state = "gone" => objects = {}
    /\ \A w \in Workers :
           /\ job[w].op = "complete" /\ Owns(w) => session.object_name = job[w].token
           /\ job[w].op = "complete" /\ Owns(w) /\ job[w].step \in BeforeOpen => objects = {}
           /\ job[w].op = "reap" /\ Present => job[w].previous = session.object_name
           /\ job[w].op = "delete" => job[w].previous = file.object_name \/ file.state = "gone"
           /\ Removed(job[w]) => objects = {}

\* What the job j has to do with the names, in terms of the rows.
NamesOf(j, token, present, name, f, os) ==
    /\ j.op = "complete" /\ token = j.token => name = j.token
    /\ j.op = "complete" /\ token = j.token /\ j.step \in BeforeOpen => os = {}
    /\ j.op = "reap" /\ present => j.previous = name
    /\ j.op = "delete" => j.previous = f.object_name \/ f.state = "gone"
    /\ Removed(j) => os = {}

\* No row changes its name, and no object appears.
LEMMA NamesFrame ==
  ASSUME Before, After, NamesInv, NEW w \in Workers, Others(w), session' = session,
         file'.state = file.state, file'.object_name = file.object_name, objects' \subseteq objects,
         NamesOf(job'[w], session.operation_token, Present, session.object_name, file, objects')
  PROVE  NamesInv'
<1>1. Expired => Expired'
  BY DEF After, KeepsExpired
<1>2. Present' = Present
  BY DEF Present
<1>3. \A v \in Workers : NamesOf(job'[v], session.operation_token, Present, session.object_name, file, objects')
  BY DEF Others, NamesOf, NamesInv, Owns
<1> QED
  BY <1>1, <1>2, <1>3 DEF NamesInv, NamesOf, Owns

\* The worker moves on with its operation, and no object changes.
LEMMA NamesMove ==
  ASSUME Before, After, NamesInv, NEW w \in Workers, NEW s, Moves(w, s), UNCHANGED <<session, objects>>,
         file'.state = file.state, file'.object_name = file.object_name,
         job[w].op = "complete" /\ s \in BeforeOpen => job[w].step \in BeforeOpen \/ ~Owns(w),
         job[w].op = "reap" /\ s \in {"prefix", "row"} => job[w].step \in {"prefix", "row"},
         job[w].op = "delete" => s # "row"
  PROVE  NamesInv'
<1>1. /\ job'[w].op = job[w].op /\ job'[w].token = job[w].token /\ job'[w].step = s
      /\ job'[w].previous = job[w].previous /\ Others(w)
  BY DEF Moves
<1>2. NamesOf(job'[w], session.operation_token, Present, session.object_name, file, objects')
  BY <1>1 DEF NamesOf, NamesInv, Removed, Owns
<1> QED
  BY <1>1, <1>2, NamesFrame

LEMMA NamesEnd ==
  ASSUME Before, After, NamesInv, NEW w \in Workers, Ends(w), UNCHANGED <<session, objects>>,
         file'.state = file.state, file'.object_name = file.object_name
  PROVE  NamesInv'
<1>1. job'[w].op = "none" /\ Others(w)
  BY DEF Ends
<1>2. NamesOf(job'[w], session.operation_token, Present, session.object_name, file, objects')
  BY <1>1 DEF NamesOf, Removed
<1> QED
  BY <1>1, <1>2, NamesFrame

LEMMA NamesOperationClaim ==
  ASSUME Before, After, NamesInv, NEW w \in Workers,
         Acquire(w) \/ AcquireFails(w) \/ Heartbeat(w) \/ HeartbeatFails(w) \/ Abandon(w) \/ Done(w)
  PROVE  NamesInv'
<1> USE DEF Before, TypeOK, store, BeforeOpen, Steps
<1>1. CASE Acquire(w)
  <2>1. Moves(w, "heartbeat") \/ Moves(w, "release")
    BY <1>1, GoMoves DEF Acquire
  <2> QED
    BY <1>1, <2>1, NamesMove DEF Acquire
<1>2. CASE AcquireFails(w)
  BY <1>2, GoMoves, NamesMove DEF AcquireFails
<1>3. CASE Heartbeat(w)
  <2>1. Moves(w, "put") \/ Moves(w, "drop_previous") \/ Moves(w, "abandon")
    BY <1>3, GoMoves DEF Heartbeat
  <2> QED
    BY <1>3, <2>1, NamesMove DEF Heartbeat
<1>4. CASE HeartbeatFails(w)
  BY <1>4, GoMoves, NamesMove DEF HeartbeatFails
<1>5. CASE Abandon(w)
  BY <1>5, GoMoves, NamesMove DEF Abandon
<1>6. CASE Done(w)
  BY <1>6, FinishEnds, NamesEnd DEF Done
<1> QED
  BY <1>1, <1>2, <1>3, <1>4, <1>5, <1>6

LEMMA NamesWrite ==
  ASSUME Before, After, NamesInv, NEW w \in Workers, PutPart(w) \/ PutPartFails(w) \/ PersistPart(w) \/ PersistPartFails(w)
  PROVE  NamesInv'
<1>1. /\ job[w].op = "write" /\ UNCHANGED <<file, objects>>
      /\ Moves(w, "persist") \/ Moves(w, "done") \/ Moves(w, "abandon")
  BY GoMoves DEF PutPart, PutPartFails, PersistPart, PersistPartFails, At, store, Before, TypeOK, Steps
<1>2. CASE session' = session
  BY <1>1, <1>2, NamesMove
<1>3. CASE session' # session
  <2>1. /\ CommitPart(w) /\ Refreshable(w) /\ session.operation_state = "writing"
    BY <1>3 DEF PutPart, PutPartFails, PersistPart, PersistPartFails
  <2>2. Present /\ ~Expired /\ objects = {}
    BY <2>1 DEF Refreshable, Expired, NamesInv
  <2>3. /\ session'.operation_state = "uploading" /\ session'.operation_token = NoToken
        /\ session'.object_name = session.object_name
    BY <2>1 DEF CommitPart, Before, TypeOK, Session
  <2>4. /\ job'[w].op = "write"
        /\ \A v \in Workers : job'[v].op # "write" => job'[v] = job[v]
        /\ \A v \in Workers : job'[v].op = "complete" => job'[v].token # NoToken
    BY <1>1 DEF Moves, Others, After, InductiveInv, TokensInv
  <2> QED
    BY <1>1, <2>2, <2>3, <2>4 DEF NamesInv, Present, Owns, Removed
<1> QED
  BY <1>2, <1>3

\* A session row that keeps its name, and a worker that ends or starts an
\* operation on it; other operations under way know the names as before.
LEMMA NamesRow ==
  ASSUME Before, After, NamesInv, NEW w \in Workers, Others(w), UNCHANGED <<file, objects>>,
         Present, Present', session'.object_name = session.object_name,
         session'.operation_token \notin used \ {NoToken},
         job'[w].op \notin {"complete", "delete"}, ~Removed(job'[w]),
         job'[w].op = "reap" => job'[w].previous = session.object_name,
         Expired' \/ objects = {}
  PROVE  NamesInv'
<1>1. \A v \in Workers \ {w} : job'[v] = job[v] /\ (job[v].op = "complete" => job[v].token # session'.operation_token)
  BY DEF Others, Before, InductiveInv, TokensInv
<1> QED
  BY <1>1 DEF NamesInv, Owns

LEMMA NamesTime ==
  ASSUME Before, After, NamesInv, SessionExpires \/ OperationExpires
  PROVE  NamesInv'
<1>1. /\ UNCHANGED <<file, objects, job>>
      /\ session'.operation_state = session.operation_state
      /\ session'.operation_token = session.operation_token
      /\ session'.object_name = session.object_name
  BY DEF SessionExpires, OperationExpires, store, Before, TypeOK, Session
<1>2. Expired => Expired'
  BY DEF After, KeepsExpired
<1> QED
  BY <1>1, <1>2 DEF NamesInv, Present, Owns

LEMMA NamesStart ==
  ASSUME Before, After, NamesInv, StartUpload
  PROVE  NamesInv'
<1>1. PICK size \in Sizes, t \in Tokens :
        session' = [NoSession EXCEPT !.operation_state = "uploading", !.object_name = t,
                                     !.total_size = size, !.updated_fresh = TRUE]
  BY DEF StartUpload
<1>2. session'.operation_state = "uploading" /\ session'.operation_token = NoToken
  BY <1>1 DEF NoSession
<1>3. UNCHANGED <<file, objects, job>> /\ used = {}
  BY DEF StartUpload, store
<1>4. /\ ~Present /\ ~Expired /\ file.state = "none"
      /\ \A v \in Workers : job[v].op \notin {"complete", "reap", "delete"}
  BY <1>3 DEF Before, InductiveInv, PhaseInv, TokensInv, Expired
<1>5. objects = {}
  BY <1>4, UploadsAssumption DEF NamesInv, Before, TypeOK
<1> QED
  BY <1>2, <1>3, <1>4, <1>5 DEF NamesInv, Present, Owns, Removed

LEMMA NamesClaimWrite ==
  ASSUME Before, After, NamesInv, NEW w \in Workers, ClaimWrite(w)
  PROVE  NamesInv'
<1>0. PICK t \in Tokens :
        /\ t \notin used
        /\ session' = [session EXCEPT !.operation_state = "writing", !.operation_token = t,
                                      !.operation_fresh = TRUE]
        /\ \E k : job' = [job EXCEPT ![w] = k] /\ k.op = "write"
  <2>1. PICK size \in ChunkSizes, t \in Tokens :
          /\ t \notin used
          /\ session' = [session EXCEPT !.operation_state = "writing", !.operation_token = t,
                                        !.operation_fresh = TRUE]
          /\ job' = [job EXCEPT ![w] = [Idle EXCEPT !.op = "write", !.step = "acquire", !.token = t,
                                         !.size = size, !.offset = session.uploaded_size]]
    BY DEF ClaimWrite, FreshToken
  <2> DEFINE k == [Idle EXCEPT !.op = "write", !.step = "acquire", !.token = t,
                               !.size = size, !.offset = session.uploaded_size]
  <2>2. k.op = "write"
    BY DEF Idle
  <2>3. job' = [job EXCEPT ![w] = k]
    BY <2>1
  <2> HIDE DEF k
  <2> QED
    BY <2>1, <2>2, <2>3
<1>1. PICK k : /\ t \notin used
               /\ session' = [session EXCEPT !.operation_state = "writing", !.operation_token = t,
                                             !.operation_fresh = TRUE]
               /\ job' = [job EXCEPT ![w] = k] /\ k.op = "write"
  BY <1>0
<1>2. /\ session'.operation_state = "writing" /\ session'.operation_token = t
      /\ session'.object_name = session.object_name
  BY <1>1 DEF Before, TypeOK, Session
<1>3. /\ session.operation_state = "uploading" /\ session.updated_fresh
      /\ UNCHANGED <<file, objects>>
  BY DEF ClaimWrite, store
<1>4. Present /\ Present' /\ ~Expired /\ session.operation_token = NoToken /\ t # NoToken
  BY <1>2, <1>3, UploadsAssumption DEF Present, Expired, Before, InductiveInv, RowInv
<1>5. objects = {}
  BY <1>3, <1>4 DEF NamesInv
<1>6. Others(w) /\ job'[w].op = "write" /\ ~Removed(job'[w])
  BY <1>1, Rewritten DEF Before, TypeOK, Removed
<1> QED
  BY <1>1, <1>2, <1>3, <1>4, <1>5, <1>6, NamesRow

LEMMA NamesClaimComplete ==
  ASSUME Before, After, NamesInv, NEW w \in Workers, ClaimComplete(w)
  PROVE  NamesInv'
<1>1. PICK t \in Tokens :
        /\ t \notin used
        /\ session' = [session EXCEPT !.operation_state = "completing", !.operation_token = t,
                                      !.operation_fresh = TRUE, !.object_name = t]
        /\ job' = [job EXCEPT ![w] = [Idle EXCEPT !.op = "complete", !.step = "acquire", !.token = t,
                                     !.size = session.total_size, !.previous = session.object_name]]
  BY DEF ClaimComplete, FreshToken
<1>2. /\ session'.operation_state = "completing" /\ session'.operation_token = t
      /\ session'.object_name = t
  BY <1>1 DEF Before, TypeOK, Session
<1> DEFINE k == [Idle EXCEPT !.op = "complete", !.step = "acquire", !.token = t,
                             !.size = session.total_size, !.previous = session.object_name]
<1>3. k.op = "complete" /\ k.token = t
  BY DEF Idle
<1>4. job' = [job EXCEPT ![w] = k]
  BY <1>1
<1> HIDE DEF k
<1>5. Others(w) /\ job'[w].op = "complete" /\ job'[w].token = t
  BY <1>3, <1>4, Rewritten DEF Before, TypeOK
<1>6. /\ session.operation_state = "uploading" /\ session.updated_fresh /\ UNCHANGED <<file, objects>>
  BY DEF ClaimComplete, store
<1>7. Present /\ ~Expired /\ objects = {} /\ file.state = "none"
  BY <1>6 DEF Present, Expired, NamesInv, Before, InductiveInv, PhaseInv
<1>8. \A v \in Workers \ {w} : /\ job'[v] = job[v] /\ job[v].op \notin {"reap", "delete"}
                               /\ job[v].op = "complete" => job[v].token # t
  BY <1>1, <1>5, <1>7, UploadsAssumption DEF Others, Before, InductiveInv, PhaseInv, TokensInv
<1> QED
  BY <1>2, <1>5, <1>6, <1>7, <1>8 DEF NamesInv, Present, Owns, Removed

LEMMA NamesRelease ==
  ASSUME Before, After, NamesInv, NEW w \in Workers, Release(w)
  PROVE  NamesInv'
<1>1. Ends(w) /\ UNCHANGED <<file, objects>> /\ job[w].step = "release"
  BY FinishEnds DEF Release, store, Before, TypeOK
<1>2. CASE session' = session
  BY <1>1, <1>2, NamesEnd
<1>3. CASE session' # session
  <2>1. Present /\ Owns(w) /\ session' = [session EXCEPT !.operation_state = "uploading",
                                              !.operation_token = NoToken, !.operation_fresh = FALSE]
    BY <1>3 DEF Release
  <2>2. /\ session'.operation_state = "uploading" /\ session'.operation_token = NoToken
        /\ session'.object_name = session.object_name
    BY <2>1 DEF Before, TypeOK, Session
  <2>3. Others(w) /\ job'[w].op = "none" /\ ~Removed(job'[w])
    BY <1>1 DEF Ends, Removed
  <2>4. Expired' \/ objects = {}
    <3>1. Expired => Expired'
      BY DEF After, KeepsExpired
    <3>2. CASE session.operation_state \in {"uploading", "writing"}
      BY <2>1, <3>1, <3>2 DEF NamesInv
    <3>3. CASE session.operation_state = "completing" /\ job[w].op = "complete"
      BY <1>1, <2>1, <3>3 DEF NamesInv, BeforeOpen
    <3>4. CASE session.operation_state = "cleaning" /\ job[w].op = "reap"
      BY <3>1, <3>4 DEF Before, InductiveInv, PhaseInv
    <3> QED
      BY <2>1, <3>2, <3>3, <3>4 DEF Before, InductiveInv, RowInv, Owns, Present
  <2> QED
    BY <1>1, <2>1, <2>2, <2>3, <2>4, NamesRow DEF Present
<1> QED
  BY <1>2, <1>3

LEMMA NamesComplete ==
  ASSUME Before, After, NamesInv, NEW w \in Workers,
         \/ DropPrevious(w) \/ OpenWriterFails(w) \/ CloseObject(w) \/ AssembleFails(w)
         \/ UnlockObject(w) \/ FinalizeFails(w)
  PROVE  NamesInv'
<1> USE DEF Before, TypeOK, store, BeforeOpen, Steps
<1>1. CASE DropPrevious(w)
  <2>1. Moves(w, "open") /\ job[w].op = "complete" /\ job[w].step = "drop_previous" /\ objects' \subseteq objects
    BY <1>1, GoMoves DEF DropPrevious, At, Remove
  <2>2. /\ job'[w].op = "complete" /\ job'[w].token = job[w].token /\ Others(w)
    BY <2>1 DEF Moves
  <2>3. NamesOf(job'[w], session.operation_token, Present, session.object_name, file, objects')
    BY <2>1, <2>2 DEF NamesOf, NamesInv, Removed, Owns
  <2> QED
    BY <1>1, <2>1, <2>2, <2>3, NamesFrame DEF DropPrevious
<1>2. CASE OpenWriterFails(w)
  BY <1>2, GoMoves, NamesMove DEF OpenWriterFails, At
<1>3. CASE CloseObject(w)
  <2>1. Moves(w, "unlock") \/ Moves(w, "discard")
    BY <1>3, GoMoves DEF CloseObject
  <2> QED
    BY <1>3, <2>1, NamesMove DEF CloseObject, At
<1>4. CASE AssembleFails(w)
  BY <1>4, GoMoves, NamesMove DEF AssembleFails, At
<1>5. CASE UnlockObject(w)
  BY <1>5, GoMoves, NamesMove DEF UnlockObject, At
<1>6. CASE FinalizeFails(w)
  BY <1>6, GoMoves, NamesMove DEF FinalizeFails, At
<1> QED
  BY <1>1, <1>2, <1>3, <1>4, <1>5, <1>6

LEMMA NamesOpenWriter ==
  ASSUME Before, After, NamesInv, NEW w \in Workers, OpenWriter(w)
  PROVE  NamesInv'
<1> DEFINE k == [job[w] EXCEPT !.step = "assemble", !.todo = parts]
<1>1. k.op = "complete" /\ k.step = "assemble" /\ k.token = job[w].token
  BY DEF OpenWriter, At, Before, TypeOK, Job
<1>2. job' = [job EXCEPT ![w] = k]
  BY DEF OpenWriter
<1> HIDE DEF k
<1>3. Others(w) /\ job'[w] = k
  BY <1>2, Rewritten DEF Before, TypeOK
<1>4. /\ UNCHANGED <<session, file>> /\ objects' = objects \cup {job[w].token}
      /\ job[w].op = "complete" /\ InObjectIO(w)
  BY DEF OpenWriter, At, InObjectIO
<1>5. /\ Present /\ file.state = "none" /\ Owns(w) /\ job[w].token # NoToken
      /\ \A v \in Workers \ {w} : ~InObjectIO(v)
  BY <1>4, AloneInObjectIO
<1>6. session.object_name = job[w].token /\ session.operation_state = "completing"
  BY <1>4, <1>5 DEF NamesInv, Before, InductiveInv, RowInv
<1>7. \A v \in Workers \ {w} : /\ job'[v] = job[v] /\ job[v].op # "delete" /\ ~Removed(job[v])
                               /\ job[v].op = "complete" => ~Owns(v)
  BY <1>3, <1>5 DEF Others, InObjectIO, Removed, Before, InductiveInv, PhaseInv, TokensInv, Owns
<1>8. \A v \in Workers : NamesOf(job'[v], session.operation_token, Present, session.object_name, file, objects')
  BY <1>1, <1>3, <1>4, <1>6, <1>7 DEF NamesOf, NamesInv, BeforeOpen, Removed, Owns
<1> QED
  BY <1>4, <1>5, <1>6, <1>8 DEF NamesInv, NamesOf, Owns, Present

LEMMA NamesAssemblePart ==
  ASSUME Before, After, NamesInv, NEW w \in Workers, AssemblePart(w)
  PROVE  NamesInv'
<1>1. UNCHANGED <<session, file, objects>> /\ job[w].op = "complete" /\ job[w].step = "assemble"
  BY DEF AssemblePart, At
<1>2. CASE Go(w, "discard")
  BY <1>1, <1>2, GoMoves, NamesMove DEF Before, TypeOK, Steps, BeforeOpen
<1>3. CASE ~Go(w, "discard")
  <2> DEFINE step == IF Refreshable(w) THEN job[w].step ELSE "discard"
             K(p) == [job[w] EXCEPT !.todo = job[w].todo \ {p},
                                    !.offset = job[w].offset + p.size, !.step = step]
  <2>1. PICK p : job' = [job EXCEPT ![w] = K(p)]
    BY <1>3 DEF AssemblePart
  <2>2. step \in {"assemble", "discard"}
    BY <1>1
  <2> HIDE DEF step
  <2>3. K(p).op = "complete" /\ K(p).step = step /\ K(p).token = job[w].token
    BY <1>1 DEF Before, TypeOK, Job
  <2> HIDE DEF K
  <2>4. Others(w) /\ job'[w] = K(p)
    BY <2>1, Rewritten DEF Before, TypeOK
  <2>5. NamesOf(job'[w], session.operation_token, Present, session.object_name, file, objects')
    BY <1>1, <2>2, <2>3, <2>4 DEF NamesOf, NamesInv, Removed, Owns, BeforeOpen
  <2> QED
    BY <1>1, <2>4, <2>5, NamesFrame
<1> QED
  BY <1>2, <1>3

LEMMA NamesDiscard ==
  ASSUME Before, After, NamesInv, ~CleanupMayFail, NEW w \in Workers, Discard(w)
  PROVE  NamesInv'
<1> DEFINE k == [job[w] EXCEPT !.step = "abandon", !.todo = {}]
<1>1. k.op = "complete" /\ k.step = "abandon" /\ k.token = job[w].token
  BY DEF Discard, At, Before, TypeOK, Job
<1>2. job' = [job EXCEPT ![w] = k]
  BY DEF Discard
<1> HIDE DEF k
<1>3. Others(w) /\ job'[w] = k
  BY <1>2, Rewritten DEF Before, TypeOK
<1>4. UNCHANGED <<session, file>> /\ objects' = objects \ {job[w].token} /\ job[w].op = "complete"
  BY DEF Discard, Remove, At
<1>5. Owns(w) => session.object_name = job[w].token /\ objects' = {}
  <2>1. Owns(w) => Present /\ session.object_name = job[w].token
    BY <1>4 DEF NamesInv, Before, InductiveInv, TokensInv, RowInv, Owns, Present
  <2>2. Present => file.object_name = NoToken
    BY DEF NamesInv, Before, InductiveInv, PhaseInv
  <2> QED
    BY <1>4, <2>1, <2>2, UploadsAssumption DEF NamesInv, Before, TypeOK
<1>6. NamesOf(job'[w], session.operation_token, Present, session.object_name, file, objects')
  BY <1>1, <1>3, <1>5 DEF NamesOf, Owns, Removed
<1> QED
  BY <1>3, <1>4, <1>6, NamesFrame

LEMMA NamesFinalize ==
  ASSUME Before, After, NamesInv, NEW w \in Workers, Finalize(w) \/ CommitUncertain(w)
  PROVE  NamesInv'
<1>1. /\ At(w, "complete", "finalize") /\ UNCHANGED objects
      /\ Moves(w, "prefix") \/ Moves(w, "discard") \/ Ends(w)
  BY GoMoves, FinishEnds DEF Finalize, CommitUncertain, store, Before, TypeOK, Steps
<1>2. CASE UNCHANGED <<session, file>>
  BY <1>1, <1>2, NamesMove, NamesEnd DEF At, BeforeOpen
<1>3. CASE ~UNCHANGED <<session, file>>
  <2>1. OwnsCompletion(w) /\ CommitFile(w)
    BY <1>3 DEF Finalize, CommitUncertain
  <2>2. /\ session'.operation_state = "absent" /\ session'.operation_token = NoToken
        /\ session'.object_name = NoToken
        /\ file'.state = "live" /\ file'.object_name = job[w].token
    BY <2>1 DEF CommitFile, NoSession
  <2>3. Present /\ file.state = "none" /\ file.object_name = NoToken /\ session.object_name = job[w].token
    BY <1>1, <2>1 DEF OwnsCompletion, Refreshable, At, NamesInv, Before, InductiveInv, PhaseInv
  <2>4. objects \subseteq {job[w].token}
    BY <2>3, UploadsAssumption DEF NamesInv, Before, TypeOK
  <2>5. Others(w) /\ job'[w].op \in {"complete", "none"} /\ ~Removed(job'[w])
    BY <1>1 DEF Moves, Ends, At, Removed
  <2>6. \A v \in Workers : job'[v].op # "delete" /\ (job'[v].op = "complete" => job'[v].token # NoToken)
    BY <2>3, <2>5 DEF Others, Before, InductiveInv, PhaseInv, After, TokensInv
  <2>7. \A v \in Workers : Removed(job'[v]) => objects = {}
    BY <2>5 DEF Others, NamesInv
  <2> QED
    BY <1>1, <2>2, <2>4, <2>6, <2>7 DEF NamesInv, Present, Owns
<1> QED
  BY <1>2, <1>3

LEMMA NamesCleanOrEnd ==
  ASSUME Before, After, NamesInv, NEW w \in Workers,
         \/ RetryCompleted(w) \/ RecoverParts(w) \/ CleanPrefix(w) \/ CleanPrefixFails(w) \/ ClearPartsPending(w)
         \/ DeleteFails(w) \/ ReapAcquire(w) \/ ReapPrefix(w) \/ ReapFails(w) \/ Crash(w)
  PROVE  NamesInv'
<1> USE DEF Before, TypeOK, store, BeforeOpen, Steps
<1>1. CASE RetryCompleted(w) \/ RecoverParts(w)
  <2> DEFINE k == [Idle EXCEPT !.op = "clean", !.step = "prefix"]
  <2>1. k.op = "clean" /\ k.step = "prefix"
    BY DEF Idle
  <2> HIDE DEF k
  <2>2. Others(w) /\ job'[w] = k
    BY <1>1, Rewritten DEF RetryCompleted, RecoverParts, k
  <2>3. NamesOf(job'[w], session.operation_token, Present, session.object_name, file, objects')
    BY <2>1, <2>2 DEF NamesOf, Removed
  <2> QED
    BY <1>1, <2>2, <2>3, NamesFrame DEF RetryCompleted, RecoverParts
<1>2. CASE CleanPrefix(w)
  BY <1>2, GoMoves, NamesMove DEF CleanPrefix
<1>3. CASE CleanPrefixFails(w)
  BY <1>3, FinishEnds, NamesEnd DEF CleanPrefixFails
<1>4. CASE ClearPartsPending(w)
  <2>1. /\ Moves(w, "object") \/ Ends(w)
        /\ UNCHANGED <<session, objects>>
    BY <1>4, GoMoves, FinishEnds DEF ClearPartsPending
  <2>2. file'.state = file.state /\ file'.object_name = file.object_name
    BY <1>4 DEF ClearPartsPending, File
  <2> QED
    BY <2>1, <2>2, NamesMove, NamesEnd
<1>5. CASE DeleteFails(w)
  BY <1>5, FinishEnds, NamesEnd DEF DeleteFails
<1>6. CASE ReapAcquire(w)
  <2>1. Moves(w, "claim") \/ Ends(w)
    BY <1>6, GoMoves, FinishEnds DEF ReapAcquire
  <2> QED
    BY <1>6, <2>1, NamesMove, NamesEnd DEF ReapAcquire
<1>7. CASE ReapPrefix(w)
  BY <1>7, GoMoves, NamesMove DEF ReapPrefix, At
<1>8. CASE ReapFails(w)
  BY <1>8, GoMoves, NamesMove DEF ReapFails
<1>9. CASE Crash(w)
  BY <1>9, FinishEnds, NamesEnd DEF Crash
<1> QED
  BY <1>1, <1>2, <1>3, <1>4, <1>5, <1>6, <1>7, <1>8, <1>9

LEMMA NamesDelete ==
  ASSUME Before, After, NamesInv, NEW w \in Workers, MarkDeleted(w) \/ DeleteObject(w) \/ FinishDelete(w)
  PROVE  NamesInv'
<1>1. CASE MarkDeleted(w)
  <2> DEFINE k == [Idle EXCEPT !.op = "delete", !.step = IF file.parts_pending THEN "prefix" ELSE "object",
                               !.previous = file.object_name]
  <2>1. k.op = "delete" /\ k.step \in {"prefix", "object"} /\ k.previous = file.object_name
    BY DEF Idle
  <2>2. job' = [job EXCEPT ![w] = k]
    BY <1>1 DEF MarkDeleted
  <2> HIDE DEF k
  <2>3. Others(w) /\ job'[w] = k /\ ~Removed(k)
    BY <2>1, <2>2, Rewritten DEF Before, TypeOK, Removed
  <2>4. /\ UNCHANGED <<session, objects>> /\ file'.state = "deleting" /\ file'.object_name = file.object_name
        /\ file.state \in {"live", "deleting"}
    BY <1>1 DEF MarkDeleted, store, Before, TypeOK, File
  <2>5. ~Present /\ ~Present'
    BY <2>4 DEF Before, InductiveInv, PhaseInv, Present
  <2>6. \A v \in Workers : NamesOf(job'[v], session.operation_token, Present, session.object_name, file', objects)
    BY <2>1, <2>3, <2>4, <2>5 DEF NamesOf, NamesInv, Others, Owns
  <2> QED
    BY <2>4, <2>5, <2>6 DEF NamesInv, NamesOf, Owns
<1>2. CASE DeleteObject(w)
  <2>1. /\ UNCHANGED <<session, file>> /\ objects' = objects \ {job[w].previous}
        /\ job[w].op = "delete" /\ Moves(w, "row")
    BY <1>2, GoMoves DEF DeleteObject, Remove, At, Before, TypeOK, Steps
  <2>2. ~Present /\ (job[w].previous = file.object_name \/ file.state = "gone")
    BY <2>1 DEF NamesInv, Before, InductiveInv, PhaseInv
  <2>3. objects' = {}
    BY <2>1, <2>2, UploadsAssumption DEF NamesInv, Before, TypeOK
  <2>4. Others(w) /\ job'[w].op = "delete" /\ job'[w].previous = job[w].previous
    BY <2>1 DEF Moves
  <2>5. NamesOf(job'[w], session.operation_token, Present, session.object_name, file, objects')
    BY <2>2, <2>3, <2>4 DEF NamesOf
  <2> QED
    BY <2>1, <2>3, <2>4, <2>5, NamesFrame
<1>3. CASE FinishDelete(w)
  <2>1. /\ UNCHANGED <<session, objects>> /\ Ends(w) /\ job[w].op = "delete" /\ job[w].step = "row"
    BY <1>3, FinishEnds DEF FinishDelete, store, At, Before, TypeOK
  <2>2. CASE file' = file
    BY <2>1, <2>2, NamesEnd
  <2>3. CASE file' # file
    <3>1. file'.state = "gone"
      BY <1>3, <2>3 DEF FinishDelete, NoFile
    <3>2. objects = {} /\ ~Present'
      BY <2>1 DEF NamesInv, Removed, Before, InductiveInv, PhaseInv, Present
    <3>3. \A v \in Workers : job'[v].op = "complete" => job'[v].token # NoToken
      BY DEF After, InductiveInv, TokensInv
    <3>4. session'.operation_token = NoToken /\ session'.object_name = NoToken
      BY <2>1, <3>2 DEF NamesInv, Present, After, InductiveInv, RowInv
    <3> QED
      BY <2>1, <3>1, <3>2, <3>3, <3>4 DEF NamesInv, Owns
  <2> QED
    BY <2>2, <2>3
<1> QED
  BY <1>1, <1>2, <1>3

LEMMA NamesReap ==
  ASSUME Before, After, NamesInv, NEW w \in Workers, ListStale(w) \/ ReapClaim(w) \/ ReapObject(w) \/ ReapRow(w)
  PROVE  NamesInv'
<1>1. CASE ListStale(w)
  <2> DEFINE k == [Idle EXCEPT !.op = "reap", !.step = "acquire", !.previous = session.object_name]
  <2>1. k.op = "reap" /\ k.step = "acquire" /\ k.previous = session.object_name
    BY DEF Idle
  <2>2. job' = [job EXCEPT ![w] = k]
    BY <1>1 DEF ListStale
  <2> HIDE DEF k
  <2>3. Others(w) /\ job'[w] = k
    BY <2>2, Rewritten DEF Before, TypeOK
  <2>4. NamesOf(job'[w], session.operation_token, Present, session.object_name, file, objects')
    BY <2>1, <2>3 DEF NamesOf, Removed
  <2> QED
    BY <1>1, <2>3, <2>4, NamesFrame DEF ListStale, store
<1>2. CASE ReapClaim(w) /\ ~Stale
  <2>1. Moves(w, "done") /\ UNCHANGED <<session, file, objects>>
    BY <1>2, GoMoves DEF ReapClaim, store, Before, TypeOK, Steps
  <2> QED
    BY <2>1, NamesMove DEF BeforeOpen
<1>3. CASE ReapClaim(w) /\ Stale
  <2>1. PICK t \in Tokens :
          /\ t \notin used
          /\ session' = [session EXCEPT !.operation_state = "cleaning", !.operation_token = t,
                                        !.operation_fresh = TRUE]
          /\ job' = [job EXCEPT ![w].step = "object", ![w].token = t]
    BY <1>3 DEF ReapClaim, FreshToken
  <2> DEFINE k == [job[w] EXCEPT !.step = "object", !.token = t]
  <2>2. k.op = "reap" /\ k.step = "object" /\ k.previous = job[w].previous /\ job[w].op = "reap"
    BY <1>3 DEF ReapClaim, At, Before, TypeOK, Job
  <2>3. job' = [job EXCEPT ![w] = k]
    BY <2>1
  <2> HIDE DEF k
  <2>4. Others(w) /\ job'[w] = k /\ ~Removed(k)
    BY <2>2, <2>3, Rewritten DEF Before, TypeOK, Removed
  <2>5. /\ session'.operation_state = "cleaning" /\ session'.operation_token = t
        /\ session'.object_name = session.object_name /\ UNCHANGED <<file, objects>>
    BY <1>3, <2>1 DEF ReapClaim, store, Before, TypeOK, Session
  <2>6. Present /\ Present' /\ Expired'
    BY <1>3, <2>2, <2>5 DEF Stale, Present, Before, After, KeepsExpired, InductiveInv, PhaseInv
  <2>7. job[w].previous = session.object_name
    BY <2>2, <2>6 DEF NamesInv
  <2> QED
    BY <2>1, <2>2, <2>4, <2>5, <2>6, <2>7, NamesRow
<1>4. CASE ReapObject(w)
  <2>1. /\ UNCHANGED <<session, file>> /\ objects' = objects \ {job[w].previous}
        /\ job[w].op = "reap" /\ InObjectIO(w) /\ Moves(w, "prefix")
    BY <1>4, GoMoves DEF ReapObject, Remove, At, InObjectIO, Before, TypeOK, Steps
  <2>2. /\ Present /\ file.state = "none"
    BY <2>1, AloneInObjectIO
  <2>3. objects' = {}
    BY <2>1, <2>2, UploadsAssumption DEF NamesInv, Before, TypeOK
  <2>4. Others(w) /\ job'[w].op = "reap" /\ job'[w].previous = job[w].previous
    BY <2>1 DEF Moves
  <2>5. NamesOf(job'[w], session.operation_token, Present, session.object_name, file, objects')
    BY <2>1, <2>3, <2>4 DEF NamesOf, NamesInv
  <2> QED
    BY <2>1, <2>3, <2>4, <2>5, NamesFrame
<1>5. CASE ReapRow(w)
  <2>1. UNCHANGED <<file, objects>> /\ job[w].op = "reap" /\ job[w].step = "row" /\ Moves(w, "done")
    BY <1>5, GoMoves DEF ReapRow, store, At, Before, TypeOK, Steps
  <2>2. CASE session' = session
    BY <2>1, <2>2, NamesMove DEF BeforeOpen
  <2>3. CASE session' # session
    <3>1. /\ session'.operation_state = "absent" /\ session'.operation_token = NoToken
          /\ session'.object_name = NoToken
      BY <1>5, <2>3 DEF ReapRow, NoSession
    <3>2. objects = {}
      BY <2>1 DEF NamesInv, Removed
    <3>3. Others(w) /\ job'[w].op = "reap"
      BY <2>1 DEF Moves
    <3>4. \A v \in Workers : /\ job'[v].op = "complete" => job'[v].token # NoToken
                             /\ job'[v].op = "delete" => job'[v] = job[v]
      BY <3>3 DEF Others, After, InductiveInv, TokensInv
    <3> QED
      BY <2>1, <3>1, <3>2, <3>4 DEF NamesInv, Present, Owns
  <2> QED
    BY <2>2, <2>3
<1> QED
  BY <1>1, <1>2, <1>3, <1>4, <1>5

LEMMA NamesStutter ==
  ASSUME NamesInv, UNCHANGED vars
  PROVE  NamesInv'
  BY DEF NamesInv, vars, Present, Expired, Owns

LEMMA NamesStep ==
  ASSUME Before, NamesInv, ~CleanupMayFail, [Next]_vars
  PROVE  NamesInv'
<1>1. After
  BY BookStep
<1>2. CASE UNCHANGED vars
  BY <1>2, NamesStutter
<1>3. CASE StartUpload \/ SessionExpires \/ OperationExpires
  BY <1>1, <1>3, NamesStart, NamesTime
<1>4. ASSUME NEW w \in Workers, WriteUploadChunk(w) \/ OperationClaim(w)
      PROVE  NamesInv'
  BY <1>1, <1>4, NamesClaimWrite, NamesWrite, NamesOperationClaim, NamesRelease
  DEF WriteUploadChunk, OperationClaim
<1>5. ASSUME NEW w \in Workers, CompleteUpload(w)
      PROVE  NamesInv'
  BY <1>1, <1>5, NamesClaimComplete, NamesComplete, NamesOpenWriter, NamesAssemblePart, NamesDiscard, NamesFinalize
  DEF CompleteUpload
<1>6. ASSUME NEW w \in Workers, CleanupUploadParts(w) \/ Delete(w)
      PROVE  NamesInv'
  BY <1>1, <1>6, NamesCleanOrEnd, NamesDelete DEF CleanupUploadParts, Delete
<1>7. ASSUME NEW w \in Workers, ReapStaleUpload(w) \/ Crash(w)
      PROVE  NamesInv'
  BY <1>1, <1>7, NamesCleanOrEnd, NamesReap DEF ReapStaleUpload
<1> QED
  BY <1>1, <1>2, <1>3, <1>4, <1>5, <1>6, <1>7 DEF Next

\* Where best-effort deletes succeed, no final object is ever without a row
\* that names it, whatever crashes or fails besides, and wherever.
THEOREM NoObjectsOrphaned == ~CleanupMayFail => (Spec => []NoOrphanObjects)
<1> SUFFICES ASSUME ~CleanupMayFail
             PROVE  Spec => []NoOrphanObjects
  OBVIOUS
<1>1. Init => NamesInv
  BY DEF Init, NamesInv, NoSession, NoFile, Idle, Present, Removed
<1>2. Before /\ NamesInv /\ [Next]_vars => NamesInv'
  BY NamesStep
<1>3. NamesInv => NoOrphanObjects
  BY DEF NamesInv, NoOrphanObjects
<1> QED
  BY <1>1, <1>2, <1>3, BooksAreKept, PTL DEF Spec

=============================================================================
