------------------------------ MODULE Dictionaries ------------------------------
(***************************************************************************)
(* Dictionaries and their trees of details (crates/metadata/src/           *)
(* dictionaries).  A detail names its dictionary and its parent without    *)
(* foreign keys, and carries its level and the path of ids above it.       *)
(*                                                                         *)
(* Each statement is a step.  It works on the rows it saw when it began    *)
(* (READ COMMITTED) and waits for rows another transaction has written;    *)
(* only the update of a detail keeps several statements in a transaction.  *)
(***************************************************************************)
EXTENDS Naturals, Sequences, FiniteSets

CONSTANTS
    Dicts, Details,     \* ids, serial and never reused
    NoDict, NoDetail,   \* no dictionary; SQL null for a parent
    DictRequests,       \* operations in progress
    MaxOverlaps         \* bound on operations that begin while another is in progress

ASSUME DictConstants ==
    NoDict \notin Dicts /\ NoDetail \notin Details /\ IsFiniteSet(Details) /\ MaxOverlaps \in Nat

VARIABLES
    dicts,          \* sys_dictionaries
    freshDicts,     \* ids that were not given out yet
    details,        \* sys_dictionary_details, as committed
    freshDetails,
    dictReqs,       \* operations between two statements
    overlaps,       \* history: how many operations began while another was in progress
    detailRingRisk  \* history: a step was taken that can close a ring of details

dictVars == <<dicts, freshDicts, details, freshDetails, dictReqs, overlaps, detailRingRisk>>

Nothing == [d \in {} |-> NoDetail]
NoDictRequest == [pc |-> "idle", dict |-> NoDict, detail |-> NoDetail, parent |-> NoDetail,
                  place |-> <<0, <<>>>>, doomed |-> {}, written |-> Nothing, plan |-> Nothing]

-----------------------------------------------------------------------------
(* Rows as a statement sees them.                                          *)

\* The committed rows, with those the transaction has written itself.
Seen(r) == [d \in DOMAIN details |->
               IF d \in DOMAIN dictReqs[r].written THEN dictReqs[r].written[d] ELSE details[d]]

\* Rows another transaction has written and not committed.
Busy(r) == UNION {DOMAIN dictReqs[o].written : o \in DictRequests \ {r}}

OfDict(rows, dict) == {d \in DOMAIN rows : rows[d].dict = dict}

\* find_detail.
HasDetail(rows, dict, d) == d \in DOMAIN rows /\ rows[d].dict = dict

\* details_by_parent.
ChildrenOf(rows, dict, p) == {d \in OfDict(rows, dict) : rows[d].parent = p}

\* detail_path: a detail, and the rows that the path stored with it names.
PathRows(rows, d) ==
    {x \in OfDict(rows, rows[d].dict) :
        x = d \/ \E n \in DOMAIN rows[d].place[2] : rows[d].place[2][n] = x}

\* The recursive queries: a row and what is below it in its dictionary.  They
\* are union all and come back unless there is a ring below the row.
SubtreeLevels(rows, dict, detail) ==
    LET level[k \in 0..Cardinality(Details)] ==
            IF k = 0 THEN {detail} \cap OfDict(rows, dict)
            ELSE {d \in OfDict(rows, dict) : rows[d].parent \in level[k - 1]}
    IN  level

Subtree(rows, dict, detail) ==
    UNION {SubtreeLevels(rows, dict, detail)[k] : k \in 0..Cardinality(Details)}

QueryEnds(rows, dict, detail) == SubtreeLevels(rows, dict, detail)[Cardinality(Details)] = {}

\* Level and path of a child of a row with the given level and path.
Under(parent, place) == <<place[1] + 1, Append(place[2], parent)>>

\* build_detail_tree from the roots, one level after the other, with the
\* branch that leads to every row.
Shown(rows, dict) ==
    LET level[k \in 0..Cardinality(Details)] ==
            IF k = 0 THEN {<<d, <<>>>> : d \in ChildrenOf(rows, dict, NoDetail)}
            ELSE UNION {{<<d, Append(x[2], x[1])>> : d \in ChildrenOf(rows, dict, x[1])}
                           : x \in level[k - 1]}
    IN  UNION {level[k] : k \in 0..Cardinality(Details)}

-----------------------------------------------------------------------------
(* Requests.  The ids come from the client.  A request that names a detail *)
(* which is gone, or a detail of another dictionary, never comes to write  *)
(* and has no step; one that names an id not given out yet may find the    *)
(* detail there when it comes to write.                                    *)

Moving(r) == dictReqs[r].pc \in {"mayMove", "move", "refresh", "apply"}

BeginOn(r, q) ==
    /\ dictReqs[r].pc = "idle"
    /\ dictReqs' = [dictReqs EXCEPT ![r] = q]
    /\ IF \A o \in DictRequests : dictReqs[o].pc = "idle"
       THEN overlaps' = overlaps
       ELSE overlaps < MaxOverlaps /\ overlaps' = overlaps + 1
    /\ detailRingRisk' = (detailRingRisk \/ (q.pc = "mayMove" /\ \E o \in DictRequests : Moving(o)))

Continue(r, q) ==
    /\ dictReqs' = [dictReqs EXCEPT ![r] = q]
    /\ UNCHANGED <<overlaps, detailRingRisk>>

EndDict(r) == Continue(r, NoDictRequest)

UnchangedRows == UNCHANGED <<dicts, freshDicts, details, freshDetails>>

\* create and import; the type is unique, the rest is free.
CreateDict(i) ==
    /\ i \in freshDicts
    /\ dicts' = dicts \cup {i}
    /\ freshDicts' = freshDicts \ {i}
    /\ UNCHANGED <<details, freshDetails, dictReqs, overlaps, detailRingRisk>>

\* delete, first statement: the details of the dictionary, should it exist.
DeleteDetails(r) ==
    \E i \in Dicts :
        /\ OfDict(details, i) \cap Busy(r) = {}
        /\ BeginOn(r, [NoDictRequest EXCEPT !.pc = "deleteDict", !.dict = i])
        /\ details' = [d \in DOMAIN details \ OfDict(details, i) |-> details[d]]
        /\ UNCHANGED <<dicts, freshDicts, freshDetails>>

\* delete, second statement.
DeleteDictRow(r) ==
    /\ dictReqs[r].pc = "deleteDict"
    /\ dicts' = dicts \ {dictReqs[r].dict}
    /\ EndDict(r)
    /\ UNCHANGED <<freshDicts, details, freshDetails>>

\* create_detail: the dictionary exists, ...
EnsureDict(r) ==
    \E i \in dicts, p \in freshDetails \cup DOMAIN details \cup {NoDetail} :
        /\ BeginOn(r, [NoDictRequest EXCEPT !.dict = i, !.parent = p,
                           !.pc = IF p = NoDetail THEN "insert" ELSE "place"])
        /\ UnchangedRows

\* ... the parent is a detail of it, ...
ParentsIn(rows, dict) == OfDict(rows, dict)

PlaceDetail(r) ==
    LET q == dictReqs[r]
    IN  /\ q.pc = "place"
        /\ q.parent \in ParentsIn(details, q.dict)
        /\ Continue(r, [q EXCEPT !.pc = "insert", !.place = Under(q.parent, details[q.parent].place)])
        /\ UnchangedRows

\* ... and the row is inserted, whatever became of both.  It may be the row
\* that an update is to go below, and that its first statement did not find.
InsertDetail(r) ==
    LET q == dictReqs[r]
    IN  \E d \in freshDetails :
            /\ q.pc = "insert"
            /\ details' = [x \in DOMAIN details \cup {d} |->
                   IF x = d THEN [dict |-> q.dict, parent |-> q.parent, place |-> q.place]
                   ELSE details[x]]
            /\ freshDetails' = freshDetails \ {d}
            /\ dictReqs' = [dictReqs EXCEPT ![r] = NoDictRequest]
            /\ detailRingRisk' = (detailRingRisk \/ \E o \in DictRequests :
                                     dictReqs[o].pc = "mayMove" /\ dictReqs[o].parent = d)
            /\ UNCHANGED <<dicts, freshDicts, overlaps>>

-----------------------------------------------------------------------------
(* update_detail: one transaction of up to four statements.                *)

\* Variant: a detail may be moved below itself.
NotBelowAny(rows, q) == TRUE

\* The new parent is neither the detail nor below it.
NotBelow(rows, q) ==
    QueryEnds(rows, q.dict, q.detail) /\ q.parent \notin Subtree(rows, q.dict, q.detail)

\* Nothing is below an id that is not there: no parent is refused.
CheckDetail(r) ==
    \E i \in Dicts, p \in freshDetails \cup DOMAIN details \cup {NoDetail} :
        \E d \in freshDetails \cup OfDict(details, i) :
            LET q == [NoDictRequest EXCEPT !.pc = "mayMove", !.dict = i, !.detail = d, !.parent = p]
            IN  /\ p # NoDetail => NotBelow(details, q)
                /\ BeginOn(r, q)
                /\ UnchangedRows

ReadParent(r) ==
    LET q == dictReqs[r]
    IN  /\ q.pc = "mayMove"
        /\ q.parent # NoDetail => q.parent \in ParentsIn(details, q.dict)
        /\ Continue(r, [q EXCEPT !.pc = "move",
               !.place = IF q.parent = NoDetail THEN <<0, <<>>>>
                         ELSE Under(q.parent, details[q.parent].place)])
        /\ UnchangedRows

\* The row is written, and no longer anybody else's to write.
MoveDetail(r) ==
    LET q == dictReqs[r]
    IN  /\ q.pc = "move"
        /\ q.detail \in OfDict(details, q.dict) \ Busy(r)
        /\ Continue(r, [q EXCEPT !.pc = "refresh",
               !.written = [d \in {q.detail} |-> [dict |-> q.dict, parent |-> q.parent, place |-> q.place]]])
        /\ UnchangedRows

\* Variant: what is below keeps its level and path.
BelowKept(rows, q) == Nothing

\* Level and path of what is below, from the rows as they are now.
BelowPlaced(rows, q) ==
    LET levels == SubtreeLevels(rows, q.dict, q.detail)
        place[k \in 0..Cardinality(Details)] ==
            IF k = 0 THEN [d \in levels[0] |-> rows[d].place]
            ELSE [d \in levels[k] |-> Under(rows[d].parent, place[k - 1][rows[d].parent])]
        below == Subtree(rows, q.dict, q.detail) \ {q.detail}
    IN  [d \in below |-> place[CHOOSE k \in 1..Cardinality(Details) : d \in levels[k]][d]]

PlanBelow(r) ==
    LET q == dictReqs[r]
    IN  /\ q.pc = "refresh"
        /\ QueryEnds(Seen(r), q.dict, q.detail)
        /\ Continue(r, [q EXCEPT !.pc = "apply", !.plan = BelowPlaced(Seen(r), q)])
        /\ UnchangedRows

\* The planned rows that are still there are written, and all is committed.
CommitMove(r) ==
    LET q == dictReqs[r]
        placed == DOMAIN q.plan \cap OfDict(details, q.dict)
    IN  /\ q.pc = "apply"
        /\ DOMAIN q.plan \cap Busy(r) = {}
        /\ details' = [d \in DOMAIN details |->
               CASE d \in DOMAIN q.written -> q.written[d]
                 [] d \in placed -> [details[d] EXCEPT !.place = q.plan[d]]
                 [] OTHER -> details[d]]
        /\ EndDict(r)
        /\ UNCHANGED <<dicts, freshDicts, freshDetails>>

-----------------------------------------------------------------------------
(* delete_detail: one statement for a detail and what is below it.  What   *)
(* it deletes is fixed by the rows it saw at its start.                    *)

FindSubtree(r) ==
    \E i \in Dicts, d \in Details :
        /\ HasDetail(details, i, d)
        /\ QueryEnds(details, i, d)
        /\ BeginOn(r, [NoDictRequest EXCEPT !.pc = "deleteBelow", !.dict = i, !.detail = d,
                                            !.doomed = Subtree(details, i, d)])
        /\ UnchangedRows

DeleteBelow(r) ==
    LET q == dictReqs[r]
    IN  /\ q.pc = "deleteBelow"
        /\ q.doomed \cap Busy(r) = {}
        /\ details' = [d \in DOMAIN details \ q.doomed |-> details[d]]
        /\ EndDict(r)
        /\ UNCHANGED <<dicts, freshDicts, freshDetails>>

\* An operation is refused, fails or is dropped between two statements; an
\* update rolls back, the others keep what they did.
AbortDict(r) ==
    /\ dictReqs[r].pc # "idle"
    /\ EndDict(r)
    /\ UnchangedRows

DictInit ==
    /\ dicts = {} /\ freshDicts = Dicts
    /\ details = Nothing /\ freshDetails = Details
    /\ dictReqs = [r \in DictRequests |-> NoDictRequest]
    /\ overlaps = 0 /\ detailRingRisk = FALSE

DictNext ==
    \/ \E i \in Dicts : CreateDict(i)
    \/ \E r \in DictRequests :
           \/ DeleteDetails(r)
           \/ DeleteDictRow(r)
           \/ EnsureDict(r)
           \/ PlaceDetail(r)
           \/ InsertDetail(r)
           \/ CheckDetail(r)
           \/ ReadParent(r)
           \/ MoveDetail(r)
           \/ PlanBelow(r)
           \/ CommitMove(r)
           \/ FindSubtree(r)
           \/ DeleteBelow(r)
           \/ AbortDict(r)

DictSpec == DictInit /\ [][DictNext]_dictVars

-----------------------------------------------------------------------------
(* Properties.                                                             *)

\* Types, and no row is written by two transactions at once.
DictTypeOK ==
    /\ dicts \subseteq Dicts \ freshDicts
    /\ DOMAIN details \subseteq Details \ freshDetails
    /\ \A d \in DOMAIN details :
           /\ details[d].dict \in Dicts /\ details[d].parent \in Details \cup {NoDetail}
           /\ details[d].place[1] \in Nat /\ details[d].place[2] \in Seq(Details)
    /\ \A r, o \in DictRequests :
           r # o => DOMAIN dictReqs[r].written \cap DOMAIN dictReqs[o].written = {}
    /\ overlaps \in 0..MaxOverlaps /\ (detailRingRisk => overlaps > 0)

\* As long as operations do not overlap, whatever they are and whenever one of
\* them breaks off, a dictionary's tree shows all its details, and the level and
\* path stored with a detail are its depth and the branch that leads to it, of
\* which detail_path finds every row: a moved subtree is refreshed as a whole, a
\* deleted one leaves nothing behind.
ColumnsMatchTree ==
    overlaps = 0 =>
        \A i \in Dicts :
            /\ {x[1] : x \in Shown(details, i)} = OfDict(details, i)
            /\ \A x \in Shown(details, i) :
                   /\ details[x[1]].place = <<Len(x[2]), x[2]>>
                   /\ PathRows(details, x[1]) = {x[1]} \cup {x[2][n] : n \in DOMAIN x[2]}

\* A detail outlives its dictionary only if a creation overlapped the deletion;
\* a deletion that breaks off between its statements leaves no such row (delete).
DetailsHaveDictionary ==
    overlaps = 0 => \A d \in DOMAIN details : details[d].dict \in dicts

\* Whatever overlaps, no detail ever hangs below a detail of another dictionary.
ParentsOfSameDictionary ==
    \A d \in DOMAIN details :
        details[d].parent \in DOMAIN details => details[details[d].parent].dict = details[d].dict

\* Types, and details fit their dictionary: its tree, its columns, its life, and
\* no parent in another one.
DetailsFitDictionaries == DictTypeOK /\ ColumnsMatchTree /\ DetailsHaveDictionary /\ ParentsOfSameDictionary

\* No operation meets a ring, where its recursive query would not come back and
\* no tree shows the details, unless a step was taken that can put details above
\* each other: two updates were in progress at once, each checked before the
\* other is committed, or the parent of an update was created after the first
\* statement of the update had looked for it.  Creations and deletions that
\* overlap an update otherwise, and operations that break off, make none
\* (update_detail).
RecursiveQueriesEnd ==
    ~detailRingRisk => \A r \in DictRequests : \A d \in DOMAIN details :
                     QueryEnds(Seen(r), details[d].dict, d)

=============================================================================
