------------------------------- MODULE Listings -------------------------------
(* Paged lists: audit events, users, parameters and files are counted by   *)
(* one statement and read by another, page after page, while rows are      *)
(* written (crates/audit/src/service.rs, crates/iam/src/accounts/service.rs, *)
(* crates/metadata/src/parameters/service.rs,                              *)
(* crates/file-storage/src/files/catalog.rs).  One reader with one filter. *)
EXTENDS Integers, Sequences, FiniteSets

CONSTANTS
    MaxId,          \* bound on the ids a sequence has handed out
    Names,          \* numbers: the values of the columns a user list can be ordered by
    MaxWrites       \* bound on the changes of rows while the reader reads

ASSUME ListingAssumption == MaxId \in Nat /\ Names \subseteq Nat /\ MaxWrites \in Nat

VARIABLES
    table,          \* the table that is read
    rows,           \* its committed rows: a name, and whether the filter lets it pass
    lastId,         \* the last value of the sequence
    drawn,          \* ids of rows that are not committed yet
    reader,
    writes,
    complete,       \* history: the rows that passed since the reader began
    disturbed       \* history: "row" came between the count and its page; a "key" changed

listVars == <<table, rows, lastId, drawn, reader, writes, complete, disturbed>>

Tables == {"audit", "users", "parameters", "files"}
Row == [name : Names, pass : BOOLEAN]

NoReader == [pc |-> "idle", by |-> "id", desc |-> TRUE, size |-> 1, page |-> 1, total |-> 0, found |-> {}, seen |-> {}]

Ids == 1..MaxId
Passing == {i \in DOMAIN rows : rows[i].pass}

\* order_key and desc of a user list; the others are ordered by id.
Orders(t) == IF t = "users" THEN {"id", "name"} \X BOOLEAN ELSE {<<"id", TRUE>>}

Key(i, by) == IF by = "id" THEN i ELSE rows[i].name

\* Every order that the statement allows: rows with equal keys come as they come.
Sorted(S, by, desc) ==
    {q \in [1..Cardinality(S) -> S] :
        \A m, n \in DOMAIN q : m < n =>
            /\ q[m] # q[n]
            /\ IF desc THEN Key(q[m], by) >= Key(q[n], by) ELSE Key(q[m], by) <= Key(q[n], by)}

\* Variant: the first page is page 0.
OffsetFromZero(page, size) == page * size

Offset(page, size) == (page - 1) * size

-----------------------------------------------------------------------------
(* The reader.                                                             *)

BeginReading ==
    /\ reader.pc = "idle"
    /\ \E order \in Orders(table), size \in 1..2 :
           reader' = [NoReader EXCEPT !.pc = "count", !.by = order[1], !.desc = order[2], !.size = size]
    /\ complete' = Passing /\ disturbed' = {}
    /\ UNCHANGED <<table, rows, lastId, drawn, writes>>

\* select count(*)
CountRows ==
    /\ reader.pc = "count"
    /\ reader' = [reader EXCEPT !.pc = "rows", !.total = Cardinality(Passing)]
    /\ disturbed' = disturbed \ {"row"}
    /\ UNCHANGED <<table, rows, lastId, drawn, writes, complete>>

\* The page is answered, and the reader goes on as long as the total promises more.
Turned(found) ==
    LET last == reader.page * reader.size >= reader.total
    IN  [reader EXCEPT !.seen = @ \cup found, !.found = {},
                       !.pc = IF last THEN "done" ELSE "count",
                       !.page = IF last THEN @ ELSE @ + 1]

\* order by ... limit ... offset ...; for a super administrator the roles of the
\* users come next.
FetchRows ==
    LET offset == Offset(reader.page, reader.size)
    IN  /\ reader.pc = "rows"
        /\ \E q \in Sorted(Passing, reader.by, reader.desc) :
               LET found == {q[n] : n \in DOMAIN q \cap (offset + 1)..(offset + reader.size)}
               IN  \/ reader' = Turned(found)
                   \/ table = "users" /\ reader' = [reader EXCEPT !.pc = "roles", !.found = found]
        /\ UNCHANGED <<table, rows, lastId, drawn, writes, complete, disturbed>>

\* get_roles_by_user_ids: a user of the page that is gone fails the request.
LoadRoles ==
    /\ reader.pc = "roles"
    /\ reader' = IF reader.found \subseteq DOMAIN rows THEN Turned(reader.found)
                 ELSE [reader EXCEPT !.pc = "failed", !.found = {}]
    /\ UNCHANGED <<table, rows, lastId, drawn, writes, complete, disturbed>>

-----------------------------------------------------------------------------
(* The writers.                                                            *)

Write == writes < MaxWrites /\ writes' = writes + 1

\* An insert draws its id ...
DrawId ==
    /\ lastId < MaxId /\ lastId' = lastId + 1
    /\ drawn' = drawn \cup {lastId'}
    /\ Write /\ UNCHANGED <<table, rows, reader, complete, disturbed>>

\* ... and commits, perhaps after a later id did.
InsertRow(i) ==
    /\ i \in drawn /\ drawn' = drawn \ {i}
    /\ \E row \in Row :
           /\ rows' = [j \in DOMAIN rows \cup {i} |-> IF j = i THEN row ELSE rows[j]]
           /\ disturbed' = disturbed \cup {x \in {"row"} : row.pass /\ reader.pc = "rows"}
    /\ UNCHANGED <<table, lastId, reader, writes, complete>>

\* Nothing removes an audit event.
RemoveRow(i) ==
    /\ table # "audit" /\ i \in DOMAIN rows
    /\ rows' = [j \in DOMAIN rows \ {i} |-> rows[j]]
    /\ complete' = IF rows[i].pass THEN {} ELSE complete
    /\ Write /\ UNCHANGED <<table, lastId, drawn, reader, disturbed>>

\* New names and new values that the filter judges anew: a user, a parameter,
\* a file's name.
UpdateRow(i) ==
    /\ table # "audit" /\ i \in DOMAIN rows
    /\ \E row \in Row \ {rows[i]} :
           /\ rows' = [rows EXCEPT ![i] = row]
           /\ complete' = IF rows[i].pass /\ ~row.pass THEN {} ELSE complete
           /\ disturbed' = disturbed \cup {x \in {"row"} : row.pass /\ ~rows[i].pass /\ reader.pc = "rows"}
                                    \cup {x \in {"key"} : row.name # rows[i].name /\ reader.by = "name"}
    /\ Write /\ UNCHANGED <<table, lastId, drawn, reader>>

ListInit ==
    /\ table \in Tables
    /\ \E n \in 0..(MaxId - 1) : rows \in [1..n -> Row]
    /\ lastId = Cardinality(DOMAIN rows) /\ drawn = {} /\ reader = NoReader
    /\ writes = 0 /\ complete = {} /\ disturbed = {}

ListNext ==
    \/ BeginReading
    \/ CountRows
    \/ FetchRows
    \/ LoadRoles
    \/ DrawId
    \/ \E i \in Ids : InsertRow(i) \/ RemoveRow(i) \/ UpdateRow(i)

ListSpec == ListInit /\ [][ListNext]_listVars

-----------------------------------------------------------------------------
(* Properties.                                                             *)

\* A reader that goes through the pages that total promises sees every row
\* that passed from first to last, whatever rows are added between its pages
\* and in whatever order they commit.  It takes three things to miss one: a row
\* that ceases to pass and lets the later ones move up; a row that comes
\* between the last count and the page that was counted, or a key that changes;
\* an order by a column in which rows are equal.
PagingMissesNothing ==
    LET unique == \A i, j \in DOMAIN rows : i # j => Key(i, reader.by) # Key(j, reader.by)
    IN  reader.pc = "done" /\ unique /\ disturbed = {} => complete \subseteq reader.seen

=============================================================================
