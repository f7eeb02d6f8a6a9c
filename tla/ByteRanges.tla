------------------------------ MODULE ByteRanges ------------------------------
(* Byte ranges of a public file (crates/api/src/routes/files/public.rs),   *)
(* and a client that fetches a file piece by piece over a connection that  *)
(* breaks.  The content of a file of size n is the numbers 0 to n - 1.     *)
EXTENDS Integers, Sequences

CONSTANTS
    MaxSize,        \* bound on the size of a file
    Word            \* one more than the greatest number that parses: 2^64 there

ASSUME RangesAssumption == MaxSize \in Nat /\ Word \in Nat /\ MaxSize < Word

VARIABLES
    size,           \* of the file
    header,         \* the Range header of the last request
    reply,          \* what was answered
    received        \* the bytes that the fetching client has

rangeVars == <<size, header, reply, received>>

Empty == -1         \* no digits

\* A header: none, one that is not "bytes=first-last", or one that is; Word
\* stands for the numbers that do not fit.
NoHeader == [kind |-> "none", first |-> Empty, last |-> Empty]
Malformed == [kind |-> "malformed", first |-> Empty, last |-> Empty]
Bytes(first, last) == [kind |-> "bytes", first |-> first, last |-> last]
Numbers == {Empty} \cup 0..Word
Headers == {NoHeader, Malformed} \cup {Bytes(f, l) : f \in Numbers, l \in Numbers}

Parses(n) == n \in 0..(Word - 1)

NotSatisfiable == [status |-> 416, start |-> 0, end |-> 0]
Slice(start, end) == [status |-> 206, start |-> start, end |-> end]

Least(m, n) == IF m < n THEN m ELSE n

\* size.saturating_sub(suffix)..size
Suffix(n, total) ==
    IF ~Parses(n) \/ n = 0 \/ total = 0 THEN NotSatisfiable
    ELSE Slice(IF n > total THEN 0 ELSE total - n, total)

\* Variant: the end is taken for exclusive.
FromToExclusive(first, last, total) ==
    IF ~Parses(first) \/ first >= total \/ last >= Word THEN NotSatisfiable
    ELSE LET end == IF last = Empty THEN total - 1 ELSE Least(last, total - 1)
         IN  IF end < first THEN NotSatisfiable ELSE Slice(first, end)

FromTo(first, last, total) ==
    IF ~Parses(first) \/ first >= total \/ last >= Word THEN NotSatisfiable
    ELSE LET end == IF last = Empty THEN total - 1 ELSE Least(last, total - 1)
         IN  IF end < first THEN NotSatisfiable ELSE Slice(first, end + 1)

\* requested_range, and the status that serve_local_upload makes of it.
Requested(h, total) ==
    CASE h.kind = "none" -> [status |-> 200, start |-> 0, end |-> total]
      [] h.kind = "malformed" -> NotSatisfiable
      [] h.kind = "bytes" /\ h.first = Empty -> Suffix(h.last, total)
      [] OTHER -> FromTo(h.first, h.last, total)

\* Content-Length, and the first and last byte of Content-Range.
ContentLength(r) == r.end - r.start
ContentRange(r) == [first |-> r.start, last |-> r.end - 1]

-----------------------------------------------------------------------------
\* Any request.
ServeUpload ==
    /\ header' \in Headers
    /\ reply' = Requested(header', size)
    /\ UNCHANGED <<size, received>>

\* The fetching client asks for what it lacks, in one piece or in pieces of two
\* bytes, gets some of it, and puts it behind what it has.
FetchMore ==
    LET have == Len(received)
    IN  /\ header' \in {Bytes(have, Empty), Bytes(have, have + 1)}
        /\ reply' = Requested(header', size)
        /\ IF reply'.status = 206
           THEN \E n \in 0..(reply'.end - reply'.start) :
                    received' = received \o [i \in 1..n |-> reply'.start + i - 1]
           ELSE received' = received
        /\ UNCHANGED size

RangesInit ==
    /\ size \in 0..MaxSize
    /\ header = NoHeader /\ reply = Requested(NoHeader, size) /\ received = << >>

RangesNext == ServeUpload \/ FetchMore

RangesSpec == RangesInit /\ [][RangesNext]_rangeVars

-----------------------------------------------------------------------------
(* Properties.                                                             *)

\* The bytes asked for: those from the first to the last, or the last so many;
\* of a header that is no range, or has a number that does not fit, none.
Asked ==
    LET readable(n) == n = Empty \/ Parses(n)
    IN  {i \in 0..(size - 1) :
            /\ header.kind # "malformed"
            /\ readable(header.first) /\ readable(header.last)
            /\ header.kind = "bytes" =>
                   IF header.first = Empty THEN header.last # Empty /\ i + header.last >= size
                   ELSE i >= header.first /\ (header.last # Empty => i <= header.last)}

\* The slice served is what was asked for, its length and its Content-Range
\* name it, and a request is refused exactly if nothing of it exists.
SliceIsAsked ==
    /\ reply.start..(reply.end - 1) = Asked
    /\ reply.status = 206 =>
           /\ ContentLength(reply) > 0
           /\ ContentRange(reply).first <= ContentRange(reply).last /\ ContentRange(reply).last < size
    /\ reply.status = 416 <=> header.kind # "none" /\ Asked = {}

\* A client that resumes where it was cut off, as often as it likes, has a
\* prefix of the file, and is told 416 for the rest only if it has all of it.
ResumedFetchIsFile ==
    /\ received = [i \in 1..Len(received) |-> i - 1] /\ Len(received) <= size
    /\ header = Bytes(Len(received), Empty) /\ reply.status = 416 => Len(received) = size

\* Every slice is the one asked for, and a fetch that breaks off and goes on,
\* as often as it does, ends with the file (requested_range, serve_local_upload).
RangesExact == SliceIsAsked /\ ResumedFetchIsFile

=============================================================================
