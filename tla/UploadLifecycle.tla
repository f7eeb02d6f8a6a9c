--------------------------- MODULE UploadLifecycle ---------------------------
(***************************************************************************)
(* What one managed upload promises its client, without handlers, claims,  *)
(* locks or objects: chunks are appended at the current offset while the   *)
(* session is open; at most once, and only when every announced byte has   *)
(* been received, the upload becomes a file, whose content is exactly the  *)
(* received chunks for as long as it is served; an open session may expire *)
(* for good; a file may be deleted, in two steps, for good.                *)
(***************************************************************************)
EXTENDS Naturals

CONSTANTS Tokens, Sizes, ChunkSizes

VARIABLES
  phase,      \* where the upload is in its life
  missing,    \* the bytes an open session still waits for
  received,   \* the chunks acknowledged so far
  served      \* what a reader of the file gets

vars == <<phase, missing, received, served>>

\* offset is where the next chunk goes: right behind the received ones.
NextOffset(offset) ==
  /\ \A c \in received : c.offset + c.size <= offset
  /\ offset = 0 \/ \E c \in received : c.offset + c.size = offset

Init == phase = "new" /\ missing = 0 /\ received = {} /\ served = {}

Start == /\ phase = "new"
         /\ phase' = "open"
         /\ missing' \in Sizes
         /\ UNCHANGED <<received, served>>

Receive == /\ phase = "open"
           /\ \E size \in ChunkSizes, t \in Tokens, offset \in {0} \cup {c.offset + c.size : c \in received} :
                /\ NextOffset(offset)
                /\ size <= missing
                /\ missing' = missing - size
                /\ received' = received \cup {[offset |-> offset, size |-> size, token |-> t]}
           /\ UNCHANGED <<phase, served>>

Store == /\ phase = "open"
         /\ missing = 0
         /\ phase' = "stored"
         /\ served' = received
         /\ UNCHANGED <<missing, received>>

Expire == /\ phase = "open"
          /\ phase' = "expired"
          /\ missing' = 0
          /\ UNCHANGED <<received, served>>

MarkDeleted == /\ phase = "stored"
               /\ phase' = "deleting"
               /\ served' = {}
               /\ UNCHANGED <<missing, received>>

Remove == /\ phase = "deleting"
          /\ phase' = "deleted"
          /\ UNCHANGED <<missing, received, served>>

Next == Start \/ Receive \/ Store \/ Expire \/ MarkDeleted \/ Remove

Spec == Init /\ [][Next]_vars
=============================================================================
