----------------------------- MODULE MCStorages -----------------------------
(* The seed's local storage and one S3 storage still to be created; either *)
(* could be meant to move to the place of the other.                       *)
EXTENDS Storages

CONSTANTS s1, s2, disk, bucket

MCIds == {s1, s2}
MCPlaces == {disk, bucket}
MCLocalPlaces == {disk}
MCHomeOf == [id \in MCIds |-> IF id = s1 THEN disk ELSE bucket]

=============================================================================
