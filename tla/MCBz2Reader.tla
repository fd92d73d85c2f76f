----------------------------- MODULE MCBz2Reader -----------------------------
(***************************************************************************)
(* Files of one or two streams for Bz2Reader, each stream one to three    *)
(* compressed bytes long and decompressing to one or two bytes, with      *)
(* bzlib reading two bytes at a time: stream ends fall inside a chunk, on *)
(* a chunk boundary and at the file's end, on and off a boundary.         *)
(***************************************************************************)
EXTENDS Bz2Reader

Stream == [csize : 1..3, osize : 1..2]

MCFiles == {<<s>> : s \in Stream} \cup {<<s, t>> : s, t \in Stream}

=============================================================================
