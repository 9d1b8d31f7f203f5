---------------------------- MODULE Compression ----------------------------
(***************************************************************************)
(* Compression (src/common/compression.cpp) around zlib.  A compressed     *)
(* buffer is known by its length, the length of what it expands to, and    *)
(* whether its end is missing; the bytes themselves are zlib's.            *)
(*                                                                         *)
(* zlib is external: uncompress fills the room it is given and returns     *)
(* Z_BUF_ERROR when that is used up and there is more to come, and         *)
(* Z_DATA_ERROR when the input ends early and there is room left.          *)
(***************************************************************************)
EXTENDS Integers, FiniteSetsExt

CONSTANTS MaxOriginal,    \* bound on the length of the data
          MaxDoublings    \* bound on how often the loop is followed

(* Followed that often, the loop has made room for MaxOriginal bytes.      *)
ASSUME CompressionAssumption ==
    /\ {MaxOriginal, MaxDoublings} \subseteq Nat
    /\ MaxOriginal <= 4 * MaxDoublings + 3

(* What compress returns for n bytes: nothing for none, and otherwise      *)
(* anything of one byte up to the bound, here of one byte more.            *)
compress(n) ==
    IF n = 0 THEN {[length |-> 0, out |-> 0, cut |-> FALSE]}
    ELSE [length : 1 .. n + 1, out : {n}, cut : {FALSE}]

(* The buffers that begin like b and end before it: what is left expands   *)
(* to at most as much.                                                     *)
truncated(b) == [length : 1 .. b.length - 1, out : 0 .. b.out, cut : {TRUE}]

(* uncompress, into a buffer of `room` bytes.                              *)
uncompress(b, room) ==
    IF b.cut THEN IF room <= b.out THEN "Z_BUF_ERROR" ELSE "Z_DATA_ERROR"
    ELSE IF room < b.out THEN "Z_BUF_ERROR" ELSE "Z_OK"

(* Mutant: the buffer starts with the size of the compressed data and      *)
(* grows by as much.                                                       *)
roomAdded(b) == [k \in 0 .. MaxDoublings |-> b.length * (k + 1)]

(* The room of the k-th attempt: four times the input, then doubled.       *)
roomOf(b) ==
    LET room[k \in 0 .. MaxDoublings] == IF k = 0 THEN 4 * b.length ELSE 2 * room[k - 1]
    IN  room

(* The attempts after which the loop ends.                                 *)
Ending(b) == {k \in 0 .. MaxDoublings : uncompress(b, roomOf(b)[k]) # "Z_BUF_ERROR"}

Throws == -1

(* The length of what is returned, or Throws.                              *)
decompress(b) ==
    IF b.length = 0 THEN 0
    ELSE IF uncompress(b, roomOf(b)[Min(Ending(b))]) = "Z_OK" THEN b.out ELSE Throws

(* What compress makes of up to MaxOriginal bytes, and what can be left of *)
(* it.                                                                     *)
Buffers == UNION {compress(n) : n \in 0 .. MaxOriginal}
Remains == UNION {truncated(b) : b \in Buffers}

(* The loop of decompress (compression.cpp:43) ends, with room for no more *)
(* than four times the input or twice the output; what was compressed is   *)
(* given back, and a buffer whose end is missing, but for an empty one, is *)
(* found out.                                                              *)
RoundTrips ==
    /\ \A b \in Buffers \cup Remains : b.length > 0 =>
          /\ Ending(b) # {}
          /\ roomOf(b)[Min(Ending(b))] <= Max({4 * b.length, 2 * b.out})
    /\ \A b \in Buffers : decompress(b) = b.out
    /\ \A b \in Remains : decompress(b) = Throws
=============================================================================
