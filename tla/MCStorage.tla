----------------------------- MODULE MCStorage -----------------------------
(* Small instances of StorageManager.  Chunk "a" has two bytes, so that a  *)
(* short write can leave a non-empty part of it; chunk "b" has one.        *)
EXTENDS StorageManager

CONSTANTS c1, p1, p2

ChunkA == "a"
ChunkB == "b"

MCData == [h \in Hashes |-> IF h = ChunkA THEN <<"a1", "a2">> ELSE <<h>>]

Mixed      == {<<ChunkA>>, <<ChunkB, ChunkA>>}
Separate   == {<<>>, <<ChunkA>>, <<ChunkB, ChunkB>>}
OneChunk   == {<<ChunkA>>}

PathSymmetry == Permutations(Paths)
=============================================================================
