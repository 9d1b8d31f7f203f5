------------------------------ MODULE MCDelta ------------------------------
(* A small instance of DeltaEngine, and of the operators of Compression.   *)
EXTENDS DeltaEngine, Compression

(* The loop of decompress (compression.cpp:43) ends, with room for no more *)
(* than four times the input or twice the output, and gives back what was  *)
(* compressed or throws (RoundTrips).  It depends on no state: it is       *)
(* evaluated before the first call.                                        *)
DecompressEnds == calls = 0 => RoundTrips
=============================================================================
