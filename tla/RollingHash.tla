---------------------------- MODULE RollingHash ----------------------------
(***************************************************************************)
(* Hash::RollingHash (src/common/hash.cpp): a polynomial hash, and the     *)
(* update that rolls a window of it one byte forward.                      *)
(***************************************************************************)
EXTENDS Integers, Sequences, SequencesExt

CONSTANTS kPrime, kMod, window_size_

ASSUME HashAssumption ==
    /\ kPrime \in Nat \ {0}
    /\ kMod \in Nat \ {0}
    /\ window_size_ \in Nat \ {0}

(* The hash after reset().                                                 *)
reset == 0

append(hash, byte) == (hash * kPrime + byte) % kMod

(* Mutant: the oldest byte is weighted as if the window were one larger.   *)
powerOffByOne ==
    LET power[n \in 0 .. window_size_] == IF n = 0 THEN 1 ELSE (power[n - 1] * kPrime) % kMod
    IN  power[window_size_]

(* The constructor's power_: kPrime to the window size less one.           *)
power_ ==
    LET power[n \in 0 .. window_size_] == IF n = 0 THEN 1 ELSE (power[n - 1] * kPrime) % kMod
    IN  power[window_size_ - 1]

update(hash, byte_in, byte_out) ==
    append((hash + kMod - ((byte_out * power_) % kMod)) % kMod, byte_in)

(* What the hash of a sequence of bytes should be.                         *)
HashOf(bytes) == FoldLeft(append, reset, bytes)

(* Rolling the hash of a window over every byte of a sequence gives, at    *)
(* each place, the hash a fresh object has after the window's bytes alone. *)
RollsOver(bytes) ==
    \A s \in 0 .. Len(bytes) - window_size_ - 1 :
       update(HashOf(SubSeq(bytes, s + 1, s + window_size_)),
              bytes[s + window_size_ + 1], bytes[s + 1])
         = HashOf(SubSeq(bytes, s + 2, s + window_size_ + 1))
=============================================================================
