---------------------------- MODULE TokenBucket ----------------------------
(***************************************************************************)
(* The promise of a rate limiter: a bucket that gains `rate` tokens with   *)
(* every tick of the clock, holds at most `burst`, and serves a call only  *)
(* by taking the tokens the call asked for.  A change of rate grants       *)
(* nothing.                                                                *)
(***************************************************************************)
EXTENDS Integers

CONSTANTS Calls, Requests, Rates, TicksPerSecond

VARIABLES rate, burst, level,
          want,         \* want[c]: the tokens call c asks for
          served        \* the calls that have been given their tokens

vars == <<rate, burst, level, want, served>>

Least(a, b) == IF a < b THEN a ELSE b

Tick ==
    /\ level' = Least(level + rate, burst)
    /\ UNCHANGED <<rate, burst, want, served>>

Ask(c) ==
    /\ c \notin served
    /\ \E b \in Requests : want' = [want EXCEPT ![c] = b]
    /\ UNCHANGED <<rate, burst, level, served>>

Serve(c) ==
    /\ c \notin served
    /\ level >= want'[c]
    /\ level' = level - want'[c]
    /\ served' = served \cup {c}
    /\ \E b \in Requests : want' = [want EXCEPT ![c] = b]
    /\ UNCHANGED <<rate, burst>>

SetRate ==
    /\ rate' \in Rates
    /\ burst' = rate' * TicksPerSecond
    /\ level' <= Least(level, burst')
    /\ UNCHANGED <<want, served>>

Next == Tick \/ SetRate \/ \E c \in Calls : Ask(c) \/ Serve(c)

Spec == (level = burst /\ served = {}) /\ [][Next]_vars
=============================================================================
