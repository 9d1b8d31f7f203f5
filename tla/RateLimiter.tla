---------------------------- MODULE RateLimiter ----------------------------
(***************************************************************************)
(* RateLimiter (src/common/rate_limiter.cpp): a token bucket that refills  *)
(* lazily, shared by calls of acquire and tryAcquire and by setRate.       *)
(*                                                                         *)
(* One tick is a millisecond, the grain of acquire's sleep; a rate is in   *)
(* tokens per tick, so that bytes_per_second_ is TicksPerSecond times it.  *)
(* Time is relative: `elapsed` is now - last_refill_, and `sleep` what is  *)
(* left of a call's sleep_for.  Doubles are exact (integers).              *)
(***************************************************************************)
EXTENDS Integers

CONSTANTS
    Calls,            \* calls of acquire or tryAcquire
    Requests,         \* values of their argument bytes
    Rates,            \* rates setRate is called with
    Rate,             \* rate and burst size given to the constructor
    Burst,
    TicksPerSecond,
    SizeModulus,      \* a size_t counts modulo this
    MaxElapsed        \* elapsed time is counted up to this bound

(* The bound on elapsed hides nothing: by then every bucket is full.       *)
ASSUME LimiterAssumption ==
    /\ {Rate, Burst, TicksPerSecond, SizeModulus} \subseteq Nat \ {0}
    /\ Rates \subseteq Nat \ {0}
    /\ Requests \subseteq 0 .. SizeModulus - 1
    /\ MaxElapsed \in Nat
    /\ TicksPerSecond <= MaxElapsed
    /\ \A r \in Rates \cup {Rate} : Burst <= r * MaxElapsed

VARIABLES
    rate,             \* bytes_per_second_
    burst_size_,
    tokens_,
    elapsed,          \* since last_refill_
    pc,               \* pc[c]: where call c is
    want,             \* want[c]: its argument
    sleep             \* sleep[c]: ticks until it wakes up

vars == <<rate, burst_size_, tokens_, elapsed, pc, want, sleep>>

bucket == <<rate, burst_size_, tokens_, elapsed>>

Least(a, b) == IF a < b THEN a ELSE b
Greatest(a, b) == IF a > b THEN a ELSE b

Init ==
    /\ rate = Rate
    /\ burst_size_ = Burst
    /\ tokens_ = Burst
    /\ elapsed = 0
    /\ pc = [c \in Calls |-> "idle"]
    /\ want = [c \in Calls |-> 0]
    /\ sleep = [c \in Calls |-> 0]

(* What refill() makes of tokens_.                                         *)
refill == Least(tokens_ + elapsed * rate, burst_size_)

(* Mutant: last_refill_ moves only when tokens are taken.                  *)
takeWithoutReset(c, bytes, yes, no) ==
    /\ IF refill >= bytes
       THEN tokens_' = refill - bytes /\ elapsed' = 0 /\ pc' = [pc EXCEPT ![c] = yes]
       ELSE tokens_' = refill /\ UNCHANGED elapsed /\ pc' = [pc EXCEPT ![c] = no]
    /\ UNCHANGED <<rate, burst_size_>>

(* tryAcquire, all of it under mutex_, with the label of each result.      *)
tryAcquire(c, bytes, yes, no) ==
    /\ elapsed' = 0
    /\ IF refill >= bytes
       THEN tokens_' = refill - bytes /\ pc' = [pc EXCEPT ![c] = yes]
       ELSE tokens_' = refill /\ pc' = [pc EXCEPT ![c] = no]
    /\ UNCHANGED <<rate, burst_size_>>

(* A caller that does not block.                                           *)
TryOnce(c) ==
    /\ pc[c] = "idle"
    /\ \E b \in Requests : /\ want' = [want EXCEPT ![c] = b]
                           /\ tryAcquire(c, b, "served", "refused")
    /\ UNCHANGED sleep

(* A caller of acquire.                                                    *)
Acquire(c) ==
    /\ pc[c] = "idle"
    /\ \E b \in Requests : want' = [want EXCEPT ![c] = b]
    /\ pc' = [pc EXCEPT ![c] = "try"]
    /\ UNCHANGED <<bucket, sleep>>

Try(c) ==
    /\ pc[c] = "try"
    /\ tryAcquire(c, want[c], "served", "short")
    /\ UNCHANGED <<want, sleep>>

(* After a failed try acquire reads available() and bytes_per_second_      *)
(* without the lock.  bytes - available() is a size_t: when other callers  *)
(* have meanwhile refilled the bucket it wraps, and what the call then     *)
(* sleeps for is, at 2^64, beyond any time it takes to fill the bucket.    *)
(* The rate is positive: with rate 0 the quotient is infinite and its      *)
(* conversion to milliseconds is undefined.                                *)
Sleep(c) ==
    /\ pc[c] = "short"
    /\ LET tokens_needed == (want[c] - tokens_) % SizeModulus
       IN  sleep' = [sleep EXCEPT ![c] = Greatest(tokens_needed \div rate, 1)]
    /\ pc' = [pc EXCEPT ![c] = "asleep"]
    /\ UNCHANGED <<bucket, want>>

Wake(c) ==
    /\ pc[c] = "asleep"
    /\ sleep[c] = 0
    /\ pc' = [pc EXCEPT ![c] = "try"]
    /\ UNCHANGED <<bucket, want, sleep>>

(* setRate changes rate and burst size only; last_refill_ stays.           *)
SetRate(r) ==
    /\ rate' = r
    /\ burst_size_' = r * TicksPerSecond
    /\ UNCHANGED <<tokens_, elapsed, pc, want, sleep>>

Tick ==
    /\ elapsed' = Least(elapsed + 1, MaxElapsed)
    /\ sleep' = [c \in Calls |-> Greatest(sleep[c] - 1, 0)]
    /\ UNCHANGED <<rate, burst_size_, tokens_, pc, want>>

Step(c) == Try(c) \/ Sleep(c) \/ Wake(c)

Next ==
    \/ \E c \in Calls : TryOnce(c) \/ Acquire(c) \/ Step(c)
    \/ \E r \in Rates : SetRate(r)
    \/ Tick

Spec == Init /\ [][Next]_vars

-----------------------------------------------------------------------------
(* PROPERTIES                                                              *)

(* The lazy limiter is a token bucket: what it would hold if it refilled   *)
(* at every tick gains the rate and loses what the calls were served.      *)
Bucket == INSTANCE TokenBucket WITH
             burst <- burst_size_,
             level <- refill,
             served <- {c \in Calls : pc[c] = "served"}

IsTokenBucket == Bucket!Spec

(* acquire sleeps "for the time needed to accumulate required tokens"      *)
(* (rate_limiter.cpp:15): with at least one token a tick coming in, never  *)
(* longer than the whole of its argument takes, or the least sleep.        *)
SleepsAsNeeded ==
    \A c \in Calls : pc[c] = "asleep" => sleep[c] <= Greatest(want[c], 1)
=============================================================================
