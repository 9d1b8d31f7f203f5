------------------------- MODULE RateLimiterProofs -------------------------
(***************************************************************************)
(* A rate limiter whose rate is never raised implements a token bucket,    *)
(* for every rate, burst size and number of calls.                         *)
(***************************************************************************)
EXTENDS RateLimiter, TLAPS

(* A full bucket takes at most MaxElapsed ticks, whatever the rate; after  *)
(* setRate there may be more tokens than it holds, until the next refill.  *)
Limits ==
    /\ rate \in Nat /\ burst_size_ \in Nat
    /\ burst_size_ <= MaxElapsed * rate
    /\ tokens_ \in Nat
    /\ elapsed \in 0 .. MaxElapsed
    /\ pc \in [Calls -> {"idle", "try", "short", "asleep", "served", "refused"}]
    /\ want \in [Calls -> Requests \cup {0}]
    /\ \A c \in Calls : pc[c] \in {"try", "short", "asleep"} => want[c] \in Requests

(* The bucket refilled is a number of tokens within the burst size.        *)
LEMMA RefillType ==
    ASSUME Limits
    PROVE  refill \in 0 .. burst_size_
<1>1. elapsed * rate \in Nat
  BY LimiterAssumption DEF Limits
<1>2. tokens_ + elapsed * rate \in Nat /\ burst_size_ \in Nat
  BY <1>1 DEF Limits
<1>3. \A m, n \in Nat : Least(m, n) \in 0 .. n
  BY DEF Least
<1> QED
  BY <1>2, <1>3 DEF refill

(* A lower rate makes no more of the time.                                 *)
LEMMA Product ==
    ASSUME NEW t \in Nat, NEW a \in Nat, NEW b \in Nat, a <= b
    PROVE  t * a <= t * b
<1>1. PICK d \in Nat : b = a + d
  <2>1. b - a \in Nat /\ b = a + (b - a)
    OBVIOUS
  <2> QED
    BY <2>1
<1>2. t * (a + d) = t * a + t * d
  OBVIOUS
<1>3. t * a \in Nat /\ t * d \in Nat
  OBVIOUS
<1> QED
  BY <1>1, <1>2, <1>3

(* Every step keeps them.                                                  *)
LEMMA LimitsStep ==
    ASSUME Limits, [Next]_vars
    PROVE  Limits'
<1>1. ASSUME NEW c \in Calls, TryOnce(c) PROVE Limits'
  <2>1. PICK b \in Requests : /\ want' = [want EXCEPT ![c] = b]
                              /\ tryAcquire(c, b, "served", "refused")
    BY <1>1 DEF TryOnce
  <2>2. b \in Nat /\ 0 \in 0 .. MaxElapsed
    BY LimiterAssumption
  <2>3. tokens_' \in Nat
    BY <2>1, <2>2, RefillType, LimiterAssumption DEF tryAcquire
  <2> QED
    BY <2>1, <2>2, <2>3 DEF tryAcquire, Limits
<1>2. ASSUME NEW c \in Calls, Acquire(c) PROVE Limits'
  BY <1>2 DEF Acquire, bucket, Limits
<1>3. ASSUME NEW c \in Calls, Try(c) PROVE Limits'
  <2>1. want[c] \in Requests
    BY <1>3 DEF Try, Limits
  <2>2. want[c] \in Nat /\ 0 \in 0 .. MaxElapsed
    <3>1. Requests \subseteq Nat /\ 0 \in 0 .. MaxElapsed
      BY LimiterAssumption
    <3> QED
      BY <2>1, <3>1
  <2>3. tokens_' \in Nat
    BY <1>3, <2>2, RefillType, LimiterAssumption DEF Try, tryAcquire
  <2> QED
    BY <1>3, <2>2, <2>3 DEF Try, tryAcquire, Limits
<1>4. ASSUME NEW c \in Calls, Sleep(c) \/ Wake(c) PROVE Limits'
  BY <1>4 DEF Sleep, Wake, bucket, Limits
<1>5. CASE Tick
  <2>1. elapsed' \in 0 .. MaxElapsed
    BY <1>5, LimiterAssumption DEF Tick, Least, Limits
  <2> QED
    BY <1>5, <2>1 DEF Tick, Limits
<1>6. ASSUME NEW r \in Rates, SetRate(r) PROVE Limits'
  <2>1. r \in Nat /\ TicksPerSecond \in Nat /\ MaxElapsed \in Nat /\ TicksPerSecond <= MaxElapsed
    BY LimiterAssumption
  <2>2. r * TicksPerSecond <= r * MaxElapsed
    BY <2>1, Product
  <2>3. r * TicksPerSecond \in Nat /\ r * MaxElapsed = MaxElapsed * r
    BY <2>1
  <2>4. burst_size_' \in Nat /\ burst_size_' <= MaxElapsed * rate' /\ rate' \in Nat
    BY <1>6, <2>1, <2>2, <2>3 DEF SetRate
  <2> QED
    BY <1>6, <2>4 DEF SetRate, Limits
<1>7. CASE UNCHANGED vars
  BY <1>7 DEF vars, Limits
<1> QED
  BY <1>1, <1>2, <1>3, <1>4, <1>5, <1>6, <1>7 DEF Next, Step

(* A tick of the clock adds the rate to what the bucket would hold.        *)
LEMMA TickRefills ==
    ASSUME Limits, Limits', Tick
    PROVE  refill' = Bucket!Least(refill + rate, burst_size_)
<1> DEFINE x == elapsed * rate
           y == MaxElapsed * rate
<1>1. x \in Nat /\ y \in Nat /\ burst_size_ <= y /\ {rate, burst_size_} \subseteq Nat
  BY LimiterAssumption DEF Limits
<1>2. tokens_ \in Nat /\ refill = Least(tokens_ + x, burst_size_)
  BY DEF refill, Limits
<1>3. CASE elapsed < MaxElapsed
  <2>1. elapsed' = elapsed + 1
    BY <1>3, LimiterAssumption DEF Tick, Least, Limits
  <2>2. (elapsed + 1) * rate = x + rate
    BY LimiterAssumption DEF Limits
  <2>3. refill' = Least(tokens_ + (x + rate), burst_size_)
    BY <2>1, <2>2 DEF refill, Limits, Tick
  <2> HIDE DEF x, y
  <2> QED
    BY <1>1, <1>2, <2>3 DEF Least, Bucket!Least, Limits
<1>4. CASE elapsed = MaxElapsed
  <2>1. elapsed' = elapsed /\ x = y
    BY <1>4, LimiterAssumption DEF Tick, Least
  <2>2. refill' = refill
    BY <2>1 DEF refill, Limits, Tick
  <2> HIDE DEF x, y
  <2> QED
    BY <1>1, <1>2, <2>1, <2>2 DEF Least, Bucket!Least, Limits
<1> QED
  BY <1>3, <1>4, LimiterAssumption DEF Limits

(* A failed try changes nothing the bucket shows, a successful one takes   *)
(* the tokens.                                                             *)
LEMMA TryTakes ==
    ASSUME Limits, Limits', NEW c \in Calls, NEW b \in Nat,
           NEW yes, NEW no, tryAcquire(c, b, yes, no)
    PROVE  \/ refill >= b /\ refill' = refill - b /\ pc' = [pc EXCEPT ![c] = yes]
           \/ refill < b /\ refill' = refill /\ pc' = [pc EXCEPT ![c] = no]
<1>1. elapsed' = 0 /\ rate' \in Nat /\ refill \in Nat
  BY LimiterAssumption, RefillType DEF tryAcquire, Limits
<1>2. refill' = Least(tokens_', burst_size_) /\ tokens_' \in Nat /\ burst_size_ \in Nat
  BY <1>1 DEF refill, tryAcquire, Limits
<1>3. tokens_' <= burst_size_
  BY <1>1, <1>2, RefillType DEF tryAcquire
<1>4. refill' = tokens_'
  BY <1>2, <1>3 DEF Least
<1> QED
  BY <1>1, <1>4 DEF tryAcquire

(* setRate lowers the rate and the burst size, or leaves them.             *)
Lowers == rate' <= rate /\ burst_size_' <= burst_size_

(* Such a setRate grants nothing.                                          *)
LEMMA LoweredRate ==
    ASSUME Limits, Limits', NEW r \in Rates, SetRate(r), Lowers
    PROVE  Bucket!SetRate
<1> DEFINE x == elapsed * rate
           y == elapsed * rate'
<1>1. /\ rate' = r /\ burst_size_' = r * TicksPerSecond
      /\ UNCHANGED <<tokens_, elapsed, pc, want>>
  BY DEF SetRate
<1>2. x \in Nat /\ y \in Nat /\ y <= x
  <2>1. elapsed \in Nat /\ rate \in Nat /\ rate' \in Nat /\ rate' <= rate
    BY LimiterAssumption DEF Limits, Lowers
  <2>2. ASSUME NEW t \in Nat, NEW a \in Nat, NEW b \in Nat
        PROVE  t * a \in Nat /\ t * b \in Nat
    OBVIOUS
  <2>3. elapsed * rate \in Nat /\ elapsed * rate' \in Nat
    BY <2>1, <2>2
  <2>4. elapsed * rate' <= elapsed * rate
    BY <2>1, Product
  <2> QED
    BY <2>3, <2>4
<1>3. refill = Least(tokens_ + x, burst_size_) /\ refill' = Least(tokens_ + y, burst_size_')
  BY <1>1 DEF refill
<1>4. /\ tokens_ \in Nat /\ burst_size_ \in Nat /\ burst_size_' \in Nat
      /\ burst_size_' <= burst_size_
  BY DEF Limits, Lowers
<1> HIDE DEF x, y
<1>5. refill' <= Bucket!Least(refill, burst_size_')
  BY <1>2, <1>3, <1>4 DEF Least, Bucket!Least
<1> QED
  BY <1>1, <1>5 DEF Bucket!SetRate

(* Every step of the limiter is a step of the bucket, or none.             *)
LEMMA BucketStep ==
    ASSUME Limits, Limits', [Next]_vars, [Lowers]_vars
    PROVE  [Bucket!Next]_(Bucket!vars)
<1> DEFINE served == {c \in Calls : pc[c] = "served"}
<1>1. Requests \subseteq Nat
  BY LimiterAssumption
<1>2. ASSUME NEW c \in Calls, TryOnce(c) PROVE [Bucket!Next]_(Bucket!vars)
  <2>1. PICK b \in Requests : /\ want' = [want EXCEPT ![c] = b]
                              /\ tryAcquire(c, b, "served", "refused")
    BY <1>2 DEF TryOnce
  <2>2. /\ pc[c] = "idle" /\ c \notin served /\ want'[c] = b
        /\ rate' = rate /\ burst_size_' = burst_size_
    BY <1>2, <2>1 DEF TryOnce, tryAcquire, Limits
  <2>3. CASE refill >= b /\ refill' = refill - b /\ pc' = [pc EXCEPT ![c] = "served"]
    <3>1. served' = served \cup {c}
      BY <2>3 DEF Limits
    <3>2. Bucket!Serve(c)
      BY <2>1, <2>2, <2>3, <3>1 DEF Bucket!Serve
    <3> QED
      BY <3>2 DEF Bucket!Next
  <2>4. CASE refill' = refill /\ pc' = [pc EXCEPT ![c] = "refused"]
    <3>1. served' = served
      BY <2>2, <2>4 DEF Limits
    <3>2. Bucket!Ask(c)
      BY <2>1, <2>2, <2>4, <3>1 DEF Bucket!Ask
    <3> QED
      BY <3>2 DEF Bucket!Next
  <2> QED
    BY <1>1, <2>1, <2>3, <2>4, TryTakes
<1>3. ASSUME NEW c \in Calls, Acquire(c) PROVE [Bucket!Next]_(Bucket!vars)
  <2>1. served' = served /\ c \notin served
    BY <1>3 DEF Acquire, Limits
  <2>2. refill' = refill
    BY <1>3 DEF Acquire, bucket, refill
  <2>3. Bucket!Ask(c)
    BY <1>3, <2>1, <2>2 DEF Acquire, bucket, Bucket!Ask
  <2> QED
    BY <2>3 DEF Bucket!Next
<1>4. ASSUME NEW c \in Calls, Try(c) PROVE [Bucket!Next]_(Bucket!vars)
  <2>1. /\ pc[c] = "try" /\ c \notin served /\ want[c] \in Requests /\ want' = want
        /\ tryAcquire(c, want[c], "served", "short")
        /\ rate' = rate /\ burst_size_' = burst_size_
    BY <1>4 DEF Try, tryAcquire, Limits
  <2>2. CASE /\ refill >= want[c] /\ refill' = refill - want[c]
             /\ pc' = [pc EXCEPT ![c] = "served"]
    <3>1. served' = served \cup {c}
      BY <2>2 DEF Limits
    <3>2. want' = [want EXCEPT ![c] = want[c]]
      BY <2>1 DEF Limits
    <3>3. Bucket!Serve(c)
      BY <2>1, <2>2, <3>1, <3>2 DEF Bucket!Serve
    <3> QED
      BY <3>3 DEF Bucket!Next
  <2>3. CASE refill' = refill /\ pc' = [pc EXCEPT ![c] = "short"]
    <3>1. served' = served
      BY <2>1, <2>3 DEF Limits
    <3> QED
      BY <2>1, <2>3, <3>1 DEF Bucket!vars
  <2> QED
    BY <1>1, <2>1, <2>2, <2>3, TryTakes
<1>5. ASSUME NEW c \in Calls, Sleep(c) \/ Wake(c) PROVE [Bucket!Next]_(Bucket!vars)
  <2>1. served' = served
    BY <1>5 DEF Sleep, Wake, Limits
  <2>2. refill' = refill
    BY <1>5 DEF Sleep, Wake, bucket, refill
  <2> QED
    BY <1>5, <2>1, <2>2 DEF Sleep, Wake, bucket, Bucket!vars
<1>6. CASE Tick
  <2>1. Bucket!Tick
    BY <1>6, TickRefills DEF Tick, Bucket!Tick
  <2> QED
    BY <2>1 DEF Bucket!Next
<1>7. ASSUME NEW r \in Rates, SetRate(r) PROVE [Bucket!Next]_(Bucket!vars)
  <2>1. Lowers
    <3>1. CASE UNCHANGED vars
      <4>1. rate' = rate /\ burst_size_' = burst_size_ /\ rate \in Nat /\ burst_size_ \in Nat
        BY <3>1 DEF vars, Limits
      <4> QED
        BY <4>1 DEF Lowers
    <3> QED
      BY <3>1
  <2>2. Bucket!SetRate
    BY <1>7, <2>1, LoweredRate
  <2> QED
    BY <2>2 DEF Bucket!Next
<1>8. CASE UNCHANGED vars
  BY <1>8 DEF vars, refill, Bucket!vars
<1> QED
  BY <1>2, <1>3, <1>4, <1>5, <1>6, <1>7, <1>8 DEF Next, Step

(* As long as setRate does not raise the rate or the burst size (it does   *)
(* not have to be called), the limiter, which refills only when it is      *)
(* asked and whose callers race, serves no call earlier than a bucket that *)
(* refills at every tick, and a lower rate grants no call anything.        *)
THEOREM Conforms == Spec /\ [][Lowers]_vars => IsTokenBucket
<1>1. Init => Limits
  BY LimiterAssumption DEF Init, Limits
<1>2. Init => refill = burst_size_ /\ {c \in Calls : pc[c] = "served"} = {}
  BY LimiterAssumption DEF Init, refill, Least
<1>3. Limits /\ [Next]_vars => Limits'
  BY LimitsStep
<1>4. Limits /\ Limits' /\ [Next]_vars /\ [Lowers]_vars => [Bucket!Next]_(Bucket!vars)
  BY BucketStep
<1> QED
  BY <1>1, <1>2, <1>3, <1>4, PTL DEF Spec, IsTokenBucket, Bucket!Spec
=============================================================================
