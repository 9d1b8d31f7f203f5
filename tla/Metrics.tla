------------------------------- MODULE Metrics -------------------------------
(***************************************************************************)
(* The process-wide metrics registry (metrics.cpp, metrics.h): four maps   *)
(* from names to figures behind one std::mutex.                            *)
(*                                                                         *)
(* Every operation but toString does all its work under one lock_guard, so *)
(* it is one step, enabled when the mutex is free.  toString keeps the     *)
(* mutex while it walks the four maps, one entry a step in any order (they *)
(* are unordered), and calls getBytesPerSecond, which locks the same       *)
(* mutex: from "relock" the thread has no step, since it waits for itself. *)
(***************************************************************************)
EXTENDS Integers

CONSTANTS Threads,     \* threads that use the registry
          Names,       \* names of metrics
          Values,      \* values given to incrementCounter and setGauge
          Durations,   \* microseconds given to recordLatency
          Sizes,       \* byte counts given to recordBytes
          Ops,         \* the operations the threads call
          MaxCalls,    \* bound: calls made in a behaviour
          MaxTime      \* bound on the clock

ASSUME MetricsAssumption ==
    /\ Values \subseteq Int
    /\ Durations \subseteq Nat
    /\ Sizes \subseteq Nat
    /\ Ops \subseteq {"incrementCounter", "setGauge", "recordLatency", "recordBytes",
                      "get", "reset", "toString"}
    /\ MaxCalls \in Nat
    /\ MaxTime \in Nat

VARIABLES counters_,   \* name -> value, on the names counted so far
          gauges_,     \* name -> value, on the names set so far
          latencies_,  \* name -> [count, sum_us, min_us, max_us]
          throughput_, \* name -> [total_bytes, start_time]
          call,        \* thread -> the operation it is in, or "none"
          report,      \* thread -> the maps as its toString has read them
          now,         \* the steady clock
          calls,       \* calls made so far
          firstBytes   \* history: name -> when bytes were first recorded since
                       \* the last reset, on the names that have any

maps == <<counters_, gauges_, latencies_, throughput_>>
mvars == <<maps, call, report, now, calls, firstBytes>>

\* The phases of toString, all of them under the mutex.
Reporting == {"counters", "gauges", "latencies", "throughput", "relock"}

\* Mutant: the maps are read and written without the mutex.
NoMutex == TRUE

\* Nobody is inside toString: every other operation ends in the step that locks.
MutexFree == \A t \in Threads : call[t] \notin Reporting

Empty == <<>>
NoReport == [counters |-> Empty, gauges |-> Empty, latencies |-> Empty]

\* std::unordered_map::operator[] followed by an assignment.
Put(map, n, v) == [m \in DOMAIN map \cup {n} |-> IF m = n THEN v ELSE map[m]]

\* The entry of n in a map, default constructed when there is none.
At(map, n, default) == IF n \in DOMAIN map THEN map[n] ELSE default

getCounter(n) == At(counters_, n, 0)

getGauge(n) == At(gauges_, n, 0)

\* INT64_MAX: above every duration.
Int64Max == 1 + CHOOSE d \in Durations \cup {0} : \A e \in Durations : e <= d

MetricsInit ==
    /\ counters_ = Empty
    /\ gauges_ = Empty
    /\ latencies_ = Empty
    /\ throughput_ = Empty
    /\ call = [t \in Threads |-> "none"]
    /\ report = [t \in Threads |-> NoReport]
    /\ now = 0
    /\ calls = 0
    /\ firstBytes = Empty

\* A thread enters an operation, and from here on waits for the mutex.
Call(t, op) ==
    /\ call[t] = "none"
    /\ calls < MaxCalls
    /\ call' = [call EXCEPT ![t] = op]
    /\ calls' = calls + 1
    /\ UNCHANGED <<maps, report, now, firstBytes>>

\* The thread gets the mutex for an operation that ends with its lock_guard.
Locked(t, op) ==
    /\ call[t] = op
    /\ MutexFree
    /\ call' = [call EXCEPT ![t] = "none"]
    /\ UNCHANGED <<report, now, calls>>

IncrementCounter(t, n, v) ==
    /\ Locked(t, "incrementCounter")
    /\ counters_' = Put(counters_, n, At(counters_, n, 0) + v)
    /\ UNCHANGED <<gauges_, latencies_, throughput_, firstBytes>>

SetGauge(t, n, v) ==
    /\ Locked(t, "setGauge")
    /\ gauges_' = Put(gauges_, n, v)
    /\ UNCHANGED <<counters_, latencies_, throughput_, firstBytes>>

NoLatency == [count |-> 0, sum_us |-> 0, min_us |-> Int64Max, max_us |-> 0]

withSample(stats, us) ==
    [count  |-> stats.count + 1,
     sum_us |-> stats.sum_us + us,
     min_us |-> IF us < stats.min_us THEN us ELSE stats.min_us,
     max_us |-> IF us > stats.max_us THEN us ELSE stats.max_us]

RecordLatency(t, n, us) ==
    /\ Locked(t, "recordLatency")
    /\ latencies_' = Put(latencies_, n, withSample(At(latencies_, n, NoLatency), us))
    /\ UNCHANGED <<counters_, gauges_, throughput_, firstBytes>>

\* Mutant: a start time once taken is kept, although no byte was recorded yet.
withBytesTimed(stats, bytes) ==
    [total_bytes |-> stats.total_bytes + bytes,
     start_time  |-> IF stats.start_time = 0 THEN now ELSE stats.start_time]

\* The clock starts again as long as no byte was recorded.
withBytes(stats, bytes) ==
    [total_bytes |-> stats.total_bytes + bytes,
     start_time  |-> IF stats.total_bytes = 0 THEN now ELSE stats.start_time]

RecordBytes(t, n, bytes) ==
    /\ Locked(t, "recordBytes")
    /\ throughput_' = Put(throughput_, n,
           withBytes(At(throughput_, n, [total_bytes |-> 0, start_time |-> 0]), bytes))
    /\ firstBytes' = IF bytes > 0 /\ n \notin DOMAIN firstBytes
                     THEN Put(firstBytes, n, now) ELSE firstBytes
    /\ UNCHANGED <<counters_, gauges_, latencies_>>

\* Bytes and the seconds they took; <<0, 1>> stands for the rate 0.
getBytesPerSecond(n) ==
    LET stats == At(throughput_, n, [total_bytes |-> 0, start_time |-> 0])
        elapsed == now - stats.start_time
    IN  IF stats.total_bytes = 0 \/ elapsed = 0 THEN <<0, 1>>
        ELSE <<stats.total_bytes, elapsed>>

\* One of the three getters: it returns under the lock and changes nothing.
Get(t) ==
    /\ Locked(t, "get")
    /\ UNCHANGED <<maps, firstBytes>>

Reset(t) ==
    /\ Locked(t, "reset")
    /\ counters_' = Empty
    /\ gauges_' = Empty
    /\ latencies_' = Empty
    /\ throughput_' = Empty
    /\ firstBytes' = Empty

\* toString locks the mutex and keeps it until it returns.
StartReport(t) ==
    /\ call[t] = "toString"
    /\ MutexFree
    /\ call' = [call EXCEPT ![t] = "counters"]
    /\ report' = [report EXCEPT ![t] = NoReport]
    /\ UNCHANGED <<maps, now, calls, firstBytes>>

\* The loop of toString over one map: print an entry, or go on after the last.
ReportEntries(t, field, map, next) ==
    /\ call[t] = field
    /\ IF DOMAIN report[t][field] = DOMAIN map
       THEN /\ call' = [call EXCEPT ![t] = next]
            /\ UNCHANGED report
       ELSE /\ \E n \in DOMAIN map \ DOMAIN report[t][field] :
                 report' = [report EXCEPT ![t][field] = Put(@, n, map[n])]
            /\ UNCHANGED call
    /\ UNCHANGED <<maps, now, calls, firstBytes>>

\* The throughput section: without entries toString returns; with one it calls
\* getBytesPerSecond, whose lock_guard locks the mutex this thread holds.
ReportThroughput(t) ==
    /\ call[t] = "throughput"
    /\ call' = [call EXCEPT ![t] = IF throughput_ = Empty THEN "none" ELSE "relock"]
    /\ UNCHANGED <<maps, report, now, calls, firstBytes>>

MetricsTick ==
    /\ now < MaxTime
    /\ now' = now + 1
    /\ UNCHANGED <<maps, call, report, calls, firstBytes>>

Work(t) ==
    \/ \E n \in Names, v \in Values : IncrementCounter(t, n, v)
    \/ \E n \in Names, v \in Values : SetGauge(t, n, v)
    \/ \E n \in Names, us \in Durations : RecordLatency(t, n, us)
    \/ \E n \in Names, bytes \in Sizes : RecordBytes(t, n, bytes)
    \/ Reset(t) \/ Get(t)
    \/ StartReport(t)
    \/ ReportEntries(t, "counters", counters_, "gauges")
    \/ ReportEntries(t, "gauges", gauges_, "latencies")
    \/ ReportEntries(t, "latencies", latencies_, "throughput")
    \/ ReportThroughput(t)

MetricsNext ==
    \/ \E t \in Threads : Work(t)
    \/ \E t \in Threads, op \in Ops : Call(t, op)
    \/ MetricsTick

MetricsSpec == MetricsInit /\ [][MetricsNext]_mvars

\* Scheduling: a thread that can run does run.  The calls of a behaviour are
\* finite, so a waiting thread needs no fairness of the mutex itself.
MetricsFairSpec == MetricsSpec /\ \A t \in Threads : WF_mvars(Work(t))
-----------------------------------------------------------------------------
\* A report shows one instant: what toString (metrics.cpp:81) has read so far is
\* still what the maps hold and the getters would return, whatever the other
\* threads record or reset while it walks them.
ReportIsSnapshot ==
    \A t \in Threads : call[t] \in Reporting =>
        /\ \A n \in DOMAIN report[t].counters : report[t].counters[n] = getCounter(n)
        /\ \A n \in DOMAIN report[t].gauges : report[t].gauges[n] = getGauge(n)
        /\ \A n \in DOMAIN report[t].latencies :
               n \in DOMAIN latencies_ /\ report[t].latencies[n] = latencies_[n]

\* The rate getBytesPerSecond returns (metrics.cpp:62) is averaged from the
\* moment the first byte was recorded since the last reset, also when empty
\* transfers came before it.
RateSinceFirstByte ==
    \A n \in Names :
        getBytesPerSecond(n) =
            IF n \in DOMAIN firstBytes /\ now > firstBytes[n]
            THEN <<throughput_[n].total_bytes, now - firstBytes[n]>> ELSE <<0, 1>>

\* Every call on the registry returns, as it must when the collection of metrics
\* is lock-free (README.md:150).  It does not: when there is a throughput entry to
\* print, toString locks the mutex it holds (metrics.cpp:119), never returns, and
\* keeps every other thread out of the registry.
CallsReturn == \A t \in Threads : call[t] # "none" ~> call[t] = "none"
=============================================================================
