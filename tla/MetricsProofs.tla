--------------------------- MODULE MetricsProofs ---------------------------
\* For any number of threads, metrics and calls: a report of the registry shows
\* one instant, and a rate is taken from the first byte on.
EXTENDS Metrics, TLAPS

Phases == Reporting \cup {"none", "incrementCounter", "setGauge", "recordLatency",
                          "recordBytes", "get", "reset", "toString"}

Stats == [total_bytes : Nat, start_time : Nat]

\* The types that the two properties rest on; what a map holds does not matter.
Types ==
    /\ call \in [Threads -> Phases]
    /\ DOMAIN report = Threads
    /\ \A t \in Threads : DOMAIN report[t] = {"counters", "gauges", "latencies"}
    /\ now \in Nat
    /\ \A n \in DOMAIN throughput_ : throughput_[n] \in Stats

\* At most one thread is inside toString.
OneReport ==
    \A s, t \in Threads : call[s] \in Reporting /\ call[t] \in Reporting => s = t

\* The entries with bytes are those whose first bytes are remembered, and their
\* start time is when these came.
Started ==
    /\ \A n \in DOMAIN firstBytes :
          /\ n \in DOMAIN throughput_ /\ throughput_[n].total_bytes > 0
          /\ throughput_[n].start_time = firstBytes[n]
          /\ firstBytes[n] \in Nat /\ firstBytes[n] <= now
    /\ \A n \in DOMAIN throughput_ \ DOMAIN firstBytes : throughput_[n].total_bytes = 0

IndInv == Types /\ OneReport /\ Started /\ ReportIsSnapshot

-----------------------------------------------------------------------------
\* A default constructed map has no entries.
LEMMA EmptyMap == DOMAIN Empty = {}
BY DEF Empty

\* The registry starts empty and without calls.
LEMMA InitIndInv == MetricsInit => IndInv
<1> SUFFICES ASSUME MetricsInit PROVE IndInv
  OBVIOUS
<1>1. \A t \in Threads : call[t] \notin Reporting
  BY DEF MetricsInit, Reporting
<1>2. Types
  BY EmptyMap DEF MetricsInit, Types, Phases, NoReport
<1> QED
  BY <1>1, <1>2, EmptyMap DEF MetricsInit, IndInv, OneReport, Started, ReportIsSnapshot

\* An operation that ends with its lock_guard runs while nobody reports.
LEMMA LockedStep ==
    ASSUME Types, NEW t \in Threads, NEW op \in Phases, Locked(t, op),
           \A n \in DOMAIN throughput_' : throughput_'[n] \in Stats
    PROVE  Types' /\ OneReport' /\ ReportIsSnapshot'
<1>1. \A s \in Threads : call'[s] \notin Reporting
  BY DEF Locked, MutexFree, Types, Reporting
<1>2. Types'
  BY DEF Locked, Types, Phases
<1> QED
  BY <1>1, <1>2 DEF OneReport, ReportIsSnapshot

\* Bytes are recorded: the clock of an entry starts with its first byte.
LEMMA RecordBytesStep ==
    ASSUME IndInv, NEW t \in Threads, NEW n \in Names, NEW bytes \in Sizes,
           RecordBytes(t, n, bytes)
    PROVE  IndInv'
<1> DEFINE old == At(throughput_, n, [total_bytes |-> 0, start_time |-> 0])
           new == withBytes(old, bytes)
<1> USE DEF IndInv
<1>1. /\ throughput_' = Put(throughput_, n, new) /\ now' = now
      /\ firstBytes' = IF bytes > 0 /\ n \notin DOMAIN firstBytes
                       THEN Put(firstBytes, n, now) ELSE firstBytes
  BY DEF RecordBytes, Locked
<1>2. old \in Stats /\ bytes \in Nat /\ now \in Nat
  BY MetricsAssumption DEF At, Types, Stats
<1>3. /\ n \in DOMAIN firstBytes => old = throughput_[n]
      /\ n \notin DOMAIN firstBytes => old.total_bytes = 0
  BY DEF At, Started
<1> HIDE DEF old
<1>4. /\ new \in Stats /\ new.total_bytes = old.total_bytes + bytes
      /\ new.start_time = IF old.total_bytes = 0 THEN now ELSE old.start_time
  BY <1>2 DEF withBytes, Stats
<1> HIDE DEF new
<1>5. \A m \in DOMAIN throughput_' : throughput_'[m] \in Stats
  BY <1>1, <1>4 DEF Types, Put
<1>6. Types' /\ OneReport' /\ ReportIsSnapshot'
  BY <1>5, LockedStep DEF RecordBytes, Phases
<1>7. /\ DOMAIN throughput_' = DOMAIN throughput_ \cup {n} /\ throughput_'[n] = new
      /\ \A m \in DOMAIN throughput_ : m # n => throughput_'[m] = throughput_[m]
  BY <1>1 DEF Put
<1>8. /\ \A m \in DOMAIN firstBytes' : m # n =>
            m \in DOMAIN firstBytes /\ firstBytes'[m] = firstBytes[m]
      /\ DOMAIN firstBytes \subseteq DOMAIN firstBytes'
      /\ n \in DOMAIN firstBytes' <=> n \in DOMAIN firstBytes \/ bytes > 0
      /\ firstBytes'[n] = IF n \in DOMAIN firstBytes \/ bytes = 0 THEN firstBytes[n] ELSE now
  <2>1. CASE bytes > 0 /\ n \notin DOMAIN firstBytes
    BY <1>1, <1>2, <2>1 DEF Put
  <2>2. CASE ~(bytes > 0 /\ n \notin DOMAIN firstBytes)
    BY <1>1, <1>2, <2>2
  <2> QED
    BY <2>1, <2>2
<1>9. ASSUME NEW m \in DOMAIN firstBytes'
      PROVE  /\ m \in DOMAIN throughput_' /\ throughput_'[m].total_bytes > 0
             /\ throughput_'[m].start_time = firstBytes'[m]
             /\ firstBytes'[m] \in Nat /\ firstBytes'[m] <= now'
  <2>1. CASE m # n
    BY <1>1, <1>7, <1>8, <2>1 DEF Started
  <2>2. CASE m = n /\ n \in DOMAIN firstBytes
    BY <1>1, <1>2, <1>3, <1>4, <1>7, <1>8, <2>2 DEF Started, Stats
  <2>3. CASE m = n /\ n \notin DOMAIN firstBytes
    BY <1>1, <1>2, <1>3, <1>4, <1>7, <1>8, <2>3 DEF Stats
  <2> QED
    BY <2>1, <2>2, <2>3
<1>10. ASSUME NEW m \in DOMAIN throughput_' \ DOMAIN firstBytes'
       PROVE  throughput_'[m].total_bytes = 0
  <2>1. CASE m # n
    BY <1>7, <1>8, <2>1 DEF Started
  <2>2. CASE m = n
    BY <1>2, <1>3, <1>4, <1>7, <1>8, <2>2 DEF Stats
  <2> QED
    BY <2>1, <2>2
<1> QED
  BY <1>6, <1>9, <1>10 DEF Started

\* toString reads one more entry of a map, or goes on to the next map.
LEMMA ReportStep ==
    ASSUME IndInv, NEW t \in Threads,
           \/ ReportEntries(t, "counters", counters_, "gauges")
           \/ ReportEntries(t, "gauges", gauges_, "latencies")
           \/ ReportEntries(t, "latencies", latencies_, "throughput")
    PROVE  IndInv'
<1> USE DEF IndInv, maps
<1>1. /\ UNCHANGED <<counters_, gauges_, latencies_, throughput_, now, firstBytes>>
      /\ call[t] \in Reporting
  BY DEF ReportEntries, Reporting
<1>2. /\ call' \in [Threads -> Phases] /\ call'[t] \in Reporting
      /\ \A s \in Threads : s # t => call'[s] = call[s]
  BY DEF ReportEntries, Types, Phases, Reporting
<1>3. /\ DOMAIN report' = Threads
      /\ \A s \in Threads : s # t => report'[s] = report[s]
      /\ DOMAIN report'[t] = DOMAIN report[t]
  BY DEF ReportEntries, Types
<1>4. Types' /\ OneReport' /\ Started'
  BY <1>1, <1>2, <1>3 DEF Types, OneReport, Started
<1>5. /\ \A n \in DOMAIN report'[t].counters : report'[t].counters[n] = getCounter(n)
      /\ \A n \in DOMAIN report'[t].gauges : report'[t].gauges[n] = getGauge(n)
      /\ \A n \in DOMAIN report'[t].latencies :
            n \in DOMAIN latencies_ /\ report'[t].latencies[n] = latencies_[n]
  <2>0. /\ \A n \in DOMAIN report[t].counters : report[t].counters[n] = getCounter(n)
        /\ \A n \in DOMAIN report[t].gauges : report[t].gauges[n] = getGauge(n)
        /\ \A n \in DOMAIN report[t].latencies :
              n \in DOMAIN latencies_ /\ report[t].latencies[n] = latencies_[n]
    BY <1>1 DEF ReportIsSnapshot
  <2>1. CASE report' = report
    BY <2>0, <2>1
  <2>2. CASE \E n \in DOMAIN counters_ \ DOMAIN report[t].counters :
           report' = [report EXCEPT ![t].counters = Put(@, n, counters_[n])]
    <3>1. PICK n \in DOMAIN counters_ :
             report' = [report EXCEPT ![t].counters = Put(@, n, counters_[n])]
      BY <2>2
    <3>2. /\ report'[t].counters = Put(report[t].counters, n, counters_[n])
          /\ report'[t].gauges = report[t].gauges
          /\ report'[t].latencies = report[t].latencies
      BY <3>1 DEF Types
    <3> QED
      BY <2>0, <3>2 DEF getCounter, At, Put
  <2>3. CASE \E n \in DOMAIN gauges_ \ DOMAIN report[t].gauges :
           report' = [report EXCEPT ![t].gauges = Put(@, n, gauges_[n])]
    <3>1. PICK n \in DOMAIN gauges_ :
             report' = [report EXCEPT ![t].gauges = Put(@, n, gauges_[n])]
      BY <2>3
    <3>2. /\ report'[t].gauges = Put(report[t].gauges, n, gauges_[n])
          /\ report'[t].counters = report[t].counters
          /\ report'[t].latencies = report[t].latencies
      BY <3>1 DEF Types
    <3> QED
      BY <2>0, <3>2 DEF getGauge, At, Put
  <2>4. CASE \E n \in DOMAIN latencies_ \ DOMAIN report[t].latencies :
           report' = [report EXCEPT ![t].latencies = Put(@, n, latencies_[n])]
    <3>1. PICK n \in DOMAIN latencies_ :
             report' = [report EXCEPT ![t].latencies = Put(@, n, latencies_[n])]
      BY <2>4
    <3>2. /\ report'[t].latencies = Put(report[t].latencies, n, latencies_[n])
          /\ report'[t].gauges = report[t].gauges
          /\ report'[t].counters = report[t].counters
      BY <3>1 DEF Types
    <3> QED
      BY <2>0, <3>2 DEF Put
  <2> QED
    BY <2>1, <2>2, <2>3, <2>4 DEF ReportEntries
<1>6. ReportIsSnapshot'
  <2>1. \A s \in Threads : s # t => call'[s] \notin Reporting
    BY <1>1, <1>2 DEF OneReport
  <2> QED
    BY <1>1, <1>5, <2>1 DEF ReportIsSnapshot, getCounter, getGauge
<1> QED
  BY <1>4, <1>6

\* Every step keeps the invariant.
LEMMA NextIndInv == IndInv /\ [MetricsNext]_mvars => IndInv'
<1> SUFFICES ASSUME IndInv, [MetricsNext]_mvars PROVE IndInv'
  OBVIOUS
<1> USE DEF IndInv
<1>1. ASSUME NEW t \in Threads, NEW op \in Phases, Locked(t, op),
             UNCHANGED <<throughput_, firstBytes>>
      PROVE  IndInv'
  <2>1. Types' /\ OneReport' /\ ReportIsSnapshot'
    BY <1>1, LockedStep DEF Types
  <2> QED
    BY <1>1, <2>1 DEF Locked, Started
<1>2. ASSUME NEW t \in Threads, NEW n \in Names, NEW v \in Values,
             IncrementCounter(t, n, v) \/ SetGauge(t, n, v)
      PROVE  IndInv'
  BY <1>1, <1>2 DEF IncrementCounter, SetGauge, Phases
<1>3. ASSUME NEW t \in Threads, NEW n \in Names, NEW us \in Durations, RecordLatency(t, n, us)
      PROVE  IndInv'
  BY <1>1, <1>3 DEF RecordLatency, Phases
<1>4. ASSUME NEW t \in Threads, Get(t) PROVE IndInv'
  BY <1>1, <1>4 DEF Get, maps, Phases
<1>5. ASSUME NEW t \in Threads, Reset(t) PROVE IndInv'
  <2>1. DOMAIN throughput_' = {} /\ DOMAIN firstBytes' = {}
    BY <1>5, EmptyMap DEF Reset
  <2>2. Types' /\ OneReport' /\ ReportIsSnapshot'
    BY <1>5, <2>1, LockedStep DEF Reset, Phases
  <2> QED
    BY <2>1, <2>2 DEF Started
<1>6. ASSUME NEW t \in Threads, StartReport(t) PROVE IndInv'
  <2>1. /\ UNCHANGED <<counters_, gauges_, latencies_, throughput_, now, firstBytes>>
        /\ call' = [call EXCEPT ![t] = "counters"]
        /\ report'[t] = NoReport
    BY <1>6 DEF StartReport, maps, Types
  <2>2. \A s \in Threads : s # t => call'[s] \notin Reporting
    BY <1>6, <2>1 DEF StartReport, MutexFree, Types
  <2>3. Types' /\ OneReport' /\ Started'
    BY <1>6, <2>1, <2>2
    DEF StartReport, Types, Phases, Reporting, NoReport, OneReport, Started
  <2> QED
    BY <2>1, <2>2, <2>3, EmptyMap DEF ReportIsSnapshot, NoReport
<1>7. ASSUME NEW t \in Threads, ReportThroughput(t) PROVE IndInv'
  <2>1. /\ UNCHANGED <<counters_, gauges_, latencies_, throughput_, report, now, firstBytes>>
        /\ call' \in [Threads -> Phases]
        /\ \A s \in Threads : call'[s] \in Reporting => call[s] \in Reporting
    BY <1>7 DEF ReportThroughput, maps, Types, Phases, Reporting
  <2> QED
    BY <2>1 DEF Types, OneReport, Started, ReportIsSnapshot, getCounter, getGauge
<1>8. ASSUME NEW t \in Threads, NEW op \in Ops, Call(t, op) PROVE IndInv'
  <2>1. op \in Phases \ Reporting
    BY <1>8, MetricsAssumption DEF Phases, Reporting
  <2>2. /\ UNCHANGED <<counters_, gauges_, latencies_, throughput_, report, now, firstBytes>>
        /\ call' \in [Threads -> Phases]
        /\ \A s \in Threads : call'[s] \in Reporting => call[s] \in Reporting
    BY <1>8, <2>1 DEF Call, maps, Types
  <2> QED
    BY <2>2 DEF Types, OneReport, Started, ReportIsSnapshot, getCounter, getGauge
<1>9. CASE MetricsTick
  BY <1>9 DEF MetricsTick, maps, Types, OneReport, Started, ReportIsSnapshot, getCounter, getGauge
<1>10. CASE UNCHANGED mvars
  BY <1>10 DEF mvars, maps, Types, OneReport, Started, ReportIsSnapshot, getCounter, getGauge
<1> QED
  BY <1>2, <1>3, <1>4, <1>5, <1>6, <1>7, <1>8, <1>9, <1>10, RecordBytesStep, ReportStep
  DEF MetricsNext, Work

-----------------------------------------------------------------------------
\* What toString has read is still what the registry holds, whatever the other
\* threads do: they are kept out by the mutex that toString holds throughout.
THEOREM ReportsAreSnapshots == MetricsSpec => []ReportIsSnapshot
<1>1. IndInv => ReportIsSnapshot
  BY DEF IndInv
<1> QED
  BY <1>1, InitIndInv, NextIndInv, PTL DEF MetricsSpec

\* getBytesPerSecond averages from the first byte since the last reset on, for
\* any order of empty and other transfers.
THEOREM RatesSinceFirstByte == MetricsSpec => []RateSinceFirstByte
<1>1. IndInv => RateSinceFirstByte
  <2> SUFFICES ASSUME IndInv, NEW n \in Names
               PROVE  getBytesPerSecond(n) =
                        IF n \in DOMAIN firstBytes /\ now > firstBytes[n]
                        THEN <<throughput_[n].total_bytes, now - firstBytes[n]>> ELSE <<0, 1>>
    BY DEF RateSinceFirstByte
  <2>1. CASE n \in DOMAIN firstBytes
    BY <2>1 DEF IndInv, Types, Started, Stats, getBytesPerSecond, At
  <2>2. CASE n \notin DOMAIN firstBytes
    BY <2>2 DEF IndInv, Types, Started, Stats, getBytesPerSecond, At
  <2> QED
    BY <2>1, <2>2
<1> QED
  BY <1>1, InitIndInv, NextIndInv, PTL DEF MetricsSpec
=============================================================================
