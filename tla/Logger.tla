------------------------------- MODULE Logger -------------------------------
(***************************************************************************)
(* The process-wide Logger (src/common/logger.cpp) as threads call it.  A  *)
(* line is made and written under mutex_, but the level is tested before   *)
(* that, and std::localtime returns a pointer to one static tm, which      *)
(* other callers of std::localtime overwrite without that mutex.           *)
(*                                                                         *)
(* A thread whose tm is overwritten before it is formatted may read any    *)
(* time, since the fields may be a mixture.  Times are in seconds.  The    *)
(* system clock counts UTC and is taken not to be set back; local time is  *)
(* set back when daylight saving ends.                                     *)
(***************************************************************************)
EXTENDS Integers, Sequences

CONSTANTS Threads,
          Levels,       \* LogLevel, as numbers
          Files,        \* log files
          Nobody,       \* no holder of the mutex, no open file
          Offset,       \* Offset[c]: local time minus UTC, at time c
          MaxTime,      \* bound on the clock
          MaxCalls      \* bound on the calls made

INFO == 1

ASSUME LoggerAssumption ==
    /\ Levels \subseteq Nat /\ INFO \in Levels
    /\ Nobody \notin Threads \cup Files
    /\ {MaxTime, MaxCalls} \subseteq Nat
    /\ Offset \in [0 .. MaxTime -> Int]

VARIABLES level_, file_, mutex_,
          console,      \* the lines on std::cout
          logs,         \* logs[f]: the lines in file f
          clock,
          tm,           \* the static buffer of std::localtime
          pc,           \* pc[t]: where thread t is in its call
          now,          \* now[t]: the time t has read
          text,         \* text[t]: the line t has made (history: with its place
                        \* on the console), or Nobody
          raced,        \* raced[t]: the callers of std::localtime that have
                        \* overwritten tm before t formatted it: "put_time",
                        \* another line, or "name", the conflict resolver
          calls         \* calls made so far

output  == <<console, logs>>
setting == <<level_, file_>>
logger  == <<setting, mutex_, output, clock, tm, pc, now, text, raced, calls>>

Times == 0 .. MaxTime

localTime(c) == c + Offset[c]

LoggerInit ==
    /\ level_ = INFO /\ file_ = Nobody /\ mutex_ = Nobody
    /\ console = <<>> /\ logs = [f \in Files |-> <<>>]
    /\ clock = 0 /\ tm = localTime(0)
    /\ pc = [t \in Threads |-> "idle"]
    /\ now = [t \in Threads |-> 0]
    /\ text = [t \in Threads |-> Nobody]
    /\ raced = [t \in Threads |-> {}]
    /\ calls = 0

-----------------------------------------------------------------------------
(* std::localtime and std::put_time                                        *)

(* Thread t converts the time it has read: tm is overwritten under the     *)
(* feet of the threads that have not formatted it yet.                     *)
localtime(t, next) ==
    /\ tm' = localTime(now[t])
    /\ raced' = [s \in Threads |->
                   IF s = t THEN {}
                   ELSE raced[s] \cup {r \in {next} : pc[s] \in {"put_time", "name"}}]
    /\ pc' = [pc EXCEPT ![t] = next]

(* What thread t may read in tm.                                           *)
put_time(t) == IF raced[t] = {} THEN {tm} ELSE {localTime(c) : c \in Times}

(* Thread t returns, and its local variables are gone.                     *)
Leave(t) ==
    /\ pc' = [pc EXCEPT ![t] = "idle"]
    /\ now' = [now EXCEPT ![t] = 0]
    /\ raced' = [raced EXCEPT ![t] = {}]

-----------------------------------------------------------------------------
(* Mutant: the lock is not taken.                                          *)
noMutex == TRUE

mutexFree == mutex_ = Nobody

(* log() is called with a level that is not below level_; otherwise it     *)
(* returns at once.                                                        *)
Log(t, level) ==
    /\ pc[t] = "idle" /\ calls < MaxCalls
    /\ level >= level_
    /\ calls' = calls + 1
    /\ pc' = [pc EXCEPT ![t] = "lock"]
    /\ UNCHANGED <<setting, mutex_, output, clock, tm, now, text, raced>>

(* The mutex is locked and the time read.                                  *)
Lock(t) ==
    /\ pc[t] = "lock" /\ mutexFree
    /\ mutex_' = t
    /\ now' = [now EXCEPT ![t] = clock]
    /\ pc' = [pc EXCEPT ![t] = "localtime"]
    /\ UNCHANGED <<setting, output, clock, tm, text, raced, calls>>

LogLocalTime(t) ==
    /\ pc[t] = "localtime"
    /\ localtime(t, "put_time")
    /\ UNCHANGED <<setting, mutex_, output, clock, now, text, calls>>

Format(t) ==
    /\ pc[t] = "put_time"
    /\ \E time \in put_time(t) :
          text' = [text EXCEPT ![t] = [time |-> time, at |-> now[t], raced |-> raced[t],
                                       place |-> 0]]
    /\ pc' = [pc EXCEPT ![t] = "console"]
    /\ UNCHANGED <<setting, mutex_, output, clock, tm, now, raced, calls>>

Console(t) ==
    /\ pc[t] = "console"
    /\ text' = [text EXCEPT ![t].place = Len(console) + 1]
    /\ console' = Append(console, text'[t])
    /\ pc' = [pc EXCEPT ![t] = "file"]
    /\ UNCHANGED <<setting, mutex_, logs, clock, tm, now, raced, calls>>

(* The line goes to the file, if one is open, and the mutex is unlocked.   *)
WriteFile(t) ==
    /\ pc[t] = "file"
    /\ logs' = IF file_ = Nobody THEN logs ELSE [logs EXCEPT ![file_] = Append(@, text[t])]
    /\ mutex_' = Nobody
    /\ text' = [text EXCEPT ![t] = Nobody]
    /\ Leave(t)
    /\ UNCHANGED <<setting, console, clock, tm, calls>>

(* setLevel takes no lock.                                                 *)
SetLevel(level) ==
    /\ level_' = level
    /\ UNCHANGED <<file_, mutex_, output, clock, tm, pc, now, text, raced, calls>>

(* setLogFile closes the file and opens f for appending, or fails to.      *)
SetLogFile(f) ==
    /\ mutexFree
    /\ file_' = f
    /\ UNCHANGED <<level_, mutex_, output, clock, tm, pc, now, text, raced, calls>>

LogStep(t) == Lock(t) \/ LogLocalTime(t) \/ Format(t) \/ Console(t) \/ WriteFile(t)

Tick ==
    /\ clock < MaxTime
    /\ clock' = clock + 1
    /\ UNCHANGED <<setting, mutex_, output, tm, pc, now, text, raced, calls>>

LoggerNext ==
    \/ \E t \in Threads, level \in Levels : Log(t, level)
    \/ \E t \in Threads : LogStep(t)
    \/ \E level \in Levels : SetLevel(level)
    \/ \E f \in Files \cup {Nobody} : SetLogFile(f)
    \/ Tick

-----------------------------------------------------------------------------
(* PROPERTIES                                                              *)

(* The printed time goes back from one line of the console to a later one  *)
(* only when local time was set back between the two, or when the conflict *)
(* resolver, which does not take mutex_, overwrote tm while one of them    *)
(* was made (logger.cpp:53): another line never does.                      *)
LogOrdered ==
    \A i, j \in DOMAIN console :
       /\ i < j /\ console[i].time > console[j].time
       /\ "name" \notin console[i].raced \cup console[j].raced
       => Offset[console[i].at] > Offset[console[j].at]

(* A log file has lines of the console, in the order of the console, even  *)
(* when setLogFile switches between files while threads log                *)
(* (logger.cpp:71).                                                        *)
FileFollowsConsole ==
    \A f \in Files : \A i, j \in DOMAIN logs[f] :
       /\ logs[f][i] = console[logs[f][i].place]
       /\ i < j => logs[f][i].place < logs[f][j].place
=============================================================================
