----------------------- MODULE ConflictResolverProofs -----------------------
(***************************************************************************)
(* For any number of threads, files, levels and calls, and any local time: *)
(* the lines of the Logger keep their order, on the console and in the     *)
(* files, although the conflict resolver overwrites tm without the mutex;  *)
(* the names of conflicted copies clash exactly in the cases NamesClash    *)
(* names; and two devices that resolve one conflict agree.                 *)
(***************************************************************************)
EXTENDS ConflictResolver, TLAPS

Lines == [time : Int, at : Times, raced : SUBSET {"name"}, place : Nat]

(* Where a thread is between the lock_guard of log() and its end.          *)
Holding == {"localtime", "put_time", "console", "file"}

Labels == Holding \cup {"idle", "lock", "name_localtime", "name"}

Types ==
    /\ file_ \in Files \cup {Nobody} /\ mutex_ \in Threads \cup {Nobody}
    /\ console \in Seq(Lines) /\ logs \in [Files -> Seq(Lines)]
    /\ clock \in Times /\ tm \in Int
    /\ pc \in [Threads -> Labels]
    /\ now \in [Threads -> Times]
    /\ text \in [Threads -> Lines \cup {Nobody}]
    /\ raced \in [Threads -> SUBSET {"put_time", "name"}]
    /\ conflict \in [Threads -> Infos \cup {Nobody}]

(* The mutex keeps the threads in log() apart.                             *)
Exclusive == \A t \in Threads : pc[t] \in Holding => mutex_ = t

(* A thread that is about to format finds its own time in tm, unless it    *)
(* was raced, and only the conflict resolver can race a line.              *)
OwnTime ==
    /\ \A t \in Threads : pc[t] \in {"put_time", "name"} /\ raced[t] = {} =>
          tm = localTime(now[t])
    /\ \A t \in Threads : pc[t] = "put_time" => raced[t] \subseteq {"name"}

(* The line shows the time it was made at, unless tm was overwritten.      *)
ShowsItsTime(line) == line.raced = {} => line.time = localTime(line.at)

(* The thread in log() makes a line that is at least as late as all those  *)
(* on the console, and none of them is in the future.                      *)
Late ==
    /\ \A t \in Threads : pc[t] \in Holding =>
          /\ now[t] <= clock
          /\ \A i \in DOMAIN console : console[i].at <= now[t]
    /\ \A t \in Threads : pc[t] = "console" =>
          text[t] \in Lines /\ text[t].at = now[t] /\ ShowsItsTime(text[t])
    /\ \A i \in DOMAIN console : console[i].at <= clock /\ ShowsItsTime(console[i])

(* The lines are on the console in the order in which they were made.      *)
InOrder == \A i, j \in DOMAIN console : i < j => console[i].at <= console[j].at

(* The line a thread takes to the file is the last one of the console.     *)
Last ==
    /\ \A f \in Files : \A i \in DOMAIN logs[f] :
          /\ logs[f][i].place \in DOMAIN console
          /\ \A t \in Threads : pc[t] = "file" => logs[f][i].place < Len(console)
    /\ \A t \in Threads : pc[t] = "file" =>
          /\ text[t] \in Lines /\ Len(console) \in DOMAIN console
          /\ text[t].place = Len(console) /\ text[t] = console[Len(console)]

LogInv == Types /\ Exclusive /\ OwnTime /\ Late /\ Last /\ InOrder /\ FileFollowsConsole

-----------------------------------------------------------------------------
(* No thread is inside log() while the mutex is free.                      *)
LEMMA NobodyHolds ==
    ASSUME LogInv, mutex_ = Nobody, NEW t \in Threads
    PROVE  pc[t] \notin Holding
BY LoggerAssumption DEF LogInv, Exclusive

(* Two threads inside log() are the same thread.                           *)
LEMMA OneHolds ==
    ASSUME LogInv, NEW s \in Threads, NEW t \in Threads, pc[s] \in Holding, pc[t] \in Holding
    PROVE  s = t
BY DEF LogInv, Exclusive

(* The process starts with an empty console and no call.                   *)
LEMMA InitLogInv == ConflictInit => LogInv
<1> SUFFICES ASSUME ConflictInit PROVE LogInv
  OBVIOUS
<1>1. 0 \in Times /\ localTime(0) \in Int
  BY LoggerAssumption DEF Times, localTime
<1>2. console = <<>> /\ \A f \in Files : logs[f] = <<>>
  BY DEF ConflictInit, LoggerInit
<1>3. Types
  BY <1>1 DEF ConflictInit, LoggerInit, Types, Labels
<1>4. Exclusive /\ OwnTime
  BY DEF ConflictInit, LoggerInit, Exclusive, OwnTime, Holding
<1>5. Late /\ Last
  BY <1>2 DEF ConflictInit, LoggerInit, Late, Last, Holding
<1>6. InOrder /\ FileFollowsConsole
  BY <1>2 DEF InOrder, FileFollowsConsole
<1> QED
  BY <1>3, <1>4, <1>5, <1>6 DEF LogInv

(* Steps that write no line, take no lock and overwrite no tm: log() and   *)
(* resolve() are called, and a setting is changed.                         *)
LEMMA CallStep ==
    ASSUME LogInv, UNCHANGED <<mutex_, output, clock, tm, text, raced>>,
           file_' \in Files \cup {Nobody},
           conflict' \in [Threads -> Infos \cup {Nobody}],
           NEW t \in Threads, pc[t] = "idle",
           NEW label \in {"idle", "lock", "name_localtime"}, 
           pc' = [pc EXCEPT ![t] = label],
           now' = now \/ now' = [now EXCEPT ![t] = clock]
    PROVE  LogInv'
<1> USE DEF LogInv
<1>1. Types'
  BY DEF Types, output, Labels, Holding
<1>2. \A s \in Threads : /\ s # t => pc'[s] = pc[s] /\ now'[s] = now[s]
                         /\ s = t => pc'[s] \notin Holding \cup {"put_time", "name"}
  BY DEF Types, Holding
<1>3. Exclusive' /\ OwnTime' /\ Late' /\ Last'
  BY <1>2 DEF output, Exclusive, OwnTime, Late, Last, Holding
<1>4. InOrder' /\ FileFollowsConsole'
  BY DEF output, InOrder, FileFollowsConsole
<1> QED
  BY <1>1, <1>3, <1>4

(* The thread that gets the mutex reads a time that no line is later than. *)
LEMMA LockStep ==
    ASSUME LogInv, UNCHANGED conflict, NEW t \in Threads, Lock(t)
    PROVE  LogInv'
<1> USE DEF LogInv, setting, output
<1>1. Types'
  BY DEF Lock, Types, Labels, Holding
<1>2. \A s \in Threads : pc[s] \notin Holding
  BY NobodyHolds DEF Lock, mutexFree
<1>3. /\ \A s \in Threads : s # t => pc'[s] = pc[s] /\ now'[s] = now[s]
      /\ pc'[t] = "localtime" /\ now'[t] = clock /\ mutex_' = t
  BY DEF Lock, Types
<1>4. Exclusive' /\ OwnTime'
  BY <1>2, <1>3 DEF Lock, Exclusive, OwnTime, Holding
<1>5. Late' /\ Last'
  BY <1>2, <1>3 DEF Lock, Late, Last, Holding, Types, Times
<1>6. InOrder' /\ FileFollowsConsole'
  BY DEF Lock, InOrder, FileFollowsConsole
<1> QED
  BY <1>1, <1>4, <1>5, <1>6

(* std::localtime spoils tm for the threads about to format, and they are  *)
(* the ones marked as raced.                                               *)
LEMMA LocalTimeStep ==
    ASSUME LogInv, UNCHANGED <<file_, mutex_, output, clock, now, text, conflict>>,
           NEW t \in Threads,
           \/ pc[t] = "localtime" /\ localtime(t, "put_time")
           \/ pc[t] = "name_localtime" /\ localtime(t, "name")
    PROVE  LogInv'
<1> USE DEF LogInv, output
<1>1. PICK next \in {"put_time", "name"} : /\ localtime(t, next)
                                           /\ next = "put_time" => pc[t] = "localtime"
  OBVIOUS
<1>2. Types'
  <2>1. tm' \in Int
    <3>1. now[t] \in Times
      BY DEF Types
    <3> QED
      BY <1>1, <3>1, LoggerAssumption DEF localtime, localTime, Times
  <2>2. raced' \in [Threads -> SUBSET {"put_time", "name"}]
    BY <1>1 DEF localtime, Types
  <2>3. pc' \in [Threads -> Labels]
    BY <1>1 DEF localtime, Types, Labels, Holding
  <2> QED
    BY <2>1, <2>2, <2>3 DEF Types
<1>3. /\ \A s \in Threads : s # t => pc'[s] = pc[s]
      /\ pc'[t] = next
  BY <1>1 DEF localtime, Types
<1>4. Exclusive'
  BY <1>1, <1>3 DEF Exclusive, Holding
<1>5. OwnTime'
  <2>1. /\ raced'[t] = {} /\ tm' = localTime(now'[t])
        /\ \A s \in Threads : s # t => raced'[s] =
              raced[s] \cup {r \in {next} : pc[s] \in {"put_time", "name"}}
    BY <1>1 DEF localtime
  <2>2. ASSUME NEW s \in Threads, pc'[s] \in {"put_time", "name"}, raced'[s] = {}
        PROVE  tm' = localTime(now'[s])
    <3>1. CASE s = t
      BY <2>1, <3>1
    <3>2. CASE s # t
      BY <1>3, <2>1, <2>2, <3>2
    <3> QED
      BY <3>1, <3>2
  <2>3. ASSUME NEW s \in Threads, pc'[s] = "put_time"
        PROVE  raced'[s] \subseteq {"name"}
    <3>1. CASE s = t
      BY <2>1, <3>1
    <3>2. CASE s # t
      <4>1. pc[s] = "put_time" /\ raced[s] \subseteq {"name"}
        BY <1>3, <2>3, <3>2 DEF OwnTime
      <4>2. next # "put_time"
        BY <1>1, <3>2, <4>1, OneHolds DEF Holding
      <4> QED
        BY <1>1, <2>1, <3>2, <4>1, <4>2
    <3> QED
      BY <3>1, <3>2
  <2> QED
    BY <2>2, <2>3 DEF OwnTime
<1>6. Late' /\ Last'
  BY <1>1, <1>3 DEF Late, Last, Holding
<1>7. InOrder' /\ FileFollowsConsole'
  BY DEF InOrder, FileFollowsConsole
<1> QED
  BY <1>2, <1>4, <1>5, <1>6, <1>7

(* The line gets the time the thread read, unless it was raced.            *)
LEMMA FormatStep ==
    ASSUME LogInv, UNCHANGED conflict, NEW t \in Threads, Format(t)
    PROVE  LogInv'
<1> USE DEF LogInv, setting, output
<1>1. PICK time \in put_time(t) :
         text' = [text EXCEPT ![t] = [time |-> time, at |-> now[t], raced |-> raced[t],
                                      place |-> 0]]
  BY DEF Format
<1>2. /\ time \in Int /\ (raced[t] = {} => time = localTime(now[t]))
      /\ raced[t] \subseteq {"name"} /\ now[t] \in Times
  BY LoggerAssumption DEF Format, put_time, Types, OwnTime, Times, localTime
<1> DEFINE line == [time |-> time, at |-> now[t], raced |-> raced[t], place |-> 0]
<1>3. line \in Lines /\ line.at = now[t] /\ ShowsItsTime(line)
  BY <1>2 DEF Lines, Types, ShowsItsTime
<1> HIDE DEF line
<1>4. Types'
  BY <1>1, <1>3 DEF Format, Types, Labels, Holding, line
<1>5. /\ \A s \in Threads : s # t => pc'[s] = pc[s] /\ text'[s] = text[s]
      /\ pc'[t] = "console" /\ text'[t] = line
  BY <1>1 DEF Format, Types, line
<1>6. Exclusive' /\ OwnTime'
  BY <1>5 DEF Format, Exclusive, OwnTime, Holding
<1>7. Late' /\ Last'
  BY <1>3, <1>5 DEF Format, Late, Last, Holding
<1>8. InOrder' /\ FileFollowsConsole'
  BY DEF Format, InOrder, FileFollowsConsole
<1> QED
  BY <1>4, <1>6, <1>7, <1>8

(* The line is put behind lines that are not later.                        *)
LEMMA ConsoleStep ==
    ASSUME LogInv, UNCHANGED conflict, NEW t \in Threads, Console(t)
    PROVE  LogInv'
<1> USE DEF LogInv, setting
<1> DEFINE line == [text[t] EXCEPT !.place = Len(console) + 1]
<1>1. text[t] \in Lines /\ pc[t] \in Holding /\ now[t] \in Int
  BY DEF Console, Late, Holding, Types, Times
<1>2. /\ line \in Lines /\ line.place = Len(console) + 1
      /\ line.at = text[t].at /\ line.raced = text[t].raced /\ line.time = text[t].time
  <2>1. Len(console) + 1 \in Nat
    BY DEF Types
  <2>2. /\ text[t].time \in Int /\ text[t].at \in Times /\ text[t].raced \in SUBSET {"name"}
        /\ DOMAIN text[t] = {"time", "at", "raced", "place"}
    BY <1>1 DEF Lines
  <2>3. line = [time |-> text[t].time, at |-> text[t].at, raced |-> text[t].raced,
                place |-> Len(console) + 1]
    BY <1>1 DEF Lines
  <2> QED
    BY <2>1, <2>2, <2>3 DEF Lines
<1>3. /\ \A s \in Threads : s # t => pc'[s] = pc[s] /\ text'[s] = text[s]
      /\ pc'[t] = "file" /\ text'[t] = line /\ console' = Append(console, line)
  BY <1>1 DEF Console, Types
<1> HIDE DEF line
<1>4. Types'
  BY <1>2, <1>3 DEF Console, Types, Labels, Holding
<1>5. /\ Len(console) \in Nat /\ Len(console') = Len(console) + 1
      /\ DOMAIN console = 1 .. Len(console) /\ DOMAIN console' = 1 .. Len(console) + 1
      /\ \A i \in DOMAIN console : console'[i] = console[i]
      /\ console'[Len(console) + 1] = line
  BY <1>2, <1>3 DEF Types
<1>6. \A s \in Threads : s # t => pc[s] \notin Holding
  BY <1>1, OneHolds
<1>7. Exclusive' /\ OwnTime'
  BY <1>1, <1>3 DEF Console, Exclusive, OwnTime, Holding
<1>8. line.at = now[t] /\ now[t] <= clock /\ ShowsItsTime(line)
  BY <1>1, <1>2 DEF Console, Late, ShowsItsTime
<1>9. Late'
  <2>1. \A i \in DOMAIN console' :
           console'[i].at <= now[t] /\ console'[i].at <= clock /\ ShowsItsTime(console'[i])
    <3>1. \A i \in DOMAIN console :
             console[i].at <= now[t] /\ console[i].at <= clock /\ ShowsItsTime(console[i])
      BY <1>1 DEF Late
    <3>2. line.at <= now[t] /\ line.at <= clock /\ ShowsItsTime(line)
      BY <1>1, <1>8 DEF Types, Times
    <3>3. \A i \in DOMAIN console' : i \in DOMAIN console \/ i = Len(console) + 1
      BY <1>5
    <3>4. /\ \A i \in DOMAIN console : console'[i] = console[i]
          /\ console'[Len(console) + 1] = line
      BY <1>5
    <3> QED
      BY <3>1, <3>2, <3>3, <3>4, Zenon
  <2>2. UNCHANGED <<clock, now>>
    BY DEF Console
  <2> QED
    BY <1>1, <1>3, <1>6, <2>1, <2>2 DEF Late, Holding
<1>10. Last'
  <2>1. UNCHANGED logs
    BY DEF Console
  <2>2. \A f \in Files : \A i \in DOMAIN logs[f] :
           logs[f][i].place \in DOMAIN console' /\ logs[f][i].place < Len(console')
    BY <1>5 DEF Last
  <2> QED
    BY <1>2, <1>3, <1>5, <1>6, <2>1, <2>2 DEF Last, Holding
<1>11. InOrder'
  <2> SUFFICES ASSUME NEW i \in DOMAIN console', NEW j \in DOMAIN console', i < j
               PROVE  console'[i].at <= console'[j].at
    BY DEF InOrder
  <2>1. i \in DOMAIN console
    BY <1>5
  <2>2. CASE j \in DOMAIN console
    BY <1>5, <2>1, <2>2 DEF InOrder
  <2>3. CASE j = Len(console) + 1
    BY <1>1, <1>5, <1>8, <2>1, <2>3 DEF Late
  <2> QED
    BY <1>5, <2>2, <2>3
<1>12. FileFollowsConsole'
  BY <1>5 DEF Console, FileFollowsConsole, Last
<1> QED
  BY <1>4, <1>7, <1>9, <1>10, <1>11, <1>12

(* The line follows the ones of the file, which were put on the console    *)
(* before it.                                                              *)
LEMMA WriteFileStep ==
    ASSUME LogInv, UNCHANGED conflict, NEW t \in Threads, WriteFile(t)
    PROVE  LogInv'
<1> USE DEF LogInv, setting
<1>1. /\ pc[t] \in Holding /\ text[t] \in Lines /\ Len(console) \in DOMAIN console
      /\ text[t].place = Len(console) /\ text[t] = console[Len(console)]
  BY DEF WriteFile, Last, Holding
<1>2. \A s \in Threads : s # t => pc[s] \notin Holding
  BY <1>1, OneHolds
<1>3. /\ \A s \in Threads : s # t => /\ pc'[s] = pc[s] /\ text'[s] = text[s]
                                     /\ now'[s] = now[s] /\ raced'[s] = raced[s]
      /\ pc'[t] = "idle"
  BY DEF WriteFile, Leave, Types
<1>4. ASSUME NEW f \in Files
      PROVE  \/ logs'[f] = logs[f]
             \/ logs'[f] = Append(logs[f], text[t])
  BY DEF WriteFile, Types
<1>5. Types'
  <2>1. logs' \in [Files -> Seq(Lines)]
    BY <1>1 DEF WriteFile, Types
  <2>2. 0 \in Times
    BY LoggerAssumption DEF Times
  <2> QED
    BY <2>1, <2>2 DEF WriteFile, Leave, Types, Labels, Holding
<1>6. \A s \in Threads : pc'[s] \notin Holding
  BY <1>2, <1>3 DEF Holding
<1>7. Exclusive' /\ OwnTime'
  BY <1>3, <1>6 DEF WriteFile, Exclusive, OwnTime, Holding
<1>8. Late'
  BY <1>6 DEF WriteFile, Late, Holding
<1>9. InOrder'
  BY DEF WriteFile, InOrder
<1>10. ASSUME NEW f \in Files
       PROVE  /\ \A i \in DOMAIN logs'[f] : /\ logs'[f][i].place \in DOMAIN console
                                            /\ logs'[f][i] = console[logs'[f][i].place]
              /\ \A i, j \in DOMAIN logs'[f] :
                    i < j => logs'[f][i].place < logs'[f][j].place
  <2>1. CASE logs'[f] = logs[f]
    BY <2>1 DEF Last, FileFollowsConsole
  <2>2. CASE logs'[f] = Append(logs[f], text[t])
    <3>1. /\ Len(logs[f]) \in Nat /\ DOMAIN logs[f] = 1 .. Len(logs[f])
          /\ DOMAIN logs'[f] = 1 .. Len(logs[f]) + 1
          /\ \A i \in DOMAIN logs[f] : logs'[f][i] = logs[f][i]
          /\ logs'[f][Len(logs[f]) + 1] = text[t]
      BY <1>1, <2>2 DEF Types
    <3>2. \A i \in DOMAIN logs[f] : logs[f][i].place < text[t].place
      BY <1>1 DEF WriteFile, Last
    <3>3. \A i \in DOMAIN logs'[f] : /\ logs'[f][i].place \in DOMAIN console
                                     /\ logs'[f][i] = console[logs'[f][i].place]
      BY <1>1, <3>1, SMTT(60) DEF Last, FileFollowsConsole
    <3>4. ASSUME NEW i \in DOMAIN logs'[f], NEW j \in DOMAIN logs'[f], i < j
          PROVE  logs'[f][i].place < logs'[f][j].place
      <4>1. i \in DOMAIN logs[f]
        BY <3>1, <3>4
      <4>2. CASE j \in DOMAIN logs[f]
        BY <3>1, <3>4, <4>1, <4>2 DEF FileFollowsConsole
      <4>3. CASE j = Len(logs[f]) + 1
        BY <3>1, <3>2, <4>1, <4>3
      <4> QED
        BY <3>1, <4>2, <4>3
    <3> QED
      BY <3>3, <3>4
  <2> QED
    BY <1>4, <2>1, <2>2
<1>11. Last' /\ FileFollowsConsole'
  BY <1>6, <1>10 DEF WriteFile, Last, FileFollowsConsole, Holding
<1> QED
  BY <1>5, <1>7, <1>8, <1>9, <1>11

(* The name is made and the call returns; the Logger's lines are not       *)
(* touched.                                                                *)
LEMMA NameStep ==
    ASSUME LogInv, NEW t \in Threads, Name(t)
    PROVE  LogInv'
<1> USE DEF LogInv, setting, output
<1>1. /\ \A s \in Threads : s # t => /\ pc'[s] = pc[s] /\ now'[s] = now[s]
                                     /\ raced'[s] = raced[s]
      /\ pc'[t] = "idle"
  BY DEF Name, Leave, Types
<1>2. 0 \in Times
  BY LoggerAssumption DEF Times
<1>3. Types'
  BY <1>2 DEF Name, Leave, Types, Labels, Holding
<1>4. Exclusive' /\ OwnTime' /\ Late' /\ Last'
  BY <1>1 DEF Name, Exclusive, OwnTime, Late, Last, Holding
<1>5. InOrder' /\ FileFollowsConsole'
  BY DEF Name, InOrder, FileFollowsConsole
<1> QED
  BY <1>3, <1>4, <1>5

(* Time passes, or a setting is changed, or nothing happens.               *)
LEMMA SettingStep ==
    ASSUME LogInv,
           \/ Tick /\ UNCHANGED conflict
           \/ \E level \in Levels : SetLevel(level) /\ UNCHANGED conflict
           \/ \E f \in Files \cup {Nobody} : SetLogFile(f) /\ UNCHANGED conflict
           \/ UNCHANGED cvars
    PROVE  LogInv'
<1> USE DEF LogInv
<1>1. /\ UNCHANGED <<mutex_, console, logs, tm, pc, now, text, raced, conflict>>
      /\ file_' \in Files \cup {Nobody}
      /\ clock' \in Times /\ clock <= clock'
  BY LoggerAssumption
  DEF Tick, SetLevel, SetLogFile, cvars, logger, setting, output, Types, Times
<1>2. Types' /\ Exclusive' /\ OwnTime' /\ Last'
  BY <1>1 DEF Types, Exclusive, OwnTime, Last
<1>3. Late'
  <2>1. clock \in Int /\ clock' \in Int
    BY <1>1 DEF Types, Times
  <2>2. \A t \in Threads : now[t] \in Int
    BY DEF Types, Times
  <2>3. \A i \in DOMAIN console : console[i] \in Lines /\ console[i].at \in Int
    <3>1. \A i \in DOMAIN console : console[i] \in Lines
      BY DEF Types
    <3> QED
      BY <3>1 DEF Times, Lines
  <2> QED
    BY <1>1, <2>1, <2>2, <2>3 DEF Late
<1>4. InOrder' /\ FileFollowsConsole'
  BY <1>1 DEF InOrder, FileFollowsConsole
<1> QED
  BY <1>2, <1>3, <1>4

(* Every step of the threads keeps the order of the lines.                 *)
LEMMA NextLogInv == LogInv /\ [ConflictNext]_cvars => LogInv'
<1> SUFFICES ASSUME LogInv, [ConflictNext]_cvars PROVE LogInv'
  OBVIOUS
<1> USE DEF setting, output
<1>1. ASSUME NEW t \in Threads, NEW level \in Levels, Log(t, level), UNCHANGED conflict
      PROVE  LogInv'
  BY <1>1, CallStep DEF Log, LogInv, Types
<1>2. ASSUME NEW t \in Threads, LogStep(t), UNCHANGED conflict PROVE LogInv'
  <2>1. CASE LogLocalTime(t)
    BY <1>2, <2>1, LocalTimeStep DEF LogLocalTime
  <2> QED
    BY <1>2, <2>1, LockStep, FormatStep, ConsoleStep, WriteFileStep DEF LogStep
<1>3. ASSUME NEW t \in Threads, NEW info \in Infos, ResolveInPlace(t, info) PROVE LogInv'
  <2>1. pc' = [pc EXCEPT ![t] = "idle"]
    BY <1>3 DEF ResolveInPlace, LogInv, Types
  <2> QED
    BY <1>3, <2>1, CallStep DEF ResolveInPlace, LogInv, Types
<1>4. ASSUME NEW t \in Threads, NEW info \in Infos, ResolveBoth(t, info) PROVE LogInv'
  BY <1>4, CallStep DEF ResolveBoth, LogInv, Types
<1>5. ASSUME NEW t \in Threads, NameLocalTime(t) PROVE LogInv'
  BY <1>5, LocalTimeStep DEF NameLocalTime
<1>6. ASSUME NEW t \in Threads, Name(t) PROVE LogInv'
  BY <1>6, NameStep
<1> QED
  BY <1>1, <1>2, <1>3, <1>4, <1>5, <1>6, SettingStep DEF ConflictNext, LoggerNext

(* The printed time goes back from one line of the console to a later one  *)
(* only when local time was set back between, or generateConflictName      *)
(* overwrote tm: for any number of threads that log and resolve conflicts, *)
(* and whatever local time does.                                           *)
THEOREM ConsoleInOrder == ConflictSpec => []LogOrdered
<1>1. LogInv => LogOrdered
  <2> SUFFICES ASSUME LogInv, NEW i \in DOMAIN console, NEW j \in DOMAIN console, i < j,
                      console[i].time > console[j].time,
                      "name" \notin console[i].raced \cup console[j].raced
               PROVE  Offset[console[i].at] > Offset[console[j].at]
    BY DEF LogOrdered
  <2>1. console[i] \in Lines /\ console[j] \in Lines
    BY DEF LogInv, Types
  <2>2. console[i].raced = {} /\ console[j].raced = {}
    BY <2>1 DEF Lines
  <2>3. /\ console[i].at \in Times /\ console[j].at \in Times
        /\ Offset[console[i].at] \in Int /\ Offset[console[j].at] \in Int
    BY <2>1, LoggerAssumption DEF Lines, Times
  <2>4. /\ console[i].time = localTime(console[i].at)
        /\ console[j].time = localTime(console[j].at)
        /\ console[i].at <= console[j].at
    BY <2>2 DEF LogInv, Late, ShowsItsTime, InOrder
  <2> QED
    BY <2>3, <2>4 DEF localTime, Times
<1> QED
  BY <1>1, InitLogInv, NextLogInv, PTL DEF ConflictSpec

(* Each log file is a subsequence of the console, however often setLogFile *)
(* switches the file.                                                      *)
THEOREM FilesFollow == ConflictSpec => []FileFollowsConsole
<1>1. LogInv => FileFollowsConsole
  BY DEF LogInv
<1> QED
  BY <1>1, InitLogInv, NextLogInv, PTL DEF ConflictSpec

-----------------------------------------------------------------------------
(* A conflict being given a name is a tie.                                 *)
Ties ==
    \A t \in Threads : pc[t] \in {"name_localtime", "name"} =>
       conflict[t] \in Infos /\ autoResolve(conflict[t]) = "KEEP_BOTH"

(* A resolved conflict was resolved the way autoResolve says, and the name *)
(* of a copy has the local time at which the call began, unless tm was     *)
(* overwritten.                                                            *)
Outcomes ==
    \A x \in resolved :
       /\ x.info \in Infos /\ x.strategy = autoResolve(x.info)
       /\ x.strategy = "KEEP_BOTH" =>
             /\ \E time : x.name = conflictName(x.info.path, time)
             /\ x.raced = {} => x.name = conflictName(x.info.path, localTime(x.at))

(* At the start nothing is resolved.                                       *)
LEMMA InitOutcomes == ConflictInit => Ties /\ Outcomes
BY DEF ConflictInit, LoggerInit, Ties, Outcomes

(* Every step keeps what the two properties of the names rest on.          *)
LEMMA NextOutcomes ==
    LogInv /\ Ties /\ Outcomes /\ [ConflictNext]_cvars => Ties' /\ Outcomes'
<1> SUFFICES ASSUME LogInv, Ties, Outcomes, [ConflictNext]_cvars PROVE Ties' /\ Outcomes'
  OBVIOUS
<1> USE DEF LogInv
<1>1. ASSUME LoggerNext, UNCHANGED <<conflict, resolved>> PROVE Ties' /\ Outcomes'
  <2>1. \A t \in Threads : pc'[t] \in {"name_localtime", "name"} => pc'[t] = pc[t]
    BY <1>1 DEF LoggerNext, Log, LogStep, Lock, LogLocalTime, localtime, Format, Console,
                WriteFile, Leave, SetLevel, SetLogFile, Tick, Types
  <2> QED
    BY <1>1, <2>1 DEF Ties, Outcomes
<1>2. ASSUME NEW t \in Threads, NEW info \in Infos, ResolveInPlace(t, info)
      PROVE  Ties' /\ Outcomes'
  BY <1>2 DEF ResolveInPlace, Outcome, Ties, Outcomes
<1>3. ASSUME NEW t \in Threads, NEW info \in Infos, ResolveBoth(t, info)
      PROVE  Ties' /\ Outcomes'
  BY <1>3 DEF ResolveBoth, Ties, Outcomes, Types
<1>4. ASSUME NEW t \in Threads, NameLocalTime(t) PROVE Ties' /\ Outcomes'
  BY <1>4 DEF NameLocalTime, localtime, Ties, Outcomes, Types
<1>5. ASSUME NEW t \in Threads, Name(t) PROVE Ties' /\ Outcomes'
  <2>1. PICK time \in put_time(t) :
           resolved' = resolved \cup
              {Outcome(t, conflict[t], "KEEP_BOTH", conflictName(conflict[t].path, time))}
    BY <1>5 DEF Name
  <2>2. raced[t] = {} => time = localTime(now[t])
    BY <1>5 DEF Name, put_time, OwnTime
  <2>3. conflict[t] \in Infos /\ autoResolve(conflict[t]) = "KEEP_BOTH"
    BY <1>5 DEF Name, Ties
  <2>4. Outcomes'
    BY <2>1, <2>2, <2>3 DEF Outcome, Outcomes
  <2>5. \A s \in Threads : pc'[s] \in {"name_localtime", "name"} =>
           pc'[s] = pc[s] /\ conflict'[s] = conflict[s]
    BY <1>5 DEF Name, Leave, Types
  <2> QED
    BY <2>4, <2>5 DEF Ties
<1>6. CASE UNCHANGED cvars
  BY <1>6 DEF cvars, logger, Ties, Outcomes
<1> QED
  BY <1>1, <1>2, <1>3, <1>4, <1>5, <1>6 DEF ConflictNext

(* The names of conflicted copies clash exactly when the paths differ at   *)
(* most in a final dot and local time was the same, unless tm was          *)
(* overwritten: for any number of threads and calls of                     *)
(* generateConflictName, and whatever local time does.                     *)
THEOREM ConflictNamesClash == ConflictSpec => []NamesClash
<1>1. Outcomes => NamesClash
  <2> SUFFICES ASSUME Outcomes, NEW x \in resolved, NEW y \in resolved,
                      x.strategy = "KEEP_BOTH", y.strategy = "KEEP_BOTH"
               PROVE  /\ x.name = y.name => SameButForDot(x.info.path, y.info.path)
                      /\ x.raced = {} /\ y.raced = {} /\ SameButForDot(x.info.path, y.info.path)
                         => (x.name = y.name <=> localTime(x.at) = localTime(y.at))
    BY DEF NamesClash
  <2>1. /\ \E time : x.name = conflictName(x.info.path, time)
        /\ \E time : y.name = conflictName(y.info.path, time)
        /\ x.raced = {} => x.name = conflictName(x.info.path, localTime(x.at))
        /\ y.raced = {} => y.name = conflictName(y.info.path, localTime(y.at))
        /\ x.info.path \in Paths /\ y.info.path \in Paths
    BY ConflictAssumption DEF Outcomes
  <2>2. ASSUME x.name = y.name PROVE SameButForDot(x.info.path, y.info.path)
    <3> DEFINE p == x.info.path
               q == y.info.path
    <3>1. p.stem = q.stem /\ p.ext = q.ext
      BY <2>1, <2>2 DEF conflictName, getBaseName, getFileExtension
    <3>2. /\ p \in [stem : STRING, dot : BOOLEAN, ext : STRING] /\ (p.dot \/ p.ext = "")
          /\ q \in [stem : STRING, dot : BOOLEAN, ext : STRING] /\ (q.dot \/ q.ext = "")
      BY <2>1, ConflictAssumption
    <3> HIDE DEF p, q
    <3>3. p.ext = "" \/ (p.dot = TRUE /\ q.dot = TRUE)
      BY <3>1, <3>2
    <3>4. p = q \/ p.ext = ""
      <4>1. /\ p = [stem |-> p.stem, dot |-> p.dot, ext |-> p.ext]
            /\ q = [stem |-> q.stem, dot |-> q.dot, ext |-> q.ext]
        BY <3>2
      <4> QED
        BY <3>1, <3>3, <4>1, Zenon
    <3> QED
      BY <3>1, <3>4 DEF SameButForDot, p, q
  <2>3. ASSUME SameButForDot(x.info.path, y.info.path), x.raced = {}, y.raced = {}
        PROVE  x.name = y.name <=> localTime(x.at) = localTime(y.at)
    <3>1. x.info.path.stem = y.info.path.stem /\ x.info.path.ext = y.info.path.ext
      BY <2>3 DEF SameButForDot
    <3>2. /\ x.name = [stem |-> x.info.path.stem, time |-> localTime(x.at), ext |-> x.info.path.ext]
          /\ y.name = [stem |-> y.info.path.stem, time |-> localTime(y.at), ext |-> y.info.path.ext]
      BY <2>1, <2>3 DEF conflictName, getBaseName, getFileExtension
    <3> QED
      BY <3>1, <3>2
  <2> QED
    BY <2>2, <2>3
<1> QED
  BY <1>1, InitLogInv, NextLogInv, InitOutcomes, NextOutcomes, PTL DEF ConflictSpec

(* Two devices that resolve one conflict from their two sides keep the     *)
(* same version, or both keep both.                                        *)
THEOREM DevicesAgree == ConflictSpec => []SidesAgree
<1>1. Outcomes => SidesAgree
  <2> SUFFICES ASSUME Outcomes, NEW x \in resolved, NEW y \in resolved,
                      x.info = Mirror(y.info)
               PROVE  Kept(x) = Kept(y) \/ (x.strategy = "KEEP_BOTH" /\ y.strategy = "KEEP_BOTH")
    BY DEF SidesAgree
  <2>1. y.info \in Infos /\ x.strategy = autoResolve(x.info) /\ y.strategy = autoResolve(y.info)
    BY DEF Outcomes
  <2>2. /\ x.info.local_hash = y.info.remote_hash /\ x.info.remote_hash = y.info.local_hash
        /\ x.info.local_modified_time = y.info.remote_modified_time
        /\ x.info.remote_modified_time = y.info.local_modified_time
        /\ y.info.local_modified_time \in Nat /\ y.info.remote_modified_time \in Nat
    BY <2>1, ConflictAssumption DEF Mirror
  <2> QED
    BY <2>1, <2>2 DEF autoResolve, Kept
<1> QED
  BY <1>1, InitLogInv, NextLogInv, InitOutcomes, NextOutcomes, PTL DEF ConflictSpec
=============================================================================
