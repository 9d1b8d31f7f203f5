-------------------------- MODULE ThreadPoolProofs --------------------------
(***************************************************************************)
(* Theorems about the thread pool, for any number of workers, clients and  *)
(* tasks, with spurious wakeups or without.                                *)
(***************************************************************************)
EXTENDS ThreadPool, FiniteSetTheorems, TLAPS

(* A worker exits only when the pool is stopped and its queue empty; the   *)
(* destructor is done only when all have exited.                           *)
ExitedLast ==
    /\ \A w \in Workers : pc[w] = "exited" => stop_ /\ tasks_ = <<>>
    /\ destructor = "done" => \A w \in Workers : pc[w] = "exited"

IndInv == TypeOK /\ ExactlyOnce /\ ActiveCount /\ ExitedLast

-----------------------------------------------------------------------------
(* The workers being counted are finitely many.                            *)
LEMMA CountedFinite ==
    /\ IsFiniteSet(Counted) /\ Cardinality(Counted) \in Nat
    /\ \A w \in Counted : Cardinality(Counted) # 0
<1>1. IsFiniteSet(Counted)
  BY FS_Subset, PoolAssumption DEF Counted
<1>2. Cardinality(Counted) \in Nat
  BY <1>1, FS_CardinalityType
<1>3. Counted # {} => Cardinality(Counted) # 0
  BY <1>1, FS_EmptySet
<1> QED
  BY <1>1, <1>2, <1>3

(* The pool starts empty, and its state is well typed.                     *)
LEMMA InitIndInv == Init => IndInv
<1> SUFFICES ASSUME Init PROVE IndInv
  OBVIOUS
<1>1. \A w \in Workers : pc[w] = "ready"
  BY DEF Init
<1>2. \A c \in Clients : pc[c] = "idle"
  BY PoolAssumption DEF Init
<1>3. TypeOK
  <2>1. pc \in [Workers \cup Clients -> WorkerLabels \cup ClientLabels]
    BY DEF Init, WorkerLabels, ClientLabels
  <2>2. tasks_ \in Seq(Tasks)
    BY DEF Init
  <2> QED
    BY <1>1, <1>2, <2>1, <2>2, PoolAssumption
       DEF Init, TypeOK, WorkerLabels, ClientLabels
<1>4. Holding = {} /\ Held = {}
  BY <1>1 DEF Holding, Held
<1>5. Queued = {} /\ Len(tasks_) = 0
  BY DEF Init, Queued
<1>6. ExactlyOnce
  BY <1>4, <1>5 DEF Init, ExactlyOnce
<1>7. ActiveCount
  <2>1. Counted = {}
    BY <1>1 DEF Counted
  <2> QED
    BY <2>1, FS_EmptySet DEF Init, ActiveCount
<1> QED
  BY <1>1, <1>3, <1>6, <1>7 DEF IndInv, ExitedLast, Init

(* Every step of every thread preserves the types.                         *)
LEMMA TypeStep == IndInv /\ [Next]_vars => TypeOK'
<1> SUFFICES ASSUME IndInv, TypeOK, [Next]_vars PROVE TypeOK'
  BY DEF IndInv
<1> USE PoolAssumption DEF WorkerLabels, ClientLabels, Goto
<1>1. ASSUME NEW w \in Workers, Sleep(w) PROVE TypeOK'
  BY <1>1 DEF Sleep, TypeOK
<1>2. ASSUME NEW w \in Workers, Exit(w) PROVE TypeOK'
  BY <1>2 DEF Exit, TypeOK
<1>3. ASSUME NEW w \in Workers, TakeTask(w) PROVE TypeOK'
  <2>1. Head(tasks_) \in Tasks /\ Tail(tasks_) \in Seq(Tasks)
    BY <1>3 DEF TakeTask, TypeOK
  <2> QED
    BY <1>3, <2>1 DEF TakeTask, TypeOK
<1>4. ASSUME NEW w \in Workers, Activate(w) PROVE TypeOK'
  BY <1>4 DEF Activate, TypeOK
<1>5. ASSUME NEW w \in Workers, RunTask(w) PROVE TypeOK'
  <2>1. task[w] \in Tasks
    BY <1>5 DEF RunTask, IndInv, ExactlyOnce, Held, Holding, TypeOK
  <2> QED
    BY <1>5, <2>1 DEF RunTask, TypeOK
<1>6. ASSUME NEW w \in Workers, Deactivate(w) PROVE TypeOK'
  <2>1. w \in Counted
    BY <1>6 DEF Deactivate, Counted
  <2>2. active_tasks_ \in Nat /\ active_tasks_ # 0
    BY <2>1, CountedFinite DEF IndInv, ActiveCount
  <2>3. active_tasks_ - 1 \in Nat
    BY <2>2
  <2> QED
    BY <1>6, <2>3 DEF Deactivate, TypeOK
<1>7. ASSUME NEW w \in Workers, NotifyWaiters(w) PROVE TypeOK'
  BY <1>7 DEF NotifyWaiters, TypeOK
<1>8. ASSUME NEW a \in Workers \cup Clients, NotifyOne(a) PROVE TypeOK'
  BY <1>8 DEF NotifyOne, TypeOK
<1>9. ASSUME NEW a \in Workers \cup Clients, NEW t \in Tasks, Enqueue(a, t) PROVE TypeOK'
  <2>1. CASE stop_
    BY <1>9, <2>1 DEF Enqueue, TypeOK
  <2>2. CASE ~stop_
    <3>1. tasks_' \in Seq(Tasks)
      BY <1>9, <2>2 DEF Enqueue, TypeOK
    <3> QED
      BY <1>9, <2>2, <3>1 DEF Enqueue, CanCall, Outside, TypeOK
  <2> QED
    BY <2>1, <2>2
<1>10. ASSUME NEW c \in Clients, Wait(c) \/ WaitReturns(c) PROVE TypeOK'
  BY <1>10 DEF Wait, WaitReturns, Outside, TypeOK
<1>11. ASSUME NEW c \in Clients, WaitTests(c) \/ WaitBlocks(c) PROVE TypeOK'
  BY <1>11 DEF WaitTests, WaitBlocks, Unlocked, TypeOK
<1>12. ASSUME NEW a \in Workers \cup Clients, SpuriousWakeup(a) PROVE TypeOK'
  BY <1>12 DEF SpuriousWakeup, TypeOK
<1>13. CASE Stop
  BY <1>13 DEF Stop, TypeOK
<1>14. CASE NotifyWorkers
  BY <1>14 DEF NotifyWorkers, TypeOK
<1>15. CASE Join
  BY <1>15 DEF Join, TypeOK
<1>16. CASE UNCHANGED vars
  BY <1>16 DEF vars, TypeOK
<1> QED
  BY <1>1, <1>2, <1>3, <1>4, <1>5, <1>6, <1>7, <1>8, <1>9, <1>10, <1>11, <1>12,
     <1>13, <1>14, <1>15, <1>16 DEF Next, Worker, Client, Destructor

-----------------------------------------------------------------------------
(* Where the tasks are.                                                    *)

(* A step that leaves queue, outcome and the tasks in hand alone leaves    *)
(* every task where it is.                                                 *)
LEMMA SamePlaces ==
    ASSUME ExactlyOnce, UNCHANGED <<tasks_, accepted, finished>>,
           Holding' = Holding, \A w \in Holding : task'[w] = task[w]
    PROVE  ExactlyOnce'
<1>1. Held' = Held
  BY DEF Held
<1>2. Queued' = Queued
  BY DEF Queued
<1> QED
  BY <1>1, <1>2 DEF ExactlyOnce

(* A worker takes the head of the queue: it is in the queue no longer and  *)
(* in no other worker's hands.                                             *)
LEMMA TakeOnce ==
    ASSUME TypeOK, ExactlyOnce, NEW w \in Workers, TakeTask(w)
    PROVE  ExactlyOnce'
<1> DEFINE t == Head(tasks_)
<1>1. tasks_ \in Seq(Tasks) /\ tasks_ # <<>> /\ tasks_' = Tail(tasks_)
  BY DEF TakeTask, TypeOK
<1>2. /\ Len(tasks_) \in Nat /\ Len(tasks_) >= 1 /\ Len(tasks_') = Len(tasks_) - 1
      /\ \A i \in 1 .. Len(tasks_') : tasks_'[i] = tasks_[i + 1]
      /\ t = tasks_[1]
  BY <1>1
<1>3. t \in Queued /\ Queued = Queued' \cup {t}
  <2>1. t \in Queued
    BY <1>2 DEF Queued
  <2>2. Queued' \subseteq Queued
    BY <1>2 DEF Queued
  <2>3. ASSUME NEW x \in Queued, x # t PROVE x \in Queued'
    <3>1. PICK i \in 1 .. Len(tasks_) : x = tasks_[i]
      BY DEF Queued
    <3>2. i # 1 /\ i - 1 \in 1 .. Len(tasks_')
      BY <1>2, <2>3, <3>1
    <3>3. tasks_'[i - 1] = x
      BY <1>2, <3>1, <3>2
    <3> QED
      BY <3>2, <3>3 DEF Queued
  <2> QED
    BY <2>1, <2>2, <2>3
<1>4. t \notin Queued'
  <2>1. ASSUME NEW i \in 1 .. Len(tasks_'), tasks_'[i] = t PROVE FALSE
    <3>1. i + 1 \in 1 .. Len(tasks_) /\ 1 \in 1 .. Len(tasks_) /\ i + 1 # 1
      BY <1>2
    <3>2. tasks_[i + 1] = tasks_[1]
      BY <1>2, <2>1
    <3> QED
      BY <3>1, <3>2 DEF ExactlyOnce
  <2> QED
    BY <2>1 DEF Queued
<1>5. \A i, j \in 1 .. Len(tasks_') : tasks_'[i] = tasks_'[j] => i = j
  <2>1. TAKE i, j \in 1 .. Len(tasks_')
  <2>2. HAVE tasks_'[i] = tasks_'[j]
  <2>3. i + 1 \in 1 .. Len(tasks_) /\ j + 1 \in 1 .. Len(tasks_)
    BY <1>2
  <2>4. i + 1 = j + 1
    BY <1>2, <2>2, <2>3 DEF ExactlyOnce
  <2> QED
    BY <2>3, <2>4
<1>6. Holding' = Holding \cup {w} /\ w \notin Holding
  BY DEF TakeTask, Goto, Holding, TypeOK
<1>7. task'[w] = t /\ \A v \in Holding : task'[v] = task[v]
  BY <1>6 DEF TakeTask, Holding, TypeOK
<1> HIDE DEF t
<1>8. Held' = Held \cup {t}
  BY <1>6, <1>7 DEF Held
<1>9. t \notin Held /\ t \notin finished
  BY <1>3 DEF ExactlyOnce
<1>10. \A v, x \in Holding' : task'[v] = task'[x] => v = x
  BY <1>6, <1>7, <1>9 DEF ExactlyOnce, Held
<1>11. UNCHANGED <<accepted, finished>>
  BY DEF TakeTask
<1> QED
  BY <1>3, <1>4, <1>5, <1>8, <1>9, <1>10, <1>11 DEF ExactlyOnce

(* A new task enters the queue once.                                       *)
LEMMA EnqueueOnce ==
    ASSUME TypeOK, ExactlyOnce, NEW a \in Workers \cup Clients, NEW t \in Tasks,
           Enqueue(a, t)
    PROVE  ExactlyOnce'
<1>1. Holding' = Holding /\ UNCHANGED <<task, finished>>
  BY PoolAssumption DEF Enqueue, CanCall, Outside, Goto, Holding, TypeOK
<1>2. CASE stop_
  BY <1>1, <1>2, SamePlaces DEF Enqueue
<1>3. CASE ~stop_
  <2>1. /\ tasks_' = Append(tasks_, t) /\ accepted' = accepted \cup {t}
        /\ t \notin accepted /\ tasks_ \in Seq(Tasks)
    BY <1>3 DEF Enqueue, TypeOK
  <2>2. /\ Len(tasks_) \in Nat /\ Len(tasks_') = Len(tasks_) + 1
        /\ \A i \in 1 .. Len(tasks_) : tasks_'[i] = tasks_[i]
        /\ tasks_'[Len(tasks_) + 1] = t
    BY <2>1
  <2>3. Queued' = Queued \cup {t}
    <3>1. \A i \in 1 .. Len(tasks_) + 1 : i \in 1 .. Len(tasks_) \/ i = Len(tasks_) + 1
      BY <2>2
    <3>2. 1 .. Len(tasks_) \subseteq 1 .. Len(tasks_) + 1
      BY <2>2
    <3>3. Len(tasks_) + 1 \in 1 .. Len(tasks_) + 1
      BY <2>2
    <3> QED
      BY <2>2, <3>1, <3>2, <3>3 DEF Queued
  <2>4. t \notin Queued /\ t \notin Held /\ t \notin finished
    BY <2>1 DEF ExactlyOnce
  <2>5. \A i, j \in 1 .. Len(tasks_') : tasks_'[i] = tasks_'[j] => i = j
    BY <2>2, <2>4 DEF ExactlyOnce, Queued
  <2>6. Held' = Held
    BY <1>1 DEF Held
  <2> QED
    BY <1>1, <2>1, <2>3, <2>4, <2>5, <2>6 DEF ExactlyOnce
<1> QED
  BY <1>2, <1>3

(* A task that has run leaves the hands of its worker.                     *)
LEMMA RunOnce ==
    ASSUME TypeOK, ExactlyOnce, NEW w \in Workers, RunTask(w)
    PROVE  ExactlyOnce'
<1>1. w \in Holding /\ Holding' = Holding \ {w}
  BY DEF RunTask, Goto, Holding, TypeOK
<1>2. UNCHANGED <<tasks_, task, accepted>> /\ finished' = finished \cup {task[w]}
  BY DEF RunTask
<1>3. Held = Held' \cup {task[w]} /\ task[w] \notin Held'
  BY <1>1, <1>2 DEF Held, ExactlyOnce
<1>4. Queued' = Queued
  BY <1>2 DEF Queued
<1> QED
  BY <1>1, <1>2, <1>3, <1>4 DEF ExactlyOnce

(* No other step moves a task.                                             *)
LEMMA OnceStep == IndInv /\ [Next]_vars => ExactlyOnce'
<1> SUFFICES ASSUME IndInv, TypeOK, ExactlyOnce, [Next]_vars PROVE ExactlyOnce'
  BY DEF IndInv
<1>1. ASSUME NEW w \in Workers, TakeTask(w) \/ RunTask(w) PROVE ExactlyOnce'
  BY <1>1, TakeOnce, RunOnce
<1>2. ASSUME NEW a \in Workers \cup Clients, NEW t \in Tasks, Enqueue(a, t)
      PROVE  ExactlyOnce'
  BY <1>2, EnqueueOnce
<1>3. ASSUME NEW w \in Workers, Sleep(w) \/ Exit(w) \/ Activate(w) \/ Deactivate(w)
      PROVE  ExactlyOnce'
  <2>1. Holding' = Holding
    BY <1>3 DEF Sleep, Exit, Activate, Deactivate, Goto, Holding, TypeOK
  <2>2. \A v \in Holding : task'[v] = task[v]
    BY <1>3 DEF Sleep, Exit, Activate, Deactivate, Holding, TypeOK
  <2> QED
    BY <1>3, <2>1, <2>2, SamePlaces DEF Sleep, Exit, Activate, Deactivate
<1>4. ASSUME NEW a \in Workers \cup Clients,
             NotifyOne(a) \/ SpuriousWakeup(a) \/ (a \in Workers /\ NotifyWaiters(a))
      PROVE  ExactlyOnce'
  <2>1. Holding' = Holding
    BY <1>4 DEF NotifyOne, SpuriousWakeup, NotifyWaiters, Goto, Holding, TypeOK
  <2> QED
    BY <1>4, <2>1, SamePlaces DEF NotifyOne, SpuriousWakeup, NotifyWaiters
<1>5. ASSUME NEW c \in Clients,
             Wait(c) \/ WaitReturns(c) \/ WaitTests(c) \/ WaitBlocks(c)
      PROVE  ExactlyOnce'
  <2>1. Holding' = Holding
    BY <1>5, PoolAssumption
       DEF Wait, WaitReturns, WaitTests, WaitBlocks, Goto, Holding, TypeOK
  <2> QED
    BY <1>5, <2>1, SamePlaces DEF Wait, WaitReturns, WaitTests, WaitBlocks
<1>6. CASE Stop \/ NotifyWorkers \/ Join \/ UNCHANGED vars
  <2>1. Holding' = Holding
    BY <1>6 DEF Stop, NotifyWorkers, Join, vars, Holding, TypeOK
  <2> QED
    BY <1>6, <2>1, SamePlaces DEF Stop, NotifyWorkers, Join, vars
<1> QED
  BY <1>1, <1>2, <1>3, <1>4, <1>5, <1>6 DEF Next, Worker, Client, Destructor

-----------------------------------------------------------------------------
(* The counter and the end of the pool.                                    *)

(* Only the two unlocked updates of active_tasks_ change the set of        *)
(* counted workers, each by one.                                           *)
LEMMA CountStep == IndInv /\ [Next]_vars => ActiveCount'
<1> SUFFICES ASSUME IndInv, TypeOK, ActiveCount, [Next]_vars PROVE ActiveCount'
  BY DEF IndInv
<1>1. ASSUME NEW w \in Workers, Activate(w) PROVE ActiveCount'
  <2>1. Counted' = Counted \cup {w} /\ w \notin Counted
    BY <1>1 DEF Activate, Goto, Counted, TypeOK
  <2>2. Cardinality(Counted') = Cardinality(Counted) + 1
    BY <2>1, CountedFinite, FS_AddElement
  <2> QED
    BY <1>1, <2>2 DEF Activate, ActiveCount
<1>2. ASSUME NEW w \in Workers, Deactivate(w) PROVE ActiveCount'
  <2>1. Counted' = Counted \ {w} /\ w \in Counted
    BY <1>2 DEF Deactivate, Goto, Counted, TypeOK
  <2>2. Cardinality(Counted') = Cardinality(Counted) - 1
    BY <2>1, CountedFinite, FS_RemoveElement
  <2> QED
    BY <1>2, <2>2 DEF Deactivate, ActiveCount
<1>3. ASSUME Counted' = Counted, UNCHANGED active_tasks_ PROVE ActiveCount'
  BY <1>3 DEF ActiveCount
<1>4. ASSUME NEW w \in Workers, Sleep(w) \/ Exit(w) \/ TakeTask(w) \/ RunTask(w)
      PROVE  Counted' = Counted /\ UNCHANGED active_tasks_
  BY <1>4 DEF Sleep, Exit, TakeTask, RunTask, Goto, Counted, TypeOK
<1>5. ASSUME NEW a \in Workers \cup Clients, NEW t \in Tasks, Enqueue(a, t)
      PROVE  Counted' = Counted /\ UNCHANGED active_tasks_
  BY <1>5, PoolAssumption DEF Enqueue, CanCall, Outside, Goto, Counted, TypeOK
<1>6. ASSUME NEW a \in Workers \cup Clients,
             NotifyOne(a) \/ SpuriousWakeup(a) \/ (a \in Workers /\ NotifyWaiters(a))
      PROVE  Counted' = Counted /\ UNCHANGED active_tasks_
  BY <1>6 DEF NotifyOne, SpuriousWakeup, NotifyWaiters, Goto, Counted, TypeOK
<1>7. ASSUME NEW c \in Clients,
             Wait(c) \/ WaitReturns(c) \/ WaitTests(c) \/ WaitBlocks(c)
      PROVE  Counted' = Counted /\ UNCHANGED active_tasks_
  BY <1>7, PoolAssumption
     DEF Wait, WaitReturns, WaitTests, WaitBlocks, Goto, Counted, TypeOK
<1>8. CASE Stop \/ NotifyWorkers \/ Join \/ UNCHANGED vars
  <2>1. Counted' = Counted /\ UNCHANGED active_tasks_
    BY <1>8 DEF Stop, NotifyWorkers, Join, vars, Counted, TypeOK
  <2> QED
    BY <1>3, <2>1
<1> QED
  BY <1>1, <1>2, <1>3, <1>4, <1>5, <1>6, <1>7, <1>8
     DEF Next, Worker, Client, Destructor

(* Once a worker has exited the queue stays empty: enqueue throws.         *)
LEMMA ExitStep == IndInv /\ [Next]_vars => ExitedLast'
<1> SUFFICES ASSUME IndInv, TypeOK, ExitedLast, [Next]_vars PROVE ExitedLast'
  BY DEF IndInv
<1>1. ASSUME NEW w \in Workers,
             \/ Sleep(w) \/ Exit(w) \/ TakeTask(w) \/ Activate(w) \/ RunTask(w)
             \/ Deactivate(w) \/ NotifyWaiters(w)
      PROVE  ExitedLast'
  BY <1>1 DEF Sleep, Exit, TakeTask, Activate, RunTask, Deactivate, NotifyWaiters,
              Goto, ExitedLast, TypeOK
<1>2. ASSUME NEW a \in Workers \cup Clients, NEW t \in Tasks, Enqueue(a, t)
      PROVE  ExitedLast'
  BY <1>2, PoolAssumption DEF Enqueue, CanCall, Outside, Goto, ExitedLast, TypeOK
<1>3. ASSUME NEW a \in Workers \cup Clients, NotifyOne(a) \/ SpuriousWakeup(a)
      PROVE  ExitedLast'
  BY <1>3 DEF NotifyOne, SpuriousWakeup, Goto, ExitedLast, TypeOK
<1>4. ASSUME NEW c \in Clients,
             Wait(c) \/ WaitReturns(c) \/ WaitTests(c) \/ WaitBlocks(c)
      PROVE  ExitedLast'
  BY <1>4, PoolAssumption
     DEF Wait, WaitReturns, WaitTests, WaitBlocks, Goto, ExitedLast, TypeOK
<1>5. CASE Stop \/ NotifyWorkers \/ Join \/ UNCHANGED vars
  BY <1>5 DEF Stop, NotifyWorkers, Join, vars, ExitedLast, TypeOK
<1> QED
  BY <1>1, <1>2, <1>3, <1>4, <1>5 DEF Next, Worker, Client, Destructor

(* The inductive invariant holds in every reachable state.                 *)
LEMMA IndInvariant == Spec => []IndInv
<1>1. IndInv /\ [Next]_vars => IndInv'
  BY TypeStep, OnceStep, CountStep, ExitStep DEF IndInv
<1> QED
  BY <1>1, InitIndInv, PTL DEF Spec

-----------------------------------------------------------------------------
(* The pool's state is well typed; in particular active_tasks_, a size_t,  *)
(* is never decremented at zero.                                           *)
THEOREM TypeCorrect == Spec => []TypeOK
<1>1. IndInv => TypeOK
  BY DEF IndInv
<1> QED
  BY <1>1, IndInvariant, PTL

(* A task is never lost and never run twice.                               *)
THEOREM TasksExactlyOnce == Spec => []ExactlyOnce
<1>1. IndInv => ExactlyOnce
  BY DEF IndInv
<1> QED
  BY <1>1, IndInvariant, PTL

(* active_tasks_ counts the running tasks although no lock protects it.    *)
THEOREM CountExact == Spec => []ActiveCount
<1>1. IndInv => ActiveCount
  BY DEF IndInv
<1> QED
  BY <1>1, IndInvariant, PTL

(* When the destructor returns, every accepted task has run.  This needs   *)
(* a worker: with none the queue is never read.                            *)
THEOREM DestructorDrains == Spec => []DrainedOnDestroy
<1>1. IndInv => DrainedOnDestroy
  <2> SUFFICES ASSUME IndInv, destructor = "done" PROVE finished = accepted
    BY DEF DrainedOnDestroy
  <2>1. \A w \in Workers : pc[w] = "exited"
    BY DEF IndInv, ExitedLast
  <2>2. tasks_ = <<>>
    BY <2>1, PoolAssumption DEF IndInv, ExitedLast
  <2>3. Queued = {} /\ Held = {}
    BY <2>1, <2>2 DEF Queued, Held, Holding
  <2> QED
    BY <2>3 DEF IndInv, ExactlyOnce
<1> QED
  BY <1>1, IndInvariant, PTL

(* A queued task always has someone to take it: an awake worker, or a      *)
(* caller that has still to notify one.                                    *)
THEOREM NoWorkerWakeupLost == Spec => []SomeoneWillTake
<1>1. Init => SomeoneWillTake
  BY DEF Init, SomeoneWillTake
<1>2. IndInv /\ SomeoneWillTake /\ [Next]_vars => SomeoneWillTake'
  <2> SUFFICES ASSUME IndInv, TypeOK, ExitedLast, SomeoneWillTake, [Next]_vars
               PROVE  SomeoneWillTake'
    BY DEF IndInv
  <2> USE PoolAssumption DEF SomeoneWillTake, TypeOK, Goto
  <2>1. ASSUME NEW w \in Workers,
               \/ Sleep(w) \/ Exit(w) \/ TakeTask(w) \/ Activate(w) \/ RunTask(w)
               \/ Deactivate(w) \/ NotifyWaiters(w)
        PROVE  SomeoneWillTake'
    BY <2>1 DEF Sleep, Exit, TakeTask, Activate, RunTask, Deactivate, NotifyWaiters
  <2>2. ASSUME NEW a \in Workers \cup Clients, NEW t \in Tasks, Enqueue(a, t)
        PROVE  SomeoneWillTake'
    BY <2>2 DEF Enqueue
  <2>3. ASSUME NEW a \in Workers \cup Clients, NotifyOne(a) PROVE SomeoneWillTake'
    BY <2>3 DEF NotifyOne, ExitedLast
  <2>4. ASSUME NEW a \in Workers \cup Clients, SpuriousWakeup(a) PROVE SomeoneWillTake'
    BY <2>4 DEF SpuriousWakeup
  <2>5. ASSUME NEW c \in Clients,
               Wait(c) \/ WaitReturns(c) \/ WaitTests(c) \/ WaitBlocks(c)
        PROVE  SomeoneWillTake'
    BY <2>5 DEF Wait, WaitReturns, WaitTests, WaitBlocks, Outside
  <2>6. CASE Stop \/ NotifyWorkers \/ Join \/ UNCHANGED vars
    BY <2>6 DEF Stop, NotifyWorkers, Join, vars
  <2> QED
    BY <2>1, <2>2, <2>3, <2>4, <2>5, <2>6 DEF Next, Worker, Client, Destructor
<1> QED
  BY <1>1, <1>2, IndInvariant, PTL DEF Spec
=============================================================================
