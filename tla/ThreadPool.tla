----------------------------- MODULE ThreadPool -----------------------------
(***************************************************************************)
(* ThreadPool (src/common/thread_pool.cpp, include/common/thread_pool.h):  *)
(* worker threads, the threads that call enqueue and wait, and the thread  *)
(* that runs the destructor.                                               *)
(*                                                                         *)
(* A section of code under queue_mutex_ is one step, with one exception:   *)
(* wait() evaluates its predicate and then blocks, and because a worker    *)
(* decrements active_tasks_ and calls notify_all WITHOUT the mutex, those  *)
(* two steps of another thread fit in between.  The variable mutex says    *)
(* that a thread is in that gap.                                           *)
(***************************************************************************)
EXTENDS Integers, Sequences, FiniteSets

CONSTANTS
    Workers,      \* threads the constructor starts
    Clients,      \* threads that call enqueue and wait
    Tasks,        \* tasks; bounds how many are enqueued
    Spurious,     \* whether a condition variable may wake up unasked
    None

ASSUME PoolAssumption ==
    /\ Workers # {} /\ IsFiniteSet(Workers)
    /\ Workers \cap Clients = {}
    /\ None \notin Workers \cup Clients \cup Tasks
    /\ Spurious \in BOOLEAN

VARIABLES
    tasks_,          \* the queue
    stop_,
    active_tasks_,
    mutex,           \* the client between its predicate and its block, or None
    pc,              \* pc[a]: where thread a is
    task,            \* task[w]: the local variable of worker w
    destructor,      \* "none", "stopped", "joining" or "done"
    accepted,        \* tasks enqueue has returned a future for
    refused,         \* tasks enqueue has thrown for
    finished,        \* tasks whose future is ready
    awaited          \* awaited[c]: tasks accepted before c called wait()

vars == <<tasks_, stop_, active_tasks_, mutex, pc, task, destructor, accepted,
          refused, finished, awaited>>

Goto(a, label) == pc' = [pc EXCEPT ![a] = label]

Unlocked == mutex = None

(* Between two calls into the pool.                                        *)
Outside(c) == pc[c] \in {"idle", "returned"}

-----------------------------------------------------------------------------
Init ==
    /\ tasks_ = <<>>
    /\ stop_ = FALSE
    /\ active_tasks_ = 0
    /\ mutex = None
    /\ pc = [a \in Workers \cup Clients |-> IF a \in Workers THEN "ready" ELSE "idle"]
    /\ task = [w \in Workers |-> None]
    /\ destructor = "none"
    /\ accepted = {}
    /\ refused = {}
    /\ finished = {}
    /\ awaited = [c \in Clients |-> {}]

(* The worker has the lock and condition_'s predicate is false: it blocks, *)
(* releasing the lock.  Everything the predicate reads changes only under  *)
(* the lock, so test and block are one step.                               *)
Sleep(w) ==
    /\ pc[w] = "ready" /\ Unlocked
    /\ ~stop_ /\ tasks_ = <<>>
    /\ Goto(w, "asleep")
    /\ UNCHANGED <<tasks_, stop_, active_tasks_, mutex, task, destructor,
                   accepted, refused, finished, awaited>>

(* Mutant: a worker exits although tasks are queued.                       *)
ExitOnStop(w) ==
    /\ pc[w] = "ready" /\ Unlocked
    /\ stop_
    /\ Goto(w, "exited")
    /\ UNCHANGED <<tasks_, stop_, active_tasks_, mutex, task, destructor,
                   accepted, refused, finished, awaited>>

Exit(w) ==
    /\ pc[w] = "ready" /\ Unlocked
    /\ stop_ /\ tasks_ = <<>>
    /\ Goto(w, "exited")
    /\ UNCHANGED <<tasks_, stop_, active_tasks_, mutex, task, destructor,
                   accepted, refused, finished, awaited>>

(* Mutant: the front task is copied and not popped.                        *)
TakeFront(w) ==
    /\ pc[w] = "ready" /\ Unlocked
    /\ tasks_ # <<>>
    /\ task' = [task EXCEPT ![w] = Head(tasks_)]
    /\ Goto(w, "popped")
    /\ UNCHANGED <<tasks_, stop_, active_tasks_, mutex, destructor, accepted,
                   refused, finished, awaited>>

(* The task leaves the queue here; active_tasks_ counts it one step later. *)
TakeTask(w) ==
    /\ pc[w] = "ready" /\ Unlocked
    /\ tasks_ # <<>>
    /\ task' = [task EXCEPT ![w] = Head(tasks_)]
    /\ tasks_' = Tail(tasks_)
    /\ Goto(w, "popped")
    /\ UNCHANGED <<stop_, active_tasks_, mutex, destructor, accepted, refused,
                   finished, awaited>>

(* Mutant: the increment is missing.                                       *)
ActivateUncounted(w) ==
    /\ pc[w] = "popped"
    /\ Goto(w, "running")
    /\ UNCHANGED <<tasks_, stop_, active_tasks_, mutex, task, destructor,
                   accepted, refused, finished, awaited>>

Activate(w) ==
    /\ pc[w] = "popped"
    /\ active_tasks_' = active_tasks_ + 1
    /\ Goto(w, "running")
    /\ UNCHANGED <<tasks_, stop_, mutex, task, destructor, accepted, refused,
                   finished, awaited>>

(* task() returns; a packaged_task keeps an exception in its future.       *)
RunTask(w) ==
    /\ pc[w] = "running"
    /\ finished' = finished \cup {task[w]}
    /\ Goto(w, "ran")
    /\ UNCHANGED <<tasks_, stop_, active_tasks_, mutex, task, destructor,
                   accepted, refused, awaited>>

(* Mutant: the decrement is missing.                                       *)
DeactivateUncounted(w) ==
    /\ pc[w] = "ran"
    /\ task' = [task EXCEPT ![w] = None]
    /\ Goto(w, "notify_all")
    /\ UNCHANGED <<tasks_, stop_, active_tasks_, mutex, destructor, accepted,
                   refused, finished, awaited>>

Deactivate(w) ==
    /\ pc[w] = "ran"
    /\ active_tasks_' = active_tasks_ - 1
    /\ task' = [task EXCEPT ![w] = None]
    /\ Goto(w, "notify_all")
    /\ UNCHANGED <<tasks_, stop_, mutex, destructor, accepted, refused,
                   finished, awaited>>

(* Mutant: the notification is missing.                                    *)
NotifyNoWaiters(w) ==
    /\ pc[w] = "notify_all"
    /\ Goto(w, "ready")
    /\ UNCHANGED <<tasks_, stop_, active_tasks_, mutex, task, destructor,
                   accepted, refused, finished, awaited>>

(* wait_condition_.notify_all(), without the lock: a client that has tested *)
(* its predicate and not yet blocked is not woken.                         *)
NotifyWaiters(w) ==
    /\ pc[w] = "notify_all"
    /\ pc' = [a \in Workers \cup Clients |->
                 IF a = w THEN "ready"
                 ELSE IF pc[a] = "blocked" THEN "wait" ELSE pc[a]]
    /\ UNCHANGED <<tasks_, stop_, active_tasks_, mutex, task, destructor,
                   accepted, refused, finished, awaited>>

-----------------------------------------------------------------------------
(* enqueue, called by a client or from inside a running task.  Only a task *)
(* can still call it while the destructor waits for the workers.           *)
CanCall(a) == IF a \in Clients THEN Outside(a) /\ destructor = "none"
              ELSE pc[a] = "running"

Enqueue(a, t) ==
    /\ CanCall(a) /\ Unlocked
    /\ t \notin accepted \cup refused
    /\ IF stop_
       THEN /\ refused' = refused \cup {t}
            /\ UNCHANGED <<tasks_, accepted, pc>>
       ELSE /\ tasks_' = Append(tasks_, t)
            /\ accepted' = accepted \cup {t}
            /\ Goto(a, "notify_one")
            /\ UNCHANGED refused
    /\ UNCHANGED <<stop_, active_tasks_, mutex, task, destructor, finished, awaited>>

(* Mutant: nobody is notified.                                             *)
NotifyNobody(a) ==
    /\ pc[a] = "notify_one"
    /\ Goto(a, IF a \in Workers THEN "running" ELSE "idle")
    /\ UNCHANGED <<tasks_, stop_, active_tasks_, mutex, task, destructor,
                   accepted, refused, finished, awaited>>

(* condition_.notify_one(): one blocked worker, if there is one.           *)
NotifyOne(a) ==
    /\ pc[a] = "notify_one"
    /\ LET back == IF a \in Workers THEN "running" ELSE "idle"
           asleep == {w \in Workers : pc[w] = "asleep"}
       IN  \/ /\ asleep = {}
              /\ Goto(a, back)
           \/ \E w \in asleep : pc' = [pc EXCEPT ![a] = back, ![w] = "ready"]
    /\ UNCHANGED <<tasks_, stop_, active_tasks_, mutex, task, destructor,
                   accepted, refused, finished, awaited>>

-----------------------------------------------------------------------------
Wait(c) ==
    /\ Outside(c) /\ destructor = "none"
    /\ awaited' = [awaited EXCEPT ![c] = accepted]
    /\ Goto(c, "wait")
    /\ UNCHANGED <<tasks_, stop_, active_tasks_, mutex, task, destructor,
                   accepted, refused, finished>>

(* The predicate of wait().                                                *)
Drained == tasks_ = <<>> /\ active_tasks_ = 0

WaitReturns(c) ==
    /\ pc[c] = "wait" /\ Unlocked
    /\ Drained
    /\ Goto(c, "returned")
    /\ UNCHANGED <<tasks_, stop_, active_tasks_, mutex, task, destructor,
                   accepted, refused, finished, awaited>>

WaitTests(c) ==
    /\ pc[c] = "wait" /\ Unlocked
    /\ ~Drained
    /\ mutex' = c
    /\ Goto(c, "tested")
    /\ UNCHANGED <<tasks_, stop_, active_tasks_, task, destructor, accepted,
                   refused, finished, awaited>>

WaitBlocks(c) ==
    /\ pc[c] = "tested"
    /\ mutex' = None
    /\ Goto(c, "blocked")
    /\ UNCHANGED <<tasks_, stop_, active_tasks_, task, destructor, accepted,
                   refused, finished, awaited>>

SpuriousWakeup(a) ==
    /\ Spurious
    /\ \/ pc[a] = "asleep" /\ Goto(a, "ready")
       \/ pc[a] = "blocked" /\ Goto(a, "wait")
    /\ UNCHANGED <<tasks_, stop_, active_tasks_, mutex, task, destructor,
                   accepted, refused, finished, awaited>>

-----------------------------------------------------------------------------
(* ~ThreadPool, which no thread may run while another is in a call.        *)
Stop ==
    /\ destructor = "none" /\ Unlocked
    /\ \A c \in Clients : Outside(c)
    /\ stop_' = TRUE
    /\ destructor' = "stopped"
    /\ UNCHANGED <<tasks_, active_tasks_, mutex, pc, task, accepted, refused,
                   finished, awaited>>

(* Mutant: the destructor joins without waking the workers.                *)
JoinUnnotified ==
    /\ destructor = "stopped"
    /\ destructor' = "joining"
    /\ UNCHANGED <<tasks_, stop_, active_tasks_, mutex, pc, task, accepted, refused,
                   finished, awaited>>

NotifyWorkers ==
    /\ destructor = "stopped"
    /\ pc' = [a \in Workers \cup Clients |->
                 IF pc[a] = "asleep" THEN "ready" ELSE pc[a]]
    /\ destructor' = "joining"
    /\ UNCHANGED <<tasks_, stop_, active_tasks_, mutex, task, accepted, refused,
                   finished, awaited>>

Join ==
    /\ destructor = "joining"
    /\ \A w \in Workers : pc[w] = "exited"
    /\ destructor' = "done"
    /\ UNCHANGED <<tasks_, stop_, active_tasks_, mutex, pc, task, accepted,
                   refused, finished, awaited>>

-----------------------------------------------------------------------------
Worker(w) == \/ Sleep(w) \/ Exit(w) \/ TakeTask(w) \/ Activate(w) \/ RunTask(w)
             \/ Deactivate(w) \/ NotifyWaiters(w) \/ NotifyOne(w)

(* The steps of a call a client is in.                                     *)
Client(c) == NotifyOne(c) \/ WaitReturns(c) \/ WaitTests(c) \/ WaitBlocks(c)

Destructor == NotifyWorkers \/ Join

Next ==
    \/ \E w \in Workers : Worker(w)
    \/ \E c \in Clients : Client(c) \/ Wait(c)
    \/ \E a \in Workers \cup Clients : SpuriousWakeup(a) \/ \E t \in Tasks : Enqueue(a, t)
    \/ Stop \/ Destructor

(* A thread inside the pool's code runs and finishes its task; calling the *)
(* pool and destroying it are the caller's choice.  Strong fairness for    *)
(* the workers: one that contends for the mutex gets it in the end, though *)
(* clients in wait() may be woken up and take it again and again.          *)
Fairness ==
    /\ \A w \in Workers : SF_vars(Worker(w))
    /\ \A c \in Clients : WF_vars(Client(c))
    /\ WF_vars(Destructor)

Spec == Init /\ [][Next]_vars

FairSpec == Spec /\ Fairness

-----------------------------------------------------------------------------
(* PROPERTIES                                                              *)

(* Workers that active_tasks_ counts, and those with a task in hand.       *)
Counted == {w \in Workers : pc[w] \in {"running", "notify_one", "ran"}}
Holding == {w \in Workers : pc[w] \in {"popped", "running", "notify_one"}}

WorkerLabels == {"ready", "asleep", "exited", "popped", "running", "notify_one",
                 "ran", "notify_all"}
ClientLabels == {"idle", "notify_one", "wait", "tested", "blocked", "returned"}

(* The types of the pool's state; a lock holder is between test and block. *)
TypeOK ==
    /\ tasks_ \in Seq(Tasks)
    /\ stop_ \in BOOLEAN
    /\ active_tasks_ \in Nat
    /\ mutex \in Clients \cup {None}
    /\ pc \in [Workers \cup Clients -> WorkerLabels \cup ClientLabels]
    /\ \A w \in Workers : pc[w] \in WorkerLabels
    /\ \A c \in Clients : pc[c] \in ClientLabels
    /\ \A c \in Clients : pc[c] = "tested" <=> mutex = c
    /\ task \in [Workers -> Tasks \cup {None}]
    /\ destructor \in {"none", "stopped", "joining", "done"}
    /\ stop_ <=> destructor # "none"
    /\ accepted \subseteq Tasks
    /\ refused \subseteq Tasks
    /\ finished \subseteq Tasks
    /\ awaited \in [Clients -> SUBSET Tasks]

Queued == {tasks_[i] : i \in 1 .. Len(tasks_)}
Held == {task[w] : w \in Holding}

(* Every task whose future was handed out is in exactly one place: once in *)
(* the queue, in the hands of one worker, or finished.  None is lost when  *)
(* workers race for it, sleep or exit, and none runs twice.                *)
ExactlyOnce ==
    /\ accepted = Queued \cup Held \cup finished
    /\ Queued \cap Held = {} /\ Queued \cap finished = {} /\ Held \cap finished = {}
    /\ \A i, j \in 1 .. Len(tasks_) : tasks_[i] = tasks_[j] => i = j
    /\ \A v, w \in Holding : task[v] = task[w] => v = w

(* active_tasks_, an unsigned counter updated without the lock, is the     *)
(* number of workers between increment and decrement: it never wraps.      *)
ActiveCount == active_tasks_ = Cardinality(Counted)

(* While a task is queued, a worker is awake to take it or a caller has    *)
(* still to notify one: no wakeup of a worker is lost.                     *)
SomeoneWillTake ==
    tasks_ # <<>> => \/ \E w \in Workers : pc[w] \notin {"asleep", "exited"}
                     \/ \E c \in Clients : pc[c] = "notify_one"

(* The destructor returns only after every task that was ever accepted has *)
(* run: a worker exits on an empty queue only, and once one has, nothing   *)
(* can be queued any more.                                                 *)
DrainedOnDestroy == destructor = "done" => finished = accepted

(* wait() returns only when the tasks enqueued before the call have run.   *)
WaitMeansDone == \A c \in Clients : pc[c] = "returned" => awaited[c] \subseteq finished

(* Every accepted task is run.                                             *)
TasksRun == \A t \in Tasks : t \in accepted ~> t \in finished

(* A call of wait() returns, as long as no worker is on its way to the     *)
(* notification while the call is between its test and its block           *)
(* (thread_pool.cpp:27): that notification is lost, and if it was the last *)
(* one the call never returns.                                             *)
WaitReturnsUnlessMissed ==
    \A c \in Clients :
       [](pc[c] = "tested" => \A w \in Workers : pc[w] # "notify_all")
          => (pc[c] = "wait" ~> pc[c] = "returned")

(* The destructor terminates.                                              *)
DestructorReturns == destructor = "stopped" ~> destructor = "done"

=============================================================================
