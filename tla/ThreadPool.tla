----------------------------- MODULE ThreadPool -----------------------------
(***************************************************************************)
(* The thread pool of webinar_24 (and, the same code, of webinar_25): the  *)
(* queue of TaskQueue, whose do_work is the workers' loop word for word,   *)
(* with an owner that enqueues and in the end destroys the pool, and tasks *)
(* that may themselves enqueue while they run.                             *)
(*                                                                         *)
(* Two things differ from BlockProcessor: the flag is tested and set under *)
(* the mutex, and the notifications are sent after it has been given up.   *)
(***************************************************************************)
EXTENDS TaskQueue, FiniteSets

CONSTANTS
    Owner,       \* the thread that has the pool
    MaxTasks     \* bound: tasks accepted

ASSUME MaxTasksAssumption == MaxTasks \in Nat
ASSUME OwnerAssumption == Owner \notin Workers
ASSUME NoTaskAssumption == NoTask \notin Nat

Callers == Workers \union {Owner}

VARIABLES
    enqueuing,   \* where each caller is in enqueue: "out", "pushed", or it "threw"
    life,        \* the pool: "up", "raised", "joining" in the destructor, "gone"
    \* history
    accepted,    \* the number of tasks accepted: the task of a future is its number
    ready        \* the tasks whose futures are ready

poolVars == <<vars, enqueuing, life, accepted, ready>>

PoolInit ==
    /\ Init
    /\ enqueuing = [c \in Callers |-> "out"]
    /\ life = "up"
    /\ accepted = 0 /\ ready = {}

(* Who may call: the owner while it has the pool, a worker inside a task. *)
MayCall(c) ==
    /\ enqueuing[c] = "out"
    /\ IF c = Owner THEN life = "up" ELSE pc[c] = "running"

(* enqueue, under the mutex: refuse or push, ... *)
Accept(c) ==
    /\ MayCall(c) /\ MutexFree
    /\ ~m_stopped /\ accepted < MaxTasks
    /\ accepted' = accepted + 1
    /\ tasks' = Append(tasks, accepted')
    /\ enqueuing' = [enqueuing EXCEPT ![c] = "pushed"]
    /\ UNCHANGED <<m_stopped, pc, task, life, ready>>

Refuse(c) ==
    /\ MayCall(c) /\ MutexFree
    /\ m_stopped
    /\ enqueuing' = [enqueuing EXCEPT ![c] = "threw"]
    /\ UNCHANGED <<vars, life, accepted, ready>>

(* Mutant of NotifyWorker: no notification. *)
NotifyNobody(c) ==
    /\ enqueuing[c] = "pushed"
    /\ enqueuing' = [enqueuing EXCEPT ![c] = "out"]
    /\ UNCHANGED <<vars, life, accepted, ready>>

(* ... and notify after the mutex was given up. *)
NotifyWorker(c) ==
    /\ enqueuing[c] = "pushed"
    /\ NotifyOne
    /\ enqueuing' = [enqueuing EXCEPT ![c] = "out"]
    /\ UNCHANGED <<tasks, m_stopped, task, life, accepted, ready>>

(* task(): the packaged_task makes its future ready, with a value or with  *)
(* the exception that a refused enqueue threw.                             *)
RunTask(w) ==
    /\ enqueuing[w] # "pushed"
    /\ Finish(w)
    /\ ready' = ready \union {task[w]}
    /\ enqueuing' = [enqueuing EXCEPT ![w] = "out"]
    /\ UNCHANGED <<life, accepted>>

(* Mutant of DestroyRaise: the flag is set without the mutex. *)
DestroyRaiseUnlocked ==
    /\ life = "up" /\ enqueuing[Owner] = "out"
    /\ RaiseStopped
    /\ life' = "raised"
    /\ UNCHANGED <<enqueuing, accepted, ready>>

(* ~ThreadPool: the flag under the mutex, ... *)
DestroyRaise ==
    /\ life = "up" /\ enqueuing[Owner] = "out"
    /\ MutexFree
    /\ RaiseStopped
    /\ life' = "raised"
    /\ UNCHANGED <<enqueuing, accepted, ready>>

(* ... notify_all, ... *)
DestroyNotify ==
    /\ life = "raised"
    /\ StopNotify
    /\ life' = "joining"
    /\ UNCHANGED <<enqueuing, accepted, ready>>

(* ... and the joins. *)
DestroyJoin ==
    /\ life = "joining"
    /\ Joinable
    /\ life' = "gone"
    /\ UNCHANGED <<vars, enqueuing, accepted, ready>>

WorkerLoop(w) ==
    /\ Loop(w)
    /\ UNCHANGED <<enqueuing, life, accepted, ready>>

Spurious(w) ==
    /\ SpuriousWake(w)
    /\ UNCHANGED <<enqueuing, life, accepted, ready>>

PoolNext ==
    \/ \E c \in Callers : Accept(c) \/ Refuse(c) \/ NotifyWorker(c)
    \/ \E w \in Workers : WorkerLoop(w) \/ RunTask(w) \/ Spurious(w)
    \/ DestroyRaise \/ DestroyNotify \/ DestroyJoin

PoolSpec == PoolInit /\ [][PoolNext]_poolVars

(* Threads that are not blocked run, and tasks end.  Nobody has to enqueue *)
(* or to destroy the pool.                                                 *)
Fairness ==
    /\ \A c \in Callers : WF_poolVars(NotifyWorker(c))
    /\ \A w \in Workers : WF_poolVars(WorkerLoop(w)) /\ WF_poolVars(RunTask(w))
    /\ WF_poolVars(DestroyNotify) /\ WF_poolVars(DestroyJoin)

FairPoolSpec == PoolSpec /\ Fairness

-----------------------------------------------------------------------------
(* A pool that is gone has run every task it accepted, those enqueued by   *)
(* other tasks while the owner was on its way into the destructor too: a   *)
(* worker leaves its loop only when the queue is empty, and the task that  *)
(* enqueued last has a worker that will look at the queue again.           *)
PoolDrains ==
    life = "gone" => tasks = <<>> /\ ready = 1..accepted

(* The destructor returns: the flag is raised under the mutex, so that no  *)
(* worker is between its predicate and its wait at that moment.            *)
DestructorReturns == (life = "raised") ~> (life = "gone")

(* Every future that enqueue handed out becomes ready, whether the pool is *)
(* destroyed or not: result.get() in main does not wait for ever.          *)
FutureReady ==
    \A k \in 1..MaxTasks : (accepted >= k) ~> (k \in ready)
=============================================================================
