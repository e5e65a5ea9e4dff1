----------------------------- MODULE TaskQueue -----------------------------
(***************************************************************************)
(* The task queue that BlockProcessor, BlockPrinter and BlockSaver share:  *)
(* a std::queue guarded by m_mutex, a condition variable m_cv, an atomic   *)
(* flag m_stopped and threads that run do_work.  The definitions follow    *)
(* BlockProcessor; the two constants say where BlockSaver differs.         *)
(*                                                                         *)
(* What is atomic: a critical section that neither waits nor reads         *)
(* m_stopped is one step that needs the mutex.  do_work is cut where it    *)
(* reads m_stopped, because Stop writes the flag without the mutex: in     *)
(* the predicate of wait, between the predicate and the blocking that      *)
(* follows it, and at the test of the exit.                                *)
(***************************************************************************)
EXTENDS Naturals, Sequences

CONSTANTS
    Workers,     \* the threads that run do_work
    NotifyAll,   \* Stop wakes them all (notify_all), or one (notify_one)
    NoTask       \* a worker's task while it has none

ASSUME NotifyAllAssumption == NotifyAll \in BOOLEAN

VARIABLES
    tasks,       \* the queue
    m_stopped,   \* raised by Stop, never lowered
    pc,          \* where each worker is in do_work
    task         \* the task each worker holds

vars == <<tasks, m_stopped, pc, task>>

(* "ready": about to lock m_mutex; "blocking": holds it, found nothing to  *)
(* do and is about to wait; "waiting": in m_cv's queue, without the mutex; *)
(* "holding": holds it, out of wait; "running": outside, with a task;      *)
(* "exited": do_work has returned.                                         *)
Places == {"ready", "blocking", "waiting", "holding", "running", "exited"}

TypeOKFor(Task) ==
    /\ tasks \in Seq(Task)
    /\ m_stopped \in BOOLEAN
    /\ pc \in [Workers -> Places]
    /\ task \in [Workers -> Task \union {NoTask}]

Init ==
    /\ tasks = <<>>
    /\ m_stopped = FALSE
    /\ pc = [w \in Workers |-> "ready"]
    /\ task = [w \in Workers |-> NoTask]

HoldsMutex(w) == pc[w] \in {"blocking", "holding"}
MutexFree == \A w \in Workers : ~HoldsMutex(w)
Waiting == {w \in Workers : pc[w] = "waiting"}

(* m_cv.notify_one(): any one waiter is made to lock the mutex again, and  *)
(* with no waiter nothing happens: the call is not remembered.             *)
NotifyOne ==
    IF Waiting = {} THEN UNCHANGED pc
    ELSE \E w \in Waiting : pc' = [pc EXCEPT ![w] = "ready"]

NotifyEvery ==
    pc' = [w \in Workers |-> IF w \in Waiting THEN "ready" ELSE pc[w]]

(* Mutant of Push: nobody is notified. *)
PushSilent(t) ==
    /\ MutexFree
    /\ tasks' = Append(tasks, t)
    /\ UNCHANGED <<m_stopped, pc, task>>

(* The critical section of AddTask and update. *)
Push(t) ==
    /\ MutexFree
    /\ tasks' = Append(tasks, t)
    /\ NotifyOne
    /\ UNCHANGED <<m_stopped, task>>

(* Stop: the flag first, then the notification, neither under the mutex. *)
RaiseStopped ==
    /\ m_stopped' = TRUE
    /\ UNCHANGED <<tasks, pc, task>>

(* Mutant of StopNotify: forgotten. *)
StopNotifyForgotten == UNCHANGED vars

StopNotify ==
    /\ IF NotifyAll THEN NotifyEvery ELSE NotifyOne
    /\ UNCHANGED <<tasks, m_stopped, task>>

(* What m_thread.join() waits for. *)
Joinable == \A w \in Workers : pc[w] = "exited"

(* do_work: lock the mutex and evaluate the predicate of wait. *)
Lock(w) ==
    /\ pc[w] = "ready"
    /\ MutexFree
    /\ pc' = [pc EXCEPT ![w] = IF m_stopped \/ tasks # <<>> THEN "holding" ELSE "blocking"]
    /\ UNCHANGED <<tasks, m_stopped, task>>

(* wait: give up the mutex and join the waiters in one step. *)
Block(w) ==
    /\ pc[w] = "blocking"
    /\ pc' = [pc EXCEPT ![w] = "waiting"]
    /\ UNCHANGED <<tasks, m_stopped, task>>

(* wait may return without a notification. *)
SpuriousWake(w) ==
    /\ pc[w] = "waiting"
    /\ pc' = [pc EXCEPT ![w] = "ready"]
    /\ UNCHANGED <<tasks, m_stopped, task>>

(* Mutant of Exit: the queue is not drained. *)
ExitAtOnce(w) ==
    /\ pc[w] = "holding"
    /\ m_stopped
    /\ pc' = [pc EXCEPT ![w] = "exited"]
    /\ UNCHANGED <<tasks, m_stopped, task>>

(* do_work: leave the loop when stopped and drained, else take a task. *)
Exit(w) ==
    /\ pc[w] = "holding"
    /\ m_stopped /\ tasks = <<>>
    /\ pc' = [pc EXCEPT ![w] = "exited"]
    /\ UNCHANGED <<tasks, m_stopped, task>>

(* Mutant of Take: tasks.pop() is forgotten. *)
TakeNoPop(w) ==
    /\ pc[w] = "holding"
    /\ ~(m_stopped /\ tasks = <<>>)
    /\ task' = [task EXCEPT ![w] = Head(tasks)]
    /\ pc' = [pc EXCEPT ![w] = "running"]
    /\ UNCHANGED <<tasks, m_stopped>>

(* Mutant of Take: the newest task first. *)
TakeNewest(w) ==
    /\ pc[w] = "holding"
    /\ ~(m_stopped /\ tasks = <<>>)
    /\ task' = [task EXCEPT ![w] = tasks[Len(tasks)]]
    /\ tasks' = SubSeq(tasks, 1, Len(tasks) - 1)
    /\ pc' = [pc EXCEPT ![w] = "running"]
    /\ UNCHANGED m_stopped

Take(w) ==
    /\ pc[w] = "holding"
    /\ ~(m_stopped /\ tasks = <<>>)
    /\ task' = [task EXCEPT ![w] = Head(tasks)]
    /\ tasks' = Tail(tasks)
    /\ pc' = [pc EXCEPT ![w] = "running"]
    /\ UNCHANGED m_stopped

(* The task is done: the next turn of the loop. *)
Finish(w) ==
    /\ pc[w] = "running"
    /\ pc' = [pc EXCEPT ![w] = "ready"]
    /\ task' = [task EXCEPT ![w] = NoTask]
    /\ UNCHANGED <<tasks, m_stopped>>

(* The steps of do_work that the scheduler owes a thread. *)
Loop(w) == Lock(w) \/ Block(w) \/ Exit(w) \/ Take(w)
=============================================================================
