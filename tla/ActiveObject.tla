---------------------------- MODULE ActiveObject ----------------------------
(***************************************************************************)
(* The active object of webinar_24: doSomething queues a task with its     *)
(* callback, one worker runs them while it holds the mutex, and stop makes *)
(* it leave its loop at once; what is still queued the worker then runs    *)
(* without the mutex (the code's "Small workaround").                      *)
(*                                                                         *)
(* A task is its number in the order of the pushes.                        *)
(***************************************************************************)
EXTENDS Naturals, Sequences

CONSTANTS
    Callers,     \* threads that call doSomething
    Nobody,      \* holds a mutex that is free
    Worker,      \* the thread of workerThread
    MaxTasks     \* bound: tasks pushed

VARIABLES
    m_tasks, m_stopped,
    mutex,       \* who holds m_mutex
    pc,          \* where the worker is in workerThread
    stopping,    \* where stop is: "idle", "raised", "joining", "done"
    corrupted,   \* two threads were in the queue at once: undefined behaviour
    \* history
    added,       \* tasks pushed
    early,       \* of these, before the flag was raised
    ran          \* tasks run with their callbacks, in order

vars == <<m_tasks, m_stopped, mutex, pc, stopping, corrupted, added, early, ran>>

(* "test": the outer while; "lock": about to lock, or woken; "inner": the  *)
(* inner while; "blocking": about to wait; "waiting"; "decide": past it;   *)
(* "running" a task under the mutex; "drain": after the loop.              *)
Places == {"test", "lock", "inner", "blocking", "waiting", "decide", "running", "drain", "exited"}

Init ==
    /\ m_tasks = <<>> /\ m_stopped = FALSE /\ mutex = Nobody
    /\ pc = "test" /\ stopping = "idle" /\ corrupted = FALSE
    /\ added = 0 /\ early = 0 /\ ran = <<>>

-----------------------------------------------------------------------------
(* m_condition.notify_one(), of which the worker is the only waiter. *)
Notify == pc' = IF pc = "waiting" THEN "lock" ELSE pc

LockGuard(c) ==
    /\ mutex = Nobody /\ added < MaxTasks
    /\ mutex' = c
    /\ UNCHANGED <<m_tasks, m_stopped, pc, stopping, corrupted, added, early, ran>>

(* doSomething: push and notify under the guard, which is then released. *)
doSomething(c) ==
    /\ mutex = c
    /\ added' = added + 1
    /\ m_tasks' = Append(m_tasks, added')
    /\ Notify
    /\ mutex' = Nobody
    /\ UNCHANGED <<m_stopped, stopping, corrupted, early, ran>>

(* stop: the flag, the notification, the join; no mutex. *)
StopRaises ==
    /\ stopping = "idle"
    /\ stopping' = "raised" /\ m_stopped' = TRUE /\ early' = added
    /\ UNCHANGED <<m_tasks, mutex, pc, corrupted, added, ran>>

StopNotifies ==
    /\ stopping = "raised" /\ stopping' = "joining"
    /\ Notify
    /\ UNCHANGED <<m_tasks, m_stopped, mutex, corrupted, added, early, ran>>

StopJoins ==
    /\ stopping = "joining" /\ stopping' = "done"
    /\ pc = "exited"
    /\ UNCHANGED <<m_tasks, m_stopped, mutex, pc, corrupted, added, early, ran>>

-----------------------------------------------------------------------------
(* workerThread *)

Goto(from, to) == pc = from /\ pc' = to

(* A step of the worker that touches neither queue nor history. *)
Quiet == UNCHANGED <<m_tasks, m_stopped, stopping, corrupted, added, early, ran>>

OuterTest ==
    /\ Goto("test", IF m_stopped THEN "drain" ELSE "lock")
    /\ UNCHANGED mutex /\ Quiet

Lock ==
    /\ Goto("lock", "inner")
    /\ mutex = Nobody /\ mutex' = Worker /\ Quiet

InnerTest ==
    /\ Goto("inner", IF ~m_stopped /\ m_tasks = <<>> THEN "blocking" ELSE "decide")
    /\ UNCHANGED mutex /\ Quiet

Wait ==
    /\ Goto("blocking", "waiting")
    /\ mutex' = Nobody /\ Quiet

SpuriousWake ==
    /\ Goto("waiting", "lock")
    /\ UNCHANGED mutex /\ Quiet

(* The second look at the flag: leave the loop, and the mutex, ... *)
Break ==
    /\ Goto("decide", "drain")
    /\ m_stopped /\ mutex' = Nobody /\ Quiet

(* ... or take a task and run it with its callback under the mutex. *)
Take ==
    /\ Goto("decide", "running")
    /\ ~m_stopped
    /\ m_tasks' = Tail(m_tasks)
    /\ ran' = Append(ran, Head(m_tasks))
    /\ UNCHANGED <<m_stopped, mutex, stopping, corrupted, added, early>>

Ran ==
    /\ Goto("running", "test")
    /\ mutex' = Nobody /\ Quiet

(* Mutant of Drain: no workaround. *)
DrainSkipped ==
    /\ Goto("drain", "exited")
    /\ UNCHANGED mutex /\ Quiet

(* After the loop: run what is left, without the mutex.  A doSomething     *)
(* that is inside its guard then shares the queue with the worker.         *)
Drain ==
    \/ /\ Goto("drain", "exited")
       /\ m_tasks = <<>>
       /\ UNCHANGED mutex /\ Quiet
    \/ /\ Goto("drain", "drain")
       /\ m_tasks # <<>>
       /\ corrupted' = (mutex \in Callers)
       /\ m_tasks' = Tail(m_tasks)
       /\ ran' = Append(ran, Head(m_tasks))
       /\ UNCHANGED <<m_stopped, mutex, stopping, added, early>>

workerThread == OuterTest \/ Lock \/ InnerTest \/ Wait \/ Break \/ Take \/ Ran \/ Drain

Next ==
    /\ ~corrupted
    /\ \/ \E c \in Callers : LockGuard(c) \/ doSomething(c)
       \/ StopRaises \/ StopNotifies \/ StopJoins
       \/ workerThread \/ SpuriousWake

Spec == Init /\ [][Next]_vars

(* Threads that are not blocked run; nobody has to call anything. *)
Up(A) == ~corrupted /\ A
FairSpec ==
    /\ Spec
    /\ WF_vars(Up(workerThread))
    /\ \A c \in Callers : WF_vars(Up(doSomething(c)))
    /\ WF_vars(Up(StopNotifies)) /\ WF_vars(Up(StopJoins))

-----------------------------------------------------------------------------
(* When stop returns, every task pushed before the flag was raised has run *)
(* with its callback, in order, whether the loop or the workaround after   *)
(* it ran it.                                                              *)
StopRunsTheRest ==
    stopping = "done" => /\ Len(ran) >= early
                         /\ \A i \in 1..Len(ran) : ran[i] = i

(* stop returns, unless it raises the flag while the worker is between its *)
(* test of the flag and its wait (the window of BlockProcessor), or a call *)
(* of doSomething meets the worker in the queue.                           *)
StopReturnsOutsideWindow ==
    (stopping = "raised" /\ pc # "blocking") ~> (stopping = "done" \/ corrupted)
=============================================================================
