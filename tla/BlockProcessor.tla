--------------------------- MODULE BlockProcessor ---------------------------
(***************************************************************************)
(* BlockProcessor as its users see it (11_Async_Cmd_network): threads call *)
(* AddTask, one thread calls Stop at any time (in tests.cpp the main       *)
(* thread stops the processor while the io_context thread still serves     *)
(* the sockets), the worker runs the tasks.  A task is its number in the   *)
(* order of the pushes.  What RunCmds does with it is BulkParser's.        *)
(*                                                                         *)
(* BlockSaver is the same code with several workers, notify_all in Stop    *)
(* and no test of m_stopped in update: NotifyAll and TestStopped say so.   *)
(***************************************************************************)
EXTENDS TaskQueue

CONSTANTS
    Clients,       \* the threads that call AddTask
    TestStopped,   \* does AddTask test m_stopped?
    MaxTasks       \* bound: tasks pushed

ASSUME MaxTasksAssumption == MaxTasks \in Nat
ASSUME TestStoppedAssumption == TestStopped \in BOOLEAN
ASSUME NoTaskAssumption == NoTask \notin Nat

VARIABLES
    adding,     \* where each client is: "idle", "tested" the flag, or "threw"
    stopping,   \* where Stop is: "idle", "raised" the flag, "joining", "done"
    \* history, read by the properties only
    added,      \* the tasks pushed
    ran,        \* the tasks run to their end, in that order
    early       \* how many of the tasks were pushed before Stop raised m_stopped

allVars == <<vars, adding, stopping, added, ran, early>>

TypeOK ==
    /\ TypeOKFor(1..MaxTasks)
    /\ adding \in [Clients -> {"idle", "tested", "threw"}]
    /\ stopping \in {"idle", "raised", "joining", "done"}
    /\ added \in Seq(1..MaxTasks) /\ Len(added) <= MaxTasks
    /\ ran \in Seq(1..MaxTasks)
    /\ early \in 0..MaxTasks

PInit ==
    /\ Init
    /\ adding = [c \in Clients |-> "idle"]
    /\ stopping = "idle"
    /\ added = <<>> /\ ran = <<>> /\ early = 0

(* AddTask reads m_stopped without the mutex, and throws when it is set. *)
TestFlag(c) ==
    /\ adding[c] = "idle"
    /\ Len(added) < MaxTasks
    /\ adding' = [adding EXCEPT ![c] =
                    IF TestStopped /\ m_stopped THEN "threw" ELSE "tested"]
    /\ UNCHANGED <<vars, stopping, added, ran, early>>

(* The rest of AddTask, under the mutex. *)
AddTask(c) ==
    /\ adding[c] = "tested"
    /\ Len(added) < MaxTasks
    /\ Push(Len(added) + 1)
    /\ added' = Append(added, Len(added) + 1)
    /\ adding' = [adding EXCEPT ![c] = "idle"]
    /\ UNCHANGED <<stopping, ran, early>>

Stop ==
    /\ stopping = "idle"
    /\ RaiseStopped
    /\ stopping' = "raised"
    /\ early' = Len(added)
    /\ UNCHANGED <<adding, added, ran>>

StopWakes ==
    /\ stopping = "raised"
    /\ StopNotify
    /\ stopping' = "joining"
    /\ UNCHANGED <<adding, added, ran, early>>

(* Mutant of StopJoins: the thread is not waited for. *)
StopDetaches ==
    /\ stopping = "joining"
    /\ stopping' = "done"
    /\ UNCHANGED <<vars, adding, added, ran, early>>

StopJoins ==
    /\ stopping = "joining"
    /\ Joinable
    /\ stopping' = "done"
    /\ UNCHANGED <<vars, adding, added, ran, early>>

(* The worker has run its task. *)
RunTask(w) ==
    /\ Finish(w)
    /\ ran' = Append(ran, task[w])
    /\ UNCHANGED <<adding, stopping, added, early>>

do_work(w) ==
    /\ Loop(w)
    /\ UNCHANGED <<adding, stopping, added, ran, early>>

Spurious(w) ==
    /\ SpuriousWake(w)
    /\ UNCHANGED <<adding, stopping, added, ran, early>>

PNext ==
    \/ \E c \in Clients : TestFlag(c) \/ AddTask(c)
    \/ Stop \/ StopWakes \/ StopJoins
    \/ \E w \in Workers : do_work(w) \/ RunTask(w) \/ Spurious(w)

PSpec == PInit /\ [][PNext]_allVars

(* The threads that are not blocked run: the workers, and the thread in    *)
(* Stop once it is there.  Nobody has to call AddTask or Stop, and nothing *)
(* promises a spurious wakeup.                                             *)
Fairness ==
    /\ \A w \in Workers : WF_allVars(do_work(w)) /\ WF_allVars(RunTask(w))
    /\ WF_allVars(StopWakes) /\ WF_allVars(StopJoins)

FairSpec == PSpec /\ Fairness

-----------------------------------------------------------------------------
Ran == {ran[i] : i \in DOMAIN ran}
Held == {w \in Workers : pc[w] = "running"}

(* Each task pushed is in one place only: in the queue, in the hands of    *)
(* one worker, or run, once.  No interleaving of AddTask, do_work and Stop *)
(* loses one or runs one twice.                                            *)
EachTaskOnce ==
    /\ \A i \in DOMAIN tasks : tasks[i] = Len(added) - Len(tasks) + i
    /\ \A i, j \in DOMAIN ran : i # j => ran[i] # ran[j]
    /\ \A w \in Held : task[w] \notin Ran
    /\ \A v, w \in Held : v # w => task[v] # task[w]
    /\ Ran \union {task[w] : w \in Held} = 1..(Len(added) - Len(tasks))

(* With one worker the tasks are run in the order of the pushes. *)
RanInOrder ==
    (\A v, w \in Workers : v = w) => \A i \in DOMAIN ran : ran[i] = i

(* A task pushed before Stop raised the flag has been run by the time Stop *)
(* returns: do_work leaves its loop only when the queue is empty.  (A task *)
(* that passed the test of the flag before and is pushed after may stay in *)
(* the queue for ever, and nobody is told.)                                *)
EarlyTasksRun ==
    stopping = "done" => 1..early \subseteq Ran

(* Once Stop has returned nothing runs any more: cmds_, which Stop reads   *)
(* without the mutex to flush it, is no longer being written.              *)
QuietAfterStop == [][stopping = "done" => UNCHANGED <<pc, ran>>]_allVars

(* Stop returns: the join in Stop waits for a worker that will leave its   *)
(* loop.  It does not hold: a worker that has read m_stopped = false in    *)
(* the predicate of wait, and is not yet waiting, misses the notification. *)
StopReturns == (stopping = "raised") ~> (stopping = "done")

(* That window is the only one: when no worker is between the predicate    *)
(* and the blocking as the flag is raised, Stop returns.                   *)
StopReturnsOutsideWindow ==
    (stopping = "raised" /\ \A w \in Workers : pc[w] # "blocking")
        ~> (stopping = "done")

(* With one worker this is a service that performs tasks in order. *)
Service == INSTANCE TaskService WITH
    Task <- 1..MaxTasks, accepted <- added, performed <- ran

ImplementsService == Service!Spec
=============================================================================
