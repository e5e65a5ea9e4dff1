------------------------------- MODULE Demos --------------------------------
(***************************************************************************)
(* The demonstrations of webinar_23: threads, mutexes and condition        *)
(* variables.  (Promises, async and packaged tasks are in Futures,         *)
(* call_once and the shared mutex in Patterns; test3_deadlock of 02_mutex  *)
(* returns at once, and what it would do is not modelled.)                 *)
(***************************************************************************)
EXTENDS StdThread

CONSTANTS
    Loops,       \* rounds of a loop: 10000 in test1_mutex, 10 in 01_thread
    Folowers     \* folowersCount

-----------------------------------------------------------------------------
(* 01_thread.cpp: thread 1 is detached, the others are joined.             *)

HelloInit == ThreadInit([lines |-> [t \in Threads |-> 0]])

(* A worker that prints. *)
Hello(t, lines) ==
    \/ mem.lines[t] < lines /\ Do(t, "begin", [mem EXCEPT !.lines[t] = @ + 1], "begin")
    \/ When(t, "begin", mem.lines[t] = lines, "end")

HelloWorker(t) == Hello(t, IF t \in {1, 2} THEN Loops ELSE 1)

HelloMain ==
    \/ Spawn(0, "begin", {1, 2}, "join2") \/ Join(0, "join2", {2}, "methods")
    \/ Spawn(0, "methods", {3, 4}, "join") \/ Join(0, "join", {3, 4}, "return")
    \/ ExitProcess(0, "return")

-----------------------------------------------------------------------------
(* 02_mutex.cpp *)

MutexInit == ThreadInit([shared_counter |-> 1, shared_counter_atomic |-> 1,
                         reg |-> [t \in {1, 2} |-> 0], i |-> [t \in {1, 2} |-> 0]])

MutexWorker(t) ==
    \/ When(t, "begin", mem.i[t] < Loops, "lock") \/ When(t, "begin", mem.i[t] = Loops, "end")
    \/ Lock(t, "lock", "counter_mutex", "load")
    \/ Do(t, "load", [mem EXCEPT !.reg[t] = mem.shared_counter], "store")
    \/ Do(t, "store", [mem EXCEPT !.shared_counter = mem.reg[t] + 1], "unlock")
    \/ Unlock(t, "unlock", "counter_mutex", "atomic")
    \/ Do(t, "atomic", [mem EXCEPT !.shared_counter_atomic = @ + 1, !.i[t] = @ + 1], "begin")

(* test2_mutex_many: e1 invites e2 while e2 invites e1.  `mails`, sent.    *)
EmployeesInit == ThreadInit([mails |-> 0])

invite_to_lunch(t, self, partner) ==
    \/ LockBoth(t, "begin", self, partner, "send")
    \/ Do(t, "send", [mem EXCEPT !.mails = @ + 2], "unlock2")
    \/ Unlock(t, "unlock2", partner, "unlock1") \/ Unlock(t, "unlock1", self, "end")

Employee(t) == IF t = 1 THEN invite_to_lunch(t, "e1", "e2") ELSE invite_to_lunch(t, "e2", "e1")

(* test4_recursive_mutex: thread 1 calls func1, thread 2 func2.  `back` is *)
(* what func2 reads when it is back from func1.                            *)
RecursiveInit == ThreadInit([m_shared |-> "", back |-> ""])

func1(t, from, to) ==
    \/ LockRecursive(t, from, "m_mutex", "write1")
    \/ Do(t, "write1", [mem EXCEPT !.m_shared = "func1"], "unlock1")
    \/ Unlock(t, "unlock1", "m_mutex", to)

func2(t) ==
    \/ LockRecursive(t, "begin", "m_mutex", "write2")
    \/ Do(t, "write2", [mem EXCEPT !.m_shared = "func2"], "call")
    \/ func1(t, "call", "back")
    \/ Do(t, "back", [mem EXCEPT !.back = mem.m_shared], "unlock2")
    \/ Unlock(t, "unlock2", "m_mutex", "end")

Tester(t) == IF t = 1 THEN func1(t, "begin", "end") ELSE func2(t)

-----------------------------------------------------------------------------
(* 05_condition.cpp *)

SimpleInit == ThreadInit([data |-> "", ready |-> FALSE, processed |-> FALSE])

worker_thread(t) ==
    \/ Lock(t, "begin", "m", "wait")
    \/ WaitUntil(t, "wait", "cv", "m", mem.ready, "process")
    \/ Do(t, "process", [mem EXCEPT !.data = "after processing", !.processed = TRUE], "unlock")
    \/ Unlock(t, "unlock", "m", "notify") \/ NotifyOne(t, "notify", "cv", "end")

(* The data is written without the mutex, before the flag. *)
test_simple ==
    \/ Spawn(0, "begin", {1}, "write")
    \/ Do(0, "write", [mem EXCEPT !.data = "Example data"], "lock")
    \/ Lock(0, "lock", "m", "flag") \/ Do(0, "flag", [mem EXCEPT !.ready = TRUE], "unlock")
    \/ Unlock(0, "unlock", "m", "notify") \/ NotifyOne(0, "notify", "cv", "lock2")
    \/ Lock(0, "lock2", "m", "wait") \/ WaitUntil(0, "wait", "cv", "m", mem.processed, "unlock2")
    \/ Unlock(0, "unlock2", "m", "join") \/ Join(0, "join", {1}, "end")

(* Producer (thread 2) and consumer (thread 1).  `window`, a history: the  *)
(* flag was raised, without the mutex, between the consumer's test of it   *)
(* and its wait.                                                           *)
RealInit == ThreadInit([finished |-> FALSE, data |-> 0, counter |-> 0, printed |-> 0, window |-> FALSE])

consumer(t) ==
    \/ Lock(t, "begin", "conditionMutex", "outer")
    \/ When(t, "outer", ~mem.finished, "inner") \/ When(t, "outer", mem.finished, "unlock")
    \/ When(t, "inner", mem.data = 0 /\ ~mem.finished, "wait")
    \/ Wait(t, "wait", "condition", "conditionMutex", "inner")
    \/ When(t, "inner", mem.data # 0 \/ mem.finished, "print")
    \/ Do(t, "print", [mem EXCEPT !.printed = @ + mem.data, !.data = 0], "outer")
    \/ Unlock(t, "unlock", "conditionMutex", "end")

(* Mutant of producer: no notification after the loop. *)
producerSilent(t) ==
    \/ When(t, "begin", ~mem.finished /\ mem.counter < Loops, "lock")
    \/ When(t, "begin", mem.finished, "end")
    \/ Lock(t, "lock", "conditionMutex", "push")
    \/ Do(t, "push", [mem EXCEPT !.data = @ + 1, !.counter = @ + 1], "unlock")
    \/ Unlock(t, "unlock", "conditionMutex", "notify") \/ NotifyOne(t, "notify", "condition", "begin")

(* Loops bounds the rounds until main raises the flag; a step of five      *)
(* numbers is one.                                                         *)
producer(t) ==
    \/ When(t, "begin", ~mem.finished /\ mem.counter < Loops, "lock")
    \/ When(t, "begin", mem.finished, "last")
    \/ Lock(t, "lock", "conditionMutex", "push")
    \/ Do(t, "push", [mem EXCEPT !.data = @ + 1, !.counter = @ + 1], "unlock")
    \/ Unlock(t, "unlock", "conditionMutex", "notify") \/ NotifyOne(t, "notify", "condition", "begin")
    \/ NotifyOne(t, "last", "condition", "end")

test_condition ==
    \/ Spawn(0, "begin", {1, 2}, "finish")
    \/ Do(0, "finish", [mem EXCEPT !.finished = TRUE,
                                   !.window = (pc[1] = "wait" /\ Holds(1, "conditionMutex"))], "join2")
    \/ Join(0, "join2", {2}, "join1") \/ Join(0, "join1", {1}, "end")

LoggingInit == ThreadInit([startFlag |-> FALSE])

folower(t) ==
    \/ Lock(t, "begin", "loggingMutex", "test")
    \/ When(t, "test", ~mem.startFlag, "wait") \/ When(t, "test", mem.startFlag, "unlock")
    \/ Wait(t, "wait", "condition", "loggingMutex", "test")
    \/ Unlock(t, "unlock", "loggingMutex", "end")

leader(t) ==
    \/ Lock(t, "begin", "loggingMutex", "flag")
    \/ Do(t, "flag", [mem EXCEPT !.startFlag = TRUE], "notify")
    \/ NotifyAll(t, "notify", "condition", "unlock") \/ Unlock(t, "unlock", "loggingMutex", "end")

test_leader_folowers ==
    \/ Spawn(0, "begin", 1..Folowers, "leader") \/ Spawn(0, "leader", {Folowers + 1}, "join")
    \/ Join(0, "join", 1..Folowers + 1, "end")
=============================================================================
