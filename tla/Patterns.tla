------------------------------ MODULE Patterns ------------------------------
(***************************************************************************)
(* The patterns of webinar_24 other than the thread pool and the active    *)
(* object: barrier, guarded suspension, read-write lock, the singletons    *)
(* of double_checked_locking and the nuclear reaction.  One operator per   *)
(* thread function, with main beside it.                                   *)
(***************************************************************************)
EXTENDS StdThread

CONSTANTS
    TotalThreads,    \* threads at the barrier
    ValuesCount, maxThreadCount, MinSize    \* the nuclear reaction's 1000, 8 and 10

(* run gives each of its threads a place at the barrier. *)
ASSUME BarrierAssumption == TotalThreads \in Nat /\ 1..TotalThreads \subseteq Threads
(* The constants of the nuclear reaction are sizes. *)
ASSUME ValuesAssumption == ValuesCount \in Nat /\ maxThreadCount \in Nat \ {0} /\ MinSize \in Nat

-----------------------------------------------------------------------------
(* barrier.cpp *)

BarrierInit == ThreadInit([m_count |-> TotalThreads])

(* Barrier::Wait *)
Barrier(t) ==
    \/ Lock(t, "begin", "m_mtx", "count")
    \/ Do(t, "count", [mem EXCEPT !.m_count = @ - 1], "decide")
    \/ mem.m_count = 0 /\ NotifyAll(t, "decide", "m_cv", "leave")
    \/ mem.m_count # 0 /\ When(t, "decide", TRUE, "wait")
    \/ WaitUntil(t, "wait", "m_cv", "m_mtx", mem.m_count = 0, "leave")
    \/ Unlock(t, "leave", "m_mtx", "run")

RunAtSameTime(t) ==
    \/ Barrier(t)
    \/ Lock(t, "run", "printMtx", "print") \/ Unlock(t, "print", "printMtx", "end")

BarrierMain ==
    \/ Spawn(0, "begin", 1..TotalThreads, "join")
    \/ Join(0, "join", 1..TotalThreads, "end")

-----------------------------------------------------------------------------
(* guarded_suspension.cpp.  `crowd`, a history: all three workers were     *)
(* waiting when the first notification was sent.                           *)

GuardedInit == ThreadInit([msgs |-> 0, popped |-> 0, crowd |-> FALSE])

GuardedWorker(t) ==
    \/ Lock(t, "begin", "cv_m", "wait")
    \/ WaitUntil(t, "wait", "cv", "cv_m", mem.msgs > 0, "pop")
    \/ Do(t, "pop", [mem EXCEPT !.msgs = @ - 1, !.popped = @ + 1], "unlock")
    \/ Unlock(t, "unlock", "cv_m", "end")

GuardedMain ==
    \/ Spawn(0, "begin", 1..3, "lock1")
    \/ Lock(0, "lock1", "cv_m", "push1")
    \/ Do(0, "push1", [mem EXCEPT !.msgs = @ + 2, !.crowd = (Cardinality(waiting) = 3)], "unlock1")
    \/ Unlock(0, "unlock1", "cv_m", "notify1") \/ NotifyOne(0, "notify1", "cv", "lock2")
    \/ Lock(0, "lock2", "cv_m", "push2")
    \/ Do(0, "push2", [mem EXCEPT !.msgs = @ + 2], "unlock2")
    \/ Unlock(0, "unlock2", "cv_m", "notify2") \/ NotifyOne(0, "notify2", "cv", "join")
    \/ Join(0, "join", 1..3, "end")

-----------------------------------------------------------------------------
(* read_write_lock.cpp, and test5_shared_mutex of webinar_23.  Each thread *)
(* increments and reads the counter three times; ++ reads and writes.      *)

CounterInit == ThreadInit([m_value |-> 0, reg |-> [t \in {1, 2} |-> 0],
                           rounds |-> [t \in {1, 2} |-> 0], seen |-> [t \in {1, 2} |-> 0]])

(* Mutant of Increment: the lock of a reader. *)
IncrementShared(t, from, to) ==
    \/ LockShared(t, from, "m_mutex", "load")
    \/ Do(t, "load", [mem EXCEPT !.reg[t] = mem.m_value], "store")
    \/ Do(t, "store", [mem EXCEPT !.m_value = mem.reg[t] + 1], "unlock")
    \/ Unlock(t, "unlock", "m_mutex", to)

Increment(t, from, to) ==
    \/ Lock(t, from, "m_mutex", "load")
    \/ Do(t, "load", [mem EXCEPT !.reg[t] = mem.m_value], "store")
    \/ Do(t, "store", [mem EXCEPT !.m_value = mem.reg[t] + 1], "unlock")
    \/ Unlock(t, "unlock", "m_mutex", to)

Get(t, from, to) ==
    \/ LockShared(t, from, "m_mutex", "read")
    \/ Do(t, "read", [mem EXCEPT !.seen[t] = mem.m_value, !.rounds[t] = @ + 1], "got")
    \/ Unlock(t, "got", "m_mutex", to)

increment_and_print(t) ==
    \/ When(t, "begin", mem.rounds[t] < 3, "increment") \/ When(t, "begin", mem.rounds[t] = 3, "end")
    \/ Increment(t, "increment", "get")
    \/ Get(t, "get", "begin")

(* The main of every demonstration that starts two threads and joins them. *)
TwoThreads == Spawn(0, "begin", {1, 2}, "join") \/ Join(0, "join", {1, 2}, "end")

-----------------------------------------------------------------------------
(* double_checked_locking.cpp, and 06_call_once.cpp of webinar_23: the     *)
(* singletons, each asked for by two threads that then use it.             *)
(*                                                                         *)
(* Nothing orders the two writes of m_instance = new Singleton{} for a     *)
(* thread that reads m_instance without the mutex: it may see the pointer  *)
(* before the object.  `raw`: someone used an object that was not there.   *)

SingletonInit == ThreadInit([m_instance |-> FALSE, built |-> 0, raw |-> FALSE, once |-> "no"])

Create(t, from, to) ==
    \/ Do(t, from, [mem EXCEPT !.built = @ + 1], "publish")
    \/ Do(t, "publish", [mem EXCEPT !.m_instance = TRUE], to)
    \/ Do(t, from, [mem EXCEPT !.m_instance = TRUE], "build")
    \/ Do(t, "build", [mem EXCEPT !.built = @ + 1], to)

doSomething(t) == Do(t, "use", [mem EXCEPT !.raw = @ \/ mem.built = 0], "end")

(* Under the mutex from the first test to the end: naiveImpl, motivation. *)
UnderMutex(t, from) ==
    \/ Lock(t, from, "m_mutex", "test")
    \/ When(t, "test", ~mem.m_instance, "create") \/ When(t, "test", mem.m_instance, "unlock")
    \/ Create(t, "create", "unlock")
    \/ Unlock(t, "unlock", "m_mutex", "use")

NaiveImpl(t) == UnderMutex(t, "begin") \/ doSomething(t)

(* doubleCheckedLock: the first look is without the mutex. *)
DoubleCheckedLock(t) ==
    \/ When(t, "begin", ~mem.m_instance, "lock") \/ When(t, "begin", mem.m_instance, "use")
    \/ UnderMutex(t, "lock")
    \/ doSomething(t)

(* callOnce, and justStatic: the first to come creates the instance, and   *)
(* the others wait until it is there.                                      *)
CallOnce(t) ==
    \/ mem.once = "no" /\ Do(t, "begin", [mem EXCEPT !.once = "active"], "create")
    \/ Create(t, "create", "created")
    \/ Do(t, "created", [mem EXCEPT !.once = "done"], "use")
    \/ When(t, "begin", mem.once = "done", "use")
    \/ doSomething(t)

-----------------------------------------------------------------------------
(* nuclear_reaction.cpp.  A thread has a range <<from, size>>; the threads *)
(* of thread t are 2t and 2t + 1, and main calls nuclearWorker as thread 1.*)

NuclearInit ==
    ThreadInit([range |-> [t \in Threads |-> IF t = 1 THEN <<0, ValuesCount>> ELSE <<0, 0>>],
                threadCount |-> 1, sum |-> 0, counted |-> {}])

(* sum += worker(from, to), which looks at every value once. *)
SumUp(t, from, range, to) ==
    Do(t, from, [mem EXCEPT !.sum = @ + range[2],
                            !.counted = @ \union (range[1] .. range[1] + range[2] - 1)], to)

Halves(from, size) == <<<<from, size \div 2>>, <<from + size \div 2, size - size \div 2>>>>

(* The test of threadCount and the addition to it are two steps, between   *)
(* which another thread may have added its own.  `mine` is how much of its *)
(* range a thread keeps when it splits: nothing in basics, and             *)
(* size / maxThreadCount in middle.                                        *)
nuclearWorker(t, mine) ==
    LET from == mem.range[t][1]
        size == mem.range[t][2]
        rest == Halves(from + mine, size - mine)
        enough == mem.threadCount > maxThreadCount \/ size < MinSize
    IN  \/ enough /\ SumUp(t, "begin", mem.range[t], "end")
        \/ When(t, "begin", ~enough, "split")
        \/ Do(t, "split", [mem EXCEPT !.threadCount = @ + 2,
                                      !.range[2 * t] = rest[1], !.range[2 * t + 1] = rest[2]], "spawn1")
        \/ Spawn(t, "spawn1", {2 * t}, "spawn2")
        \/ Spawn(t, "spawn2", {2 * t + 1}, "work")
        \/ SumUp(t, "work", <<from, mine>>, "join")
        \/ Join(t, "join", {2 * t, 2 * t + 1}, "end")

BasicsWorker(t) == nuclearWorker(t, 0)
MiddleWorker(t) == nuclearWorker(t, mem.range[t][2] \div maxThreadCount)

NuclearMain == Spawn(0, "begin", {1}, "join") \/ Join(0, "join", {1}, "end")
=============================================================================
