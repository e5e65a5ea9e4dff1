------------------------------ MODULE MCThreads -----------------------------
(***************************************************************************)
(* The thread programs of webinars 23 to 25 and small ones of BoostASIO,   *)
(* one at a time: `program` says which, and never changes.  The active     *)
(* object has variables of its own.                                        *)
(***************************************************************************)
EXTENDS Patterns, Demos, Futures, Cashier, NetDemos, SequencesExt

CONSTANTS Callers, Nobody, Worker, MaxTasks

VARIABLES program, m_tasks, m_stopped, mutex, worker_pc, stopping, corrupted, added, early, ran

objectVars == <<m_tasks, m_stopped, mutex, worker_pc, stopping, corrupted, added, early, ran>>
vars == <<program, threadVars, objectVars>>

AO == INSTANCE ActiveObject WITH pc <- worker_pc

MCSent == UNION {[1..n -> {"start", "new_doc", "quit"}] : n \in 1..3}
MCHandlers == <<{"start"}, {"start", "new_doc"}>>
MCTests ==
    {[timers |-> {"timeout1"}, posted |-> {}, runners |-> {0}],
     [timers |-> {"timeout1", "timeout2"}, posted |-> {}, runners |-> {0}],
     [timers |-> {"timeout1", "timeout2"}, posted |-> {"posted", "dispatched"}, runners |-> {1, 2}]}
MCCalls == <<"buyer", "buyer", "read", "read", "buyer", "stop">>

Init ==
    /\ AO!Init
    /\ \/ program = "barrier" /\ BarrierInit
       \/ program = "guarded" /\ GuardedInit
       \/ program = "counter" /\ CounterInit
       \/ program \in {"naive", "double checked", "once"} /\ SingletonInit
       \/ program \in {"basics", "middle"} /\ NuclearInit
       \/ program = "hello" /\ HelloInit
       \/ program = "mutex" /\ MutexInit
       \/ program = "employees" /\ EmployeesInit
       \/ program = "recursive" /\ RecursiveInit
       \/ program = "simple" /\ SimpleInit
       \/ program = "real" /\ RealInit
       \/ program = "logging" /\ LoggingInit
       \/ program \in {"promise", "async", "task"} /\ FutureInit
       \/ program \in {"state", "promise main"} /\ StateInit
       \/ program = "cashier" /\ CashierInit
       \/ program = "reader" /\ ReaderInit
       \/ program = "events" /\ LoopInit
       \/ program = "threads" /\ ThreadsInit
       \/ program = "timers" /\ TimersInit
       \/ program = "timer sync" /\ SyncInit
       \/ program = "async client" /\ ClientInit
       \/ program = "ping" /\ PingInit
       \/ program = "hello world" /\ HelloWorldInit
       \/ program = "active object" /\ ThreadInit([idle |-> TRUE])

Run(t, main, worker) == (t = 0 /\ main) \/ (t # 0 /\ worker)

Step(t) ==
    /\ UNCHANGED <<program, objectVars>>
    /\ \/ program = "barrier" /\ Run(t, BarrierMain, RunAtSameTime(t))
       \/ program = "guarded" /\ Run(t, GuardedMain, GuardedWorker(t))
       \/ program = "counter" /\ Run(t, TwoThreads, increment_and_print(t))
       \/ program = "naive" /\ Run(t, TwoThreads, NaiveImpl(t))
       \/ program = "double checked" /\ Run(t, TwoThreads, DoubleCheckedLock(t))
       \/ program = "once" /\ Run(t, TwoThreads, CallOnce(t))
       \/ program = "basics" /\ Run(t, NuclearMain, BasicsWorker(t))
       \/ program = "middle" /\ Run(t, NuclearMain, MiddleWorker(t))
       \/ program = "hello" /\ Run(t, HelloMain, HelloWorker(t))
       \/ program = "mutex" /\ Run(t, TwoThreads, MutexWorker(t))
       \/ program = "employees" /\ Run(t, TwoThreads, Employee(t))
       \/ program = "recursive" /\ Run(t, TwoThreads, Tester(t))
       \/ program = "simple" /\ Run(t, test_simple, worker_thread(t))
       \/ program = "real" /\ Run(t, test_condition, (t = 1 /\ consumer(t)) \/ (t = 2 /\ producer(t)))
       \/ program = "logging" /\ Run(t, test_leader_folowers,
             IF t = Folowers + 1 THEN leader(t) ELSE folower(t))
       \/ program = "promise" /\ Run(t, PromiseMain, PromiseWorker(t))
       \/ program = "async" /\ Run(t, AsyncMain, AsyncWorker(t))
       \/ program = "task" /\ Run(t, TaskMain, TaskWorker(t))
       \/ program = "state" /\ Run(t, StateUsers, StateStep(t))
       \/ program = "promise main" /\ Run(t, StateMain, FALSE)
       \/ program = "cashier" /\ Run(t, CashierMain, CashierWorker(t))
       \/ program = "reader" /\ Run(t, ReaderMain, cashier(t))
       \/ program = "events" /\ Run(t, exec, FALSE)
       \/ program = "threads" /\ Run(t, ThreadsMain, ThreadsWorker(t))
       \/ program = "timers" /\ Run(t, TimersMain, IF t = Network THEN Expire ELSE TimersThread(t))
       \/ program = "timer sync" /\ Run(t, SyncMain, t = Network /\ Expire)
       \/ program = "async client" /\ Run(t, AsyncClient, t = Network /\ Completed)
       \/ program = "ping" /\ Run(t, PingMain, PingThread(t))
       \/ program = "hello world" /\ Run(t, HelloWorldServer, t \in Peers /\ HelloWorldClient(t))

Spurious(t) == SpuriousWake(t) /\ UNCHANGED <<program, objectVars>>

ActiveObject(A) == program = "active object" /\ A /\ UNCHANGED <<program, threadVars>>

Next ==
    \/ \E t \in Threads : Step(t) \/ Spurious(t)
    \/ ActiveObject(AO!Next)

Spec == Init /\ [][Next]_vars

(* Threads that are not blocked run, and one that finds a mutex free again *)
(* and again gets it some time, however often others wake without a reason *)
(* and lock it.  Nobody has to call the active object.                     *)
FairSpec ==
    /\ Spec
    /\ \A t \in Threads : SF_vars(Step(t))
    /\ WF_vars(ActiveObject(AO!Up(AO!workerThread)))
    /\ \A c \in Callers : WF_vars(ActiveObject(AO!Up(AO!doSomething(c))))
    /\ WF_vars(ActiveObject(AO!Up(AO!StopNotifies))) /\ WF_vars(ActiveObject(AO!Up(AO!StopJoins)))

-----------------------------------------------------------------------------
Ended(p) == program = p /\ AllEnd

(* What the shared data is in the end does not depend on the order of the  *)
(* threads: no increment of a counter is lost, by two readers and writers  *)
(* of one counter or by two loops; every value of the nuclear reaction is  *)
(* summed exactly once however the threads that test and add to            *)
(* threadCount interleave, and also when ranges are split unevenly.        *)
SumsExact ==
    /\ Ended("counter") => mem.m_value = 6
    /\ Ended("mutex") => mem.shared_counter = 2 * Loops + 1 /\ mem.shared_counter_atomic = 2 * Loops + 1
    /\ program \in {"basics", "middle"} /\ AllEnd =>
          mem.sum = ValuesCount /\ mem.counted = 0..ValuesCount - 1

(* The buyers a cashier has to serve. *)
BuyersBeforeStop == {k \in DOMAIN Calls : Calls[k] = "buyer" /\ \A j \in 1..k : Calls[j] # "stop"}

(* The events before the first quit, in order, each with its first taker.  *)
HandledUntilQuit ==
    LET takers(k) == {h \in DOMAIN Handlers : mem.sent[k] \in Handlers[h]}
    IN  \E n \in DOMAIN mem.sent :
            /\ mem.sent[n] = "quit" /\ \A k \in 1..n - 1 : mem.sent[k] # "quit"
            /\ mem.handled =
                 [k \in 1..n - 1 |-> <<mem.sent[k], {h \in takers(k) : \A g \in takers(k) : h <= g}>>]

(* What one thread hands to another arrives, once, and as it was: commands,*)
(* results and exceptions of futures, data through a condition variable,   *)
(* the buyers of the cashiers, the replies of the hello world server, and  *)
(* the work of every thread that is joined.  A cashier that finds no event *)
(* at first may be gone before its buyers come, the consumer leaves what   *)
(* is produced after the flag, and a detached thread may be cut short.     *)
HandedOver ==
    /\ program = "guarded" => mem.msgs + mem.popped \in {0, 2, 4}
    /\ Ended("hello") => \A t \in 2..4 : mem.lines[t] = IF t = 2 THEN Loops ELSE 1
    /\ Ended("employees") => mem.mails = 4
    /\ Ended("recursive") => mem.back = "func1"
    /\ Ended("simple") => mem.data = "after processing"
    /\ program = "real" => mem.printed + mem.data = mem.counter
    /\ Ended("promise") => \A f \in 1..3 : mem.got[f] = PromiseResult[f]
    /\ Ended("async") => \A f \in 1..4 : mem.got[f] = AsyncResult[f]
    /\ Ended("task") => \A f \in 1..4 : mem.got[f] = TaskResult[f]
    /\ program = "cashier" => ~mem.failed
    /\ Ended("cashier") => mem.early \/ mem.served = Cardinality(BuyersBeforeStop)
    /\ program = "reader" => mem.served + mem.buyers = mem.pushed
    /\ Ended("events") => HandledUntilQuit
    /\ program = "hello world" => \A c \in Peers : mem.sent[c] - mem.got[c] - mem.replies[c] \in {0, 1}
    /\ Ended("threads") => mem.done = {<<0, "begin">>, <<0, "self">>} \union {<<t, "begin">> : t \in 1..5}

(* Nobody is early: no thread is past the barrier while another one is     *)
(* before it; only one instance is made, and only behind the double-       *)
(* checked lock may a thread use it before it is there; and who sees that  *)
(* a TaskState is complete sees its result, with the handler called, as    *)
(* the comment in RaiseOnComplete has it although the flag is set first.   *)
(* An io_context's run is back only when every handler was run to its end, *)
(* once, by a thread that had called run: the locals a handler refers to   *)
(* are still there.                                                        *)
NobodyEarly ==
    /\ program = "barrier" =>
          \A s, t \in 1..TotalThreads :
             pc[s] \in {"leave", "run", "print", "end"} => pc[t] \notin {"none", "begin", "count"}
    /\ program \in {"naive", "double checked", "once"} =>
          mem.built <= 1 /\ (mem.raw => program = "double checked")
    /\ program = "state" => \A t \in {1, 4} : mem.saw[t] # <<>> =>
          /\ mem.saw[t][1] = "result"
          /\ mem.mOnComplete /\ ~mem.late => mem.saw[t][2] = 1
    /\ program = "timers" /\ (\E t \in mem.test.runners : pc[t] = "end") =>
          /\ \A h \in DOMAIN mem.handler : mem.handler[h] = "done" /\ Cardinality({r \in mem.ran : r[1] = h}) = 1
          /\ \A r \in mem.ran : r[2] \in mem.test.runners

(* Every program ends, whatever locks and notifications it uses.  These    *)
(* may not: guarded suspension, if all three workers wait for the two      *)
(* notifications; the consumer, if the flag is raised between its test     *)
(* and its wait; the event loop without a quit.  One never does: the main  *)
(* of promise.cpp gets to its Wait and stays there, because nobody sets    *)
(* the result.  Of the programs that talk to a server, which never ends,   *)
(* the clients do.  And the stop of the active object returns, but for one *)
(* window.                                                                 *)
ProgramsEnd ==
    /\ AO!StopReturnsOutsideWindow
    /\ [](program = "promise main" => pc[0] # "end")
    /\ <>( \/ AllEnd
           \/ program = "ping" /\ \A t \in 1..4 : pc[t] = "end"
           \/ program = "hello world" /\ \A c \in Peers : pc[c] = "end"
           \/ program = "active object"
           \/ program = "guarded" /\ mem.crowd
           \/ program = "real" /\ mem.window
           \/ program = "promise main" /\ pc[0] = "wait"
           \/ program = "events" /\ "quit" \notin Range(mem.sent))

(* What the active object was given before its stop is run. *)
StopRunsTheRest == AO!StopRunsTheRest
=============================================================================
