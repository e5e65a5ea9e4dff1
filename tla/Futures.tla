------------------------------ MODULE Futures -------------------------------
(***************************************************************************)
(* Results that travel between threads: the promises, async calls and      *)
(* packaged tasks of webinar_23, and webinar_25's own promise (TaskState). *)
(***************************************************************************)
EXTENDS StdThread

(* The shared state of a future: "none" until it has a result. *)
FutureInit ==
    ThreadInit([state |-> [f \in Threads |-> "none"], got |-> [f \in Threads |-> "none"]])

SetResult(t, from, f, result, to) ==
    mem.state[f] = "none" /\ Do(t, from, [mem EXCEPT !.state[f] = result], to)

(* get blocks until there is a result; an exception is rethrown. *)
FutureGet(t, from, f, to) ==
    mem.state[f] # "none" /\ Do(t, from, [mem EXCEPT !.got[f] = mem.state[f]], to)

-----------------------------------------------------------------------------
(* 03_promise.cpp: the worker f sets result f, main gets it and joins.     *)

PromiseResult == [f \in 1..3 |-> IF f = 2 THEN "exception" ELSE "value"]

(* accumulate, square_root (of -1) and do_work *)
PromiseWorker(t) == SetResult(t, "begin", t, PromiseResult[t], "end")

PromiseTest(f, from, get, join, to) ==
    Spawn(0, from, {f}, get) \/ FutureGet(0, get, f, join) \/ Join(0, join, {f}, to)

PromiseMain ==
    \/ PromiseTest(1, "begin", "get1", "join1", "exception")
    \/ PromiseTest(2, "exception", "get2", "join2", "event")
    \/ PromiseTest(3, "event", "get3", "join3", "end")

-----------------------------------------------------------------------------
(* 04_async.cpp: calls 1 to 3 and, in test2, a call that throws.  Policy   *)
(* "either" is the implementation's choice.  A deferred call runs in get.  *)

Policy == <<{"async"}, {"deferred"}, {"async", "deferred"}, {"async", "deferred"}>>
AsyncResult == [f \in 1..4 |-> IF f = 4 THEN "exception" ELSE "value"]

AsyncWorker(t) == SetResult(t, "begin", t, AsyncResult[t], "end")

AsyncCall(f, from, to) ==
    \/ "async" \in Policy[f] /\ Spawn(0, from, {f}, to)
    \/ When(0, from, "deferred" \in Policy[f], to)

AsyncGet(f, from, to) ==
    \/ pc[f] = "none" /\ SetResult(0, from, f, AsyncResult[f], from)
    \/ FutureGet(0, from, f, to)

AsyncMain ==
    \/ AsyncCall(1, "begin", "call2") \/ AsyncCall(2, "call2", "call3") \/ AsyncCall(3, "call3", "get1")
    \/ AsyncGet(1, "get1", "get2") \/ AsyncGet(2, "get2", "get3") \/ AsyncGet(3, "get3", "test2")
    \/ AsyncCall(4, "test2", "get4") \/ AsyncGet(4, "get4", "return")
    \/ Join(0, "return", {f \in 1..4 : pc[f] # "none"}, "end")

-----------------------------------------------------------------------------
(* 07_packaged_task.cpp: tasks 1 and 2 main runs itself, 3 a thread that   *)
(* is joined before get, 4 throws into its future.                         *)

TaskResult == AsyncResult

TaskWorker(t) == SetResult(t, "begin", t, TaskResult[t], "end")

TaskMain ==
    \/ SetResult(0, "begin", 1, TaskResult[1], "get1") \/ FutureGet(0, "get1", 1, "task_bind")
    \/ SetResult(0, "task_bind", 2, TaskResult[2], "get2") \/ FutureGet(0, "get2", 2, "task_thread")
    \/ Spawn(0, "task_thread", {3}, "join") \/ Join(0, "join", {3}, "get3")
    \/ FutureGet(0, "get3", 3, "task_exception")
    \/ SetResult(0, "task_exception", 4, TaskResult[4], "get4") \/ FutureGet(0, "get4", 4, "end")

-----------------------------------------------------------------------------
(* promise.cpp: TaskState and its main.  Main is given the future, hands   *)
(* over a handler and waits, and nobody sets the result: it never returns. *)
(* What the class is for is another program, with a thread for each        *)
(* operation: 3 sets the result, and 1, 2 and 4 come at any time.          *)

StateInit == ThreadInit([mData |-> "none", mIsComplete |-> FALSE, mOnComplete |-> FALSE,
                         called |-> 0, late |-> FALSE, saw |-> [t \in {1, 4} |-> <<>>]])

StateWait(t, from, to) ==
    \/ Lock(t, from, "mMutex", "test")
    \/ When(t, "test", ~mem.mIsComplete, "wait")
    \/ Wait(t, "wait", "mCondition", "mMutex", "test")
    \/ mem.mIsComplete /\ Do(t, "test", [mem EXCEPT !.saw[t] = <<mem.mData, mem.called>>], "unlock")
    \/ Unlock(t, "unlock", "mMutex", to)

IsComplete(t) ==
    \/ Lock(t, "begin", "mMutex", "look")
    \/ Do(t, "look", IF mem.mIsComplete THEN [mem EXCEPT !.saw[t] = <<mem.mData, mem.called>>] ELSE mem, "unlock")
    \/ Unlock(t, "unlock", "mMutex", "end")

(* `late`, a history: Then came after the state was complete. *)
StateThen(t, from, to) ==
    \/ Lock(t, from, "mMutex", "then")
    \/ Do(t, "then", [mem EXCEPT !.mOnComplete = TRUE, !.late = mem.mIsComplete], "then_set")
    \/ Unlock(t, "then_set", "mMutex", to)

(* Mutant of RaiseOnComplete: the handler is called without the mutex. *)
RaiseUnlocked(t) ==
    \/ Lock(t, "raise", "mMutex", "flag")
    \/ Do(t, "flag", [mem EXCEPT !.mIsComplete = TRUE], "notify")
    \/ NotifyAll(t, "notify", "mCondition", "unlock2")
    \/ Unlock(t, "unlock2", "mMutex", "handler")
    \/ mem.mOnComplete /\ Do(t, "handler", [mem EXCEPT !.called = @ + 1], "end")
    \/ When(t, "handler", ~mem.mOnComplete, "end")

(* The flag, the notification, and then the handler, all under the mutex.  *)
RaiseOnComplete(t) ==
    \/ Lock(t, "raise", "mMutex", "flag")
    \/ Do(t, "flag", [mem EXCEPT !.mIsComplete = TRUE], "notify")
    \/ NotifyAll(t, "notify", "mCondition", "handler")
    \/ mem.mOnComplete /\ Do(t, "handler", [mem EXCEPT !.called = @ + 1], "unlock2")
    \/ When(t, "handler", ~mem.mOnComplete, "unlock2")
    \/ Unlock(t, "unlock2", "mMutex", "end")

StateSetResult(t) ==
    \/ Lock(t, "begin", "mMutex", "data")
    \/ Do(t, "data", [mem EXCEPT !.mData = "result"], "unlock")
    \/ Unlock(t, "unlock", "mMutex", "raise")
    \/ RaiseOnComplete(t)

StateMain == StateThen(0, "begin", "call_wait") \/ StateWait(0, "call_wait", "end")

StateStep(t) ==
    \/ (t = 1 /\ StateWait(t, "begin", "end")) \/ (t = 2 /\ StateThen(t, "begin", "end"))
    \/ (t = 3 /\ StateSetResult(t)) \/ (t = 4 /\ IsComplete(t))

StateUsers == Spawn(0, "begin", 1..4, "join") \/ Join(0, "join", 1..4, "end")
=============================================================================
