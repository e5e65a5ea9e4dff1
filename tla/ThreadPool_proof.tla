-------------------------- MODULE ThreadPool_proof --------------------------
(***************************************************************************)
(* Proofs about ThreadPool, for any number of workers and of tasks,        *)
(* enqueued by the owner or by other tasks.                                *)
(***************************************************************************)
EXTENDS ThreadPool, TLAPS

TypeOK ==
    /\ TypeOKFor(1..MaxTasks)
    /\ enqueuing \in [Callers -> {"out", "pushed", "threw"}]
    /\ life \in {"up", "raised", "joining", "gone"}
    /\ accepted \in 0..MaxTasks
    /\ ready \in SUBSET (1..MaxTasks)

(* How many tasks were taken off the queue. *)
Taken == accepted - Len(tasks)

(* The mutex excludes.  A worker about to wait has an empty queue and a    *)
(* pool that is up, since both pushing and stopping take the mutex; one    *)
(* past the wait has a reason to be.                                       *)
LockInv ==
    /\ \A v, w \in Workers : HoldsMutex(v) /\ HoldsMutex(w) => v = w
    /\ \A w \in Workers : pc[w] = "blocking" => tasks = <<>> /\ ~m_stopped
    /\ \A w \in Workers : pc[w] = "holding" => m_stopped \/ tasks # <<>>

(* Where each task is: the queue holds the last ones accepted, in order;   *)
(* the others are done or in the hand of one worker.                       *)
DataInv ==
    /\ Len(tasks) <= accepted
    /\ \A i \in 1..Len(tasks) : tasks[i] = Taken + i
    /\ ready \subseteq 1..Taken
    /\ \A w \in Workers : pc[w] = "running" => task[w] \in (1..Taken) \ ready
    /\ \A k \in (1..Taken) \ ready :
          \E w \in Workers : pc[w] = "running" /\ task[w] = k
    /\ \A v, w \in Workers :
          pc[v] = "running" /\ pc[w] = "running" /\ task[v] = task[w] => v = w

(* The destructor: the flag tells whether it has begun; who has left the   *)
(* loop has seen the flag and an empty queue, which stays empty as enqueue *)
(* refuses from then on.                                                   *)
LifeInv ==
    /\ m_stopped <=> life # "up"
    /\ \A w \in Workers : pc[w] = "exited" => m_stopped /\ tasks = <<>>
    /\ life = "gone" => \A w \in Workers : pc[w] = "exited"

(* After notify_all nobody sleeps, nor is about to. *)
AwakeInv ==
    NotifyAll /\ life \in {"joining", "gone"} =>
        \A w \in Workers : pc[w] \notin {"blocking", "waiting"}

IInv == TypeOK /\ LockInv /\ DataInv /\ LifeInv /\ AwakeInv

-----------------------------------------------------------------------------
(* Steps that wake workers and do nothing else to them. *)
WakeOnly ==
    /\ pc' \in [Workers -> Places]
    /\ \A w \in Workers : pc'[w] = pc[w] \/ (pc[w] = "waiting" /\ pc'[w] = "ready")

(* What the notifications do to the workers. *)
LEMMA NotifyWakes ==
    ASSUME pc \in [Workers -> Places], NotifyOne \/ NotifyEvery
    PROVE  WakeOnly
<1>1. CASE NotifyOne /\ Waiting = {}
  BY <1>1 DEF NotifyOne, WakeOnly
<1>2. CASE NotifyOne /\ Waiting # {}
  <2>1. PICK w \in Waiting : pc' = [pc EXCEPT ![w] = "ready"]
    BY <1>2 DEF NotifyOne
  <2> QED
    BY <2>1 DEF WakeOnly, Waiting, Places
<1>3. CASE NotifyEvery
  BY <1>3 DEF NotifyEvery, WakeOnly, Waiting, Places
<1> QED
  BY <1>1, <1>2, <1>3

(* A step that moves no task and leaves the running workers running. *)
LEMMA DataKept ==
    ASSUME IInv, UNCHANGED <<tasks, task, accepted, ready>>,
           \A w \in Workers : pc'[w] = "running" <=> pc[w] = "running"
    PROVE  DataInv'
<1>1. Taken' = Taken
  BY DEF Taken
<1> QED
  BY <1>1 DEF IInv, DataInv

(* A step that moves no task and at most wakes workers. *)
LEMMA OnlyWaking ==
    ASSUME IInv, WakeOnly, UNCHANGED <<tasks, m_stopped, task, life, accepted, ready>>,
           enqueuing' \in [Callers -> {"out", "pushed", "threw"}]
    PROVE  IInv'
<1>1. TypeOK'
  BY DEF IInv, TypeOK, TypeOKFor, WakeOnly
<1>2. LockInv'
  BY DEF IInv, LockInv, HoldsMutex, WakeOnly
<1>3. DataInv'
  BY DataKept DEF WakeOnly
<1>4. LifeInv'
  BY DEF IInv, LifeInv, WakeOnly
<1>5. AwakeInv'
  BY DEF IInv, AwakeInv, WakeOnly
<1> QED
  BY <1>1, <1>2, <1>3, <1>4, <1>5 DEF IInv

(* A new pool has no task and every worker at its loop. *)
LEMMA InitInv == PoolInit => IInv
<1> SUFFICES ASSUME PoolInit PROVE IInv
  OBVIOUS
<1> USE DEF PoolInit, Init
<1>1. TypeOK
  <2>1. tasks \in Seq(1..MaxTasks) /\ accepted \in 0..MaxTasks /\ ready \in SUBSET (1..MaxTasks)
    BY MaxTasksAssumption
  <2>2. pc \in [Workers -> Places] /\ task \in [Workers -> 1..MaxTasks \union {NoTask}]
    BY DEF Places
  <2>3. enqueuing \in [Callers -> {"out", "pushed", "threw"}]
    OBVIOUS
  <2> QED
    BY <2>1, <2>2, <2>3 DEF TypeOK, TypeOKFor
<1>2. LockInv
  BY DEF LockInv, HoldsMutex
<1>3. DataInv
  BY DEF DataInv, Taken
<1>4. LifeInv
  BY DEF LifeInv
<1>5. AwakeInv
  BY DEF AwakeInv
<1> QED
  BY <1>1, <1>2, <1>3, <1>4, <1>5 DEF IInv

-----------------------------------------------------------------------------
(* enqueue pushes: only while the pool is up, so no worker has left. *)
LEMMA AcceptInv == ASSUME IInv, NEW c \in Callers, Accept(c) PROVE IInv'
<1> USE MaxTasksAssumption
<1>0. /\ tasks \in Seq(1..MaxTasks) /\ accepted \in Nat /\ Len(tasks) \in Nat
      /\ enqueuing \in [Callers -> {"out", "pushed", "threw"}]
  BY DEF IInv, TypeOK, TypeOKFor
<1>1. /\ MutexFree /\ ~m_stopped /\ accepted + 1 \in 1..MaxTasks
      /\ accepted' = accepted + 1
      /\ tasks' = Append(tasks, accepted + 1)
      /\ enqueuing' \in [Callers -> {"out", "pushed", "threw"}]
      /\ UNCHANGED <<m_stopped, pc, task, life, ready>>
  BY <1>0 DEF Accept
<1>2. /\ tasks' \in Seq(1..MaxTasks) /\ tasks' # <<>>
      /\ Len(tasks') = Len(tasks) + 1
      /\ \A i \in 1..Len(tasks) : tasks'[i] = tasks[i]
      /\ tasks'[Len(tasks) + 1] = accepted + 1
      /\ Taken' = Taken
  BY <1>0, <1>1 DEF Taken
<1>3. TypeOK'
  BY <1>1, <1>2 DEF IInv, TypeOK, TypeOKFor
<1>4. LockInv'
  BY <1>1, <1>2 DEF IInv, LockInv, MutexFree, HoldsMutex
<1>5. DataInv'
  <2>1. Len(tasks') <= accepted'
    BY <1>0, <1>1, <1>2 DEF IInv, DataInv
  <2>2. ASSUME NEW i \in 1..Len(tasks') PROVE tasks'[i] = Taken' + i
    <3>1. CASE i \in 1..Len(tasks)
      BY <1>2, <3>1 DEF IInv, DataInv
    <3>2. CASE i = Len(tasks) + 1
      BY <1>0, <1>2, <3>2 DEF Taken
    <3> QED
      BY <1>0, <1>2, <3>1, <3>2
  <2> QED
    BY <1>1, <1>2, <2>1, <2>2 DEF IInv, DataInv
<1>6. LifeInv'
  BY <1>1 DEF IInv, LifeInv
<1>7. AwakeInv'
  BY <1>1 DEF IInv, AwakeInv
<1> QED
  BY <1>3, <1>4, <1>5, <1>6, <1>7 DEF IInv

(* enqueue refuses, and enqueue notifies. *)
LEMMA EnqueueInv ==
    ASSUME IInv, NEW c \in Callers, Refuse(c) \/ NotifyWorker(c)
    PROVE  IInv'
<1>1. pc \in [Workers -> Places] /\ enqueuing \in [Callers -> {"out", "pushed", "threw"}]
  BY DEF IInv, TypeOK, TypeOKFor
<1>2. WakeOnly
  <2>1. CASE Refuse(c)
    BY <1>1, <2>1 DEF Refuse, vars, WakeOnly
  <2>2. CASE NotifyWorker(c)
    BY <1>1, <2>2, NotifyWakes DEF NotifyWorker
  <2> QED
    BY <2>1, <2>2
<1>3. /\ UNCHANGED <<tasks, m_stopped, task, life, accepted, ready>>
      /\ enqueuing' \in [Callers -> {"out", "pushed", "threw"}]
  BY <1>1 DEF Refuse, NotifyWorker, vars
<1> QED
  BY <1>2, <1>3, OnlyWaking

(* The destructor raises the flag.  As this takes the mutex, no worker is  *)
(* between its predicate and its wait.                                     *)
LEMMA DestroyRaiseInv == ASSUME IInv, DestroyRaise PROVE IInv'
<1>1. /\ MutexFree /\ life = "up" /\ life' = "raised" /\ m_stopped' = TRUE
      /\ UNCHANGED <<tasks, pc, task, enqueuing, accepted, ready>>
  BY DEF DestroyRaise, RaiseStopped
<1>2. TypeOK'
  BY <1>1 DEF IInv, TypeOK, TypeOKFor
<1>3. LockInv'
  BY <1>1 DEF IInv, LockInv, MutexFree, HoldsMutex
<1>4. DataInv'
  BY <1>1, DataKept
<1>5. LifeInv'
  BY <1>1 DEF IInv, LifeInv
<1>6. AwakeInv'
  BY <1>1 DEF AwakeInv
<1> QED
  BY <1>2, <1>3, <1>4, <1>5, <1>6 DEF IInv

(* It notifies: with notify_all, everybody who waits. *)
LEMMA DestroyNotifyInv == ASSUME IInv, DestroyNotify PROVE IInv'
<1>1. /\ life = "raised" /\ life' = "joining"
      /\ UNCHANGED <<tasks, m_stopped, task, enqueuing, accepted, ready>>
  BY DEF DestroyNotify, StopNotify
<1>2. WakeOnly
  <2>1. pc \in [Workers -> Places]
    BY DEF IInv, TypeOK, TypeOKFor
  <2> QED
    BY <2>1, NotifyWakes DEF DestroyNotify, StopNotify
<1>3. TypeOK'
  BY <1>1, <1>2 DEF IInv, TypeOK, TypeOKFor, WakeOnly
<1>4. LockInv'
  BY <1>1, <1>2 DEF IInv, LockInv, HoldsMutex, WakeOnly
<1>5. DataInv'
  BY <1>1, <1>2, DataKept DEF WakeOnly
<1>6. LifeInv'
  BY <1>1, <1>2 DEF IInv, LifeInv, WakeOnly
<1>7. AwakeInv'
  <2> SUFFICES ASSUME NotifyAll, NEW w \in Workers
               PROVE  pc'[w] \notin {"blocking", "waiting"}
    BY DEF AwakeInv
  <2>1. pc'[w] = IF pc[w] = "waiting" THEN "ready" ELSE pc[w]
    BY DEF DestroyNotify, StopNotify, NotifyEvery, Waiting
  <2>2. pc[w] # "blocking"
    BY <1>1 DEF IInv, LockInv, LifeInv
  <2> QED
    BY <2>1, <2>2
<1> QED
  BY <1>3, <1>4, <1>5, <1>6, <1>7 DEF IInv

(* It returns when every worker has left its loop. *)
LEMMA DestroyJoinInv == ASSUME IInv, DestroyJoin PROVE IInv'
<1>1. /\ life = "joining" /\ life' = "gone"
      /\ \A w \in Workers : pc[w] = "exited"
      /\ UNCHANGED <<tasks, m_stopped, pc, task, enqueuing, accepted, ready>>
  BY DEF DestroyJoin, Joinable, vars
<1>2. TypeOK'
  BY <1>1 DEF IInv, TypeOK, TypeOKFor
<1>3. LockInv'
  BY <1>1 DEF IInv, LockInv, HoldsMutex
<1>4. DataInv'
  BY <1>1, DataKept
<1>5. LifeInv'
  BY <1>1 DEF IInv, LifeInv
<1>6. AwakeInv'
  BY <1>1 DEF AwakeInv
<1> QED
  BY <1>2, <1>3, <1>4, <1>5, <1>6 DEF IInv

-----------------------------------------------------------------------------
(* The worker's loop up to the task, and out of the loop. *)
LEMMA LoopInv ==
    ASSUME IInv, NEW w \in Workers, Lock(w) \/ Block(w) \/ Exit(w) \/ SpuriousWake(w),
           UNCHANGED <<enqueuing, life, accepted, ready>>
    PROVE  IInv'
<1>0. pc \in [Workers -> Places]
  BY DEF IInv, TypeOK, TypeOKFor
<1>1. UNCHANGED <<tasks, m_stopped, task>>
  BY DEF Lock, Block, Exit, SpuriousWake
<1>2. PICK p \in {"blocking", "holding", "waiting", "exited", "ready"} :
          /\ pc' = [pc EXCEPT ![w] = p]
          /\ pc[w] \notin {"running", "exited"}
          /\ p \in {"blocking", "holding"} => MutexFree
          /\ p = "blocking" => tasks = <<>> /\ ~m_stopped
          /\ p = "waiting" => pc[w] = "blocking"
          /\ p = "holding" => m_stopped \/ tasks # <<>>
          /\ p = "exited" => m_stopped /\ tasks = <<>>
  <2>1. CASE Lock(w) /\ (m_stopped \/ tasks # <<>>)
    BY <2>1 DEF Lock
  <2>2. CASE Lock(w) /\ ~(m_stopped \/ tasks # <<>>)
    BY <2>2 DEF Lock
  <2>3. CASE Block(w)
    BY <2>3 DEF Block
  <2>4. CASE Exit(w)
    BY <2>4 DEF Exit
  <2>5. CASE SpuriousWake(w)
    BY <2>5 DEF SpuriousWake
  <2> QED
    BY <2>1, <2>2, <2>3, <2>4, <2>5
<1>3. pc'[w] = p /\ \A v \in Workers : v # w => pc'[v] = pc[v]
  BY <1>0, <1>2
<1>4. TypeOK'
  BY <1>0, <1>1, <1>2 DEF IInv, TypeOK, TypeOKFor, Places
<1>5. LockInv'
  BY <1>1, <1>2, <1>3 DEF IInv, LockInv, HoldsMutex, MutexFree
<1>6. DataInv'
  BY <1>1, <1>2, <1>3, DataKept
<1>7. LifeInv'
  BY <1>1, <1>2, <1>3 DEF IInv, LifeInv
<1>8. AwakeInv'
  BY <1>1, <1>2, <1>3 DEF IInv, AwakeInv, LifeInv
<1> QED
  BY <1>4, <1>5, <1>6, <1>7, <1>8 DEF IInv

(* Take: the head of the queue goes to one worker. *)
LEMMA TakeInv ==
    ASSUME IInv, NEW w \in Workers, Take(w), UNCHANGED <<enqueuing, life, accepted, ready>>
    PROVE  IInv'
<1> USE MaxTasksAssumption
<1>0. /\ tasks \in Seq(1..MaxTasks) /\ Len(tasks) \in Nat /\ accepted \in Nat
      /\ pc \in [Workers -> Places] /\ task \in [Workers -> 1..MaxTasks \union {NoTask}]
  BY DEF IInv, TypeOK, TypeOKFor
<1>1. /\ pc[w] = "holding" /\ tasks # <<>>
      /\ task' = [task EXCEPT ![w] = Head(tasks)]
      /\ tasks' = Tail(tasks)
      /\ pc' = [pc EXCEPT ![w] = "running"]
      /\ UNCHANGED <<m_stopped, enqueuing, life, accepted, ready>>
  BY DEF Take, IInv, LockInv
<1>2. /\ tasks' \in Seq(1..MaxTasks)
      /\ Len(tasks) > 0 /\ Len(tasks') = Len(tasks) - 1
      /\ \A i \in 1..Len(tasks') : tasks'[i] = tasks[i + 1]
      /\ Head(tasks) = tasks[1] /\ tasks[1] \in 1..MaxTasks
  BY <1>0, <1>1
<1>3. Taken \in Nat /\ Taken' = Taken + 1 /\ Head(tasks) = Taken + 1
  <2>1. Len(tasks) <= accepted /\ tasks[1] = Taken + 1
    BY <1>0, <1>2 DEF IInv, DataInv
  <2> QED
    BY <1>0, <1>1, <1>2, <2>1 DEF Taken
<1>4. /\ pc'[w] = "running" /\ task'[w] = Taken + 1
      /\ \A v \in Workers : v # w => pc'[v] = pc[v] /\ task'[v] = task[v]
  BY <1>0, <1>1, <1>3
<1>5. TypeOK'
  <2>1. pc' \in [Workers -> Places] /\ task' \in [Workers -> 1..MaxTasks \union {NoTask}]
    BY <1>0, <1>1, <1>2 DEF Places
  <2> QED
    BY <1>1, <1>2, <2>1 DEF IInv, TypeOK, TypeOKFor
<1>6. LockInv'
  BY <1>1, <1>4 DEF IInv, LockInv, HoldsMutex
<1>7. DataInv'
  <2>1. Len(tasks') <= accepted'
    BY <1>0, <1>1, <1>2 DEF IInv, DataInv
  <2>2. \A i \in 1..Len(tasks') : tasks'[i] = Taken' + i
    BY <1>0, <1>2, <1>3 DEF IInv, DataInv
  <2>3. ready' \subseteq 1..Taken /\ Taken + 1 \notin ready'
    BY <1>1, <1>3 DEF IInv, DataInv
  <2>4. \A v \in Workers : v # w /\ pc'[v] = "running" =>
            pc[v] = "running" /\ task'[v] = task[v] /\ task'[v] \in (1..Taken) \ ready
    BY <1>4 DEF IInv, DataInv
  <2>5. ready' \subseteq 1..Taken'
    BY <1>3, <2>3
  <2>6. \A v \in Workers : pc'[v] = "running" => task'[v] \in (1..Taken') \ ready'
    BY <1>1, <1>3, <1>4, <2>3, <2>4
  <2>7. ASSUME NEW k \in (1..Taken') \ ready'
        PROVE  \E v \in Workers : pc'[v] = "running" /\ task'[v] = k
    <3>1. CASE k = Taken + 1
      BY <1>4, <3>1
    <3>2. CASE k \in 1..Taken
      <4>1. PICK v \in Workers : pc[v] = "running" /\ task[v] = k
        BY <1>1, <3>2, <2>7 DEF IInv, DataInv
      <4> QED
        BY <1>1, <1>4, <4>1
    <3> QED
      BY <1>3, <3>1, <3>2
  <2>8. \A u, v \in Workers :
            pc'[u] = "running" /\ pc'[v] = "running" /\ task'[u] = task'[v] => u = v
    <3>1. \A v \in Workers : v # w /\ pc'[v] = "running" => task'[v] # task'[w]
      BY <1>3, <1>4, <2>4
    <3>2. \A u, v \in Workers : u # w /\ v # w /\ pc'[u] = "running" /\ pc'[v] = "running"
                                /\ task'[u] = task'[v] => u = v
      BY <2>4 DEF IInv, DataInv
    <3> QED
      BY <3>1, <3>2
  <2> QED
    BY <2>1, <2>2, <2>5, <2>6, <2>7, <2>8 DEF DataInv
<1>8. LifeInv'
  BY <1>1, <1>4 DEF IInv, LifeInv
<1>9. AwakeInv'
  BY <1>1, <1>4 DEF IInv, AwakeInv
<1> QED
  BY <1>5, <1>6, <1>7, <1>8, <1>9 DEF IInv

(* The task in hand is done, and its future ready. *)
LEMMA RunTaskInv == ASSUME IInv, NEW w \in Workers, RunTask(w) PROVE IInv'
<1>0. /\ pc \in [Workers -> Places] /\ task \in [Workers -> 1..MaxTasks \union {NoTask}]
      /\ enqueuing \in [Callers -> {"out", "pushed", "threw"}]
  BY DEF IInv, TypeOK, TypeOKFor
<1>1. /\ pc[w] = "running"
      /\ pc' = [pc EXCEPT ![w] = "ready"]
      /\ task' = [task EXCEPT ![w] = NoTask]
      /\ ready' = ready \union {task[w]}
      /\ enqueuing' \in [Callers -> {"out", "pushed", "threw"}]
      /\ UNCHANGED <<tasks, m_stopped, life, accepted>>
  BY <1>0 DEF RunTask, Finish
<1>2. task[w] \in 1..Taken /\ Taken' = Taken
  BY <1>1 DEF IInv, DataInv, Taken
<1>3. task[w] \in 1..MaxTasks
  BY <1>2, MaxTasksAssumption DEF IInv, TypeOK, TypeOKFor, Taken
<1>4. /\ pc'[w] = "ready"
      /\ \A v \in Workers : v # w => pc'[v] = pc[v] /\ task'[v] = task[v]
  BY <1>0, <1>1
<1>5. TypeOK'
  <2>1. pc' \in [Workers -> Places] /\ task' \in [Workers -> 1..MaxTasks \union {NoTask}]
    BY <1>0, <1>1 DEF Places
  <2> QED
    BY <1>1, <1>3, <2>1 DEF IInv, TypeOK, TypeOKFor
<1>6. LockInv'
  BY <1>1, <1>4 DEF IInv, LockInv, HoldsMutex
<1>7. DataInv'
  <2>1. /\ Len(tasks') <= accepted'
        /\ \A i \in 1..Len(tasks') : tasks'[i] = Taken' + i
        /\ ready' \subseteq 1..Taken'
    BY <1>1, <1>2 DEF IInv, DataInv
  <2>2. \A v \in Workers : pc'[v] = "running" => v # w /\ pc[v] = "running" /\ task'[v] = task[v]
    BY <1>4
  <2>3. \A v \in Workers : pc'[v] = "running" => task'[v] \in (1..Taken') \ ready'
    BY <1>1, <1>2, <2>2 DEF IInv, DataInv
  <2>4. ASSUME NEW k \in (1..Taken') \ ready'
        PROVE  \E v \in Workers : pc'[v] = "running" /\ task'[v] = k
    <3>1. PICK v \in Workers : pc[v] = "running" /\ task[v] = k
      BY <1>1, <1>2, <2>4 DEF IInv, DataInv
    <3>2. v # w
      BY <1>1, <2>4, <3>1
    <3> QED
      BY <1>4, <3>1, <3>2
  <2>5. \A u, v \in Workers :
            pc'[u] = "running" /\ pc'[v] = "running" /\ task'[u] = task'[v] => u = v
    BY <2>2 DEF IInv, DataInv
  <2> QED
    BY <2>1, <2>3, <2>4, <2>5 DEF DataInv
<1>8. LifeInv'
  BY <1>1, <1>4 DEF IInv, LifeInv
<1>9. AwakeInv'
  BY <1>1, <1>4 DEF IInv, AwakeInv
<1> QED
  BY <1>5, <1>6, <1>7, <1>8, <1>9 DEF IInv

-----------------------------------------------------------------------------
(* The inductive invariant of the pool. *)
LEMMA Inductive == PoolSpec => []IInv
<1>1. ASSUME IInv, [PoolNext]_poolVars PROVE IInv'
  <2> USE <1>1
  <2>1. CASE \E c \in Callers : Accept(c) \/ Refuse(c) \/ NotifyWorker(c)
    BY <2>1, AcceptInv, EnqueueInv
  <2>2. CASE \E w \in Workers : WorkerLoop(w) \/ RunTask(w) \/ Spurious(w)
    BY <2>2, LoopInv, TakeInv, RunTaskInv DEF WorkerLoop, Loop, Spurious
  <2>3. CASE DestroyRaise \/ DestroyNotify \/ DestroyJoin
    BY <2>3, DestroyRaiseInv, DestroyNotifyInv, DestroyJoinInv
  <2>4. CASE UNCHANGED poolVars
    <3>1. UNCHANGED <<tasks, m_stopped, pc, task, enqueuing, life, accepted, ready>>
      BY <2>4 DEF poolVars, vars
    <3>2. WakeOnly /\ enqueuing' \in [Callers -> {"out", "pushed", "threw"}]
      BY <3>1 DEF IInv, TypeOK, TypeOKFor, WakeOnly
    <3> QED
      BY <3>1, <3>2, OnlyWaking
  <2> QED
    BY <2>1, <2>2, <2>3, <2>4 DEF PoolNext
<1> QED
  BY InitInv, <1>1, PTL DEF PoolSpec

(* The types of the pool's queue, its workers and its callers. *)
THEOREM TypeCorrect == PoolSpec => []TypeOK
<1>1. IInv => TypeOK
  BY DEF IInv
<1> QED
  BY Inductive, <1>1, PTL

(* When the destructor has returned, every task that enqueue accepted has  *)
(* been run, by the owner or from inside another task, provided the pool   *)
(* has a worker at all.                                                    *)
THEOREM Drains ==
    ASSUME Workers # {}
    PROVE  PoolSpec => []PoolDrains
<1>1. IInv => PoolDrains
  <2> SUFFICES ASSUME IInv, life = "gone" PROVE tasks = <<>> /\ ready = 1..accepted
    BY DEF PoolDrains
  <2>1. tasks = <<>> /\ \A w \in Workers : pc[w] = "exited"
    BY DEF IInv, LifeInv
  <2>2. Taken = accepted
    BY <2>1 DEF Taken, IInv, TypeOK
  <2>3. (1..Taken) \ ready = {} /\ ready \subseteq 1..Taken
    BY <2>1 DEF IInv, DataInv
  <2> QED
    BY <2>1, <2>2, <2>3
<1> QED
  BY Inductive, <1>1, PTL

(* No task is lost or given to two workers: each one accepted is in the    *)
(* queue, done, or in the hand of the one worker that runs it.             *)
TaskInOnePlace ==
    \A k \in 1..accepted :
        \/ k > Taken /\ tasks[k - Taken] = k
        \/ k <= Taken /\ k \in ready /\ \A w \in Workers : pc[w] = "running" => task[w] # k
        \/ k <= Taken /\ k \notin ready
             /\ \E w \in Workers : \A v \in Workers : (pc[v] = "running" /\ task[v] = k) <=> v = w

(* What enqueue accepted is queued in order, in one worker's hands, or     *)
(* done.                                                                   *)
THEOREM NoTaskLost == PoolSpec => []TaskInOnePlace
<1>1. IInv => TaskInOnePlace
  <2> SUFFICES ASSUME IInv, NEW k \in 1..accepted
               PROVE  \/ k > Taken /\ tasks[k - Taken] = k
                      \/ k <= Taken /\ k \in ready /\ \A w \in Workers : pc[w] = "running" => task[w] # k
                      \/ k <= Taken /\ k \notin ready
                           /\ \E w \in Workers : \A v \in Workers : (pc[v] = "running" /\ task[v] = k) <=> v = w
    BY DEF TaskInOnePlace
  <2>0. accepted \in Nat /\ Len(tasks) \in Nat /\ Len(tasks) <= accepted
    BY DEF IInv, TypeOK, TypeOKFor, DataInv
  <2>1. CASE k > Taken
    <3>1. k - Taken \in 1..Len(tasks) /\ Taken + (k - Taken) = k
      BY <2>0, <2>1 DEF Taken
    <3> QED
      BY <2>1, <3>1 DEF IInv, DataInv
  <2>2. CASE k <= Taken /\ k \in ready
    BY <2>2 DEF IInv, DataInv
  <2>3. CASE k <= Taken /\ k \notin ready
    <3>1. k \in (1..Taken) \ ready
      BY <2>0, <2>3 DEF Taken
    <3>2. PICK w \in Workers : pc[w] = "running" /\ task[w] = k
      BY <3>1 DEF IInv, DataInv
    <3>3. \A v \in Workers : (pc[v] = "running" /\ task[v] = k) <=> v = w
      BY <3>2 DEF IInv, DataInv
    <3> QED
      BY <2>3, <3>3
  <2> QED
    BY <2>0, <2>1, <2>2, <2>3 DEF Taken
<1> QED
  BY Inductive, <1>1, PTL

(* The destructor loses no wakeup: once it has called notify_all no worker *)
(* waits or is about to, so each of them comes to see the flag.  This is   *)
(* what raising the flag under the mutex is for, and what the stop of      *)
(* BlockProcessor lacks.                                                   *)
NobodyLeftAsleep ==
    life \in {"joining", "gone"} => \A w \in Workers : pc[w] \notin {"blocking", "waiting"}

(* With notify_all, once the destructor has notified nobody sleeps. *)
THEOREM NoLostWakeup ==
    ASSUME NotifyAll
    PROVE  PoolSpec => []NobodyLeftAsleep
<1>1. IInv => NobodyLeftAsleep
  BY DEF IInv, AwakeInv, NobodyLeftAsleep
<1> QED
  BY Inductive, <1>1, PTL
=============================================================================
