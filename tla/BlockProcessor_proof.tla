------------------------ MODULE BlockProcessor_proof ------------------------
(***************************************************************************)
(* Proofs about BlockProcessor, for any number of clients, workers and     *)
(* tasks, whichever way Stop notifies.                                     *)
(***************************************************************************)
EXTENDS BlockProcessor, SequenceTheorems, TLAPS

(* How many tasks were taken off the queue. *)
Taken == Len(added) - Len(tasks)

(* m_mutex excludes; a worker about to wait has an empty queue, one past   *)
(* the wait has a reason to be.                                            *)
LockInv ==
    /\ \A v, w \in Workers : HoldsMutex(v) /\ HoldsMutex(w) => v = w
    /\ \A w \in Workers : pc[w] = "blocking" => tasks = <<>>
    /\ \A w \in Workers : pc[w] = "holding" => m_stopped \/ tasks # <<>>

(* Where each task is: tasks are numbered in the order of the pushes, the  *)
(* queue holds the last of them, the others are run or in a worker's hand. *)
DataInv ==
    /\ Len(tasks) <= Len(added)
    /\ \A i \in 1..Len(added) : added[i] = i
    /\ \A i \in 1..Len(tasks) : tasks[i] = Taken + i
    /\ \A i \in 1..Len(ran) : ran[i] \in 1..Taken
    /\ \A w \in Workers : pc[w] = "running" => task[w] \in 1..Taken
    /\ \A k \in 1..Taken :
          \/ \E i \in 1..Len(ran) : ran[i] = k
          \/ \E w \in Workers : pc[w] = "running" /\ task[w] = k
    /\ \A i, j \in 1..Len(ran) : i # j => ran[i] # ran[j]
    /\ \A w \in Workers : pc[w] = "running" =>
          \A i \in 1..Len(ran) : ran[i] # task[w]
    /\ \A v, w \in Workers :
          pc[v] = "running" /\ pc[w] = "running" /\ v # w => task[v] # task[w]

(* With one worker there is no overtaking. *)
OrderInv ==
    (\A v, w \in Workers : v = w) =>
        /\ \A i \in 1..Len(ran) : ran[i] = i
        /\ \A w \in Workers :
              IF pc[w] = "running" THEN task[w] = Len(ran) + 1 /\ Taken = Len(ran) + 1
                                   ELSE Taken = Len(ran)

(* The protocol of Stop: a worker that has left its loop has seen the flag *)
(* and left no early task behind.                                          *)
StopInv ==
    /\ stopping = "idle" <=> ~m_stopped
    /\ early <= Len(added)
    /\ \A w \in Workers : pc[w] = "exited" => m_stopped /\ early <= Taken
    /\ stopping = "done" => \A w \in Workers : pc[w] = "exited"

IInv == TypeOK /\ LockInv /\ DataInv /\ OrderInv /\ StopInv

-----------------------------------------------------------------------------
(* Steps that wake workers and do nothing else to them. *)
WakeOnly ==
    /\ pc' \in [Workers -> Places]
    /\ \A w \in Workers : pc'[w] = pc[w] \/ (pc[w] = "waiting" /\ pc'[w] = "ready")

(* What the notifications do to the workers. *)
LEMMA NotifyWakes ==
    ASSUME pc \in [Workers -> Places], NotifyOne \/ NotifyEvery
    PROVE  WakeOnly
<1>1. CASE NotifyOne
  <2>1. CASE Waiting = {}
    BY <1>1, <2>1 DEF NotifyOne, WakeOnly
  <2>2. CASE Waiting # {}
    <3>1. PICK w \in Waiting : pc' = [pc EXCEPT ![w] = "ready"]
      BY <1>1, <2>2 DEF NotifyOne
    <3> QED
      BY <3>1 DEF WakeOnly, Waiting, Places
  <2> QED
    BY <2>1, <2>2
<1>2. CASE NotifyEvery
  BY <1>2 DEF NotifyEvery, WakeOnly, Waiting, Places
<1> QED
  BY <1>1, <1>2

(* A step that leaves the data alone and the running workers running. *)
LEMMA DataKept ==
    ASSUME IInv, UNCHANGED <<tasks, task, added, ran>>,
           \A w \in Workers : pc'[w] = "running" <=> pc[w] = "running"
    PROVE  DataInv' /\ OrderInv'
<1>1. Taken' = Taken
  BY DEF Taken
<1>2. DataInv'
  BY <1>1 DEF IInv, DataInv
<1>3. OrderInv'
  BY <1>1 DEF IInv, OrderInv
<1> QED
  BY <1>2, <1>3

(* At first the queue is empty and every worker at its loop. *)
LEMMA InitInv == PInit => IInv
<1> SUFFICES ASSUME PInit PROVE IInv
  OBVIOUS
<1> USE DEF PInit, Init
<1>1. TypeOK
  <2>1. tasks \in Seq(1..MaxTasks) /\ added \in Seq(1..MaxTasks) /\ ran \in Seq(1..MaxTasks)
    OBVIOUS
  <2>2. Len(added) <= MaxTasks /\ early \in 0..MaxTasks
    BY MaxTasksAssumption
  <2>3. pc \in [Workers -> Places] /\ task \in [Workers -> 1..MaxTasks \union {NoTask}]
    BY DEF Places
  <2> QED
    BY <2>1, <2>2, <2>3 DEF TypeOK, TypeOKFor
<1>2. LockInv
  BY DEF LockInv, HoldsMutex
<1>3. Taken = 0 /\ Len(tasks) = 0 /\ Len(added) = 0 /\ Len(ran) = 0
  BY DEF Taken
<1>4. DataInv
  BY <1>3 DEF DataInv
<1>5. OrderInv
  BY <1>3 DEF OrderInv
<1>6. StopInv
  BY <1>3 DEF StopInv
<1> QED
  BY <1>1, <1>2, <1>4, <1>5, <1>6 DEF IInv

(* AddTask: the push, with the notification under the mutex. *)
LEMMA AddTaskInv == ASSUME IInv, NEW c \in Clients, AddTask(c) PROVE IInv'
<1> USE MaxTasksAssumption
<1>0. /\ tasks \in Seq(1..MaxTasks) /\ added \in Seq(1..MaxTasks) /\ ran \in Seq(1..MaxTasks)
      /\ pc \in [Workers -> Places] /\ early \in Nat
  BY DEF IInv, TypeOK, TypeOKFor
<1>1. /\ MutexFree
      /\ tasks' = Append(tasks, Len(added) + 1)
      /\ added' = Append(added, Len(added) + 1)
      /\ Len(added) + 1 \in 1..MaxTasks
      /\ m_stopped' = m_stopped /\ task' = task /\ stopping' = stopping
      /\ ran' = ran /\ early' = early
      /\ adding' = [adding EXCEPT ![c] = "idle"]
  BY <1>0 DEF AddTask, Push
<1>2. WakeOnly
  BY <1>0, NotifyWakes DEF AddTask, Push
<1>3. /\ tasks' \in Seq(1..MaxTasks) /\ added' \in Seq(1..MaxTasks)
      /\ Len(tasks') = Len(tasks) + 1 /\ Len(added') = Len(added) + 1
      /\ Len(tasks) \in Nat /\ Len(added) \in Nat /\ Len(ran) \in Nat
      /\ \A i \in 1..Len(tasks) : tasks'[i] = tasks[i]
      /\ tasks'[Len(tasks) + 1] = Len(added) + 1
      /\ \A i \in 1..Len(added) : added'[i] = added[i]
      /\ added'[Len(added) + 1] = Len(added) + 1
      /\ Taken' = Taken
  BY <1>0, <1>1 DEF Taken
<1>4. TypeOK'
  <2>1. adding' \in [Clients -> {"idle", "tested", "threw"}]
    BY <1>1 DEF IInv, TypeOK
  <2>2. Len(added') <= MaxTasks
    BY <1>1, <1>3
  <2> QED
    BY <1>1, <1>2, <1>3, <2>1, <2>2 DEF IInv, TypeOK, TypeOKFor, WakeOnly
<1>5. LockInv'
  BY <1>1, <1>2, <1>3 DEF MutexFree, HoldsMutex, WakeOnly, LockInv
<1>6. DataInv'
  <2>1. \A w \in Workers : pc'[w] = "running" <=> pc[w] = "running"
    BY <1>2 DEF WakeOnly
  <2>2. Len(tasks') <= Len(added')
    BY <1>3 DEF IInv, DataInv
  <2>3. ASSUME NEW i \in 1..Len(added') PROVE added'[i] = i
    <3>1. CASE i \in 1..Len(added)
      BY <1>3, <3>1 DEF IInv, DataInv
    <3>2. CASE i = Len(added) + 1
      BY <1>3, <3>2
    <3> QED
      BY <1>3, <3>1, <3>2
  <2>4. ASSUME NEW i \in 1..Len(tasks') PROVE tasks'[i] = Taken' + i
    <3>1. CASE i \in 1..Len(tasks)
      BY <1>3, <3>1 DEF IInv, DataInv
    <3>2. CASE i = Len(tasks) + 1
      BY <1>3, <3>2 DEF Taken
    <3> QED
      BY <1>3, <3>1, <3>2
  <2> QED
    BY <1>1, <1>3, <2>1, <2>2, <2>3, <2>4, ZenonT(30) DEF IInv, DataInv
<1>7. OrderInv'
  BY <1>1, <1>2, <1>3 DEF IInv, OrderInv, WakeOnly
<1>8. StopInv'
  BY <1>0, <1>1, <1>2, <1>3 DEF IInv, StopInv, WakeOnly
<1> QED
  BY <1>4, <1>5, <1>6, <1>7, <1>8 DEF IInv

(* Take: the head of the queue goes to one worker. *)
LEMMA TakeInv ==
    ASSUME IInv, NEW w \in Workers, Take(w), UNCHANGED <<adding, stopping, added, ran, early>>
    PROVE  IInv'
<1> USE MaxTasksAssumption
<1>0. /\ tasks \in Seq(1..MaxTasks) /\ added \in Seq(1..MaxTasks) /\ ran \in Seq(1..MaxTasks)
      /\ pc \in [Workers -> Places] /\ task \in [Workers -> 1..MaxTasks \union {NoTask}]
      /\ Len(tasks) \in Nat /\ Len(added) \in Nat /\ Len(ran) \in Nat /\ early \in Nat
  BY DEF IInv, TypeOK, TypeOKFor
<1>1. /\ pc[w] = "holding" /\ tasks # <<>>
      /\ task' = [task EXCEPT ![w] = Head(tasks)]
      /\ tasks' = Tail(tasks)
      /\ pc' = [pc EXCEPT ![w] = "running"]
      /\ m_stopped' = m_stopped /\ stopping' = stopping /\ adding' = adding
      /\ added' = added /\ ran' = ran /\ early' = early
  BY DEF Take, IInv, LockInv
<1>2. /\ tasks' \in Seq(1..MaxTasks)
      /\ Len(tasks) > 0 /\ Len(tasks') = Len(tasks) - 1
      /\ \A i \in 1..Len(tasks') : tasks'[i] = tasks[i + 1]
      /\ Head(tasks) = tasks[1] /\ tasks[1] \in 1..MaxTasks
  BY <1>0, <1>1
<1>3. Taken \in Nat /\ Taken' = Taken + 1 /\ Head(tasks) = Taken + 1
  <2>1. Len(tasks) <= Len(added) /\ tasks[1] = Taken + 1
    BY <1>0, <1>2 DEF IInv, DataInv
  <2> QED
    BY <1>0, <1>1, <1>2, <2>1 DEF Taken
<1>4. /\ pc'[w] = "running" /\ task'[w] = Taken + 1
      /\ \A v \in Workers : v # w => pc'[v] = pc[v] /\ task'[v] = task[v]
  BY <1>0, <1>1, <1>3
<1>5. TypeOK'
  <2>1. pc' \in [Workers -> Places] /\ task' \in [Workers -> 1..MaxTasks \union {NoTask}]
    BY <1>0, <1>1, <1>2 DEF Places
  <2> QED
    BY <1>1, <1>2, <2>1 DEF IInv, TypeOK, TypeOKFor
<1>6. LockInv'
  BY <1>1, <1>4 DEF IInv, LockInv, HoldsMutex
<1>7. DataInv'
  <2>1. Len(tasks') <= Len(added') /\ \A i \in 1..Len(added') : added'[i] = i
    BY <1>0, <1>1, <1>2 DEF IInv, DataInv
  <2>2. \A i \in 1..Len(tasks') : tasks'[i] = Taken' + i
    BY <1>0, <1>2, <1>3 DEF IInv, DataInv
  <2>3. \A i \in 1..Len(ran') : ran'[i] \in 1..Taken /\ ran'[i] \in 1..Taken'
    BY <1>0, <1>1, <1>3, SMTT(30) DEF IInv, DataInv
  <2>4. \A v \in Workers : v # w /\ pc'[v] = "running" => task'[v] \in 1..Taken /\ task'[v] = task[v] /\ pc[v] = "running"
    BY <1>4 DEF IInv, DataInv
  <2>5. \A v \in Workers : pc'[v] = "running" => task'[v] \in 1..Taken'
    BY <1>3, <1>4, <2>4
  <2>6. ASSUME NEW k \in 1..Taken'
        PROVE  \/ \E i \in 1..Len(ran') : ran'[i] = k
               \/ \E v \in Workers : pc'[v] = "running" /\ task'[v] = k
    <3>1. CASE k = Taken + 1
      BY <1>4, <3>1
    <3>2. CASE k \in 1..Taken
      <4>1. \/ \E i \in 1..Len(ran) : ran[i] = k
            \/ \E v \in Workers : pc[v] = "running" /\ task[v] = k
        BY <3>2 DEF IInv, DataInv
      <4>2. \A v \in Workers : pc[v] = "running" => v # w
        BY <1>1
      <4> QED
        BY <1>1, <1>4, <4>1, <4>2
    <3> QED
      BY <1>3, <3>1, <3>2
  <2>7. \A i, j \in 1..Len(ran') : i # j => ran'[i] # ran'[j]
    BY <1>1 DEF IInv, DataInv
  <2>8. \A v \in Workers : pc'[v] = "running" => \A i \in 1..Len(ran') : ran'[i] # task'[v]
    <3>1. \A i \in 1..Len(ran') : ran'[i] # task'[w]
      BY <1>3, <1>4, <2>3
    <3>2. \A v \in Workers : v # w /\ pc'[v] = "running" => \A i \in 1..Len(ran') : ran'[i] # task'[v]
      BY <1>1, <2>4 DEF IInv, DataInv
    <3> QED
      BY <3>1, <3>2
  <2>9. \A u, v \in Workers :
            pc'[u] = "running" /\ pc'[v] = "running" /\ u # v => task'[u] # task'[v]
    <3>1. \A v \in Workers : v # w /\ pc'[v] = "running" => task'[v] # task'[w]
      BY <1>3, <1>4, <2>4
    <3>2. \A u, v \in Workers : u # w /\ v # w /\ u # v /\ pc'[u] = "running" /\ pc'[v] = "running"
            => task'[u] # task'[v]
      BY <2>4 DEF IInv, DataInv
    <3> QED
      BY <3>1, <3>2
  <2> QED
    BY <2>1, <2>2, <2>3, <2>5, <2>6, <2>7, <2>8, <2>9 DEF DataInv
<1>8. OrderInv'
  <2> SUFFICES ASSUME \A u, v \in Workers : u = v PROVE OrderInv'
    BY DEF OrderInv
  <2>1. Taken = Len(ran) /\ \A i \in 1..Len(ran) : ran[i] = i
    BY <1>1 DEF IInv, OrderInv
  <2>2. \A v \in Workers : v = w
    OBVIOUS
  <2> QED
    BY <1>1, <1>3, <1>4, <2>1, <2>2 DEF OrderInv
<1>9. StopInv'
  BY <1>0, <1>1, <1>3, <1>4 DEF IInv, StopInv
<1> QED
  BY <1>5, <1>6, <1>7, <1>8, <1>9 DEF IInv

(* RunTask: the task in hand is done. *)
LEMMA RunTaskInv == ASSUME IInv, NEW w \in Workers, RunTask(w) PROVE IInv'
<1> USE MaxTasksAssumption
<1>0. /\ added \in Seq(1..MaxTasks) /\ ran \in Seq(1..MaxTasks) /\ tasks \in Seq(1..MaxTasks)
      /\ pc \in [Workers -> Places] /\ task \in [Workers -> 1..MaxTasks \union {NoTask}]
      /\ Len(tasks) \in Nat /\ Len(added) \in Nat /\ Len(ran) \in Nat /\ early \in Nat
      /\ Len(added) <= MaxTasks
  BY DEF IInv, TypeOK, TypeOKFor
<1>1. /\ pc[w] = "running"
      /\ pc' = [pc EXCEPT ![w] = "ready"]
      /\ task' = [task EXCEPT ![w] = NoTask]
      /\ tasks' = tasks /\ m_stopped' = m_stopped /\ ran' = Append(ran, task[w])
      /\ adding' = adding /\ stopping' = stopping /\ added' = added /\ early' = early
  BY DEF RunTask, Finish
<1>2. task[w] \in 1..Taken /\ Taken \in Nat /\ Taken' = Taken /\ Taken <= MaxTasks
  BY <1>0, <1>1 DEF IInv, DataInv, Taken
<1>3. /\ ran' \in Seq(1..MaxTasks)
      /\ Len(ran') = Len(ran) + 1
      /\ \A i \in 1..Len(ran) : ran'[i] = ran[i]
      /\ ran'[Len(ran) + 1] = task[w]
  BY <1>0, <1>1, <1>2
<1>4. /\ pc'[w] = "ready"
      /\ \A v \in Workers : v # w => pc'[v] = pc[v] /\ task'[v] = task[v]
  BY <1>0, <1>1
<1>5. TypeOK'
  <2>1. pc' \in [Workers -> Places] /\ task' \in [Workers -> 1..MaxTasks \union {NoTask}]
    BY <1>0, <1>1 DEF Places
  <2> QED
    BY <1>1, <1>3, <2>1 DEF IInv, TypeOK, TypeOKFor
<1>6. LockInv'
  BY <1>1, <1>4 DEF IInv, LockInv, HoldsMutex
<1>7. DataInv'
  <2>1. /\ Len(tasks') <= Len(added') /\ \A i \in 1..Len(added') : added'[i] = i
        /\ \A i \in 1..Len(tasks') : tasks'[i] = Taken' + i
    BY <1>1, <1>2 DEF IInv, DataInv
  <2>2. \A i \in 1..Len(ran') : i \in 1..Len(ran) \/ i = Len(ran) + 1
    BY <1>0, <1>3
  <2>3. \A i \in 1..Len(ran') : ran'[i] \in 1..Taken'
    BY <1>2, <1>3, <2>2 DEF IInv, DataInv
  <2>4. \A v \in Workers : pc'[v] = "running" => v # w /\ pc[v] = "running" /\ task'[v] = task[v]
    BY <1>4
  <2>5. \A v \in Workers : pc'[v] = "running" => task'[v] \in 1..Taken'
    BY <1>2, <2>4 DEF IInv, DataInv
  <2>6. ASSUME NEW k \in 1..Taken'
        PROVE  \/ \E i \in 1..Len(ran') : ran'[i] = k
               \/ \E v \in Workers : pc'[v] = "running" /\ task'[v] = k
    <3>1. CASE \E i \in 1..Len(ran) : ran[i] = k
      BY <1>0, <1>3, <3>1
    <3>2. CASE k = task[w]
      <4>1. Len(ran) + 1 \in 1..Len(ran')
        BY <1>0, <1>3
      <4> QED
        BY <1>3, <3>2, <4>1
    <3>3. CASE \E v \in Workers : v # w /\ pc[v] = "running" /\ task[v] = k
      BY <1>4, <3>3
    <3> QED
      BY <1>2, <3>1, <3>2, <3>3 DEF IInv, DataInv
  <2>7. ASSUME NEW i \in 1..Len(ran'), NEW j \in 1..Len(ran'), i # j
        PROVE  ran'[i] # ran'[j]
    <3>1. \A h \in 1..Len(ran) : ran[h] # task[w]
      BY <1>1 DEF IInv, DataInv
    <3>2. CASE i \in 1..Len(ran) /\ j \in 1..Len(ran)
      BY <1>3, <2>7, <3>2 DEF IInv, DataInv
    <3> QED
      BY <1>3, <2>2, <2>7, <3>1, <3>2
  <2>8. \A v \in Workers : pc'[v] = "running" => \A i \in 1..Len(ran') : ran'[i] # task'[v]
    <3>1. \A v \in Workers : pc'[v] = "running" => task[v] # task[w] /\ \A i \in 1..Len(ran) : ran[i] # task[v]
      BY <1>1, <2>4 DEF IInv, DataInv
    <3> QED
      BY <1>3, <2>2, <2>4, <3>1
  <2>9. \A u, v \in Workers :
            pc'[u] = "running" /\ pc'[v] = "running" /\ u # v => task'[u] # task'[v]
    BY <2>4 DEF IInv, DataInv
  <2> QED
    BY <2>1, <2>3, <2>5, <2>6, <2>7, <2>8, <2>9 DEF DataInv
<1>8. OrderInv'
  <2> SUFFICES ASSUME \A u, v \in Workers : u = v PROVE OrderInv'
    BY DEF OrderInv
  <2>1. task[w] = Len(ran) + 1 /\ Taken = Len(ran) + 1 /\ \A i \in 1..Len(ran) : ran[i] = i
    BY <1>1 DEF IInv, OrderInv
  <2>2. \A v \in Workers : v = w
    OBVIOUS
  <2>3. ASSUME NEW i \in 1..Len(ran') PROVE ran'[i] = i
    <3>1. i \in 1..Len(ran) \/ i = Len(ran) + 1
      BY <1>0, <1>3
    <3> QED
      BY <1>3, <2>1, <3>1
  <2> QED
    BY <1>2, <1>3, <1>4, <2>1, <2>2, <2>3 DEF OrderInv
<1>9. StopInv'
  BY <1>1, <1>2, <1>4 DEF IInv, StopInv
<1> QED
  BY <1>5, <1>6, <1>7, <1>8, <1>9 DEF IInv

-----------------------------------------------------------------------------
(* The steps that move no task. *)

(* AddTask reads the flag, without the mutex. *)
LEMMA TestFlagInv == ASSUME IInv, NEW c \in Clients, TestFlag(c) PROVE IInv'
<1>1. /\ UNCHANGED <<tasks, m_stopped, pc, task, stopping, added, ran, early>>
      /\ adding' \in [Clients -> {"idle", "tested", "threw"}]
  BY DEF TestFlag, vars, IInv, TypeOK
<1>2. TypeOK'
  BY <1>1 DEF IInv, TypeOK, TypeOKFor
<1>3. LockInv'
  BY <1>1 DEF IInv, LockInv, HoldsMutex
<1>4. DataInv' /\ OrderInv'
  BY <1>1, DataKept
<1>5. StopInv'
  BY <1>1 DEF IInv, StopInv, Taken
<1> QED
  BY <1>2, <1>3, <1>4, <1>5 DEF IInv

(* Stop raises the flag, without the mutex. *)
LEMMA StopStepInv == ASSUME IInv, Stop PROVE IInv'
<1> USE MaxTasksAssumption
<1>0. /\ added \in Seq(1..MaxTasks) /\ tasks \in Seq(1..MaxTasks)
      /\ Len(added) \in Nat /\ Len(added) <= MaxTasks /\ Len(tasks) \in Nat
  BY DEF IInv, TypeOK, TypeOKFor
<1>1. /\ UNCHANGED <<tasks, pc, task, adding, added, ran>>
      /\ stopping = "idle" /\ stopping' = "raised" /\ m_stopped' = TRUE
      /\ early' = Len(added)
  BY DEF Stop, RaiseStopped
<1>2. TypeOK'
  BY <1>0, <1>1 DEF IInv, TypeOK, TypeOKFor
<1>3. LockInv'
  BY <1>1 DEF IInv, LockInv, HoldsMutex
<1>4. DataInv' /\ OrderInv'
  BY <1>1, DataKept
<1>5. StopInv'
  (* no worker has exited yet: the flag was not raised *)
  BY <1>0, <1>1 DEF IInv, StopInv, Taken
<1> QED
  BY <1>2, <1>3, <1>4, <1>5 DEF IInv

(* Stop notifies the workers that wait. *)
LEMMA StopWakesInv == ASSUME IInv, StopWakes PROVE IInv'
<1>1. /\ UNCHANGED <<tasks, m_stopped, task, adding, added, ran, early>>
      /\ stopping = "raised" /\ stopping' = "joining"
  BY DEF StopWakes, StopNotify
<1>2. WakeOnly
  <2>1. pc \in [Workers -> Places]
    BY DEF IInv, TypeOK, TypeOKFor
  <2>2. NotifyOne \/ NotifyEvery
    BY DEF StopWakes, StopNotify
  <2> QED
    BY <2>1, <2>2, NotifyWakes
<1>3. TypeOK'
  BY <1>1, <1>2 DEF IInv, TypeOK, TypeOKFor, WakeOnly
<1>4. LockInv'
  BY <1>1, <1>2 DEF IInv, LockInv, HoldsMutex, WakeOnly
<1>5. DataInv' /\ OrderInv'
  BY <1>1, <1>2, DataKept DEF WakeOnly
<1>6. StopInv'
  BY <1>1, <1>2 DEF IInv, StopInv, Taken, WakeOnly
<1> QED
  BY <1>3, <1>4, <1>5, <1>6 DEF IInv

(* Stop returns when every worker has left its loop. *)
LEMMA StopJoinsInv == ASSUME IInv, StopJoins PROVE IInv'
<1>1. /\ UNCHANGED <<tasks, m_stopped, pc, task, adding, added, ran, early>>
      /\ stopping = "joining" /\ stopping' = "done"
      /\ \A w \in Workers : pc[w] = "exited"
  BY DEF StopJoins, Joinable, vars
<1>2. TypeOK'
  BY <1>1 DEF IInv, TypeOK, TypeOKFor
<1>3. LockInv'
  BY <1>1 DEF IInv, LockInv, HoldsMutex
<1>4. DataInv' /\ OrderInv'
  BY <1>1, DataKept
<1>5. StopInv'
  BY <1>1 DEF IInv, StopInv, Taken
<1> QED
  BY <1>2, <1>3, <1>4, <1>5 DEF IInv

(* do_work up to the task, and out of the loop. *)
LEMMA LoopInv ==
    ASSUME IInv, NEW w \in Workers, Lock(w) \/ Block(w) \/ Exit(w) \/ SpuriousWake(w),
           UNCHANGED <<adding, stopping, added, ran, early>>
    PROVE  IInv'
<1> USE MaxTasksAssumption
<1>0. /\ pc \in [Workers -> Places] /\ early \in Nat
      /\ Len(tasks) \in Nat /\ Len(added) \in Nat /\ tasks \in Seq(1..MaxTasks)
  BY DEF IInv, TypeOK, TypeOKFor
<1>1. UNCHANGED <<tasks, m_stopped, task>>
  BY DEF Lock, Block, Exit, SpuriousWake
<1>2. PICK p \in {"blocking", "holding", "waiting", "exited", "ready"} :
          /\ pc' = [pc EXCEPT ![w] = p]
          /\ pc[w] \notin {"running", "exited"}
          /\ p \in {"blocking", "holding"} => MutexFree
          /\ p = "blocking" => tasks = <<>>
          /\ p = "holding" => m_stopped \/ tasks # <<>>
          /\ p = "exited" => m_stopped /\ tasks = <<>>
  <2>1. CASE Lock(w)
    <3>1. CASE m_stopped \/ tasks # <<>>
      BY <2>1, <3>1 DEF Lock
    <3>2. CASE ~(m_stopped \/ tasks # <<>>)
      BY <2>1, <3>2 DEF Lock
    <3> QED
      BY <3>1, <3>2
  <2>2. CASE Block(w)
    BY <2>2 DEF Block
  <2>3. CASE Exit(w)
    BY <2>3 DEF Exit
  <2>4. CASE SpuriousWake(w)
    BY <2>4 DEF SpuriousWake
  <2> QED
    BY <2>1, <2>2, <2>3, <2>4
<1>3. pc'[w] = p /\ \A v \in Workers : v # w => pc'[v] = pc[v]
  BY <1>0, <1>2
<1>4. TypeOK'
  BY <1>0, <1>1, <1>2 DEF IInv, TypeOK, TypeOKFor, Places
<1>5. LockInv'
  BY <1>1, <1>2, <1>3 DEF IInv, LockInv, HoldsMutex, MutexFree
<1>6. DataInv' /\ OrderInv'
  BY <1>1, <1>2, <1>3, DataKept
<1>7. StopInv'
  <2>1. Taken' = Taken /\ (tasks = <<>> => early <= Taken)
    BY <1>0, <1>1 DEF IInv, StopInv, Taken
  <2> QED
    BY <1>1, <1>2, <1>3, <2>1 DEF IInv, StopInv
<1> QED
  BY <1>4, <1>5, <1>6, <1>7 DEF IInv

(* The inductive invariant of the task queue and its users. *)
LEMMA Inductive == PSpec => []IInv
<1>1. ASSUME IInv, [PNext]_allVars PROVE IInv'
  <2> USE <1>1
  <2>1. CASE \E c \in Clients : TestFlag(c) \/ AddTask(c)
    BY <2>1, TestFlagInv, AddTaskInv
  <2>2. CASE Stop \/ StopWakes \/ StopJoins
    BY <2>2, StopStepInv, StopWakesInv, StopJoinsInv
  <2>3. CASE \E w \in Workers : do_work(w) \/ RunTask(w) \/ Spurious(w)
    BY <2>3, TakeInv, LoopInv, RunTaskInv DEF do_work, Loop, Spurious
  <2>4. CASE UNCHANGED allVars
    <3>1. UNCHANGED <<tasks, m_stopped, pc, task, adding, stopping, added, ran, early>>
      BY <2>4 DEF allVars, vars
    <3>2. TypeOK' /\ LockInv' /\ StopInv'
      BY <3>1 DEF IInv, TypeOK, TypeOKFor, LockInv, HoldsMutex, StopInv, Taken
    <3> QED
      BY <3>1, <3>2, DataKept DEF IInv
  <2> QED
    BY <2>1, <2>2, <2>3, <2>4 DEF PNext
<1> QED
  BY InitInv, <1>1, PTL DEF PSpec

(* The types of the queue, the workers and the threads that call them. *)
THEOREM TypeCorrect == PSpec => []TypeOK
<1>1. IInv => TypeOK
  BY DEF IInv
<1> QED
  BY Inductive, <1>1, PTL

(* Every task is in one place: AddTask, do_work and Stop lose none and run *)
(* none twice, with any number of workers and clients.                     *)
THEOREM TasksOnce == PSpec => []EachTaskOnce
<1>1. IInv => EachTaskOnce
  <2> SUFFICES ASSUME IInv PROVE EachTaskOnce
    OBVIOUS
  <2>1. tasks \in Seq(1..MaxTasks) /\ ran \in Seq(1..MaxTasks)
    BY DEF IInv, TypeOK, TypeOKFor
  <2>2. DOMAIN tasks = 1..Len(tasks) /\ DOMAIN ran = 1..Len(ran)
    BY <2>1
  <2>3. \A i \in DOMAIN tasks : tasks[i] = Len(added) - Len(tasks) + i
    BY <2>2 DEF IInv, DataInv, Taken
  <2>4. \A i, j \in DOMAIN ran : i # j => ran[i] # ran[j]
    BY <2>2 DEF IInv, DataInv
  <2>5. /\ \A w \in Held : task[w] \notin Ran
        /\ \A v, w \in Held : v # w => task[v] # task[w]
    BY <2>2 DEF IInv, DataInv, Held, Ran
  <2>6. Ran \union {task[w] : w \in Held} = 1..Taken
    BY <2>2, SMTT(30) DEF IInv, DataInv, Held, Ran
  <2> QED
    BY <2>3, <2>4, <2>5, <2>6 DEF EachTaskOnce, Taken
<1> QED
  BY Inductive, <1>1, PTL

(* A processor with one worker runs the tasks in the order of the pushes. *)
THEOREM OneWorkerInOrder == PSpec => []RanInOrder
<1>1. IInv => RanInOrder
  BY DEF IInv, TypeOK, OrderInv, RanInOrder
<1> QED
  BY Inductive, <1>1, PTL

(* When Stop returns, every task pushed before it was called has been run, *)
(* provided there is a worker at all.                                      *)
THEOREM StopDrains ==
    ASSUME Workers # {}
    PROVE  PSpec => []EarlyTasksRun
<1>1. IInv => EarlyTasksRun
  <2> SUFFICES ASSUME IInv, stopping = "done" PROVE 1..early \subseteq Ran
    BY DEF EarlyTasksRun
  <2>1. \A w \in Workers : pc[w] = "exited"
    BY DEF IInv, StopInv
  <2>2. early <= Taken /\ early \in Nat /\ Taken \in Int
    BY <2>1 DEF IInv, StopInv, TypeOK, TypeOKFor, Taken
  <2>3. \A k \in 1..Taken : \E i \in 1..Len(ran) : ran[i] = k
    BY <2>1 DEF IInv, DataInv
  <2>4. DOMAIN ran = 1..Len(ran)
    BY DEF IInv, TypeOK
  <2> QED
    BY <2>2, <2>3, <2>4 DEF Ran
<1> QED
  BY Inductive, <1>1, PTL

(* Nothing moves once Stop has returned: the workers are gone. *)
THEOREM QuietAfter == PSpec => QuietAfterStop
<1>1. IInv /\ [PNext]_allVars => [stopping = "done" => UNCHANGED <<pc, ran>>]_allVars
  <2> SUFFICES ASSUME IInv, [PNext]_allVars, stopping = "done"
               PROVE  UNCHANGED <<pc, ran>>
    OBVIOUS
  <2>1. \A w \in Workers : pc[w] = "exited"
    BY DEF IInv, StopInv
  <2>2. CASE \E c \in Clients : TestFlag(c) \/ AddTask(c)
    BY <2>1, <2>2 DEF TestFlag, AddTask, Push, NotifyOne, Waiting, vars
  <2>3. CASE Stop \/ StopWakes \/ StopJoins
    BY <2>3 DEF Stop, StopWakes, StopJoins
  <2>4. CASE \E w \in Workers : do_work(w) \/ RunTask(w) \/ Spurious(w)
    BY <2>1, <2>4 DEF do_work, Loop, Lock, Block, Exit, Take, RunTask, Finish,
                      Spurious, SpuriousWake
  <2>5. CASE UNCHANGED allVars
    BY <2>5 DEF allVars, vars
  <2> QED
    BY <2>2, <2>3, <2>4, <2>5 DEF PNext
<1> QED
  BY Inductive, <1>1, PTL DEF PSpec, QuietAfterStop

-----------------------------------------------------------------------------
(* Refinement: a processor with one worker is a TaskService. *)

(* At first nothing is accepted or performed. *)
LEMMA InitRefines == PInit => Service!Init
BY DEF PInit, Service!Init

(* AddTask is the service's Accept, the end of a task its Perform, and     *)
(* every other step a stutter.                                             *)
LEMMA StepRefines ==
    ASSUME IInv, [PNext]_allVars, \A v, w \in Workers : v = w
    PROVE  [Service!Next]_(Service!vars)
<1> USE MaxTasksAssumption DEF Service!vars
<1>1. ASSUME NEW c \in Clients, TestFlag(c) \/ AddTask(c) PROVE [Service!Next]_(Service!vars)
  <2>1. CASE TestFlag(c)
    BY <2>1 DEF TestFlag
  <2>2. CASE AddTask(c)
    <3>1. Len(added) + 1 \in 1..MaxTasks
      BY <2>2 DEF AddTask, IInv, TypeOK
    <3>2. added' = Append(added, Len(added) + 1) /\ ran' = ran
      BY <2>2 DEF AddTask
    <3> QED
      BY <3>1, <3>2 DEF Service!Next, Service!Accept
  <2> QED
    BY <1>1, <2>1, <2>2
<1>2. CASE Stop \/ StopWakes \/ StopJoins
  BY <1>2 DEF Stop, StopWakes, StopJoins
<1>3. ASSUME NEW w \in Workers, do_work(w) \/ RunTask(w) \/ Spurious(w)
      PROVE  [Service!Next]_(Service!vars)
  <2>1. CASE do_work(w) \/ Spurious(w)
    BY <2>1 DEF do_work, Spurious
  <2>2. CASE RunTask(w)
    <3>1. pc[w] = "running" /\ ran' = Append(ran, task[w]) /\ added' = added
      BY <2>2 DEF RunTask, Finish
    <3>2. /\ task[w] = Len(ran) + 1 /\ Taken = Len(ran) + 1
          /\ Len(ran) \in Nat /\ Len(added) \in Nat /\ Len(tasks) \in Nat
      BY <3>1 DEF IInv, OrderInv, TypeOK, TypeOKFor
    <3>3. Len(ran) < Len(added) /\ added[Len(ran) + 1] = task[w]
      BY <3>2 DEF IInv, DataInv, Taken
    <3> QED
      BY <3>1, <3>3 DEF Service!Next, Service!Perform
  <2> QED
    BY <1>3, <2>1, <2>2
<1>4. CASE UNCHANGED allVars
  BY <1>4 DEF allVars
<1> QED
  BY <1>1, <1>2, <1>3, <1>4 DEF PNext

(* BlockProcessor with one worker implements the abstract task service:    *)
(* whatever AddTask accepts is performed in order, once.                   *)
THEOREM Refinement ==
    ASSUME \A v, w \in Workers : v = w
    PROVE  PSpec => ImplementsService
<1>1. IInv /\ [PNext]_allVars => [Service!Next]_(Service!vars)
  BY StepRefines
<1> QED
  BY Inductive, InitRefines, <1>1, PTL DEF PSpec, ImplementsService, Service!Spec
=============================================================================
