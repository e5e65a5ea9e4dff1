--------------------------- MODULE Threads_proof ----------------------------
(***************************************************************************)
(* Proofs about the thread programs of MCThreads: its active object, for   *)
(* every number of callers and tasks; and, for the barrier of any number   *)
(* of threads, the three singletons, the state of a task and the timers    *)
(* of any test, that nobody is early; and, for the counters of two threads *)
(* and the nuclear reaction of any size, that the sums are exact; and, for *)
(* the programs whose threads hand something over, that it arrives.        *)
(***************************************************************************)
EXTENDS MCThreads, FiniteSetTheorems, SequenceTheorems, TLAPS

(* What was pushed and has not run is queued, in order, and the worker     *)
(* decides about a queue that is not empty, or about a flag.               *)
ObjectTypeOK ==
    /\ m_tasks \in Seq(Nat) /\ ran \in Seq(Nat)
    /\ m_stopped \in BOOLEAN
    /\ worker_pc \in AO!Places
    /\ stopping \in {"idle", "raised", "joining", "done"}
    /\ added \in Nat /\ early \in Nat

QueueInv ==
    /\ added = Len(ran) + Len(m_tasks)
    /\ \A i \in 1..Len(ran) : ran[i] = i
    /\ \A i \in 1..Len(m_tasks) : m_tasks[i] = Len(ran) + i
    /\ worker_pc = "decide" /\ m_stopped = FALSE => m_tasks # <<>>

(* What was pushed early has run when the worker has left: it does not     *)
(* leave before the flag is raised, nor with a task in the queue.          *)
EarlyInv ==
    /\ m_stopped = TRUE <=> stopping # "idle"
    /\ m_stopped = TRUE => early <= added
    /\ worker_pc \in {"drain", "exited"} => m_stopped = TRUE
    /\ worker_pc = "exited" => Len(ran) >= early
    /\ stopping = "done" => worker_pc = "exited"

ObjectInv == ObjectTypeOK /\ QueueInv /\ EarlyInv

(* A task moves from the queue to those that ran. *)
LEMMA TaskRuns ==
    ASSUME ObjectTypeOK, QueueInv, m_tasks # <<>>,
           m_tasks' = Tail(m_tasks), ran' = Append(ran, Head(m_tasks)), UNCHANGED added,
           worker_pc' # "decide"
    PROVE  /\ m_tasks' \in Seq(Nat) /\ ran' \in Seq(Nat) /\ QueueInv'
           /\ Len(ran') >= Len(ran)
<1>1. /\ m_tasks \in Seq(Nat) /\ ran \in Seq(Nat) /\ Len(m_tasks) \in Nat /\ Len(ran) \in Nat
  BY DEF ObjectTypeOK
<1>2. /\ Len(m_tasks) > 0 /\ Head(m_tasks) = m_tasks[1] /\ Head(m_tasks) \in Nat
      /\ m_tasks' \in Seq(Nat) /\ Len(m_tasks') = Len(m_tasks) - 1
      /\ \A i \in 1..Len(m_tasks') : m_tasks'[i] = m_tasks[i + 1]
  BY <1>1, HeadTailProperties
<1>3. /\ ran' \in Seq(Nat) /\ Len(ran') = Len(ran) + 1
      /\ \A i \in 1..Len(ran) : ran'[i] = ran[i]
      /\ ran'[Len(ran) + 1] = Head(m_tasks)
  BY <1>1, <1>2, AppendProperties
<1>4. Head(m_tasks) = Len(ran) + 1
  BY <1>1, <1>2 DEF QueueInv
<1>5. \A i \in 1..Len(ran') : ran'[i] = i
  BY <1>1, <1>3, <1>4 DEF QueueInv
<1>6. \A i \in 1..Len(m_tasks') : m_tasks'[i] = Len(ran') + i
  BY <1>1, <1>2, <1>3 DEF QueueInv
<1>7. added' = Len(ran') + Len(m_tasks')
  BY <1>1, <1>2, <1>3 DEF QueueInv
<1> QED
  BY <1>1, <1>2, <1>3, <1>5, <1>6, <1>7 DEF QueueInv

(* Only doSomething, and the worker when it takes a task, touch the queue. *)
LEMMA ObjectStep ==
    ASSUME ObjectInv, [Next]_vars
    PROVE  ObjectInv'
<1> USE DEF AO!Quiet, AO!Goto, AO!Places
<1>0. ObjectTypeOK /\ QueueInv /\ EarlyInv
  BY DEF ObjectInv
<1>1. CASE UNCHANGED objectVars
  BY <1>0, <1>1 DEF objectVars, ObjectInv, ObjectTypeOK, QueueInv, EarlyInv
<1>2. ASSUME NEW c \in Callers, AO!LockGuard(c) PROVE ObjectInv'
  BY <1>0, <1>2 DEF AO!LockGuard, ObjectInv, ObjectTypeOK, QueueInv, EarlyInv
<1>3. ASSUME NEW c \in Callers, AO!doSomething(c) PROVE ObjectInv'
  <2>1. /\ added' = added + 1 /\ m_tasks' = Append(m_tasks, added')
        /\ worker_pc' = (IF worker_pc = "waiting" THEN "lock" ELSE worker_pc)
        /\ UNCHANGED <<m_stopped, stopping, early, ran>>
    BY <1>3 DEF AO!doSomething, AO!Notify
  <2>2. /\ m_tasks \in Seq(Nat) /\ added' \in Nat /\ Len(m_tasks) \in Nat /\ Len(ran) \in Nat
    BY <1>0, <2>1 DEF ObjectTypeOK
  <2>3. /\ m_tasks' \in Seq(Nat) /\ Len(m_tasks') = Len(m_tasks) + 1
        /\ \A i \in 1..Len(m_tasks) : m_tasks'[i] = m_tasks[i]
        /\ m_tasks'[Len(m_tasks) + 1] = added'
    BY <2>1, <2>2, AppendProperties
  <2>4. ObjectTypeOK'
    BY <1>0, <2>1, <2>2, <2>3 DEF ObjectTypeOK
  <2>5. added' = Len(ran) + (Len(m_tasks) + 1)
    BY <1>0, <2>1, <2>2 DEF QueueInv
  <2>6. \A i \in 1..Len(m_tasks') : m_tasks'[i] = Len(ran) + i
    <3>1. \A i \in 1..Len(m_tasks) : m_tasks'[i] = Len(ran) + i
      BY <1>0, <2>3 DEF QueueInv
    <3>2. m_tasks'[Len(m_tasks) + 1] = Len(ran) + (Len(m_tasks) + 1)
      BY <2>3, <2>5
    <3> HIDE DEF AO!Places
    <3>3. ASSUME NEW i \in 1..Len(m_tasks') PROVE i \in 1..Len(m_tasks) \/ i = Len(m_tasks) + 1
      BY <2>2, <2>3
    <3> QED
      BY <3>1, <3>2, <3>3
  <2>7. m_tasks' # <<>>
    BY <2>2, <2>3
  <2>8. QueueInv'
    BY <1>0, <2>1, <2>2, <2>3, <2>5, <2>6, <2>7 DEF QueueInv
  <2>9. EarlyInv'
    BY <1>0, <2>1 DEF EarlyInv, ObjectTypeOK
  <2> QED
    BY <2>4, <2>8, <2>9 DEF ObjectInv
<1>4. CASE AO!StopRaises
  BY <1>0, <1>4 DEF AO!StopRaises, ObjectInv, ObjectTypeOK, QueueInv, EarlyInv
<1>5. CASE AO!StopNotifies
  BY <1>0, <1>5 DEF AO!StopNotifies, AO!Notify, ObjectInv, ObjectTypeOK, QueueInv, EarlyInv
<1>6. CASE AO!StopJoins
  BY <1>0, <1>6 DEF AO!StopJoins, ObjectInv, ObjectTypeOK, QueueInv, EarlyInv
<1>7. CASE AO!OuterTest \/ AO!Lock \/ AO!InnerTest \/ AO!Wait \/ AO!SpuriousWake \/ AO!Break \/ AO!Ran
  BY <1>0, <1>7 DEF AO!OuterTest, AO!Lock, AO!InnerTest, AO!Wait, AO!SpuriousWake, AO!Break,
                    AO!Ran, ObjectInv, ObjectTypeOK, QueueInv, EarlyInv
<1>8. CASE AO!Take
  <2>1. /\ m_tasks # <<>> /\ worker_pc = "decide" /\ worker_pc' = "running"
        /\ UNCHANGED <<m_stopped, stopping, added, early>>
    BY <1>0, <1>8 DEF AO!Take, QueueInv, ObjectTypeOK
  <2>2. /\ m_tasks' \in Seq(Nat) /\ ran' \in Seq(Nat) /\ QueueInv'
    <3>1. /\ m_tasks' = Tail(m_tasks) /\ ran' = Append(ran, Head(m_tasks))
          /\ worker_pc' # "decide"
      BY <1>8 DEF AO!Take
    <3> QED
      BY <1>0, <2>1, <3>1, TaskRuns
  <2> QED
    BY <1>0, <2>1, <2>2 DEF ObjectInv, ObjectTypeOK, EarlyInv
<1>9. CASE AO!Drain
  <2>1. CASE worker_pc' = "exited"
    <3>1. /\ worker_pc = "drain" /\ m_tasks = <<>>
          /\ UNCHANGED <<m_tasks, m_stopped, stopping, added, early, ran>>
      BY <1>9, <2>1 DEF AO!Drain
    <3>2. Len(ran) >= early
      BY <1>0, <3>1 DEF QueueInv, EarlyInv, ObjectTypeOK
    <3> QED
      BY <1>0, <2>1, <3>1, <3>2 DEF ObjectInv, ObjectTypeOK, QueueInv, EarlyInv
  <2>2. CASE worker_pc' # "exited"
    <3>1. /\ worker_pc' = "drain" /\ worker_pc = "drain" /\ m_tasks # <<>>
          /\ m_tasks' = Tail(m_tasks) /\ ran' = Append(ran, Head(m_tasks))
          /\ UNCHANGED <<m_stopped, stopping, added, early>>
      BY <1>9, <2>2 DEF AO!Drain
    <3>2. m_tasks' \in Seq(Nat) /\ ran' \in Seq(Nat) /\ QueueInv'
      BY <1>0, <3>1, TaskRuns
    <3> QED
      BY <1>0, <3>1, <3>2 DEF ObjectInv, ObjectTypeOK, EarlyInv
  <2> QED
    BY <2>1, <2>2
<1>10. CASE AO!Next
  BY <1>2, <1>3, <1>4, <1>5, <1>6, <1>7, <1>8, <1>9, <1>10 DEF AO!Next, AO!workerThread
<1>11. UNCHANGED objectVars \/ AO!Next
  BY DEF Next, vars, Step, Spurious, ActiveObject
<1> QED
  BY <1>1, <1>10, <1>11

(* At first nothing was pushed. *)
LEMMA ObjectInit == Init => ObjectInv
<1> SUFFICES ASSUME Init PROVE ObjectInv
  OBVIOUS
<1>1. AO!Init
  BY DEF Init
<1>2. /\ m_tasks = <<>> /\ ran = <<>> /\ m_stopped = FALSE /\ worker_pc = "test"
      /\ stopping = "idle" /\ added = 0 /\ early = 0
  BY <1>1 DEF AO!Init
<1>3. <<>> \in Seq(Nat) /\ Len(<<>>) = 0 /\ 1..Len(<<>>) = {}
  OBVIOUS
<1>4. ObjectTypeOK
  BY <1>2, <1>3 DEF ObjectTypeOK, AO!Places
<1>5. QueueInv
  BY <1>2, <1>3 DEF QueueInv
<1>6. EarlyInv
  BY <1>2 DEF EarlyInv
<1> QED
  BY <1>4, <1>5, <1>6 DEF ObjectInv

(* stop returns when the tasks that were pushed before it have run, in     *)
(* order.                                                                  *)
THEOREM StopRunsThem == Spec => []StopRunsTheRest
<1>1. ObjectInv => StopRunsTheRest
  BY DEF ObjectInv, QueueInv, EarlyInv, StopRunsTheRest, AO!StopRunsTheRest
<1> QED
  BY ObjectInit, ObjectStep, <1>1, PTL DEF Spec

-----------------------------------------------------------------------------
(* Nobody is early: the programs where one thread waits for another.       *)

(* The threads of the program that runs take steps, or wake. *)
LEMMA ThreadStep ==
    ASSUME [Next]_vars
    PROVE  /\ program' = program
           /\ UNCHANGED threadVars \/ \E t \in Threads : Step(t) \/ SpuriousWake(t)
<1>1. CASE UNCHANGED vars
  BY <1>1 DEF vars
<1>2. ASSUME NEW t \in Threads, Step(t) \/ Spurious(t)
      PROVE  program' = program /\ (Step(t) \/ SpuriousWake(t))
  BY <1>2 DEF Step, Spurious
<1>3. CASE ActiveObject(AO!Next)
  BY <1>3 DEF ActiveObject
<1> QED
  BY <1>1, <1>2, <1>3 DEF Next

-----------------------------------------------------------------------------
(* The barrier: its counter counts the threads that are before it.         *)

Before == {"none", "begin", "count"}
Past == {"leave", "run", "print", "end"}
Missing == {t \in 1..TotalThreads : pc[t] \in Before}

BarrierInv ==
    /\ pc = [s \in Threads |-> pc[s]]
    /\ \A t \in Threads : t \notin 0..TotalThreads => pc[t] = "none"
    /\ mem = [m_count |-> Cardinality(Missing)]
    /\ \A t \in 1..TotalThreads : pc[t] \in Past => mem.m_count = 0
    /\ pc[0] = "begin" => \A t \in 1..TotalThreads : pc[t] = "none"

(* So there are finitely many of them. *)
LEMMA MissingFinite == IsFiniteSet(Missing) /\ Cardinality(Missing) \in Nat
<1>1. IsFiniteSet(1..TotalThreads)
  BY BarrierAssumption, FS_Interval
<1> QED
  BY <1>1, FS_Subset, FS_CardinalityType DEF Missing

(* At first all are. *)
LEMMA BarrierStart == BarrierInit => BarrierInv
<1> SUFFICES ASSUME BarrierInit PROVE BarrierInv
  OBVIOUS
<1> USE ThreadsAssumption, BarrierAssumption
<1>1. /\ pc = [t \in Threads |-> IF t = 0 THEN "begin" ELSE "none"]
      /\ mem = [m_count |-> TotalThreads]
  BY DEF BarrierInit, ThreadInit
<1>2. \A t \in 1..TotalThreads : t \in Threads /\ t # 0
  OBVIOUS
<1>3. Missing = 1..TotalThreads
  BY <1>1, <1>2 DEF Missing, Before
<1>4. Cardinality(Missing) = TotalThreads
  BY <1>3, FS_Interval
<1>5. \A t \in Threads : t \notin 0..TotalThreads => t # 0
  OBVIOUS
<1>6. \A t \in 1..TotalThreads : pc[t] = "none"
  BY <1>1, <1>2
<1>7. \A t \in Threads : t \notin 0..TotalThreads => pc[t] = "none"
  BY <1>1, <1>5
<1>8. pc = [s \in Threads |-> pc[s]]
  BY <1>1
<1> QED
  BY <1>1, <1>4, <1>6, <1>7, <1>8 DEF BarrierInv, Past

(* A thread that does not count is missing if it was, and passes only when *)
(* nobody is.                                                              *)
LEMMA BarrierMove ==
    ASSUME BarrierInv, NEW t \in 1..TotalThreads, NEW a, NEW b, Go(t, a, b), mem' = mem,
           a # "none", a \in Before <=> b \in Before, b \in Past => a \in Past \/ mem.m_count = 0
    PROVE  BarrierInv'
<1> USE BarrierAssumption
<1>1. /\ pc = [s \in Threads |-> pc[s]] /\ t \in Threads /\ t # 0
      /\ pc[t] = a /\ pc' = [pc EXCEPT ![t] = b]
  BY DEF BarrierInv, Go
<1>2. \A s \in Threads : pc'[s] = IF s = t THEN b ELSE pc[s]
  BY <1>1
<1>3. Missing' = Missing
  BY <1>1, <1>2 DEF Missing
<1>4. \A s \in Threads : s \notin 0..TotalThreads => pc'[s] = "none"
  BY <1>2 DEF BarrierInv
<1>5. \A s \in 1..TotalThreads : pc'[s] \in Past => mem'.m_count = 0
  BY <1>1, <1>2 DEF BarrierInv
<1>6. pc' = [s \in Threads |-> pc'[s]]
  BY <1>1
<1>7. pc'[0] # "begin"
  BY <1>1, <1>2, ThreadsAssumption DEF BarrierInv
<1> QED
  BY <1>3, <1>4, <1>5, <1>6, <1>7 DEF BarrierInv

(* The steps of a thread at the barrier. *)
LEMMA BarrierStep ==
    ASSUME BarrierInv, NEW t \in Threads, t # 0, RunAtSameTime(t)
    PROVE  BarrierInv'
<1> USE BarrierAssumption
<1>1. pc = [s \in Threads |-> pc[s]]
  BY DEF BarrierInv
<1>2. t \in 1..TotalThreads
  <2>1. pc[t] # "none"
    BY DEF RunAtSameTime, Barrier, Lock, Unlock, Do, When, NotifyAll, WaitUntil, Block, Relock, Go
  <2>2. t \in 0..TotalThreads
    BY <2>1 DEF BarrierInv
  <2> QED
    BY <2>2
<1>3. CASE Do(t, "count", [mem EXCEPT !.m_count = @ - 1], "decide")
  <2>1. /\ t \in Threads /\ pc[t] = "count" /\ pc' = [pc EXCEPT ![t] = "decide"]
        /\ mem' = [mem EXCEPT !.m_count = mem.m_count - 1]
    BY <1>3 DEF Do, Go
  <2>2. \A s \in Threads : pc'[s] = IF s = t THEN "decide" ELSE pc[s]
    BY <1>1, <2>1
  <2>3. Missing' = Missing \ {t} /\ t \in Missing
    BY <1>2, <2>1, <2>2 DEF Missing, Before
  <2>4. Cardinality(Missing') = Cardinality(Missing) - 1
    BY <2>3, MissingFinite, FS_RemoveElement
  <2>5. mem.m_count = Cardinality(Missing) /\ mem = [m_count |-> Cardinality(Missing)]
    BY DEF BarrierInv
  <2>6. mem' = [m_count |-> Cardinality(Missing')]
    BY <2>1, <2>4, <2>5
  <2>7. mem.m_count # 0
    BY <2>3, <2>5, MissingFinite, FS_EmptySet
  <2>8. \A s \in 1..TotalThreads : pc'[s] \notin Past
    BY <2>2, <2>7 DEF BarrierInv, Past
  <2>9. \A s \in Threads : s \notin 0..TotalThreads => pc'[s] = "none"
    <3>1. t \in 0..TotalThreads
      BY <1>2
    <3> QED
      BY <2>2, <3>1 DEF BarrierInv
  <2>10. pc' = [s \in Threads |-> pc'[s]]
    BY <1>1, <2>1
  <2>11. pc'[0] # "begin"
    BY <1>2, <2>1, <2>2, ThreadsAssumption DEF BarrierInv
  <2> QED
    BY <2>6, <2>8, <2>9, <2>10, <2>11 DEF BarrierInv
<1>5. CASE UNCHANGED <<pc, mem>>
  <2>1. Missing' = Missing
    BY <1>5 DEF Missing
  <2> QED
    BY <1>5, <2>1 DEF BarrierInv
<1>6. CASE Lock(t, "begin", "m_mtx", "count")
  BY <1>2, BarrierMove, <1>6 DEF Lock, Before, Past
<1>7. CASE (mem.m_count = 0 /\ NotifyAll(t, "decide", "m_cv", "leave")) \/ (mem.m_count # 0 /\ When(t, "decide", TRUE, "wait"))
  BY <1>2, BarrierMove, <1>7 DEF NotifyAll, When, Before, Past
<1>8. CASE WaitUntil(t, "wait", "m_cv", "m_mtx", mem.m_count = 0, "leave")
  <2>1. CASE When(t, "wait", mem.m_count = 0, "leave")
    BY <1>2, BarrierMove, <2>1 DEF When, Before, Past
  <2>2. CASE Block(t, "wait", "m_cv", "m_mtx")
    BY <1>5, <2>2 DEF Block
  <2>3. CASE Relock(t, "wait", "m_cv", "m_mtx", "wait")
    BY <1>2, BarrierMove, <2>3 DEF Relock, Lock, Before, Past
  <2> QED
    BY <1>8, <2>1, <2>2, <2>3 DEF WaitUntil
<1>9. CASE Unlock(t, "leave", "m_mtx", "run") \/ Lock(t, "run", "printMtx", "print") \/ Unlock(t, "print", "printMtx", "end")
  BY <1>2, BarrierMove, <1>9 DEF Lock, Unlock, Before, Past
<1> QED
  BY <1>3, <1>6, <1>7, <1>8, <1>9 DEF RunAtSameTime, Barrier

(* Main lets the threads begin, and joins them. *)
LEMMA BarrierMainStep == ASSUME BarrierInv, BarrierMain PROVE BarrierInv'
<1> USE ThreadsAssumption, BarrierAssumption
<1>1. pc = [s \in Threads |-> pc[s]] /\ mem' = mem /\ 0 \in Threads
  BY DEF BarrierInv, BarrierMain, Spawn, Join, When
<1>2. CASE Spawn(0, "begin", 1..TotalThreads, "join")
  <2>1. pc' = [s \in Threads |-> IF s = 0 THEN "join" ELSE IF s \in 1..TotalThreads THEN "begin" ELSE pc[s]]
    BY <1>2 DEF Spawn
  <2>2. \A s \in 1..TotalThreads : pc[s] = "none" /\ pc'[s] = "begin"
    <3>1. pc[0] = "begin"
      BY <1>2 DEF Spawn
    <3>2. \A s \in 1..TotalThreads : s # 0 /\ s \in Threads
      OBVIOUS
    <3> QED
      BY <2>1, <3>1, <3>2 DEF BarrierInv
  <2>3. Missing' = Missing
    BY <2>2 DEF Missing, Before
  <2>4. pc' = [s \in Threads |-> pc'[s]] /\ pc'[0] = "join"
    BY <1>1, <2>1
  <2>5. \A s \in Threads : s \notin 0..TotalThreads => pc'[s] = "none"
    <3>1. \A s : s \notin 0..TotalThreads => s # 0 /\ s \notin 1..TotalThreads
      OBVIOUS
    <3> QED
      BY <2>1, <3>1 DEF BarrierInv
  <2> QED
    BY <1>1, <2>2, <2>3, <2>4, <2>5 DEF BarrierInv, Past
<1>3. CASE Join(0, "join", 1..TotalThreads, "end")
  <2>1. pc' = [pc EXCEPT ![0] = "end"]
    BY <1>3 DEF Join, When, Go
  <2>2. \A s \in 1..TotalThreads : pc'[s] = pc[s]
    <3>1. \A s \in 1..TotalThreads : s # 0 /\ s \in Threads
      OBVIOUS
    <3> QED
      BY <1>1, <2>1, <3>1
  <2>3. Missing' = Missing
    BY <2>2 DEF Missing
  <2>4. pc' = [s \in Threads |-> pc'[s]] /\ pc'[0] = "end"
    BY <1>1, <2>1
  <2>5. \A s \in Threads : s \notin 0..TotalThreads => pc'[s] = "none"
    <3>1. \A s : s \notin 0..TotalThreads => s # 0
      BY DEF BarrierInv
    <3> QED
      BY <1>1, <2>1, <3>1 DEF BarrierInv
  <2> QED
    BY <1>1, <2>2, <2>3, <2>4, <2>5 DEF BarrierInv
<1> QED
  BY <1>2, <1>3 DEF BarrierMain

(* Of the programs' steps, these are the barrier's. *)
LEMMA BarrierInductive ==
    ASSUME program = "barrier", BarrierInv, [Next]_vars
    PROVE  BarrierInv'
<1>1. CASE UNCHANGED <<pc, mem>>
  <2>1. Missing' = Missing
    BY <1>1 DEF Missing
  <2> QED
    BY <1>1, <2>1 DEF BarrierInv
<1>2. CASE UNCHANGED threadVars
  BY <1>1, <1>2 DEF threadVars
<1>3. ASSUME NEW t \in Threads, SpuriousWake(t) PROVE BarrierInv'
  BY <1>1, <1>3 DEF SpuriousWake
<1>4. ASSUME NEW t \in Threads, Step(t) PROVE BarrierInv'
  <2>1. (t = 0 /\ BarrierMain) \/ (t # 0 /\ RunAtSameTime(t))
    BY <1>4 DEF Step, Run
  <2> QED
    BY <2>1, BarrierStep, BarrierMainStep
<1> QED
  BY <1>2, <1>3, <1>4, ThreadStep

(* Who is past the barrier knows that none is before it. *)
LEMMA BarrierHolds ==
    ASSUME BarrierInv, NEW s \in 1..TotalThreads, NEW t \in 1..TotalThreads, pc[s] \in Past
    PROVE  pc[t] \notin Before
<1>1. Cardinality(Missing) = 0
  BY DEF BarrierInv
<1>2. Missing = {}
  BY <1>1, MissingFinite, FS_EmptySet
<1> QED
  BY <1>2 DEF Missing

-----------------------------------------------------------------------------
(* Mutexes that are locked by one thread, and not twice by it.             *)

Has(t, m) == <<m, t, 1>> \in held
LockInv ==
    /\ \A h \in held : \E m, t : h = <<m, t, 1>>
    /\ \A m, s, t : Has(s, m) /\ Has(t, m) => s = t

(* Who locks a mutex has it, alone, ... *)
LEMMA LockTaken ==
    ASSUME LockInv, NEW t, NEW a, NEW b, NEW m, Lock(t, a, m, b)
    PROVE  /\ LockInv'
           /\ \A s : ~Has(s, m)
           /\ \A s, n : Has(s, n)' <=> Has(s, n) \/ (s = t /\ n = m)
<1>1. Holders(m) = {} /\ held' = held \union {<<m, t, 1>>}
  BY DEF Lock
<1>2. \A s : ~Has(s, m)
  <2>1. \A s : <<m, s, 1>>[1] = m
    OBVIOUS
  <2> QED
    BY <1>1, <2>1 DEF Has, Holders
<1>3. \A s, n : Has(s, n)' <=> Has(s, n) \/ (s = t /\ n = m)
  BY <1>1 DEF Has
<1>4. LockInv'
  BY <1>1, <1>2, <1>3 DEF LockInv
<1> QED
  BY <1>2, <1>3, <1>4

(* ... and who had it gives it up. *)
LEMMA LockGiven ==
    ASSUME LockInv, NEW t, NEW m, Holds(t, m), held' = Released(t, m)
    PROVE  /\ LockInv'
           /\ Has(t, m)
           /\ \A s, n : Has(s, n)' <=> Has(s, n) /\ ~(s = t /\ n = m)
<1>1. \A h \in held : \E n, s : h = <<n, s, 1>> /\ h[1] = n /\ h[2] = s /\ h[3] = 1 /\ Has(s, n)
  <2> TAKE h \in held
  <2>1. PICK n, s : h = <<n, s, 1>>
    BY DEF LockInv
  <2> QED
    BY <2>1 DEF Has
<1>2. Has(t, m)
  BY <1>1 DEF Holds
<1>3. {h \in Holders(m) : h[2] = t /\ \A g \in Holders(m) : g[2] = t => g[3] <= h[3]} = {<<m, t, 1>>}
  <2>1. <<m, t, 1>> \in Holders(m) /\ <<m, t, 1>>[2] = t /\ <<m, t, 1>>[3] = 1
    BY <1>2 DEF Has, Holders
  <2>2. \A g \in Holders(m) : g[3] = 1
    BY <1>1 DEF Holders
  <2>3. \A h \in Holders(m) : h[2] = t => h = <<m, t, 1>>
    BY <1>1 DEF Holders
  <2> QED
    BY <2>1, <2>2, <2>3
<1>4. held' = held \ {<<m, t, 1>>}
  BY <1>3 DEF Released
<1>5. \A s, n : Has(s, n)' <=> Has(s, n) /\ ~(s = t /\ n = m)
  BY <1>4 DEF Has
<1>6. LockInv'
  BY <1>4, <1>5 DEF LockInv
<1> QED
  BY <1>2, <1>5, <1>6

(* At first no mutex is locked. *)
LEMMA StartUnlocked == ASSUME held = {} PROVE LockInv /\ \A t, m : ~Has(t, m)
  BY DEF LockInv, Has

-----------------------------------------------------------------------------
(* The singletons.                                                         *)

SingletonData == [m_instance : BOOLEAN, built : {0, 1}, raw : BOOLEAN, once : {"no", "active", "done"}]

(* Assignments to the fields. *)
LEMMA SingletonFields ==
    ASSUME mem \in SingletonData, NEW e
    PROVE  /\ mem.m_instance \in BOOLEAN /\ mem.built \in {0, 1} /\ mem.raw \in BOOLEAN
           /\ mem.once \in {"no", "active", "done"}
           /\ mem' = [mem EXCEPT !.built = e] /\ e \in {0, 1} =>
                /\ mem' \in SingletonData /\ mem'.built = e
                /\ mem'.m_instance = mem.m_instance /\ mem'.raw = mem.raw /\ mem'.once = mem.once
           /\ mem' = [mem EXCEPT !.m_instance = e] /\ e \in BOOLEAN =>
                /\ mem' \in SingletonData /\ mem'.m_instance = e
                /\ mem'.built = mem.built /\ mem'.raw = mem.raw /\ mem'.once = mem.once
           /\ mem' = [mem EXCEPT !.raw = e] /\ e \in BOOLEAN =>
                /\ mem' \in SingletonData /\ mem'.raw = e
                /\ mem'.built = mem.built /\ mem'.m_instance = mem.m_instance /\ mem'.once = mem.once
           /\ mem' = [mem EXCEPT !.once = e] /\ e \in {"no", "active", "done"} =>
                /\ mem' \in SingletonData /\ mem'.once = e
                /\ mem'.built = mem.built /\ mem'.m_instance = mem.m_instance /\ mem'.raw = mem.raw
  BY DEF SingletonData

(* A thread is inside with the mutex, and the instance is as its place     *)
(* says; between the two writes of whoever makes it, its flag and it       *)
(* differ.                                                                 *)
Inside == {"test", "create", "publish", "build", "unlock"}
Making == {"publish", "build"}
AsPlace(place, m) ==
    /\ place = "create" => m.built = 0 /\ ~m.m_instance
    /\ place = "publish" => m.built = 1 /\ ~m.m_instance
    /\ place = "build" => m.built = 0 /\ m.m_instance
    /\ place = "unlock" => m.built = 1 /\ m.m_instance
Consistent(m) == m.m_instance <=> m.built = 1

MutexSingletonInv ==
    /\ pc = [t \in Threads |-> pc[t]] /\ LockInv /\ mem \in SingletonData
    /\ \A t \in Threads : pc[t] \in Inside => Has(t, "m_mutex") /\ AsPlace(pc[t], mem)
    /\ (\A t \in Threads : pc[t] \notin Making) => Consistent(mem)
    /\ program = "naive" => ~mem.raw /\ \A t \in Threads : pc[t] = "use" => mem.built = 1

(* The first to come creates; who uses it comes behind.                    *)
Creating == {"create", "publish", "build", "created"}
OnceInv ==
    /\ pc = [t \in Threads |-> pc[t]] /\ mem \in SingletonData /\ ~mem.raw
    /\ \A t \in Threads : pc[t] \in Creating => mem.once = "active"
    /\ \A s, t \in Threads : pc[s] \in Creating /\ pc[t] \in Creating => s = t
    /\ \A t \in Threads : pc[t] \in {"create", "build"} => mem.built = 0
    /\ \A t \in Threads : pc[t] \in {"publish", "created", "use"} => mem.built = 1
    /\ mem.once = "no" => mem.built = 0
    /\ mem.once = "done" => mem.built = 1

(* At first there is no instance. *)
LEMMA SingletonStart == SingletonInit => MutexSingletonInv /\ OnceInv
<1> SUFFICES ASSUME SingletonInit PROVE MutexSingletonInv /\ OnceInv
  OBVIOUS
<1>1. /\ pc = [t \in Threads |-> IF t = 0 THEN "begin" ELSE "none"] /\ held = {}
      /\ mem = [m_instance |-> FALSE, built |-> 0, raw |-> FALSE, once |-> "no"]
  BY DEF SingletonInit, ThreadInit
<1>2. mem \in SingletonData /\ ~mem.m_instance /\ mem.built = 0 /\ ~mem.raw /\ mem.once = "no"
  BY <1>1 DEF SingletonData
<1>3. pc = [t \in Threads |-> pc[t]] /\ \A t \in Threads : pc[t] \in {"none", "begin"}
  BY <1>1
<1>4. MutexSingletonInv
  BY <1>1, <1>2, <1>3, StartUnlocked DEF MutexSingletonInv, Inside, Making, Consistent
<1>5. OnceInv
  BY <1>2, <1>3 DEF OnceInv, Creating
<1> QED
  BY <1>4, <1>5

(* The steps of a thread that makes the instance with the mutex. *)
LEMMA UnderMutexStep ==
    ASSUME MutexSingletonInv, NEW t \in Threads, NEW from \in {"begin", "lock"}, UnderMutex(t, from),
           program' = program
    PROVE  MutexSingletonInv'
<1>1. /\ pc = [s \in Threads |-> pc[s]] /\ LockInv /\ mem \in SingletonData
      /\ \A s \in Threads : pc[s] \in Inside => Has(s, "m_mutex") /\ AsPlace(pc[s], mem)
      /\ (\A s \in Threads : pc[s] \notin Making) => Consistent(mem)
      /\ program = "naive" => ~mem.raw /\ \A s \in Threads : pc[s] = "use" => mem.built = 1
  BY DEF MutexSingletonInv
<1>2. \A s \in Threads : pc[s] \in Inside /\ pc[t] \in Inside => s = t
  BY <1>1 DEF LockInv
<1> DEFINE Goes(a, b) == pc[t] = a /\ pc' = [s \in Threads |-> pc'[s]] /\ \A s \in Threads : pc'[s] = IF s = t THEN b ELSE pc[s]
<1>3. \A a, b : Go(t, a, b) => Goes(a, b)
  BY <1>1 DEF Go
<1>4. CASE Lock(t, from, "m_mutex", "test")
  <2>1. Goes(from, "test") /\ mem' = mem
    BY <1>3, <1>4 DEF Lock
  <2>2. LockInv' /\ (\A s : ~Has(s, "m_mutex")) /\ \A s, n : Has(s, n)' <=> Has(s, n) \/ (s = t /\ n = "m_mutex")
    BY <1>1, <1>4, LockTaken
  <2>3. \A s \in Threads : s # t => pc'[s] \notin Inside
    BY <1>1, <2>1, <2>2
  <2>4. \A s \in Threads : pc'[s] \in Inside => Has(s, "m_mutex")' /\ AsPlace(pc'[s], mem')
    BY <2>1, <2>2, <2>3 DEF AsPlace
  <2>5. Consistent(mem')
    BY <1>1, <2>1, <2>2 DEF Consistent, Inside, Making
  <2> QED
    BY <1>1, <2>1, <2>2, <2>4, <2>5 DEF MutexSingletonInv
<1>5. ASSUME UNCHANGED held PROVE LockInv' /\ \A s, n : Has(s, n)' <=> Has(s, n)
  BY <1>1, <1>5 DEF LockInv, Has
<1>6. CASE When(t, "test", ~mem.m_instance, "create") \/ When(t, "test", mem.m_instance, "unlock")
  <2>1. PICK b \in {"create", "unlock"} : /\ Goes("test", b) /\ mem' = mem /\ UNCHANGED held
                                          /\ b = "unlock" <=> mem.m_instance
    BY <1>1, <1>3, <1>6 DEF When, SingletonData
  <2>2. \A s \in Threads : s # t => pc[s] \notin Inside
    BY <1>2, <2>1 DEF Inside
  <2>3. Consistent(mem)
    BY <1>1, <2>1, <2>2 DEF Inside, Making
  <2>4. AsPlace(b, mem')
    BY <1>1, <2>1, <2>3, SingletonFields DEF AsPlace, Consistent
  <2>5. \A s \in Threads : pc'[s] \in Inside => Has(s, "m_mutex")' /\ AsPlace(pc'[s], mem')
    BY <1>1, <1>5, <2>1, <2>2, <2>4 DEF Inside
  <2>6. Consistent(mem')
    BY <2>1, <2>3 DEF Consistent
  <2> QED
    BY <1>1, <1>5, <2>1, <2>5, <2>6 DEF MutexSingletonInv
<1>7. CASE Create(t, "create", "unlock")
  <2>1. PICK a \in {"create", "publish", "build"}, b \in {"publish", "build", "unlock"} :
            /\ Goes(a, b) /\ UNCHANGED held
            /\ mem' \in SingletonData /\ mem'.raw = mem.raw
            /\ \/ a = "create" /\ b = "publish" /\ mem'.built = 1 /\ mem'.m_instance = mem.m_instance
               \/ a = "publish" /\ b = "unlock" /\ mem'.m_instance = TRUE /\ mem'.built = mem.built
               \/ a = "create" /\ b = "build" /\ mem'.m_instance = TRUE /\ mem'.built = mem.built
               \/ a = "build" /\ b = "unlock" /\ mem'.built = 1 /\ mem'.m_instance = mem.m_instance
    <3>1. \A a \in {"create", "build"} : pc[t] = a => mem.built = 0
      BY <1>1 DEF AsPlace, Inside
    <3>2. CASE Do(t, "create", [mem EXCEPT !.built = @ + 1], "publish") \/ Do(t, "build", [mem EXCEPT !.built = @ + 1], "unlock")
      <4>1. mem' = [mem EXCEPT !.built = 1]
        BY <3>1, <3>2 DEF Do, Go
      <4>2. mem' \in SingletonData /\ mem'.built = 1 /\ mem'.m_instance = mem.m_instance /\ mem'.raw = mem.raw
        BY <1>1, <4>1, SingletonFields
      <4> QED
        BY <1>3, <3>2, <4>2 DEF Do
    <3>3. CASE Do(t, "publish", [mem EXCEPT !.m_instance = TRUE], "unlock") \/ Do(t, "create", [mem EXCEPT !.m_instance = TRUE], "build")
      <4>1. mem' = [mem EXCEPT !.m_instance = TRUE]
        BY <3>3 DEF Do
      <4>2. mem' \in SingletonData /\ mem'.m_instance = TRUE /\ mem'.built = mem.built /\ mem'.raw = mem.raw
        BY <1>1, <4>1, SingletonFields
      <4> QED
        BY <1>3, <3>3, <4>2 DEF Do
    <3> QED
      BY <1>7, <3>2, <3>3 DEF Create
  <2>2. AsPlace(a, mem) /\ Has(t, "m_mutex")
    BY <1>1, <2>1 DEF Inside
  <2>3. \A s \in Threads : s # t => pc[s] \notin Inside
    BY <1>2, <2>1 DEF Inside
  <2>4. AsPlace(b, mem')
    BY <2>1, <2>2 DEF AsPlace
  <2>5. \A s \in Threads : pc'[s] \in Inside => Has(s, "m_mutex")' /\ AsPlace(pc'[s], mem')
    BY <1>5, <2>1, <2>2, <2>3, <2>4
  <2>6. (\A s \in Threads : pc'[s] \notin Making) => Consistent(mem')
    BY <2>1, <2>4 DEF Consistent, Making, AsPlace
  <2>7. program = "naive" => ~mem'.raw /\ \A s \in Threads : pc'[s] = "use" => mem'.built = 1
    BY <1>1, <2>1, SingletonFields
  <2> QED
    BY <1>5, <2>1, <2>5, <2>6, <2>7 DEF MutexSingletonInv
<1>8. CASE Unlock(t, "unlock", "m_mutex", "use")
  <2>1. Goes("unlock", "use") /\ mem' = mem
    BY <1>3, <1>8 DEF Unlock
  <2>2. LockInv' /\ Has(t, "m_mutex") /\ \A s, n : Has(s, n)' <=> Has(s, n) /\ ~(s = t /\ n = "m_mutex")
    BY <1>1, <1>8, LockGiven DEF Unlock
  <2>3. \A s \in Threads : s # t => pc[s] \notin Inside
    BY <1>2, <2>1 DEF Inside
  <2>4. \A s \in Threads : pc'[s] \notin Inside
    BY <2>1, <2>3 DEF Inside
  <2>5. Consistent(mem') /\ mem'.built = 1
    BY <1>1, <2>1 DEF AsPlace, Inside, Consistent
  <2> QED
    BY <1>1, <2>1, <2>2, <2>4, <2>5 DEF MutexSingletonInv
<1> QED
  BY <1>4, <1>6, <1>7, <1>8 DEF UnderMutex

(* Before main has spawned them, no other thread has begun. *)
Unstarted == pc[0] = "begin" => \A t \in Threads : t # 0 => pc[t] = "none"

(* A worker that takes a step had begun. *)
LEMMA UnstartedStep ==
    ASSUME pc = [t \in Threads |-> pc[t]], Unstarted, NEW t \in Threads, t # 0,
           pc' = pc \/ \E b : pc' = [pc EXCEPT ![t] = b], pc[t] # "none"
    PROVE  Unstarted'
<1>1. pc'[0] = pc[0]
  <2>1. CASE pc' = pc
    BY <2>1
  <2>2. CASE \E b : pc' = [pc EXCEPT ![t] = b]
    <3>1. PICK b : pc' = [pc EXCEPT ![t] = b]
      BY <2>2
    <3> QED
      BY <3>1, ThreadsAssumption
  <2> QED
    BY <2>1, <2>2
<1> QED
  BY <1>1 DEF Unstarted

(* Main spawns the two threads and joins them. *)
LEMMA TwoThreadsMoves ==
    ASSUME pc = [t \in Threads |-> pc[t]], Unstarted, TwoThreads
    PROVE  /\ UNCHANGED <<held, waiting, mem>>
           /\ pc' = [t \in Threads |-> pc'[t]] /\ Unstarted'
           /\ \A t \in Threads : pc'[t] = pc[t] \/ (pc[t] = "none" /\ pc'[t] = "begin") \/ (t = 0 /\ pc'[t] \in {"join", "end"})
<1> USE ThreadsAssumption
<1>0. 0 \in Threads
  OBVIOUS
<1>1. CASE Spawn(0, "begin", {1, 2}, "join")
  <2>1. /\ pc[0] = "begin" /\ UNCHANGED <<held, waiting, mem>>
        /\ pc' = [s \in Threads |-> IF s = 0 THEN "join" ELSE IF s \in {1, 2} THEN "begin" ELSE pc[s]]
    BY <1>1 DEF Spawn
  <2>2. pc'[0] = "join" /\ pc' = [t \in Threads |-> pc'[t]]
    BY <1>0, <2>1
  <2>3. \A t \in Threads : pc'[t] = pc[t] \/ (pc[t] = "none" /\ pc'[t] = "begin") \/ (t = 0 /\ pc'[t] = "join")
    BY <2>1 DEF Unstarted
  <2> QED
    BY <2>1, <2>2, <2>3 DEF Unstarted
<1>2. CASE Join(0, "join", {1, 2}, "end")
  <2>1. pc' = [pc EXCEPT ![0] = "end"] /\ UNCHANGED <<held, waiting, mem>>
    BY <1>2 DEF Join, When, Go
  <2>2. pc'[0] = "end" /\ pc' = [t \in Threads |-> pc'[t]]
    BY <1>0, <2>1
  <2>3. \A t \in Threads : pc'[t] = pc[t] \/ (t = 0 /\ pc'[t] = "end")
    BY <2>1
  <2> QED
    BY <2>1, <2>2, <2>3 DEF Unstarted
<1> QED
  BY <1>1, <1>2 DEF TwoThreads

(* What does not touch the instance, its mutex or whoever is inside. *)
LEMMA OutsideStep ==
    ASSUME MutexSingletonInv, UNCHANGED <<program, held>>, mem' \in SingletonData,
           mem'.built = mem.built, mem'.m_instance = mem.m_instance,
           program = "naive" => mem'.raw = mem.raw,
           pc' = [t \in Threads |-> pc'[t]],
           \A t \in Threads : pc'[t] = pc[t] \/ (pc[t] \notin Making /\ pc'[t] \notin Inside
                                                 /\ (program = "naive" => pc'[t] # "use"))
    PROVE  MutexSingletonInv'
<1>1. /\ LockInv
      /\ \A s \in Threads : pc[s] \in Inside => Has(s, "m_mutex") /\ AsPlace(pc[s], mem)
      /\ (\A s \in Threads : pc[s] \notin Making) => Consistent(mem)
      /\ program = "naive" => ~mem.raw /\ \A s \in Threads : pc[s] = "use" => mem.built = 1
  BY DEF MutexSingletonInv
<1>2. LockInv' /\ \A s, n : Has(s, n)' <=> Has(s, n)
  BY <1>1 DEF LockInv, Has
<1>3. \A s \in Threads : pc'[s] \in Inside => Has(s, "m_mutex")' /\ AsPlace(pc'[s], mem')
  BY <1>1, <1>2 DEF AsPlace
<1>4. (\A s \in Threads : pc'[s] \notin Making) => Consistent(mem')
  BY <1>1 DEF Consistent
<1>5. program = "naive" => ~mem'.raw /\ \A s \in Threads : pc'[s] = "use" => mem'.built = 1
  BY <1>1
<1> QED
  BY <1>2, <1>3, <1>4, <1>5 DEF MutexSingletonInv

(* The naive and the double-checked singleton keep their invariant. *)
LEMMA MutexSingletonInductive ==
    ASSUME program \in {"naive", "double checked"}, MutexSingletonInv, Unstarted, [Next]_vars
    PROVE  MutexSingletonInv' /\ Unstarted'
<1>1. /\ pc = [t \in Threads |-> pc[t]] /\ mem \in SingletonData
      /\ program = "naive" => ~mem.raw /\ \A t \in Threads : pc[t] = "use" => mem.built = 1
  BY DEF MutexSingletonInv
<1>2. program' = program
  BY ThreadStep
<1>3. CASE UNCHANGED <<pc, held, mem>>
  BY <1>1, <1>2, <1>3, OutsideStep DEF Unstarted
<1>4. ASSUME NEW t \in Threads, SpuriousWake(t) PROVE MutexSingletonInv' /\ Unstarted'
  BY <1>3, <1>4 DEF SpuriousWake
<1>5. CASE TwoThreads
  <2>1. /\ UNCHANGED <<held, waiting, mem>>
        /\ pc' = [t \in Threads |-> pc'[t]] /\ Unstarted'
        /\ \A t \in Threads : pc'[t] = pc[t] \/ (pc[t] = "none" /\ pc'[t] = "begin") \/ (t = 0 /\ pc'[t] \in {"join", "end"})
    BY <1>1, <1>5, TwoThreadsMoves
  <2>2. pc[0] \in {"begin", "join"}
    BY <1>5 DEF TwoThreads, Spawn, Join, When, Go
  <2>3. \A t \in Threads : pc'[t] = pc[t] \/ (pc[t] \notin Making /\ pc'[t] \notin Inside /\ pc'[t] # "use")
    BY <2>1, <2>2 DEF Making, Inside
  <2> QED
    BY <1>1, <1>2, <2>1, <2>3, OutsideStep
<1>6. ASSUME NEW t \in Threads, t # 0, doSomething(t) PROVE MutexSingletonInv' /\ Unstarted'
  <2>1. /\ pc[t] = "use" /\ pc' = [pc EXCEPT ![t] = "end"] /\ UNCHANGED held
        /\ mem' = [mem EXCEPT !.raw = mem.raw \/ mem.built = 0]
    BY <1>6 DEF doSomething, Do, Go
  <2>2. PICK e \in BOOLEAN : e = (mem.raw \/ mem.built = 0)
    OBVIOUS
  <2>3. /\ mem' \in SingletonData /\ mem'.raw = e
        /\ mem'.built = mem.built /\ mem'.m_instance = mem.m_instance
    <3>1. mem' = [mem EXCEPT !.raw = e]
      BY <2>1, <2>2
    <3> QED
      BY <1>1, <3>1, SingletonFields
  <2>4. program = "naive" => mem'.raw = mem.raw
    <3>1. program = "naive" => ~mem.raw /\ mem.built # 0
      BY <1>1, <2>1
    <3>2. program = "naive" => ~e
      BY <2>2, <3>1
    <3>3. mem.raw \in BOOLEAN
      BY <1>1, SingletonFields
    <3> QED
      BY <2>3, <3>1, <3>2, <3>3
  <2>5. pc' = [s \in Threads |-> pc'[s]] /\ \A s \in Threads : pc'[s] = IF s = t THEN "end" ELSE pc[s]
    BY <1>1, <2>1
  <2>6. Unstarted'
    BY <1>1, <1>6, <2>1, UnstartedStep
  <2> QED
    BY <1>2, <2>1, <2>3, <2>4, <2>5, <2>6, OutsideStep DEF Making, Inside
<1>7. ASSUME NEW t \in Threads, t # 0, NEW from \in {"begin", "lock"}, UnderMutex(t, from)
      PROVE  MutexSingletonInv' /\ Unstarted'
  <2>1. pc[t] # "none" /\ \E b : pc' = [pc EXCEPT ![t] = b]
    BY <1>7 DEF UnderMutex, Lock, Unlock, When, Create, Do, Go
  <2> QED
    BY <1>1, <1>2, <1>7, <2>1, UnstartedStep, UnderMutexStep
<1>8. ASSUME NEW t \in Threads, t # 0, program = "double checked",
             When(t, "begin", ~mem.m_instance, "lock") \/ When(t, "begin", mem.m_instance, "use")
      PROVE  MutexSingletonInv' /\ Unstarted'
  <2>1. PICK b \in {"lock", "use"} : pc[t] = "begin" /\ pc' = [pc EXCEPT ![t] = b] /\ UNCHANGED <<held, mem>>
    BY <1>8 DEF When, Go
  <2>2. pc' = [s \in Threads |-> pc'[s]] /\ \A s \in Threads : pc'[s] = IF s = t THEN b ELSE pc[s]
    BY <1>1, <2>1
  <2>3. Unstarted'
    BY <1>1, <1>8, <2>1, UnstartedStep
  <2> QED
    BY <1>1, <1>2, <1>8, <2>1, <2>2, <2>3, OutsideStep DEF Making, Inside
<1>9. ASSUME NEW t \in Threads, Step(t) PROVE MutexSingletonInv' /\ Unstarted'
  <2>1. \/ t = 0 /\ TwoThreads
        \/ t # 0 /\ program = "naive" /\ NaiveImpl(t)
        \/ t # 0 /\ program = "double checked" /\ DoubleCheckedLock(t)
    BY <1>9 DEF Step, Run
  <2> QED
    BY <1>5, <1>6, <1>7, <1>8, <2>1 DEF NaiveImpl, DoubleCheckedLock
<1> QED
  BY <1>3, <1>4, <1>9, ThreadStep DEF threadVars

(* The steps of std::call_once. *)
LEMMA CallOnceStep ==
    ASSUME OnceInv, NEW t \in Threads, CallOnce(t) PROVE OnceInv'
<1>1. /\ pc = [s \in Threads |-> pc[s]] /\ mem \in SingletonData /\ ~mem.raw
      /\ \A s \in Threads : pc[s] \in Creating => mem.once = "active"
      /\ \A s \in Threads : \A u \in Threads : pc[s] \in Creating /\ pc[u] \in Creating => s = u
      /\ \A s \in Threads : pc[s] \in {"create", "build"} => mem.built = 0
      /\ \A s \in Threads : pc[s] \in {"publish", "created", "use"} => mem.built = 1
      /\ mem.once = "no" => mem.built = 0
      /\ mem.once = "done" => mem.built = 1
  BY DEF OnceInv
<1> DEFINE Goes(a, b) == pc[t] = a /\ pc' = [s \in Threads |-> pc'[s]] /\ \A s \in Threads : pc'[s] = IF s = t THEN b ELSE pc[s]
<1>2. \A a, b : Go(t, a, b) => Goes(a, b)
  BY <1>1 DEF Go
<1>3. CASE mem.once = "no" /\ Do(t, "begin", [mem EXCEPT !.once = "active"], "create")
  <2>1. Goes("begin", "create") /\ mem' = [mem EXCEPT !.once = "active"]
    BY <1>2, <1>3 DEF Do
  <2>2. /\ mem' \in SingletonData /\ mem'.once = "active" /\ mem'.built = mem.built /\ mem'.raw = mem.raw
    BY <1>1, <2>1, SingletonFields
  <2>3. \A s \in Threads : pc[s] \notin Creating
    BY <1>1, <1>3
  <2> QED
    BY <1>1, <1>3, <2>1, <2>2, <2>3 DEF OnceInv, Creating
<1>4. CASE Create(t, "create", "created")
  <2>1. PICK a \in {"create", "publish", "build"}, b \in {"publish", "build", "created"} :
            /\ Goes(a, b)
            /\ mem' \in SingletonData /\ mem'.raw = mem.raw /\ mem'.once = mem.once
            /\ \/ a \in {"create", "build"} /\ b \in {"publish", "created"} /\ mem'.built = 1
               \/ a = "publish" /\ b = "created" /\ mem'.built = mem.built
               \/ a = "create" /\ b = "build" /\ mem'.built = mem.built
    <3>1. \A a \in {"create", "build"} : pc[t] = a => mem.built = 0
      BY <1>1
    <3>2. CASE Do(t, "create", [mem EXCEPT !.built = @ + 1], "publish") \/ Do(t, "build", [mem EXCEPT !.built = @ + 1], "created")
      <4>1. mem' = [mem EXCEPT !.built = 1]
        BY <3>1, <3>2 DEF Do, Go
      <4>2. mem' \in SingletonData /\ mem'.built = 1 /\ mem'.once = mem.once /\ mem'.raw = mem.raw
        BY <1>1, <4>1, SingletonFields
      <4> QED
        BY <1>2, <3>2, <4>2 DEF Do
    <3>3. CASE Do(t, "publish", [mem EXCEPT !.m_instance = TRUE], "created") \/ Do(t, "create", [mem EXCEPT !.m_instance = TRUE], "build")
      <4>1. mem' = [mem EXCEPT !.m_instance = TRUE]
        BY <3>3 DEF Do
      <4>2. mem' \in SingletonData /\ mem'.once = mem.once /\ mem'.built = mem.built /\ mem'.raw = mem.raw
        BY <1>1, <4>1, SingletonFields
      <4> QED
        BY <1>2, <3>3, <4>2 DEF Do
    <3> QED
      BY <1>4, <3>2, <3>3 DEF Create
  <2>2. \A s \in Threads : s # t => pc[s] \notin Creating
    BY <1>1, <2>1 DEF Creating
  <2>3. mem.once = "active"
    BY <1>1, <2>1 DEF Creating
  <2> QED
    BY <1>1, <2>1, <2>2, <2>3 DEF OnceInv, Creating
<1>5. CASE Do(t, "created", [mem EXCEPT !.once = "done"], "use")
  <2>1. Goes("created", "use") /\ mem' = [mem EXCEPT !.once = "done"]
    BY <1>2, <1>5 DEF Do
  <2>2. /\ mem' \in SingletonData /\ mem'.once = "done" /\ mem'.built = mem.built /\ mem'.raw = mem.raw
    BY <1>1, <2>1, SingletonFields
  <2>3. \A s \in Threads : s # t => pc[s] \notin Creating
    BY <1>1, <2>1 DEF Creating
  <2>4. mem.built = 1
    BY <1>1, <2>1
  <2> QED
    BY <1>1, <2>1, <2>2, <2>3, <2>4 DEF OnceInv, Creating
<1>6. CASE When(t, "begin", mem.once = "done", "use")
  <2>1. Goes("begin", "use") /\ mem' = mem /\ mem.once = "done"
    BY <1>2, <1>6 DEF When
  <2> QED
    BY <1>1, <2>1 DEF OnceInv, Creating
<1>7. CASE doSomething(t)
  <2>1. Goes("use", "end") /\ mem' = [mem EXCEPT !.raw = mem.raw \/ mem.built = 0]
    BY <1>2, <1>7 DEF doSomething, Do
  <2>2. (mem.raw \/ mem.built = 0) = FALSE
    BY <1>1, <2>1
  <2>3. /\ mem' \in SingletonData /\ mem'.once = mem.once /\ mem'.built = mem.built /\ ~mem'.raw
    BY <1>1, <2>1, <2>2, SingletonFields
  <2> QED
    BY <1>1, <2>1, <2>3 DEF OnceInv, Creating
<1> QED
  BY <1>3, <1>4, <1>5, <1>6, <1>7 DEF CallOnce

(* So does the one behind call_once. *)
LEMMA OnceInductive ==
    ASSUME program = "once", OnceInv, Unstarted, [Next]_vars
    PROVE  OnceInv' /\ Unstarted'
<1>1. pc = [t \in Threads |-> pc[t]]
  BY DEF OnceInv
<1>2. CASE UNCHANGED <<pc, mem>>
  BY <1>2 DEF OnceInv, Unstarted
<1>3. ASSUME NEW t \in Threads, SpuriousWake(t) PROVE OnceInv' /\ Unstarted'
  BY <1>2, <1>3 DEF SpuriousWake
<1>4. CASE TwoThreads
  <2>1. /\ UNCHANGED <<held, waiting, mem>>
        /\ pc' = [t \in Threads |-> pc'[t]] /\ Unstarted'
        /\ \A t \in Threads : pc'[t] = pc[t] \/ (pc[t] = "none" /\ pc'[t] = "begin") \/ (t = 0 /\ pc'[t] \in {"join", "end"})
    BY <1>1, <1>4, TwoThreadsMoves
  <2>2. \A t \in Threads : pc'[t] = pc[t] \/ (pc'[t] \notin Creating /\ pc'[t] # "use")
    BY <2>1 DEF Creating
  <2> QED
    BY <2>1, <2>2 DEF OnceInv, Creating
<1>5. ASSUME NEW t \in Threads, t # 0, CallOnce(t) PROVE OnceInv' /\ Unstarted'
  <2>1. pc[t] # "none" /\ \E b : pc' = [pc EXCEPT ![t] = b]
    BY <1>5 DEF CallOnce, Create, doSomething, When, Do, Go
  <2> QED
    BY <1>1, <1>5, <2>1, UnstartedStep, CallOnceStep
<1>6. ASSUME NEW t \in Threads, Step(t) PROVE OnceInv' /\ Unstarted'
  <2>1. (t = 0 /\ TwoThreads) \/ (t # 0 /\ CallOnce(t))
    BY <1>6 DEF Step, Run
  <2> QED
    BY <1>4, <1>5, <2>1
<1> QED
  BY <1>2, <1>3, <1>6, ThreadStep DEF threadVars

-----------------------------------------------------------------------------
(* The state of a promise: TaskState.                                      *)

StateFieldsOf(m) ==
    /\ m = [mData |-> m.mData, mIsComplete |-> m.mIsComplete, mOnComplete |-> m.mOnComplete,
            called |-> m.called, late |-> m.late, saw |-> m.saw]
    /\ m.saw = [t \in {1, 4} |-> m.saw[t]]
    /\ m.mIsComplete \in BOOLEAN

(* Who is at one of these places has the mutex.                            *)
Guarded == {"test", "unlock", "then", "then_set", "data", "flag", "notify", "handler", "unlock2", "look"}
GuardInv ==
    /\ pc = [t \in Threads |-> pc[t]] /\ LockInv
    /\ \A t \in 1..4 : pc[t] \in Guarded => Has(t, "mMutex")

(* The thread that sets the result is at this place: the flag is up with   *)
(* the notification, the result behind it, and then the handler called.    *)
Raised == {"notify", "handler", "unlock2", "end"}
Stage(place, m) ==
    /\ m.mIsComplete <=> place \in Raised
    /\ place \in Raised \union {"unlock", "raise", "flag"} => m.mData = "result"
    /\ place \notin {"unlock2", "end"} => m.called = 0
    /\ place \in {"unlock2", "end"} /\ m.mOnComplete /\ ~m.late => m.called = 1

(* Who sees that the state is complete sees what its comment promises.     *)
Seen(place, m) ==
    \A t \in {1, 4} : m.saw[t] # <<>> =>
        /\ place = "end"
        /\ m.saw[t][1] = "result"
        /\ m.mOnComplete /\ ~m.late => m.saw[t][2] = 1

StateInv == GuardInv /\ StateFieldsOf(mem) /\ Stage(pc[3], mem) /\ Seen(pc[3], mem)

(* At first the state is not complete. *)
LEMMA StateStart == StateInit => StateInv
<1> SUFFICES ASSUME StateInit PROVE StateInv
  OBVIOUS
<1>1. /\ pc = [t \in Threads |-> IF t = 0 THEN "begin" ELSE "none"] /\ held = {}
      /\ mem = [mData |-> "none", mIsComplete |-> FALSE, mOnComplete |-> FALSE,
                called |-> 0, late |-> FALSE, saw |-> [t \in {1, 4} |-> <<>>]]
  BY DEF StateInit, ThreadInit
<1>2. \A t \in 1..4 : t \in Threads /\ t # 0
  BY ThreadsAssumption
<1>3. \A t \in 1..4 : pc[t] = "none"
  BY <1>1, <1>2
<1>4. GuardInv
  BY <1>1, <1>3, StartUnlocked DEF GuardInv, Guarded
<1>5. StateFieldsOf(mem)
  BY <1>1 DEF StateFieldsOf
<1>6. pc[3] = "none"
  BY <1>3
<1>7. Stage(pc[3], mem) /\ Seen(pc[3], mem)
  BY <1>1, <1>6 DEF Stage, Seen, Raised
<1> QED
  BY <1>4, <1>5, <1>7 DEF StateInv

(* How a step of a thread leaves the mutex. *)
LEMMA GuardStep ==
    ASSUME GuardInv, NEW t \in 1..4, NEW a, NEW b, Go(t, a, b),
           \/ UNCHANGED held /\ (b \in Guarded => a \in Guarded)
           \/ Lock(t, a, "mMutex", b)
           \/ Unlock(t, a, "mMutex", b) /\ b \notin Guarded
    PROVE  /\ GuardInv'
           /\ \A s \in Threads : pc'[s] = IF s = t THEN b ELSE pc[s]
<1>1. pc = [s \in Threads |-> pc[s]] /\ LockInv /\ \A s \in 1..4 : s \in Threads
  BY ThreadsAssumption DEF GuardInv
<1>2. pc[t] = a /\ pc' = [pc EXCEPT ![t] = b]
  BY DEF Go
<1>3. pc' = [s \in Threads |-> pc'[s]] /\ \A s \in Threads : pc'[s] = IF s = t THEN b ELSE pc[s]
  BY <1>1, <1>2
<1>4. CASE UNCHANGED held /\ (b \in Guarded => a \in Guarded)
  <2>1. LockInv' /\ \A s, n : Has(s, n)' <=> Has(s, n)
    BY <1>1, <1>4 DEF LockInv, Has
  <2> QED
    BY <1>1, <1>2, <1>3, <1>4, <2>1 DEF GuardInv
<1>5. CASE Lock(t, a, "mMutex", b)
  <2>1. LockInv' /\ \A s, n : Has(s, n)' <=> Has(s, n) \/ (s = t /\ n = "mMutex")
    BY <1>1, <1>5, LockTaken
  <2> QED
    BY <1>1, <1>3, <2>1 DEF GuardInv
<1>6. CASE Unlock(t, a, "mMutex", b) /\ b \notin Guarded
  <2>1. LockInv' /\ \A s, n : Has(s, n)' <=> Has(s, n) /\ ~(s = t /\ n = "mMutex")
    BY <1>1, <1>6, LockGiven DEF Unlock
  <2> QED
    BY <1>1, <1>3, <1>6, <2>1 DEF GuardInv
<1> QED
  BY <1>3, <1>4, <1>5, <1>6

(* A step that computes nothing, of another thread than the third. *)
LEMMA QuietStep ==
    ASSUME StateInv, NEW t \in 1..4, t # 3, NEW a, NEW b, Go(t, a, b), mem' = mem,
           \/ UNCHANGED held /\ (b \in Guarded => a \in Guarded)
           \/ Lock(t, a, "mMutex", b)
           \/ Unlock(t, a, "mMutex", b) /\ b \notin Guarded
    PROVE  StateInv'
<1>1. GuardInv' /\ \A s \in Threads : pc'[s] = IF s = t THEN b ELSE pc[s]
  BY GuardStep DEF StateInv
<1>2. pc'[3] = pc[3]
  BY <1>1, ThreadsAssumption
<1> QED
  BY <1>1, <1>2 DEF StateInv

(* wait gives the mutex up and stays where it is. *)
LEMMA BlockStep ==
    ASSUME StateInv, NEW t \in 1..4, Block(t, "wait", "mCondition", "mMutex")
    PROVE  StateInv'
<1>1. Holds(t, "mMutex") /\ held' = Released(t, "mMutex") /\ pc[t] = "wait" /\ UNCHANGED <<pc, mem>>
  BY DEF Block
<1>2. LockInv' /\ \A s, n : Has(s, n)' <=> Has(s, n) /\ ~(s = t /\ n = "mMutex")
  BY <1>1, LockGiven DEF StateInv, GuardInv
<1>3. GuardInv'
  BY <1>1, <1>2 DEF StateInv, GuardInv, Guarded
<1> QED
  BY <1>1, <1>3 DEF StateInv

(* With the mutex, a complete state is one whose setter is through. *)
LEMMA SeesEnd ==
    ASSUME StateInv, NEW t \in {1, 4}, pc[t] \in Guarded, mem.mIsComplete
    PROVE  pc[3] = "end"
<1>1. pc[3] \in Raised
  BY DEF StateInv, Stage
<1>2. pc[3] \notin Guarded
  <2>1. Has(t, "mMutex")
    BY DEF StateInv, GuardInv
  <2>2. pc[3] \in Guarded => Has(3, "mMutex")
    BY DEF StateInv, GuardInv
  <2> QED
    BY <2>1, <2>2 DEF StateInv, GuardInv, LockInv
<1> QED
  BY <1>1, <1>2 DEF Raised, Guarded

(* Who finds the state complete reads the result. *)
LEMMA LookStep ==
    ASSUME StateInv, NEW t \in {1, 4}, NEW a \in Guarded, mem.mIsComplete,
           Do(t, a, [mem EXCEPT !.saw[t] = <<mem.mData, mem.called>>], "unlock")
    PROVE  StateInv'
<1>1. Go(t, a, "unlock") /\ UNCHANGED held /\ mem' = [mem EXCEPT !.saw[t] = <<mem.mData, mem.called>>] /\ pc[t] = a
  BY DEF Do, Go
<1>2. GuardInv' /\ \A s \in Threads : pc'[s] = IF s = t THEN "unlock" ELSE pc[s]
  BY <1>1, GuardStep DEF StateInv
<1>3. pc'[3] = pc[3] /\ pc[3] = "end"
  BY <1>1, <1>2, SeesEnd, ThreadsAssumption
<1>4. /\ StateFieldsOf(mem') /\ \A s \in {1, 4} : mem'.saw[s] = IF s = t THEN <<mem.mData, mem.called>> ELSE mem.saw[s]
      /\ mem'.mData = mem.mData /\ mem'.mIsComplete = mem.mIsComplete /\ mem'.mOnComplete = mem.mOnComplete
      /\ mem'.called = mem.called /\ mem'.late = mem.late
  BY <1>1 DEF StateInv, StateFieldsOf
<1>5. Stage(pc'[3], mem')
  BY <1>3, <1>4 DEF StateInv, Stage
<1>6. mem.mData = "result" /\ (mem.mOnComplete /\ ~mem.late => mem.called = 1)
  BY <1>3 DEF StateInv, Stage, Raised
<1>7. Seen(pc'[3], mem')
  BY <1>3, <1>4, <1>6 DEF StateInv, Seen
<1> QED
  BY <1>2, <1>4, <1>5, <1>7 DEF StateInv

(* then registers the handler, in time or late. *)
LEMMA ThenStep ==
    ASSUME StateInv, Do(2, "then", [mem EXCEPT !.mOnComplete = TRUE, !.late = mem.mIsComplete], "then_set")
    PROVE  StateInv'
<1>1. /\ Go(2, "then", "then_set") /\ UNCHANGED held
      /\ mem' = [mem EXCEPT !.mOnComplete = TRUE, !.late = mem.mIsComplete]
  BY DEF Do
<1>2. GuardInv' /\ \A s \in Threads : pc'[s] = IF s = 2 THEN "then_set" ELSE pc[s]
  BY <1>1, GuardStep DEF StateInv, Guarded
<1>3. pc'[3] = pc[3]
  BY <1>2, ThreadsAssumption
<1>4. /\ StateFieldsOf(mem') /\ mem'.saw = mem.saw
      /\ mem'.mData = mem.mData /\ mem'.mIsComplete = mem.mIsComplete
      /\ mem'.called = mem.called /\ mem'.late = mem.mIsComplete
  BY <1>1 DEF StateInv, StateFieldsOf
<1>5. Stage(pc'[3], mem')
  BY <1>3, <1>4 DEF StateInv, Stage, Raised
<1>6. Seen(pc'[3], mem')
  BY <1>3, <1>4 DEF StateInv, Seen, Stage, Raised
<1> QED
  BY <1>2, <1>4, <1>5, <1>6 DEF StateInv

(* A step of the thread that sets the result; before it is through nobody  *)
(* has seen anything.                                                      *)
LEMMA SetterStep ==
    ASSUME StateInv, NEW a, NEW b, a # "end", Go(3, a, b),
           \/ UNCHANGED held /\ (b \in Guarded => a \in Guarded)
           \/ Lock(3, a, "mMutex", b)
           \/ Unlock(3, a, "mMutex", b) /\ b \notin Guarded,
           StateFieldsOf(mem'), mem'.saw = mem.saw, Stage(b, mem')
    PROVE  StateInv'
<1>1. GuardInv' /\ \A s \in Threads : pc'[s] = IF s = 3 THEN b ELSE pc[s]
  BY GuardStep DEF StateInv
<1>2. pc'[3] = b /\ pc[3] = a
  BY <1>1, ThreadsAssumption DEF Go
<1>3. \A t \in {1, 4} : mem'.saw[t] = <<>>
  BY <1>2 DEF StateInv, Seen
<1>4. Seen(pc'[3], mem')
  BY <1>3 DEF Seen
<1> QED
  BY <1>1, <1>2, <1>4 DEF StateInv

(* The steps of SetResult and RaiseOnComplete. *)
LEMMA SetResultStep == ASSUME StateInv, StateSetResult(3) PROVE StateInv'
<1>1. StateFieldsOf(mem) /\ \A a, b : Go(3, a, b) => Stage(a, mem)
  BY DEF StateInv, Go
<1>2. CASE Lock(3, "begin", "mMutex", "data") \/ Lock(3, "raise", "mMutex", "flag")
  BY <1>1, <1>2, SetterStep DEF Lock, Stage, Raised
<1>3. CASE Do(3, "data", [mem EXCEPT !.mData = "result"], "unlock")
  <2>1. Go(3, "data", "unlock") /\ UNCHANGED held /\ mem' = [mem EXCEPT !.mData = "result"]
    BY <1>3 DEF Do
  <2>2. /\ StateFieldsOf(mem') /\ mem'.saw = mem.saw /\ mem'.mData = "result" /\ mem'.mIsComplete = mem.mIsComplete
        /\ mem'.mOnComplete = mem.mOnComplete /\ mem'.called = mem.called /\ mem'.late = mem.late
    BY <1>1, <2>1 DEF StateFieldsOf
  <2>3. Stage("unlock", mem')
    BY <1>1, <2>1, <2>2 DEF Stage, Raised
  <2> QED
    BY <2>1, <2>2, <2>3, SetterStep DEF Guarded
<1>4. CASE Unlock(3, "unlock", "mMutex", "raise")
  BY <1>1, <1>4, SetterStep DEF Unlock, Stage, Raised, Guarded
<1>5. CASE Do(3, "flag", [mem EXCEPT !.mIsComplete = TRUE], "notify")
  <2>1. Go(3, "flag", "notify") /\ UNCHANGED held /\ mem' = [mem EXCEPT !.mIsComplete = TRUE]
    BY <1>5 DEF Do
  <2>2. /\ StateFieldsOf(mem') /\ mem'.saw = mem.saw /\ mem'.mData = mem.mData /\ mem'.mIsComplete = TRUE
        /\ mem'.mOnComplete = mem.mOnComplete /\ mem'.called = mem.called /\ mem'.late = mem.late
    BY <1>1, <2>1 DEF StateFieldsOf
  <2>3. Stage("notify", mem')
    BY <1>1, <2>1, <2>2 DEF Stage, Raised
  <2> QED
    BY <2>1, <2>2, <2>3, SetterStep DEF Guarded
<1>6. CASE NotifyAll(3, "notify", "mCondition", "handler")
  BY <1>1, <1>6, SetterStep DEF NotifyAll, Stage, Raised, Guarded
<1>7. CASE mem.mOnComplete /\ Do(3, "handler", [mem EXCEPT !.called = @ + 1], "unlock2")
  <2>1. Go(3, "handler", "unlock2") /\ UNCHANGED held /\ mem' = [mem EXCEPT !.called = mem.called + 1]
    BY <1>7 DEF Do
  <2>2. mem.called = 0
    BY <1>1, <2>1 DEF Stage
  <2>3. /\ StateFieldsOf(mem') /\ mem'.saw = mem.saw /\ mem'.mData = mem.mData /\ mem'.mIsComplete = mem.mIsComplete
        /\ mem'.mOnComplete = mem.mOnComplete /\ mem'.called = 1 /\ mem'.late = mem.late
    BY <1>1, <2>1, <2>2 DEF StateFieldsOf
  <2>4. Stage("unlock2", mem')
    BY <1>1, <2>1, <2>3 DEF Stage, Raised
  <2> QED
    BY <2>1, <2>3, <2>4, SetterStep DEF Guarded
<1>8. CASE When(3, "handler", ~mem.mOnComplete, "unlock2")
  BY <1>1, <1>8, SetterStep DEF When, Stage, Raised, Guarded
<1>9. CASE Unlock(3, "unlock2", "mMutex", "end")
  BY <1>1, <1>9, SetterStep DEF Unlock, Stage, Raised, Guarded
<1> QED
  BY <1>2, <1>3, <1>4, <1>5, <1>6, <1>7, <1>8, <1>9 DEF StateSetResult, RaiseOnComplete

(* The steps of the four threads of the state. *)
LEMMA StateThreadStep ==
    ASSUME StateInv, NEW t \in 1..4, StateStep(t)
    PROVE  StateInv'
<1>1. CASE t = 1 /\ StateWait(1, "begin", "end")
  <2>1. CASE Lock(1, "begin", "mMutex", "test")
    BY <2>1, QuietStep DEF Lock
  <2>2. CASE When(1, "test", ~mem.mIsComplete, "wait")
    BY <2>2, QuietStep DEF When, Guarded
  <2>3. CASE Wait(1, "wait", "mCondition", "mMutex", "test")
    <3>1. CASE Block(1, "wait", "mCondition", "mMutex")
      BY <3>1, BlockStep
    <3>2. CASE Relock(1, "wait", "mCondition", "mMutex", "test")
      BY <3>2, QuietStep DEF Relock, Lock
    <3> QED
      BY <2>3, <3>1, <3>2 DEF Wait
  <2>4. CASE mem.mIsComplete /\ Do(1, "test", [mem EXCEPT !.saw[1] = <<mem.mData, mem.called>>], "unlock")
    BY <2>4, LookStep DEF Guarded
  <2>5. CASE Unlock(1, "unlock", "mMutex", "end")
    BY <2>5, QuietStep DEF Unlock, Guarded
  <2> QED
    BY <1>1, <2>1, <2>2, <2>3, <2>4, <2>5 DEF StateWait
<1>2. CASE t = 2 /\ StateThen(2, "begin", "end")
  <2>1. CASE Lock(2, "begin", "mMutex", "then")
    BY <2>1, QuietStep DEF Lock
  <2>2. CASE Unlock(2, "then_set", "mMutex", "end")
    BY <2>2, QuietStep DEF Unlock, Guarded
  <2> QED
    BY <1>2, <2>1, <2>2, ThenStep DEF StateThen
<1>3. CASE t = 3 /\ StateSetResult(3)
  BY <1>3, SetResultStep
<1>4. CASE t = 4 /\ IsComplete(4)
  <2>1. CASE Lock(4, "begin", "mMutex", "look")
    BY <2>1, QuietStep DEF Lock
  <2>2. CASE Do(4, "look", IF mem.mIsComplete THEN [mem EXCEPT !.saw[4] = <<mem.mData, mem.called>>] ELSE mem, "unlock")
    <3>1. CASE mem.mIsComplete
      BY <2>2, <3>1, LookStep DEF Guarded
    <3>2. CASE ~mem.mIsComplete
      BY <2>2, <3>2, QuietStep DEF Do, Guarded
    <3> QED
      BY <3>1, <3>2
  <2>3. CASE Unlock(4, "unlock", "mMutex", "end")
    BY <2>3, QuietStep DEF Unlock, Guarded
  <2> QED
    BY <1>4, <2>1, <2>2, <2>3 DEF IsComplete
<1> QED
  BY <1>1, <1>2, <1>3, <1>4 DEF StateStep

(* Main lets them begin, and joins them. *)
LEMMA StateUsersStep == ASSUME StateInv, Unstarted, StateUsers PROVE StateInv' /\ Unstarted'
<1>1. pc = [t \in Threads |-> pc[t]] /\ 0 \in Threads /\ \A t \in 1..4 : t \in Threads /\ t # 0
  BY ThreadsAssumption DEF StateInv, GuardInv
<1>2. UNCHANGED <<held, mem>> /\ (LockInv' <=> LockInv) /\ \A s, n : Has(s, n)' <=> Has(s, n)
  BY DEF StateUsers, Spawn, Join, When, LockInv, Has
<1>3. CASE Spawn(0, "begin", 1..4, "join")
  <2>1. /\ pc[0] = "begin"
        /\ pc' = [s \in Threads |-> IF s = 0 THEN "join" ELSE IF s \in 1..4 THEN "begin" ELSE pc[s]]
    BY <1>3 DEF Spawn
  <2>2. /\ pc' = [t \in Threads |-> pc'[t]] /\ pc'[0] = "join"
        /\ \A t \in 1..4 : pc[t] = "none" /\ pc'[t] = "begin"
    BY <1>1, <2>1 DEF Unstarted
  <2>3. GuardInv'
    BY <1>2, <2>2 DEF StateInv, GuardInv, Guarded
  <2>4. pc[3] = "none" /\ pc'[3] = "begin"
    BY <2>2
  <2>5. Stage(pc'[3], mem') /\ Seen(pc'[3], mem')
    BY <1>2, <2>4 DEF StateInv, Stage, Seen, Raised
  <2> QED
    BY <1>2, <2>2, <2>3, <2>5 DEF StateInv, Unstarted
<1>4. CASE Join(0, "join", 1..4, "end")
  <2>1. pc' = [pc EXCEPT ![0] = "end"]
    BY <1>4 DEF Join, When, Go
  <2>2. /\ pc' = [t \in Threads |-> pc'[t]] /\ pc'[0] = "end"
        /\ \A t \in 1..4 : pc'[t] = pc[t]
    BY <1>1, <2>1
  <2>3. GuardInv'
    BY <1>2, <2>2 DEF StateInv, GuardInv
  <2>4. pc'[3] = pc[3]
    BY <2>2
  <2> QED
    BY <1>2, <2>2, <2>3, <2>4 DEF StateInv, Unstarted
<1> QED
  BY <1>3, <1>4 DEF StateUsers

(* The state keeps its invariant. *)
LEMMA StateInductive ==
    ASSUME program = "state", StateInv, Unstarted, [Next]_vars
    PROVE  StateInv' /\ Unstarted'
<1>1. pc = [t \in Threads |-> pc[t]]
  BY DEF StateInv, GuardInv
<1>2. CASE UNCHANGED <<pc, held, mem>>
  BY <1>2 DEF StateInv, GuardInv, LockInv, Has, Unstarted
<1>3. ASSUME NEW t \in Threads, SpuriousWake(t) PROVE StateInv' /\ Unstarted'
  BY <1>2, <1>3 DEF SpuriousWake
<1>4. ASSUME NEW t \in Threads, t # 0, StateStep(t) PROVE StateInv' /\ Unstarted'
  <2>1. t \in 1..4
    BY <1>4 DEF StateStep
  <2>2. pc[t] # "none" /\ (pc' = pc \/ \E b : pc' = [pc EXCEPT ![t] = b])
    <3>1. CASE StateWait(t, "begin", "end")
      BY <3>1 DEF StateWait, Wait, Block, Relock, Lock, Unlock, When, Do, Go
    <3>2. CASE StateThen(t, "begin", "end") \/ IsComplete(t)
      BY <3>2 DEF StateThen, IsComplete, Lock, Unlock, Do, Go
    <3>3. CASE StateSetResult(t)
      BY <3>3 DEF StateSetResult, RaiseOnComplete, NotifyAll, Lock, Unlock, When, Do, Go
    <3> QED
      BY <1>4, <3>1, <3>2, <3>3 DEF StateStep
  <2> QED
    BY <1>1, <1>4, <2>1, <2>2, StateThreadStep, UnstartedStep
<1>5. ASSUME NEW t \in Threads, Step(t) PROVE StateInv' /\ Unstarted'
  <2>1. (t = 0 /\ StateUsers) \/ (t # 0 /\ StateStep(t))
    BY <1>5 DEF Step, Run
  <2> QED
    BY <1>4, <2>1, StateUsersStep
<1> QED
  BY <1>2, <1>3, <1>5, ThreadStep DEF threadVars

(* The timers: a handler that was started was started once, by a runner,   *)
(* and who has returned from run leaves none behind.                       *)
RunsOf(m, h) == {r \in m.ran : r[1] = h}

HandlersInv(m) ==
    /\ m = [test |-> m.test, handler |-> m.handler, ran |-> m.ran]
    /\ m.handler = [h \in DOMAIN m.handler |-> m.handler[h]]
    /\ \A h \in DOMAIN m.handler :
          /\ m.handler[h] \in {"waiting", "ready", "running", "done"}
          /\ m.handler[h] \in {"waiting", "ready"} => RunsOf(m, h) = {}
          /\ m.handler[h] \in {"running", "done"} => \E t \in m.test.runners : RunsOf(m, h) = {<<h, t>>}
    /\ \A r \in m.ran : r[2] \in m.test.runners

AllDone(m) == \A h \in DOMAIN m.handler : m.handler[h] = "done"

RunnersInv(p, m) ==
    /\ p[0] = "begin" => m.ran = {}
    /\ \A t \in Threads : p[t] \in {"run", "handler"} => t \in m.test.runners
    /\ \A t \in Threads : p[t] = "begin" => t = 0 \/ t \in m.test.runners
    /\ \A t \in m.test.runners : p[t] = "end" => AllDone(m)

TimersInv ==
    /\ pc = [t \in Threads |-> pc[t]]
    /\ mem.test \in Tests
    /\ HandlersInv(mem)
    /\ RunnersInv(pc, mem)

(* At first no handler is registered. *)
LEMMA TimersStart == TimersInit => TimersInv /\ Unstarted
<1> SUFFICES ASSUME TimersInit PROVE TimersInv /\ Unstarted
  OBVIOUS
<1>1. PICK test \in Tests : ThreadInit([test |-> test, handler |-> [h \in {} |-> "waiting"], ran |-> {}])
  BY DEF TimersInit
<1>2. /\ pc = [t \in Threads |-> IF t = 0 THEN "begin" ELSE "none"]
      /\ mem = [test |-> test, handler |-> [h \in {} |-> "waiting"], ran |-> {}]
  BY <1>1 DEF ThreadInit
<1>3. /\ mem.test = test /\ mem.ran = {} /\ mem.handler = [h \in {} |-> "waiting"]
      /\ DOMAIN mem.handler = {}
  BY <1>2
<1>4. mem.handler = [h \in DOMAIN mem.handler |-> mem.handler[h]]
  BY <1>3
<1>5. mem = [test |-> mem.test, handler |-> mem.handler, ran |-> mem.ran]
  BY <1>2, <1>3
<1>6. HandlersInv(mem)
  BY <1>3, <1>4, <1>5 DEF HandlersInv
<1>7. /\ pc = [t \in Threads |-> pc[t]] /\ pc[0] = "begin"
      /\ \A t \in Threads : t # 0 => pc[t] = "none"
  BY <1>2, ThreadsAssumption
<1>8. test.runners \subseteq Threads
  BY TestsAssumption
<1>9. RunnersInv(pc, mem)
  BY <1>3, <1>7, <1>8 DEF RunnersInv
<1> QED
  BY <1>3, <1>6, <1>7, <1>9 DEF TimersInv, Unstarted

(* A handler that changes leaves the others alone.                         *)
LEMMA HandlerChanges ==
    ASSUME HandlersInv(mem), NEW h \in DOMAIN mem.handler, NEW s, NEW ran2,
           mem' = [mem EXCEPT !.handler[h] = s, !.ran = ran2]
    PROVE  /\ mem' = [test |-> mem'.test, handler |-> mem'.handler, ran |-> mem'.ran]
           /\ mem'.handler = [g \in DOMAIN mem'.handler |-> mem'.handler[g]]
           /\ mem'.test = mem.test /\ mem'.ran = ran2
           /\ DOMAIN mem'.handler = DOMAIN mem.handler /\ mem'.handler[h] = s
           /\ \A g \in DOMAIN mem.handler : g # h => mem'.handler[g] = mem.handler[g]
<1>1. /\ mem = [test |-> mem.test, handler |-> mem.handler, ran |-> mem.ran]
      /\ mem.handler = [g \in DOMAIN mem.handler |-> mem.handler[g]]
  BY DEF HandlersInv
<1>2. mem' = [test |-> mem.test, handler |-> [mem.handler EXCEPT ![h] = s], ran |-> ran2]
  BY <1>1
<1>3. mem'.test = mem.test /\ mem'.ran = ran2 /\ mem'.handler = [mem.handler EXCEPT ![h] = s]
  BY <1>2
<1> QED
  BY <1>1, <1>2, <1>3

(* The timer of a handler expires. *)
LEMMA ExpireStep == ASSUME TimersInv, Unstarted, Expire PROVE TimersInv' /\ Unstarted'
<1>1. PICK h \in DOMAIN mem.handler :
         mem.handler[h] = "waiting" /\ Happens([mem EXCEPT !.handler[h] = "ready"])
  BY DEF Expire
<1>2. pc' = pc /\ mem' = [mem EXCEPT !.handler[h] = "ready"]
  BY <1>1 DEF Happens
<1>3. HandlersInv(mem)
  BY DEF TimersInv
<1>4. mem' = [mem EXCEPT !.handler[h] = "ready", !.ran = mem.ran]
  BY <1>2, <1>3 DEF HandlersInv
<1>5. /\ mem' = [test |-> mem'.test, handler |-> mem'.handler, ran |-> mem'.ran]
      /\ mem'.handler = [g \in DOMAIN mem'.handler |-> mem'.handler[g]]
      /\ mem'.test = mem.test /\ mem'.ran = mem.ran
      /\ DOMAIN mem'.handler = DOMAIN mem.handler /\ mem'.handler[h] = "ready"
      /\ \A g \in DOMAIN mem.handler : g # h => mem'.handler[g] = mem.handler[g]
  BY <1>3, <1>4, HandlerChanges
<1>6. \A g : RunsOf(mem', g) = RunsOf(mem, g)
  BY <1>5 DEF RunsOf
<1>7. HandlersInv(mem')
  BY <1>1, <1>3, <1>5, <1>6 DEF HandlersInv
<1>8. ~AllDone(mem)
  BY <1>1 DEF AllDone
<1>9. RunnersInv(pc', mem')
  BY <1>2, <1>5, <1>8 DEF TimersInv, RunnersInv
<1> QED
  BY <1>2, <1>5, <1>7, <1>9 DEF TimersInv, Unstarted

(* A runner takes a handler, ends one, or returns. *)
LEMMA RunContextStep ==
    ASSUME TimersInv, Unstarted, NEW t \in Threads, RunContext(t)
    PROVE  TimersInv' /\ Unstarted'
<1>0. /\ pc = [s \in Threads |-> pc[s]] /\ HandlersInv(mem) /\ RunnersInv(pc, mem)
      /\ mem.test \in Tests
  BY DEF TimersInv
<1>1. ASSUME pc[t] \in {"run", "handler"}, NEW b \in {"run", "handler", "end"}, pc' = [pc EXCEPT ![t] = b],
             mem'.test = mem.test, HandlersInv(mem'), AllDone(mem) => AllDone(mem'),
             b = "end" => AllDone(mem')
      PROVE  TimersInv' /\ Unstarted'
  <2>0. pc[0] # "begin"
    BY <1>1 DEF Unstarted
  <2>1. /\ pc' = [s \in Threads |-> pc'[s]] /\ pc'[t] = b /\ pc'[0] # "begin"
        /\ \A s \in Threads : s # t => pc'[s] = pc[s]
    BY <1>0, <1>1, <2>0, ThreadsAssumption
  <2>2. mem.test.runners \subseteq Threads
    BY <1>0, TestsAssumption
  <2>3. RunnersInv(pc', mem')
    BY <1>0, <1>1, <2>1, <2>2 DEF RunnersInv
  <2> QED
    BY <1>0, <1>1, <2>1, <2>3 DEF TimersInv, Unstarted
<1>2. CASE RunReturns(t)
  <2>1. pc[t] = "run" /\ pc' = [pc EXCEPT ![t] = "end"] /\ mem' = mem /\ AllDone(mem)
    BY <1>2 DEF RunReturns, When, Go, AllDone
  <2> QED
    BY <1>0, <1>1, <2>1
<1>3. ASSUME NEW h \in DOMAIN mem.handler, mem.handler[h] = "ready",
             Do(t, "run", [mem EXCEPT !.handler[h] = "running", !.ran = @ \union {<<h, t>>}], "handler")
      PROVE  TimersInv' /\ Unstarted'
  <2>1. /\ pc[t] = "run" /\ pc' = [pc EXCEPT ![t] = "handler"]
        /\ mem' = [mem EXCEPT !.handler[h] = "running", !.ran = mem.ran \union {<<h, t>>}]
    BY <1>3 DEF Do, Go
  <2>2. t \in mem.test.runners
    BY <1>0, <2>1 DEF RunnersInv
  <2>3. /\ mem' = [test |-> mem'.test, handler |-> mem'.handler, ran |-> mem'.ran]
        /\ mem'.handler = [g \in DOMAIN mem'.handler |-> mem'.handler[g]]
        /\ mem'.test = mem.test /\ mem'.ran = mem.ran \union {<<h, t>>}
        /\ DOMAIN mem'.handler = DOMAIN mem.handler /\ mem'.handler[h] = "running"
        /\ \A g \in DOMAIN mem.handler : g # h => mem'.handler[g] = mem.handler[g]
    BY <1>0, <2>1, HandlerChanges
  <2>4. RunsOf(mem, h) = {}
    BY <1>0, <1>3 DEF HandlersInv
  <2>5. RunsOf(mem', h) = {<<h, t>>}
    BY <2>3, <2>4 DEF RunsOf
  <2>6. \A g : g # h => RunsOf(mem', g) = RunsOf(mem, g)
    BY <2>3 DEF RunsOf
  <2>7. \A g \in DOMAIN mem'.handler :
           /\ mem'.handler[g] \in {"waiting", "ready", "running", "done"}
           /\ mem'.handler[g] \in {"waiting", "ready"} => RunsOf(mem', g) = {}
           /\ mem'.handler[g] \in {"running", "done"} => \E s \in mem'.test.runners : RunsOf(mem', g) = {<<g, s>>}
    BY <1>0, <2>2, <2>3, <2>5, <2>6 DEF HandlersInv
  <2>8. \A r \in mem'.ran : r[2] \in mem'.test.runners
    BY <1>0, <2>2, <2>3 DEF HandlersInv
  <2>9. HandlersInv(mem')
    BY <2>3, <2>7, <2>8 DEF HandlersInv
  <2>10. ~AllDone(mem)
    BY <1>3 DEF AllDone
  <2> QED
    BY <1>1, <2>1, <2>3, <2>9, <2>10
<1>4. ASSUME NEW h \in DOMAIN mem.handler, mem.handler[h] = "running",
             Do(t, "handler", [mem EXCEPT !.handler[h] = "done"], "run")
      PROVE  TimersInv' /\ Unstarted'
  <2>1. /\ pc[t] = "handler" /\ pc' = [pc EXCEPT ![t] = "run"]
        /\ mem' = [mem EXCEPT !.handler[h] = "done"]
    BY <1>4 DEF Do, Go
  <2>2. mem' = [mem EXCEPT !.handler[h] = "done", !.ran = mem.ran]
    BY <1>0, <2>1 DEF HandlersInv
  <2>3. /\ mem' = [test |-> mem'.test, handler |-> mem'.handler, ran |-> mem'.ran]
        /\ mem'.handler = [g \in DOMAIN mem'.handler |-> mem'.handler[g]]
        /\ mem'.test = mem.test /\ mem'.ran = mem.ran
        /\ DOMAIN mem'.handler = DOMAIN mem.handler /\ mem'.handler[h] = "done"
        /\ \A g \in DOMAIN mem.handler : g # h => mem'.handler[g] = mem.handler[g]
    BY <1>0, <2>2, HandlerChanges
  <2>4. \A g : RunsOf(mem', g) = RunsOf(mem, g)
    BY <2>3 DEF RunsOf
  <2>5. HandlersInv(mem')
    BY <1>0, <1>4, <2>3, <2>4 DEF HandlersInv
  <2>6. ~AllDone(mem)
    BY <1>4 DEF AllDone
  <2> QED
    BY <1>1, <2>1, <2>3, <2>5, <2>6
<1> QED
  BY <1>2, <1>3, <1>4 DEF RunContext

(* Main registers the handlers, and runs them or has them run. *)
LEMMA TimersMainStep == ASSUME TimersInv, Unstarted, TimersMain PROVE TimersInv' /\ Unstarted'
<1>0. /\ pc = [s \in Threads |-> pc[s]] /\ HandlersInv(mem) /\ RunnersInv(pc, mem)
      /\ mem.test \in Tests /\ 0 \in Threads /\ mem.test.runners \subseteq Threads
  BY ThreadsAssumption, TestsAssumption DEF TimersInv
<1>1. CASE Do(0, "begin", [mem EXCEPT !.handler = Register], "start")
  <2>1. pc[0] = "begin" /\ pc' = [pc EXCEPT ![0] = "start"] /\ mem' = [mem EXCEPT !.handler = Register]
    BY <1>1 DEF Do, Go
  <2>2. mem.ran = {} /\ \A t \in Threads : t # 0 => pc[t] = "none"
    BY <1>0, <2>1 DEF RunnersInv, Unstarted
  <2>3. mem' = [test |-> mem.test, handler |-> Register, ran |-> {}]
    BY <1>0, <2>1, <2>2 DEF HandlersInv
  <2>4. mem'.test = mem.test /\ mem'.handler = Register /\ mem'.ran = {}
    BY <2>3
  <2>5. /\ Register = [h \in DOMAIN Register |-> Register[h]]
        /\ \A h \in DOMAIN Register : Register[h] \in {"waiting", "ready"}
    BY DEF Register
  <2>6. \A h : RunsOf(mem', h) = {}
    BY <2>4 DEF RunsOf
  <2>7. HandlersInv(mem')
    BY <2>3, <2>4, <2>5, <2>6 DEF HandlersInv
  <2>8. /\ pc' = [s \in Threads |-> pc'[s]] /\ pc'[0] = "start"
        /\ \A s \in Threads : s # 0 => pc'[s] = "none"
    BY <1>0, <2>1, <2>2
  <2>9. RunnersInv(pc', mem')
    BY <1>0, <2>4, <2>8 DEF RunnersInv
  <2> QED
    BY <1>0, <2>4, <2>7, <2>8, <2>9 DEF TimersInv, Unstarted
<1>2. CASE 0 \in mem.test.runners /\ When(0, "start", TRUE, "run")
  <2>1. mem' = mem /\ pc' = [pc EXCEPT ![0] = "run"]
    BY <1>2 DEF When, Go
  <2>2. /\ pc' = [s \in Threads |-> pc'[s]] /\ pc'[0] = "run"
        /\ \A s \in Threads : s # 0 => pc'[s] = pc[s]
    BY <1>0, <2>1
  <2>3. RunnersInv(pc', mem')
    BY <1>0, <1>2, <2>1, <2>2 DEF RunnersInv
  <2> QED
    BY <1>0, <2>1, <2>2, <2>3 DEF TimersInv, Unstarted
<1>3. CASE 0 \notin mem.test.runners /\ Spawn(0, "start", mem.test.runners, "join")
  <2>1. /\ mem' = mem
        /\ pc' = [s \in Threads |-> IF s = 0 THEN "join" ELSE IF s \in mem.test.runners THEN "begin" ELSE pc[s]]
    BY <1>3 DEF Spawn
  <2>2. /\ pc' = [s \in Threads |-> pc'[s]] /\ pc'[0] = "join"
        /\ \A s \in Threads : s # 0 => pc'[s] = pc[s] \/ (s \in mem.test.runners /\ pc'[s] = "begin")
    BY <1>0, <2>1
  <2>3. RunnersInv(pc', mem')
    BY <1>0, <1>3, <2>1, <2>2 DEF RunnersInv
  <2> QED
    BY <1>0, <2>1, <2>2, <2>3 DEF TimersInv, Unstarted
<1>4. CASE RunContext(0)
  BY <1>0, <1>4, RunContextStep
<1>5. CASE Join(0, "join", mem.test.runners, "end")
  <2>1. /\ mem' = mem /\ pc[0] = "join" /\ pc' = [pc EXCEPT ![0] = "end"]
        /\ \A s \in mem.test.runners : pc[s] = "end"
    BY <1>5 DEF Join, When, Go
  <2>2. 0 \notin mem.test.runners
    BY <2>1
  <2>3. /\ pc' = [s \in Threads |-> pc'[s]] /\ pc'[0] = "end"
        /\ \A s \in Threads : s # 0 => pc'[s] = pc[s]
    BY <1>0, <2>1
  <2>4. RunnersInv(pc', mem')
    BY <1>0, <2>1, <2>2, <2>3 DEF RunnersInv
  <2> QED
    BY <1>0, <2>1, <2>3, <2>4 DEF TimersInv, Unstarted
<1> QED
  BY <1>1, <1>2, <1>3, <1>4, <1>5 DEF TimersMain

(* No step of the timers undoes what run waits for. *)
LEMMA TimersInductive ==
    ASSUME program = "timers", TimersInv, Unstarted, [Next]_vars
    PROVE  TimersInv' /\ Unstarted'
<1>0. /\ pc = [s \in Threads |-> pc[s]] /\ RunnersInv(pc, mem) /\ mem.test.runners \subseteq Threads
  BY TestsAssumption DEF TimersInv
<1>1. CASE UNCHANGED <<pc, mem>>
  BY <1>1 DEF TimersInv, Unstarted
<1>2. ASSUME NEW t \in Threads, SpuriousWake(t) PROVE TimersInv' /\ Unstarted'
  BY <1>1, <1>2 DEF SpuriousWake
<1>3. ASSUME NEW t \in Threads, t # 0, When(t, "begin", TRUE, "run") PROVE TimersInv' /\ Unstarted'
  <2>1. pc[t] = "begin" /\ pc' = [pc EXCEPT ![t] = "run"] /\ mem' = mem
    BY <1>3 DEF When, Go
  <2>2. /\ pc' = [s \in Threads |-> pc'[s]] /\ pc'[t] = "run" /\ pc'[0] = pc[0] /\ pc[0] # "begin"
        /\ \A s \in Threads : s # t => pc'[s] = pc[s]
    BY <1>0, <1>3, <2>1, ThreadsAssumption DEF Unstarted
  <2>3. t \in mem.test.runners
    BY <1>0, <1>3, <2>1 DEF RunnersInv
  <2>4. RunnersInv(pc', mem')
    BY <1>0, <2>1, <2>2, <2>3 DEF RunnersInv
  <2> QED
    BY <2>1, <2>2, <2>4 DEF TimersInv, Unstarted
<1>4. ASSUME NEW t \in Threads, Step(t) PROVE TimersInv' /\ Unstarted'
  <2>1. (t = 0 /\ TimersMain) \/ (t # 0 /\ (IF t = Network THEN Expire ELSE TimersThread(t)))
    BY <1>4 DEF Step, Run
  <2> QED
    BY <1>3, <2>1, TimersMainStep, ExpireStep, RunContextStep DEF TimersThread
<1> QED
  BY <1>1, <1>2, <1>4, ThreadStep DEF threadVars

(* The invariant of the program that runs. *)
InTimeInv ==
    /\ program = "barrier" => BarrierInv
    /\ program \in {"naive", "double checked"} => MutexSingletonInv /\ Unstarted
    /\ program = "once" => OnceInv /\ Unstarted
    /\ program = "state" => StateInv /\ Unstarted
    /\ program = "timers" => TimersInv /\ Unstarted

(* Each program begins in it, with its main thread, ... *)
LEMMA InTimeInit == Init => InTimeInv
<1> SUFFICES ASSUME Init PROVE InTimeInv
  OBVIOUS
<1>1. (\E m : ThreadInit(m)) => Unstarted
  BY ThreadsAssumption DEF ThreadInit, Unstarted
<1>2. program = "barrier" => BarrierInv
  BY BarrierStart DEF Init
<1>3. program \in {"naive", "double checked"} => MutexSingletonInv /\ Unstarted
  BY <1>1, SingletonStart DEF Init, SingletonInit
<1>4. program = "once" => OnceInv /\ Unstarted
  BY <1>1, SingletonStart DEF Init, SingletonInit
<1>5. program = "state" => StateInv /\ Unstarted
  BY <1>1, StateStart DEF Init, StateInit
<1>6. program = "timers" => TimersInv /\ Unstarted
  BY TimersStart DEF Init
<1> QED
  BY <1>2, <1>3, <1>4, <1>5, <1>6 DEF InTimeInv

(* ... and stays in it. *)
LEMMA InTimeStep == ASSUME InTimeInv, [Next]_vars PROVE InTimeInv'
<1>1. program' = program
  BY ThreadStep
<1>2. program = "barrier" => BarrierInv'
  BY BarrierInductive DEF InTimeInv
<1>3. program \in {"naive", "double checked"} => MutexSingletonInv' /\ Unstarted'
  BY MutexSingletonInductive DEF InTimeInv
<1>4. program = "once" => OnceInv' /\ Unstarted'
  BY OnceInductive DEF InTimeInv
<1>5. program = "state" => StateInv' /\ Unstarted'
  BY StateInductive DEF InTimeInv
<1>6. program = "timers" => TimersInv' /\ Unstarted'
  BY TimersInductive DEF InTimeInv
<1> QED
  BY <1>1, <1>2, <1>3, <1>4, <1>5, <1>6 DEF InTimeInv

(* In every program where one thread waits for what another does, it does  *)
(* not go on before that is done.                                          *)
THEOREM NobodyIsEarly == Spec => []NobodyEarly
<1>1. ASSUME InTimeInv PROVE NobodyEarly
  <2>1. ASSUME program = "barrier", NEW s \in 1..TotalThreads, NEW t \in 1..TotalThreads,
               pc[s] \in {"leave", "run", "print", "end"}
        PROVE  pc[t] \notin {"none", "begin", "count"}
    BY <1>1, <2>1, BarrierHolds DEF InTimeInv, Past, Before
  <2>2. ASSUME program \in {"naive", "double checked", "once"}
        PROVE  mem.built <= 1 /\ (mem.raw => program = "double checked")
    <3>1. mem \in SingletonData /\ (program # "double checked" => ~mem.raw)
      BY <1>1, <2>2 DEF InTimeInv, MutexSingletonInv, OnceInv
    <3>2. mem.built \in {0, 1}
      BY <3>1 DEF SingletonData
    <3>3. mem.built <= 1
      BY <3>2
    <3>4. mem.raw => program = "double checked"
      BY <3>1
    <3> QED
      BY <3>3, <3>4
  <2>3. ASSUME program = "state", NEW t \in {1, 4}, mem.saw[t] # <<>>
        PROVE  /\ mem.saw[t][1] = "result"
               /\ mem.mOnComplete /\ ~mem.late => mem.saw[t][2] = 1
    BY <1>1, <2>3 DEF InTimeInv, StateInv, Seen
  <2>4. ASSUME program = "timers", NEW t \in mem.test.runners, pc[t] = "end"
        PROVE  /\ \A h \in DOMAIN mem.handler :
                     mem.handler[h] = "done" /\ Cardinality({r \in mem.ran : r[1] = h}) = 1
               /\ \A r \in mem.ran : r[2] \in mem.test.runners
    <3>1. HandlersInv(mem) /\ AllDone(mem)
      BY <1>1, <2>4 DEF InTimeInv, TimersInv, RunnersInv
    <3>2. ASSUME NEW h \in DOMAIN mem.handler
          PROVE  Cardinality({r \in mem.ran : r[1] = h}) = 1
      <4>1. PICK s \in mem.test.runners : RunsOf(mem, h) = {<<h, s>>}
        BY <3>1 DEF HandlersInv, AllDone
      <4> QED
        BY <4>1, FS_Singleton DEF RunsOf
    <3> QED
      BY <3>1, <3>2 DEF AllDone, HandlersInv
  <2> QED
    BY <2>1, <2>2, <2>3, <2>4 DEF NobodyEarly
<1> QED
  BY InTimeInit, InTimeStep, <1>1, PTL DEF Spec

-----------------------------------------------------------------------------
(* Programs whose main spawns two threads and joins them.                  *)

TwoInv ==
    /\ pc = [t \in Threads |-> pc[t]]
    /\ \A t \in Threads : t \notin {0, 1, 2} => pc[t] = "none"
    /\ pc[0] \in {"begin", "join", "end"}
    /\ pc[0] = "begin" => pc[1] = "none" /\ pc[2] = "none"
    /\ pc[0] = "end" => pc[1] = "end" /\ pc[2] = "end"

(* At first only main has begun, ... *)
LEMMA TwoStart == ASSUME NEW m, ThreadInit(m) PROVE TwoInv
  BY ThreadsAssumption DEF ThreadInit, TwoInv

(* ... it has the two begin and waits for their end, ... *)
LEMMA TwoMain ==
    ASSUME TwoInv, TwoThreads
    PROVE  /\ TwoInv' /\ UNCHANGED <<held, mem>>
           /\ \A t \in {1, 2} : pc'[t] = pc[t] \/ (pc[t] = "none" /\ pc'[t] = "begin")
<1>0. 0 \in Threads /\ 1 \in Threads /\ 2 \in Threads /\ pc = [t \in Threads |-> pc[t]]
  BY ThreadsAssumption DEF TwoInv
<1>1. CASE Spawn(0, "begin", {1, 2}, "join")
  <2>1. /\ pc[0] = "begin" /\ UNCHANGED <<held, mem>>
        /\ pc' = [s \in Threads |-> IF s = 0 THEN "join" ELSE IF s \in {1, 2} THEN "begin" ELSE pc[s]]
    BY <1>1 DEF Spawn
  <2>2. /\ pc' = [t \in Threads |-> pc'[t]] /\ pc'[0] = "join" /\ pc'[1] = "begin" /\ pc'[2] = "begin"
        /\ \A t \in Threads : t \notin {0, 1, 2} => pc'[t] = pc[t]
    BY <1>0, <2>1
  <2>3. TwoInv'
    BY <2>2 DEF TwoInv
  <2> QED
    BY <2>1, <2>2, <2>3 DEF TwoInv
<1>2. CASE Join(0, "join", {1, 2}, "end")
  <2>1. /\ pc' = [pc EXCEPT ![0] = "end"] /\ UNCHANGED <<held, mem>>
        /\ pc[1] = "end" /\ pc[2] = "end"
    BY <1>2 DEF Join, When, Go
  <2>2. /\ pc' = [t \in Threads |-> pc'[t]] /\ pc'[0] = "end" /\ pc'[1] = "end" /\ pc'[2] = "end"
        /\ \A t \in Threads : t \notin {0, 1, 2} => pc'[t] = pc[t]
    BY <1>0, <2>1
  <2>3. TwoInv'
    BY <2>2 DEF TwoInv
  <2> QED
    BY <2>1, <2>2, <2>3
<1> QED
  BY <1>1, <1>2 DEF TwoThreads

(* ... and one of them goes on. *)
LEMMA TwoGo ==
    ASSUME TwoInv, NEW t \in {1, 2}, NEW a, NEW b, Go(t, a, b), a # "none", a # "end"
    PROVE  /\ TwoInv' /\ pc[t] = a /\ pc'[t] = b
           /\ \A s \in {1, 2} : s # t => pc'[s] = pc[s]
<1>1. pc[t] = a /\ pc' = [pc EXCEPT ![t] = b] /\ pc = [s \in Threads |-> pc[s]]
  BY DEF Go, TwoInv
<1>2. 0 \in Threads /\ 1 \in Threads /\ 2 \in Threads
  BY ThreadsAssumption
<1>3. /\ pc' = [s \in Threads |-> pc'[s]] /\ pc'[t] = b
      /\ \A s \in Threads : s # t => pc'[s] = pc[s]
  BY <1>1, <1>2
<1>4. TwoInv'
  BY <1>1, <1>2, <1>3 DEF TwoInv
<1> QED
  BY <1>1, <1>2, <1>3, <1>4

(* All is over when both have ended. *)
LEMMA TwoEnd == ASSUME TwoInv, AllEnd PROVE pc[1] = "end" /\ pc[2] = "end"
  BY ThreadsAssumption DEF TwoInv, AllEnd

-----------------------------------------------------------------------------
(* test1_mutex: what a thread has added.                                   *)

MutexData == [shared_counter : Nat, shared_counter_atomic : Nat, reg : [{1, 2} -> Nat], i : [{1, 2} -> Nat]]
Made(place, n) == IF place \in {"unlock", "atomic"} THEN n + 1 ELSE n

MutexInv ==
    /\ TwoInv /\ LockInv
    /\ mem \in MutexData
    /\ \A t \in {1, 2} : pc[t] \in {"load", "store", "unlock"} => Has(t, "counter_mutex")
    /\ \A t \in {1, 2} : pc[t] = "store" => mem.reg[t] = mem.shared_counter
    /\ \A t \in {1, 2} : pc[t] = "end" => mem.i[t] = Loops
    /\ mem.shared_counter = 1 + Made(pc[1], mem.i[1]) + Made(pc[2], mem.i[2])
    /\ mem.shared_counter_atomic = 1 + mem.i[1] + mem.i[2]

(* At first nothing. *)
LEMMA MutexStart == MutexInit => MutexInv
<1> SUFFICES ASSUME MutexInit PROVE MutexInv
  OBVIOUS
<1> DEFINE m == [shared_counter |-> 1, shared_counter_atomic |-> 1,
                 reg |-> [t \in {1, 2} |-> 0], i |-> [t \in {1, 2} |-> 0]]
<1>1. ThreadInit(m)
  BY DEF MutexInit
<1>2. /\ pc = [t \in Threads |-> IF t = 0 THEN "begin" ELSE "none"]
      /\ held = {} /\ mem = m
  BY <1>1 DEF ThreadInit
<1>3. TwoInv /\ LockInv
  BY <1>1, <1>2, TwoStart, StartUnlocked
<1>4. /\ mem \in MutexData
      /\ mem.shared_counter = 1 /\ mem.shared_counter_atomic = 1 /\ mem.i[1] = 0 /\ mem.i[2] = 0
  BY <1>2 DEF MutexData
<1>5. pc[1] = "none" /\ pc[2] = "none"
  BY <1>2, ThreadsAssumption
<1> QED
  BY <1>3, <1>4, <1>5 DEF MutexInv, Made

(* What a step leaves of the other thread. *)
LEMMA MutexLeft ==
    ASSUME MutexInv, NEW t \in {1, 2}, NEW a, NEW b, Go(t, a, b), a # "none", a # "end",
           LockInv', mem' \in MutexData,
           \A s \in {1, 2} : s # t => /\ Has(s, "counter_mutex") => Has(s, "counter_mutex")'
                                      /\ mem'.reg[s] = mem.reg[s] /\ mem'.i[s] = mem.i[s],
           b \in {"load", "store", "unlock"} => Has(t, "counter_mutex")',
           b = "store" => mem'.reg[t] = mem'.shared_counter,
           b = "end" => mem'.i[t] = Loops,
           \/ mem'.shared_counter = mem.shared_counter /\ Made(b, mem'.i[t]) = Made(a, mem.i[t])
           \/ /\ Has(t, "counter_mutex")
              /\ mem'.shared_counter = mem.shared_counter + 1 /\ Made(b, mem'.i[t]) = Made(a, mem.i[t]) + 1,
           mem'.shared_counter_atomic + mem.i[t] = mem.shared_counter_atomic + mem'.i[t]
    PROVE  MutexInv'
<1>1. /\ TwoInv' /\ pc[t] = a /\ pc'[t] = b
      /\ \A s \in {1, 2} : s # t => pc'[s] = pc[s]
  BY TwoGo DEF MutexInv
<1>2. PICK o \in {1, 2} : o # t
  OBVIOUS
<1>3. /\ pc'[o] = pc[o] /\ mem'.reg[o] = mem.reg[o] /\ mem'.i[o] = mem.i[o]
      /\ Has(o, "counter_mutex") => Has(o, "counter_mutex")'
  BY <1>1, <1>2
<1>4. \A s \in {1, 2} : s = t \/ s = o
  BY <1>2
<1>5. \A s \in {1, 2} : pc'[s] \in {"load", "store", "unlock"} => Has(s, "counter_mutex")'
  BY <1>1, <1>3, <1>4 DEF MutexInv
<1>6. pc'[o] = "store" => mem'.reg[o] = mem'.shared_counter
  <2>1. CASE Has(t, "counter_mutex")
    <3>1. pc[o] # "store"
      BY <1>2, <2>1 DEF MutexInv, LockInv
    <3> QED
      BY <1>3, <3>1
  <2>2. CASE mem'.shared_counter = mem.shared_counter
    BY <1>3, <2>2 DEF MutexInv
  <2> QED
    BY <2>1, <2>2
<1>7. \A s \in {1, 2} : pc'[s] = "store" => mem'.reg[s] = mem'.shared_counter
  BY <1>1, <1>4, <1>6
<1>8. \A s \in {1, 2} : pc'[s] = "end" => mem'.i[s] = Loops
  BY <1>1, <1>3, <1>4 DEF MutexInv
<1>9. /\ mem.shared_counter = 1 + Made(a, mem.i[t]) + Made(pc[o], mem.i[o])
      /\ mem.shared_counter_atomic = 1 + mem.i[t] + mem.i[o]
      /\ \A s \in {1, 2} : mem.i[s] \in Nat /\ mem'.i[s] \in Nat
      /\ mem.shared_counter \in Nat /\ mem'.shared_counter \in Nat
      /\ mem.shared_counter_atomic \in Nat /\ mem'.shared_counter_atomic \in Nat
  BY <1>1, <1>2 DEF MutexInv, MutexData, Made
<1>10. \A p, n : n \in Nat => Made(p, n) \in Nat
  BY DEF Made
<1>11. mem'.shared_counter = 1 + Made(b, mem'.i[t]) + Made(pc'[o], mem'.i[o])
  BY <1>3, <1>9, <1>10
<1>12. mem'.shared_counter_atomic = 1 + mem'.i[t] + mem'.i[o]
  BY <1>3, <1>9
<1>13. /\ mem'.shared_counter = 1 + Made(pc'[1], mem'.i[1]) + Made(pc'[2], mem'.i[2])
       /\ mem'.shared_counter_atomic = 1 + mem'.i[1] + mem'.i[2]
  <2>1. CASE t = 1
    BY <1>1, <1>2, <1>11, <1>12, <2>1
  <2>2. CASE t = 2
    <3>1. o = 1 /\ Made(pc'[1], mem'.i[1]) \in Nat /\ Made(pc'[2], mem'.i[2]) \in Nat
      BY <1>2, <1>9, <1>10, <2>2
    <3> QED
      BY <1>1, <1>9, <1>11, <1>12, <2>2, <3>1
  <2> QED
    BY <2>1, <2>2
<1> QED
  BY <1>1, <1>5, <1>7, <1>8, <1>13 DEF MutexInv

(* The rounds of a thread. *)
LEMMA MutexStep ==
    ASSUME MutexInv, NEW t \in {1, 2}, MutexWorker(t)
    PROVE  MutexInv'
<1>0. /\ LockInv /\ mem \in MutexData /\ t \in Threads
      /\ mem.reg[t] \in Nat /\ mem.i[t] \in Nat /\ mem.shared_counter \in Nat /\ mem.shared_counter_atomic \in Nat
      /\ pc[t] \in {"load", "store", "unlock"} => Has(t, "counter_mutex")
  BY ThreadsAssumption DEF MutexInv, MutexData
<1>1. ASSUME NEW a \in {"begin", "lock", "load", "store", "unlock", "atomic"},
             NEW b \in {"begin", "lock", "load", "store", "unlock", "atomic", "end"}, Go(t, a, b), UNCHANGED held, mem' \in MutexData,
             \A s \in {1, 2} : s # t => mem'.reg[s] = mem.reg[s] /\ mem'.i[s] = mem.i[s],
             b \in {"load", "store", "unlock"} => a \in {"load", "store", "unlock"},
             b = "store" => mem'.reg[t] = mem'.shared_counter,
             b = "end" => mem'.i[t] = Loops,
             \/ mem'.shared_counter = mem.shared_counter /\ Made(b, mem'.i[t]) = Made(a, mem.i[t])
             \/ /\ a = "store"
                /\ mem'.shared_counter = mem.shared_counter + 1 /\ Made(b, mem'.i[t]) = Made(a, mem.i[t]) + 1,
             mem'.shared_counter_atomic + mem.i[t] = mem.shared_counter_atomic + mem'.i[t]
      PROVE  MutexInv'
  <2>1. LockInv' /\ \A s : Has(s, "counter_mutex")' <=> Has(s, "counter_mutex")
    BY <1>0, <1>1 DEF LockInv, Has
  <2>2. pc[t] = a
    BY <1>1 DEF Go
  <2> QED
    BY <1>0, <1>1, <2>1, <2>2, MutexLeft
<1>2. ASSUME NEW a \in {"begin", "load", "store", "lock", "unlock", "atomic"},
             NEW b \in {"begin", "lock", "load", "atomic", "end"}, Go(t, a, b), mem' = mem,
             \/ UNCHANGED held /\ b # "load"
             \/ Lock(t, a, "counter_mutex", b)
             \/ Holds(t, "counter_mutex") /\ held' = Released(t, "counter_mutex") /\ b = "atomic",
             b = "end" => mem.i[t] = Loops,
             Made(b, mem.i[t]) = Made(a, mem.i[t])
      PROVE  MutexInv'
  <2>1. /\ LockInv'
        /\ \A s \in {1, 2} : s # t => (Has(s, "counter_mutex") => Has(s, "counter_mutex")')
        /\ b = "load" => Has(t, "counter_mutex")'
    <3>1. CASE UNCHANGED held /\ b # "load"
      BY <1>0, <3>1 DEF LockInv, Has
    <3>2. CASE Lock(t, a, "counter_mutex", b)
      BY <1>0, <3>2, LockTaken
    <3>3. CASE Holds(t, "counter_mutex") /\ held' = Released(t, "counter_mutex") /\ b = "atomic"
      BY <1>0, <3>3, LockGiven
    <3> QED
      BY <1>2, <3>1, <3>2, <3>3
  <2> QED
    BY <1>0, <1>2, <2>1, MutexLeft
<1>3. CASE When(t, "begin", mem.i[t] < Loops, "lock")
  BY <1>2, <1>3 DEF When, Made
<1>4. CASE When(t, "begin", mem.i[t] = Loops, "end")
  BY <1>2, <1>4 DEF When, Made
<1>5. CASE Lock(t, "lock", "counter_mutex", "load")
  BY <1>2, <1>5 DEF Lock, Made
<1>6. CASE Do(t, "load", [mem EXCEPT !.reg[t] = mem.shared_counter], "store")
  <2>1. Go(t, "load", "store") /\ UNCHANGED held /\ mem' = [mem EXCEPT !.reg[t] = mem.shared_counter]
    BY <1>6 DEF Do
  <2>2. /\ mem' \in MutexData /\ mem'.reg[t] = mem.shared_counter /\ mem'.shared_counter = mem.shared_counter
        /\ mem'.i = mem.i /\ mem'.shared_counter_atomic = mem.shared_counter_atomic
        /\ \A s \in {1, 2} : s # t => mem'.reg[s] = mem.reg[s]
    BY <1>0, <2>1 DEF MutexData
  <2>3. Made("store", mem'.i[t]) = Made("load", mem.i[t])
    BY <2>2 DEF Made
  <2> QED
    BY <1>0, <1>1, <2>1, <2>2, <2>3
<1>7. CASE Do(t, "store", [mem EXCEPT !.shared_counter = mem.reg[t] + 1], "unlock")
  <2>1. /\ Go(t, "store", "unlock") /\ UNCHANGED held /\ mem' = [mem EXCEPT !.shared_counter = mem.reg[t] + 1]
        /\ pc[t] = "store"
    BY <1>7 DEF Do, Go
  <2>2. mem.reg[t] = mem.shared_counter
    BY <2>1 DEF MutexInv
  <2>3. /\ mem' \in MutexData /\ mem'.reg = mem.reg /\ mem'.shared_counter = mem.shared_counter + 1
        /\ mem'.i = mem.i /\ mem'.shared_counter_atomic = mem.shared_counter_atomic
    BY <1>0, <2>1, <2>2 DEF MutexData
  <2>4. Made("unlock", mem'.i[t]) = Made("store", mem.i[t]) + 1
    BY <2>3 DEF Made
  <2> QED
    BY <1>0, <1>1, <2>1, <2>3, <2>4
<1>8. CASE Unlock(t, "unlock", "counter_mutex", "atomic")
  BY <1>2, <1>8 DEF Unlock, Made
<1>9. CASE Do(t, "atomic", [mem EXCEPT !.shared_counter_atomic = @ + 1, !.i[t] = @ + 1], "begin")
  <2>1. /\ Go(t, "atomic", "begin") /\ UNCHANGED held
        /\ mem' = [mem EXCEPT !.shared_counter_atomic = mem.shared_counter_atomic + 1, !.i[t] = mem.i[t] + 1]
    BY <1>0, <1>9 DEF Do, MutexData
  <2>2. PICK n \in Nat, k \in Nat : n = mem.shared_counter_atomic + 1 /\ k = mem.i[t] + 1
    BY <1>0
  <2>3. mem' = [mem EXCEPT !.shared_counter_atomic = n, !.i[t] = k]
    BY <2>1, <2>2
  <2>4. /\ mem' \in MutexData /\ mem'.reg = mem.reg /\ mem'.shared_counter = mem.shared_counter
        /\ mem'.i[t] = k /\ mem'.shared_counter_atomic = n
        /\ \A s \in {1, 2} : s # t => mem'.i[s] = mem.i[s]
    BY <1>0, <2>3 DEF MutexData
  <2>5. Made("begin", mem'.i[t]) = Made("atomic", mem.i[t])
    BY <2>2, <2>4 DEF Made
  <2>6. mem'.shared_counter_atomic + mem.i[t] = mem.shared_counter_atomic + mem'.i[t]
    BY <1>0, <2>2, <2>4
  <2> QED
    BY <1>0, <1>1, <2>1, <2>4, <2>5, <2>6
<1> QED
  BY <1>3, <1>4, <1>5, <1>6, <1>7, <1>8, <1>9 DEF MutexWorker

(* No increment of the counter is lost. *)
LEMMA MutexInductive ==
    ASSUME program = "mutex", MutexInv, [Next]_vars
    PROVE  MutexInv'
<1>1. CASE UNCHANGED <<pc, held, mem>>
  BY <1>1 DEF MutexInv, TwoInv, LockInv, Has
<1>2. ASSUME NEW t \in Threads, SpuriousWake(t) PROVE MutexInv'
  BY <1>1, <1>2 DEF SpuriousWake
<1>3. CASE TwoThreads
  <2>1. /\ TwoInv' /\ UNCHANGED <<held, mem>>
        /\ \A t \in {1, 2} : pc'[t] = pc[t] \/ (pc[t] = "none" /\ pc'[t] = "begin")
    BY <1>3, TwoMain DEF MutexInv
  <2>2. LockInv' /\ \A t : Has(t, "counter_mutex")' <=> Has(t, "counter_mutex")
    BY <2>1 DEF MutexInv, LockInv, Has
  <2>3. /\ Made(pc'[1], mem.i[1]) = Made(pc[1], mem.i[1])
        /\ Made(pc'[2], mem.i[2]) = Made(pc[2], mem.i[2])
    BY <2>1 DEF Made
  <2> QED
    BY <2>1, <2>2, <2>3 DEF MutexInv
<1>4. ASSUME NEW t \in Threads, t # 0, MutexWorker(t) PROVE MutexInv'
  <2>1. pc[t] # "none"
    BY <1>4 DEF MutexWorker, Lock, Unlock, When, Do, Go
  <2>2. t \in {1, 2}
    BY <1>4, <2>1 DEF MutexInv, TwoInv
  <2> QED
    BY <1>4, <2>2, MutexStep
<1>5. ASSUME NEW t \in Threads, Step(t) PROVE MutexInv'
  <2>1. (t = 0 /\ TwoThreads) \/ (t # 0 /\ MutexWorker(t))
    BY <1>5 DEF Step, Run
  <2> QED
    BY <1>3, <1>4, <2>1
<1> QED
  BY <1>1, <1>2, <1>5, ThreadStep DEF threadVars

-----------------------------------------------------------------------------
(* The counter behind a shared mutex: who is where has locked it so.       *)

CounterData == [m_value : Nat, reg : [{1, 2} -> Nat], rounds : [{1, 2} -> Nat], seen : [{1, 2} -> Nat]]
Writes == {"load", "store", "unlock"}
Reads == {"read", "got"}
Added(place, n) == IF place \in {"unlock", "get", "read"} THEN n + 1 ELSE n

SharedLock ==
    /\ \A h \in held : \E t \in {1, 2}, n \in {0, 1} : h = <<"m_mutex", t, n>>
    /\ \A t \in {1, 2} : (<<"m_mutex", t, 1>> \in held <=> pc[t] \in Writes)
                         /\ (<<"m_mutex", t, 0>> \in held <=> pc[t] \in Reads)
    /\ \A s, t \in {1, 2} : pc[s] \in Writes /\ pc[t] \in Writes \union Reads => s = t

CounterInv ==
    /\ TwoInv /\ SharedLock
    /\ mem \in CounterData
    /\ \A t \in {1, 2} : pc[t] = "store" => mem.reg[t] = mem.m_value
    /\ \A t \in {1, 2} : pc[t] = "end" => mem.rounds[t] = 3
    /\ mem.m_value = Added(pc[1], mem.rounds[1]) + Added(pc[2], mem.rounds[2])

(* At first nobody has. *)
LEMMA CounterStart == CounterInit => CounterInv
<1> SUFFICES ASSUME CounterInit PROVE CounterInv
  OBVIOUS
<1> DEFINE m == [m_value |-> 0, reg |-> [t \in {1, 2} |-> 0],
                 rounds |-> [t \in {1, 2} |-> 0], seen |-> [t \in {1, 2} |-> 0]]
<1>1. ThreadInit(m)
  BY DEF CounterInit
<1>2. /\ pc = [t \in Threads |-> IF t = 0 THEN "begin" ELSE "none"]
      /\ held = {} /\ mem = m
  BY <1>1 DEF ThreadInit
<1>3. TwoInv
  BY <1>1, TwoStart
<1>4. mem \in CounterData /\ mem.m_value = 0 /\ mem.rounds[1] = 0 /\ mem.rounds[2] = 0
  BY <1>2 DEF CounterData
<1>5. pc[1] = "none" /\ pc[2] = "none"
  BY <1>2, ThreadsAssumption
<1>6. \A t \in {1, 2} : pc[t] = "none"
  BY <1>5
<1>7. SharedLock
  BY <1>2, <1>6 DEF SharedLock, Writes, Reads
<1> QED
  BY <1>3, <1>4, <1>5, <1>6, <1>7 DEF CounterInv, Added

(* How a step of a thread leaves the mutex. *)
LEMMA SharedStep ==
    ASSUME TwoInv, SharedLock, NEW t \in {1, 2}, NEW a, NEW b, Go(t, a, b), a # "none", a # "end",
           \/ UNCHANGED held /\ (a \in Writes <=> b \in Writes) /\ (a \in Reads <=> b \in Reads)
           \/ Lock(t, a, "m_mutex", b) /\ a \notin Writes \union Reads /\ b \in Writes
           \/ LockShared(t, a, "m_mutex", b) /\ a \notin Writes \union Reads /\ b \in Reads
           \/ held' = Released(t, "m_mutex") /\ b \notin Writes \union Reads
    PROVE  SharedLock'
<1>1. /\ pc[t] = a /\ pc'[t] = b
      /\ \A s \in {1, 2} : s # t => pc'[s] = pc[s]
  BY TwoGo
<1>0. \A p : ~(p \in Writes /\ p \in Reads)
  BY DEF Writes, Reads
<1>2. CASE UNCHANGED held /\ (a \in Writes <=> b \in Writes) /\ (a \in Reads <=> b \in Reads)
  <2>1. \A s \in {1, 2} : (pc'[s] \in Writes <=> pc[s] \in Writes) /\ (pc'[s] \in Reads <=> pc[s] \in Reads)
    BY <1>1, <1>2
  <2> QED
    BY <1>2, <2>1 DEF SharedLock
<1>3. CASE Lock(t, a, "m_mutex", b) /\ a \notin Writes \union Reads /\ b \in Writes
  <2>1. held' = held \union {<<"m_mutex", t, 1>>} /\ Holders("m_mutex") = {}
    BY <1>3 DEF Lock
  <2>2. held = {}
    BY <2>1 DEF SharedLock, Holders
  <2>3. \A s \in {1, 2} : pc[s] \notin Writes /\ pc[s] \notin Reads
    BY <2>2 DEF SharedLock
  <2>4. \A h \in held' : h = <<"m_mutex", t, 1>>
    BY <2>1, <2>2
  <2>5. \A s \in {1, 2} : s # t => <<"m_mutex", s, 1>> \notin held' /\ <<"m_mutex", s, 0>> \notin held'
    BY <2>4
  <2>6. <<"m_mutex", t, 1>> \in held' /\ <<"m_mutex", t, 0>> \notin held'
    BY <2>1, <2>4
  <2> QED
    BY <1>0, <1>1, <1>3, <2>3, <2>4, <2>5, <2>6 DEF SharedLock
<1>4. CASE LockShared(t, a, "m_mutex", b) /\ a \notin Writes \union Reads /\ b \in Reads
  <2>1. held' = held \union {<<"m_mutex", t, 0>>} /\ \A h \in Holders("m_mutex") : h[3] = 0
    BY <1>4 DEF LockShared
  <2>2. \A s \in {1, 2} : pc[s] \notin Writes
    BY <2>1 DEF SharedLock, Holders
  <2>3. \A s \in {1, 2}, n \in {0, 1} : <<"m_mutex", s, n>> \in held' <=> <<"m_mutex", s, n>> \in held \/ (s = t /\ n = 0)
    BY <2>1
  <2>4. \A h \in held' : \E s \in {1, 2}, n \in {0, 1} : h = <<"m_mutex", s, n>>
    BY <2>1 DEF SharedLock
  <2> QED
    BY <1>0, <1>1, <1>4, <2>2, <2>3, <2>4 DEF SharedLock
<1>5. CASE held' = Released(t, "m_mutex") /\ b \notin Writes \union Reads
  <2>1. \A n \in {0, 1} : <<"m_mutex", t, n>> \in held => \A k \in {0, 1} : <<"m_mutex", t, k>> \in held => k = n
    BY <1>0 DEF SharedLock
  <2>2. \A n \in {0, 1} : <<"m_mutex", t, n>> \notin held'
    <3> SUFFICES ASSUME NEW n \in {0, 1}, <<"m_mutex", t, n>> \in held' PROVE FALSE
      OBVIOUS
    <3> DEFINE h == <<"m_mutex", t, n>>
    <3>1. h \in held /\ h \in Holders("m_mutex") /\ h[2] = t /\ h[3] = n
      BY <1>5 DEF Released, Holders
    <3>2. ASSUME NEW g \in Holders("m_mutex"), g[2] = t PROVE g[3] <= h[3]
      <4>1. PICK s \in {1, 2}, k \in {0, 1} : g = <<"m_mutex", s, k>>
        BY <3>2 DEF Holders, SharedLock
      <4>2. s = t /\ g \in held
        BY <3>2, <4>1 DEF Holders
      <4>3. k = n
        BY <2>1, <3>1, <4>1, <4>2
      <4> QED
        BY <3>1, <4>1, <4>3
    <3> QED
      BY <1>5, <3>1, <3>2 DEF Released
  <2>3. \A s \in {1, 2}, n \in {0, 1} : s # t => (<<"m_mutex", s, n>> \in held' <=> <<"m_mutex", s, n>> \in held)
    BY <1>5 DEF Released
  <2>4. \A h \in held' : h \in held
    BY <1>5 DEF Released
  <2> QED
    BY <1>0, <1>1, <1>5, <2>2, <2>3, <2>4 DEF SharedLock
<1> QED
  BY <1>2, <1>3, <1>4, <1>5

(* What a step leaves of the other thread. *)
LEMMA CounterLeft ==
    ASSUME CounterInv, NEW t \in {1, 2}, NEW a, NEW b, Go(t, a, b), a # "none", a # "end",
           SharedLock', mem' \in CounterData,
           \A s \in {1, 2} : s # t => mem'.reg[s] = mem.reg[s] /\ mem'.rounds[s] = mem.rounds[s],
           b = "store" => mem'.reg[t] = mem'.m_value,
           b = "end" => mem'.rounds[t] = 3,
           \/ mem'.m_value = mem.m_value /\ Added(b, mem'.rounds[t]) = Added(a, mem.rounds[t])
           \/ /\ a = "store"
              /\ mem'.m_value = mem.m_value + 1 /\ Added(b, mem'.rounds[t]) = Added(a, mem.rounds[t]) + 1
    PROVE  CounterInv'
<1>1. /\ TwoInv' /\ pc[t] = a /\ pc'[t] = b
      /\ \A s \in {1, 2} : s # t => pc'[s] = pc[s]
  BY TwoGo DEF CounterInv
<1>2. PICK o \in {1, 2} : o # t
  OBVIOUS
<1>3. pc'[o] = pc[o] /\ mem'.reg[o] = mem.reg[o] /\ mem'.rounds[o] = mem.rounds[o]
  BY <1>1, <1>2
<1>4. \A s \in {1, 2} : s = t \/ s = o
  BY <1>2
<1>5. pc'[o] = "store" => mem'.reg[o] = mem'.m_value
  <2>1. CASE a = "store"
    <3>1. pc[o] # "store"
      BY <1>1, <1>2, <2>1 DEF CounterInv, SharedLock, Writes
    <3> QED
      BY <1>3, <3>1
  <2>2. CASE mem'.m_value = mem.m_value
    BY <1>3, <2>2 DEF CounterInv
  <2> QED
    BY <2>1, <2>2
<1>6. \A s \in {1, 2} : pc'[s] = "store" => mem'.reg[s] = mem'.m_value
  BY <1>1, <1>4, <1>5
<1>7. \A s \in {1, 2} : pc'[s] = "end" => mem'.rounds[s] = 3
  BY <1>1, <1>3, <1>4 DEF CounterInv
<1>8. /\ mem.m_value = Added(a, mem.rounds[t]) + Added(pc[o], mem.rounds[o])
      /\ \A s \in {1, 2} : mem.rounds[s] \in Nat /\ mem'.rounds[s] \in Nat
      /\ mem.m_value \in Nat /\ mem'.m_value \in Nat
  BY <1>1, <1>2 DEF CounterInv, CounterData, Added
<1>9. \A p, n : n \in Nat => Added(p, n) \in Nat
  BY DEF Added
<1>10. mem'.m_value = Added(b, mem'.rounds[t]) + Added(pc'[o], mem'.rounds[o])
  BY <1>3, <1>8, <1>9
<1>11. mem'.m_value = Added(pc'[1], mem'.rounds[1]) + Added(pc'[2], mem'.rounds[2])
  <2>1. CASE t = 1
    BY <1>1, <1>2, <1>10, <2>1
  <2>2. CASE t = 2
    <3>1. o = 1 /\ Added(pc'[1], mem'.rounds[1]) \in Nat /\ Added(pc'[2], mem'.rounds[2]) \in Nat
      BY <1>2, <1>8, <1>9, <2>2
    <3> QED
      BY <1>1, <1>8, <1>10, <2>2, <3>1
  <2> QED
    BY <2>1, <2>2
<1> QED
  BY <1>1, <1>6, <1>7, <1>11 DEF CounterInv

(* The rounds of a thread. *)
LEMMA CounterStep ==
    ASSUME CounterInv, NEW t \in {1, 2}, increment_and_print(t)
    PROVE  CounterInv'
<1> USE DEF Writes, Reads
<1>0. /\ TwoInv /\ SharedLock /\ mem \in CounterData /\ t \in Threads
      /\ mem.reg[t] \in Nat /\ mem.rounds[t] \in Nat /\ mem.m_value \in Nat
  BY ThreadsAssumption DEF CounterInv, CounterData
<1>1. ASSUME NEW a \in {"begin", "increment", "unlock", "get", "got"},
             NEW b \in {"begin", "increment", "load", "get", "read", "end"}, Go(t, a, b), mem' = mem,
             \/ UNCHANGED held /\ a \in {"begin"} /\ b \in {"increment", "end"}
             \/ Lock(t, a, "m_mutex", b) /\ a = "increment" /\ b = "load"
             \/ LockShared(t, a, "m_mutex", b) /\ a = "get" /\ b = "read"
             \/ held' = Released(t, "m_mutex") /\ b \in {"get", "begin"},
             b = "end" => mem.rounds[t] = 3,
             Added(b, mem.rounds[t]) = Added(a, mem.rounds[t])
      PROVE  CounterInv'
  <2>1. SharedLock'
    BY <1>0, <1>1, SharedStep
  <2> QED
    BY <1>0, <1>1, <2>1, CounterLeft
<1>2. CASE When(t, "begin", mem.rounds[t] < 3, "increment")
  BY <1>1, <1>2 DEF When, Added
<1>3. CASE When(t, "begin", mem.rounds[t] = 3, "end")
  BY <1>1, <1>3 DEF When, Added
<1>4. CASE Lock(t, "increment", "m_mutex", "load")
  BY <1>1, <1>4 DEF Lock, Added
<1>5. CASE Do(t, "load", [mem EXCEPT !.reg[t] = mem.m_value], "store")
  <2>1. Go(t, "load", "store") /\ UNCHANGED held /\ mem' = [mem EXCEPT !.reg[t] = mem.m_value]
    BY <1>5 DEF Do
  <2>2. /\ mem' \in CounterData /\ mem'.reg[t] = mem.m_value /\ mem'.m_value = mem.m_value
        /\ mem'.rounds = mem.rounds
        /\ \A s \in {1, 2} : s # t => mem'.reg[s] = mem.reg[s]
    BY <1>0, <2>1 DEF CounterData
  <2>3. Added("store", mem'.rounds[t]) = Added("load", mem.rounds[t])
    BY <2>2 DEF Added
  <2>4. SharedLock'
    BY <1>0, <2>1, SharedStep
  <2> QED
    BY <1>0, <2>1, <2>2, <2>3, <2>4, CounterLeft
<1>6. CASE Do(t, "store", [mem EXCEPT !.m_value = mem.reg[t] + 1], "unlock")
  <2>1. /\ Go(t, "store", "unlock") /\ UNCHANGED held /\ mem' = [mem EXCEPT !.m_value = mem.reg[t] + 1]
        /\ pc[t] = "store"
    BY <1>6 DEF Do, Go
  <2>2. mem.reg[t] = mem.m_value
    BY <2>1 DEF CounterInv
  <2>3. /\ mem' \in CounterData /\ mem'.reg = mem.reg /\ mem'.m_value = mem.m_value + 1
        /\ mem'.rounds = mem.rounds
    BY <1>0, <2>1, <2>2 DEF CounterData
  <2>4. Added("unlock", mem'.rounds[t]) = Added("store", mem.rounds[t]) + 1
    BY <2>3 DEF Added
  <2>5. SharedLock'
    BY <1>0, <2>1, SharedStep
  <2> QED
    BY <1>0, <2>1, <2>3, <2>4, <2>5, CounterLeft
<1>7. CASE Unlock(t, "unlock", "m_mutex", "get")
  BY <1>1, <1>7 DEF Unlock, Added
<1>8. CASE LockShared(t, "get", "m_mutex", "read")
  BY <1>1, <1>8 DEF LockShared, Added
<1>9. CASE Do(t, "read", [mem EXCEPT !.seen[t] = mem.m_value, !.rounds[t] = @ + 1], "got")
  <2>1. PICK k \in Nat : k = mem.rounds[t] + 1
    BY <1>0
  <2>2. /\ Go(t, "read", "got") /\ UNCHANGED held
        /\ mem' = [mem EXCEPT !.seen[t] = mem.m_value, !.rounds[t] = k]
    BY <1>0, <1>9, <2>1 DEF Do, CounterData
  <2>3. /\ mem' \in CounterData /\ mem'.reg = mem.reg /\ mem'.m_value = mem.m_value
        /\ mem'.rounds[t] = k
        /\ \A s \in {1, 2} : s # t => mem'.rounds[s] = mem.rounds[s]
    BY <1>0, <2>2 DEF CounterData
  <2>4. Added("got", mem'.rounds[t]) = Added("read", mem.rounds[t])
    BY <2>1, <2>3 DEF Added
  <2>5. SharedLock'
    BY <1>0, <2>2, SharedStep
  <2> QED
    BY <1>0, <2>2, <2>3, <2>4, <2>5, CounterLeft
<1>10. CASE Unlock(t, "got", "m_mutex", "begin")
  BY <1>1, <1>10 DEF Unlock, Added
<1> QED
  BY <1>2, <1>3, <1>4, <1>5, <1>6, <1>7, <1>8, <1>9, <1>10 DEF increment_and_print, Increment, Get

(* No increment of this counter is lost either. *)
LEMMA CounterInductive ==
    ASSUME program = "counter", CounterInv, [Next]_vars
    PROVE  CounterInv'
<1>1. CASE UNCHANGED <<pc, held, mem>>
  BY <1>1 DEF CounterInv, TwoInv, SharedLock
<1>2. ASSUME NEW t \in Threads, SpuriousWake(t) PROVE CounterInv'
  BY <1>1, <1>2 DEF SpuriousWake
<1>3. CASE TwoThreads
  <2>1. /\ TwoInv' /\ UNCHANGED <<held, mem>>
        /\ \A t \in {1, 2} : pc'[t] = pc[t] \/ (pc[t] = "none" /\ pc'[t] = "begin")
    BY <1>3, TwoMain DEF CounterInv
  <2>2. SharedLock'
    BY <2>1 DEF CounterInv, SharedLock, Writes, Reads
  <2>3. /\ Added(pc'[1], mem.rounds[1]) = Added(pc[1], mem.rounds[1])
        /\ Added(pc'[2], mem.rounds[2]) = Added(pc[2], mem.rounds[2])
    BY <2>1 DEF Added
  <2> QED
    BY <2>1, <2>2, <2>3 DEF CounterInv
<1>4. ASSUME NEW t \in Threads, t # 0, increment_and_print(t) PROVE CounterInv'
  <2>1. pc[t] # "none"
    BY <1>4 DEF increment_and_print, Increment, Get, Lock, LockShared, Unlock, When, Do, Go
  <2>2. t \in {1, 2}
    BY <1>4, <2>1 DEF CounterInv, TwoInv
  <2> QED
    BY <1>4, <2>2, CounterStep
<1>5. ASSUME NEW t \in Threads, Step(t) PROVE CounterInv'
  <2>1. (t = 0 /\ TwoThreads) \/ (t # 0 /\ increment_and_print(t))
    BY <1>5 DEF Step, Run
  <2> QED
    BY <1>3, <1>4, <2>1
<1> QED
  BY <1>1, <1>2, <1>5, ThreadStep DEF threadVars

-----------------------------------------------------------------------------
(* The nuclear reaction: each thread has a part of the values before it,   *)
(* its range until it splits and what it keeps of it from then on.         *)

Mine(kind, size) == IF kind = "basics" THEN 0 ELSE size \div maxThreadCount
Values(from, size) == from .. from + size - 1

Part(kind, place, range) ==
    IF place \in {"none", "begin", "split"} THEN Values(range[1], range[2])
    ELSE IF place \in {"spawn1", "spawn2", "work"} THEN Values(range[1], Mine(kind, range[2]))
    ELSE {}

Parts(kind, place, range) == [t \in Threads |-> Part(kind, place[t], range[t])]

(* The parts P and what was counted, C, make up all values, once.          *)
Divided(P, C, n) ==
    /\ \A t \in Threads : P[t] \subseteq 0..ValuesCount - 1
    /\ \A s, t \in Threads : s # t => P[s] \cap P[t] = {}
    /\ \A t \in Threads : P[t] \cap C = {}
    /\ C \subseteq 0..ValuesCount - 1
    /\ \A v \in 0..ValuesCount - 1 : v \in C \/ \E t \in Threads : v \in P[t]
    /\ n = Cardinality(C)

(* A thread counts its part. *)
LEMMA PartCounted ==
    ASSUME NEW P, NEW Q, NEW C, NEW n, Divided(P, C, n), NEW t \in Threads,
           \A s \in Threads : Q[s] = IF s = t THEN {} ELSE P[s]
    PROVE  Divided(Q, C \union P[t], n + Cardinality(P[t]))
<1>0. IsFiniteSet(0..ValuesCount - 1)
  <2>1. 0 \in Int /\ ValuesCount - 1 \in Int
    BY ValuesAssumption
  <2> QED
    BY <2>1, FS_Interval
<1>1. /\ C \subseteq 0..ValuesCount - 1 /\ P[t] \subseteq 0..ValuesCount - 1 /\ P[t] \cap C = {}
  BY DEF Divided
<1>2. IsFiniteSet(C) /\ IsFiniteSet(P[t])
  BY <1>0, <1>1, FS_Subset
<1>3. /\ Cardinality(C \union P[t]) = Cardinality(C) + Cardinality(P[t]) - Cardinality(C \cap P[t])
      /\ Cardinality(C) \in Nat /\ Cardinality(P[t]) \in Nat
  BY <1>2, FS_Union, FS_CardinalityType
<1>4. Cardinality(C \cap P[t]) = 0
  BY <1>1, FS_EmptySet
<1>5. n + Cardinality(P[t]) = Cardinality(C \union P[t])
  BY <1>3, <1>4 DEF Divided
<1>6. \A s \in Threads : Q[s] \cap (C \union P[t]) = {}
  BY DEF Divided
<1>7. \A v \in 0..ValuesCount - 1 : v \in (C \union P[t]) \/ \E s \in Threads : v \in Q[s]
  <2> SUFFICES ASSUME NEW v \in 0..ValuesCount - 1, v \notin C \union P[t]
               PROVE  \E s \in Threads : v \in Q[s]
    OBVIOUS
  <2>1. PICK s \in Threads : v \in P[s]
    BY DEF Divided
  <2> QED
    BY <2>1
<1>8. /\ \A s \in Threads : Q[s] \subseteq 0..ValuesCount - 1
      /\ \A r, s \in Threads : r # s => Q[r] \cap Q[s] = {}
  BY DEF Divided
<1> QED
  BY <1>1, <1>5, <1>6, <1>7, <1>8 DEF Divided

(* A thread gives some of its part to two that have none. *)
LEMMA PartSplit ==
    ASSUME NEW P, NEW Q, NEW C, NEW n, Divided(P, C, n),
           NEW t \in Threads, NEW c \in Threads, NEW d \in Threads, t # c, t # d, c # d,
           P[c] = {}, P[d] = {}, P[t] = Q[t] \union Q[c] \union Q[d],
           Q[t] \cap Q[c] = {}, Q[t] \cap Q[d] = {}, Q[c] \cap Q[d] = {},
           \A s \in Threads : s \notin {t, c, d} => Q[s] = P[s]
    PROVE  Divided(Q, C, n)
<1>1. \A s \in Threads : s \in {t, c, d} => Q[s] \subseteq P[t]
  OBVIOUS
<1>2. \A s \in Threads : Q[s] \subseteq 0..ValuesCount - 1 /\ Q[s] \cap C = {}
  BY <1>1 DEF Divided
<1>3. ASSUME NEW r \in Threads, NEW s \in Threads, r # s PROVE Q[r] \cap Q[s] = {}
  <2>1. CASE r \in {t, c, d} /\ s \in {t, c, d}
    BY <1>3, <2>1
  <2>2. CASE r \in {t, c, d} /\ s \notin {t, c, d}
    <3>1. P[t] \cap P[s] = {} /\ Q[s] = P[s]
      BY <2>2 DEF Divided
    <3> QED
      BY <1>1, <2>2, <3>1
  <2>3. CASE r \notin {t, c, d} /\ s \in {t, c, d}
    <3>1. P[t] \cap P[r] = {} /\ Q[r] = P[r]
      BY <2>3 DEF Divided
    <3> QED
      BY <1>1, <2>3, <3>1
  <2>4. CASE r \notin {t, c, d} /\ s \notin {t, c, d}
    BY <1>3, <2>4 DEF Divided
  <2> QED
    BY <2>1, <2>2, <2>3, <2>4
<1>4. ASSUME NEW v \in 0..ValuesCount - 1, v \notin C PROVE \E s \in Threads : v \in Q[s]
  <2>1. PICK s \in Threads : v \in P[s]
    BY <1>4 DEF Divided
  <2>2. CASE s = t
    BY <2>1, <2>2
  <2>3. CASE s # t
    BY <2>1, <2>3
  <2> QED
    BY <2>2, <2>3
<1> QED
  BY <1>2, <1>3, <1>4 DEF Divided

(* What is kept is not more than there is. *)
LEMMA MineIs == ASSUME NEW kind, NEW size \in Nat PROVE Mine(kind, size) \in 0..size
<1>1. ASSUME NEW k \in Nat \ {0} PROVE size \div k \in 0..size
  <2>1. size \div k \in Int
    BY Z3
  <2> QED
    BY Z3
<1> QED
  BY <1>1, ValuesAssumption DEF Mine

(* How many values a part has. *)
LEMMA ValuesAre ==
    ASSUME NEW from \in Nat, NEW size \in Nat
    PROVE  Cardinality(Values(from, size)) = size
<1>1. from \in Int /\ from + size - 1 \in Int
  OBVIOUS
<1>2. Cardinality(from .. from + size - 1) = IF from > from + size - 1 THEN 0 ELSE (from + size - 1) - from + 1
  BY <1>1, FS_Interval
<1>3. Cardinality(from .. from + size - 1) = size
  BY <1>2
<1> QED
  BY <1>3 DEF Values

(* Who splits has two children, whose threads begin in the end: `place` is *)
(* where each thread is, and `range` what it was given.                    *)
Worker_places == {"none", "begin", "split", "spawn1", "spawn2", "work", "join", "end"}
Child(t, c) == c = 2 * t \/ c = 2 * t + 1

(* Which ranges are not begun yet. *)
Given(place, c) ==
    \/ c = 1 /\ place[0] = "begin"
    \/ \E t \in Threads : t # 0 /\ c = 2 * t /\ place[t] = "spawn1"
    \/ \E t \in Threads : t # 0 /\ c = 2 * t + 1 /\ place[t] \in {"spawn1", "spawn2"}

Tree(place, range) ==
    /\ place = [t \in Threads |-> place[t]]
    /\ range \in [Threads -> Nat \X Nat]
    /\ place[0] \in {"begin", "join", "end"} /\ range[0][2] = 0
    /\ place[0] = "begin" => \A t \in Threads : t # 0 => place[t] = "none"
    /\ \A t \in Threads : t # 0 => place[t] \in Worker_places
    /\ \A t, c \in Threads : t # 0 /\ Child(t, c) /\ place[t] \in {"none", "begin", "split"} =>
          place[c] = "none" /\ range[c][2] = 0
    /\ \A t \in Threads : t # 0 /\ place[t] = "spawn1" => 2 * t \in Threads /\ place[2 * t] = "none"
    /\ \A t \in Threads : t # 0 /\ place[t] \in {"spawn1", "spawn2"} =>
          2 * t + 1 \in Threads /\ place[2 * t + 1] = "none"
    /\ \A c \in Threads : place[c] = "none" /\ range[c][2] # 0 => Given(place, c)

(* A child has one parent, which comes before it. *)
LEMMA OneParent ==
    ASSUME NEW t \in Threads, t # 0, NEW c, Child(t, c)
    PROVE  /\ c # t /\ c # 0 /\ c # 1
           /\ \A s \in Threads : Child(s, c) => s = t
<1>1. t \in Nat /\ \A s \in Threads : s \in Nat
  BY ThreadsAssumption
<1>2. c # t /\ c # 0 /\ c # 1
  BY <1>1 DEF Child
<1>3. ASSUME NEW s \in Threads, Child(s, c) PROVE s = t
  BY <1>1, <1>3 DEF Child
<1> QED
  BY <1>2, <1>3

(* A step that spawns nobody. *)
LEMMA TreeGo ==
    ASSUME NEW p, NEW g, Tree(p, g), NEW t \in Threads, t # 0, NEW a, NEW b, p[t] = a,
           NEW q, q = [p EXCEPT ![t] = b], a # "none", a \notin {"spawn1", "spawn2"},
           b \in {"split", "join", "end"}, b = "split" => a = "begin"
    PROVE  Tree(q, g)
<1>1. /\ q = [s \in Threads |-> q[s]] /\ q[t] = b
      /\ \A s \in Threads : s # t => q[s] = p[s]
  BY DEF Tree
<1>2. 0 \in Threads
  BY ThreadsAssumption
<1>3. /\ q[0] \in {"begin", "join", "end"} /\ q[0] = p[0] /\ p[0] # "begin"
      /\ \A s \in Threads : s # 0 => q[s] \in Worker_places
  BY <1>1, <1>2 DEF Tree, Worker_places
<1>4. \A s, c \in Threads : s # 0 /\ Child(s, c) /\ q[s] \in {"none", "begin", "split"} =>
          q[c] = "none" /\ g[c][2] = 0
  <2> SUFFICES ASSUME NEW s \in Threads, NEW c \in Threads, s # 0, Child(s, c), q[s] \in {"none", "begin", "split"}
               PROVE  q[c] = "none" /\ g[c][2] = 0
    OBVIOUS
  <2>1. p[s] \in {"none", "begin", "split"}
    BY <1>1
  <2>2. p[c] = "none" /\ g[c][2] = 0
    BY <2>1 DEF Tree
  <2> QED
    BY <1>1, <2>2
<1>5. ASSUME NEW s \in Threads, s # 0, q[s] = "spawn1" PROVE 2 * s \in Threads /\ q[2 * s] = "none"
  <2>1. p[s] = "spawn1"
    BY <1>1, <1>5
  <2>2. 2 * s \in Threads /\ p[2 * s] = "none"
    BY <1>5, <2>1 DEF Tree
  <2> QED
    BY <1>1, <2>2
<1>6. ASSUME NEW s \in Threads, s # 0, q[s] \in {"spawn1", "spawn2"}
      PROVE  2 * s + 1 \in Threads /\ q[2 * s + 1] = "none"
  <2>1. p[s] \in {"spawn1", "spawn2"}
    BY <1>1, <1>6
  <2>2. 2 * s + 1 \in Threads /\ p[2 * s + 1] = "none"
    BY <1>6, <2>1 DEF Tree
  <2> QED
    BY <1>1, <2>2
<1>7. ASSUME NEW c \in Threads, q[c] = "none", g[c][2] # 0 PROVE Given(q, c)
  <2>1. p[c] = "none"
    BY <1>1, <1>7
  <2>2. Given(p, c)
    BY <1>7, <2>1 DEF Tree
  <2>3. \A s \in Threads : p[s] \in {"spawn1", "spawn2"} => q[s] = p[s]
    BY <1>1
  <2> QED
    BY <1>3, <2>2, <2>3 DEF Given
<1> QED
  BY <1>1, <1>3, <1>4, <1>5, <1>6, <1>7 DEF Tree

(* A thread divides what it does not keep. *)
LEMMA TreeSplit ==
    ASSUME NEW p, NEW g, Tree(p, g), NEW t \in Threads, t # 0, p[t] = "split",
           2 * t \in Threads, 2 * t + 1 \in Threads, NEW r1 \in Nat \X Nat, NEW r2 \in Nat \X Nat,
           NEW q, q = [p EXCEPT ![t] = "spawn1"], NEW h, h = [g EXCEPT ![2 * t] = r1, ![2 * t + 1] = r2]
    PROVE  Tree(q, h)
<1>0. t \in Nat /\ 0 \in Threads /\ 2 * t # 2 * t + 1
  BY ThreadsAssumption
<1>1. /\ q = [s \in Threads |-> q[s]] /\ q[t] = "spawn1"
      /\ \A s \in Threads : s # t => q[s] = p[s]
      /\ h \in [Threads -> Nat \X Nat]
      /\ \A s \in Threads : ~Child(t, s) => h[s] = g[s]
  BY <1>0 DEF Tree, Child
<1>2. Child(t, 2 * t) /\ Child(t, 2 * t + 1) /\ \A c : Child(t, c) => c # t /\ c # 0 /\ c # 1
  BY OneParent DEF Child
<1>3. /\ q[0] \in {"begin", "join", "end"} /\ q[0] = p[0] /\ p[0] # "begin" /\ h[0][2] = 0
      /\ \A s \in Threads : s # 0 => q[s] \in Worker_places
  BY <1>0, <1>1, <1>2 DEF Tree, Worker_places
<1>4. \A s, c \in Threads : s # 0 /\ Child(s, c) /\ q[s] \in {"none", "begin", "split"} =>
          q[c] = "none" /\ h[c][2] = 0
  <2> SUFFICES ASSUME NEW s \in Threads, NEW c \in Threads, s # 0, Child(s, c), q[s] \in {"none", "begin", "split"}
               PROVE  q[c] = "none" /\ h[c][2] = 0
    OBVIOUS
  <2>1. s # t /\ p[s] \in {"none", "begin", "split"}
    BY <1>1
  <2>2. p[c] = "none" /\ g[c][2] = 0
    BY <2>1 DEF Tree
  <2>3. ~Child(t, c)
    BY <2>1, OneParent
  <2> QED
    BY <1>1, <2>2, <2>3
<1>5. p[2 * t] = "none" /\ p[2 * t + 1] = "none"
  BY <1>2 DEF Tree
<1>6. q[2 * t] = "none" /\ q[2 * t + 1] = "none"
  BY <1>1, <1>2, <1>5
<1>7. \A s \in Threads : s # 0 /\ q[s] = "spawn1" => 2 * s \in Threads /\ q[2 * s] = "none"
  BY <1>1, <1>6 DEF Tree
<1>8. \A s \in Threads : s # 0 /\ q[s] \in {"spawn1", "spawn2"} =>
          2 * s + 1 \in Threads /\ q[2 * s + 1] = "none"
  BY <1>1, <1>6 DEF Tree
<1>9. ASSUME NEW c \in Threads, q[c] = "none", h[c][2] # 0 PROVE Given(q, c)
  <2>1. CASE Child(t, c)
    BY <1>1, <2>1 DEF Given, Child
  <2>2. CASE ~Child(t, c)
    <3>1. p[c] = "none" /\ g[c][2] # 0
      BY <1>1, <1>9, <2>2
    <3>2. Given(p, c)
      BY <3>1 DEF Tree
    <3>3. \A s \in Threads : p[s] \in {"spawn1", "spawn2"} => q[s] = p[s]
      BY <1>1
    <3> QED
      BY <1>3, <3>2, <3>3 DEF Given
  <2> QED
    BY <2>1, <2>2
<1> QED
  BY <1>1, <1>3, <1>4, <1>7, <1>8, <1>9 DEF Tree

(* Its first child begins, or its second. *)
LEMMA TreeSpawn ==
    ASSUME NEW p, NEW g, Tree(p, g), NEW t \in Threads, t # 0, NEW b, NEW c \in Threads,
           \/ p[t] = "spawn1" /\ b = "spawn2" /\ c = 2 * t
           \/ p[t] = "spawn2" /\ b = "work" /\ c = 2 * t + 1,
           NEW q, q = [s \in Threads |-> q[s]], q[t] = b, q[c] = "begin",
           \A s \in Threads : s # t /\ s # c => q[s] = p[s]
    PROVE  Tree(q, g) /\ p[c] = "none"
<1>0. t \in Nat /\ 0 \in Threads /\ 2 * t # 2 * t + 1 /\ \A s \in Threads : s \in Nat
  BY ThreadsAssumption
<1>1. c # t /\ c # 0 /\ c # 1 /\ Child(t, c) /\ \A s \in Threads : Child(s, c) => s = t
  <2>1. Child(t, c)
    BY DEF Child
  <2> QED
    BY <2>1, OneParent
<1>2. /\ q = [s \in Threads |-> q[s]] /\ q[t] = b /\ q[c] = "begin"
      /\ \A s \in Threads : s # t /\ s # c => q[s] = p[s]
  OBVIOUS
<1>3. p[c] = "none"
  BY <1>0 DEF Tree
<1>4. /\ q[0] \in {"begin", "join", "end"} /\ q[0] = p[0] /\ p[0] # "begin"
      /\ \A s \in Threads : s # 0 => q[s] \in Worker_places
  BY <1>0, <1>1, <1>2 DEF Tree, Worker_places
<1>5. \A s, d \in Threads : s # 0 /\ Child(s, d) /\ q[s] \in {"none", "begin", "split"} =>
          q[d] = "none" /\ g[d][2] = 0
  <2> SUFFICES ASSUME NEW s \in Threads, NEW d \in Threads, s # 0, Child(s, d), q[s] \in {"none", "begin", "split"}
               PROVE  q[d] = "none" /\ g[d][2] = 0
    OBVIOUS
  <2>1. s # t /\ p[s] \in {"none", "begin", "split"}
    BY <1>2, <1>3
  <2>2. p[d] = "none" /\ g[d][2] = 0
    BY <2>1 DEF Tree
  <2>3. d # c /\ d # t
    BY <1>1, <2>1, <2>2
  <2> QED
    BY <1>2, <2>2, <2>3
<1>6. ASSUME NEW s \in Threads, s # 0, q[s] = "spawn1" PROVE 2 * s \in Threads /\ q[2 * s] = "none"
  <2>1. s # t /\ p[s] = "spawn1"
    BY <1>2, <1>6
  <2>2. 2 * s \in Threads /\ p[2 * s] = "none" /\ Child(s, 2 * s)
    BY <1>6, <2>1 DEF Tree, Child
  <2>3. 2 * s # c /\ 2 * s # t
    BY <1>1, <2>1, <2>2
  <2> QED
    BY <1>2, <2>2, <2>3
<1>7. ASSUME NEW s \in Threads, s # 0, q[s] \in {"spawn1", "spawn2"}
      PROVE  2 * s + 1 \in Threads /\ q[2 * s + 1] = "none"
  <2>1. p[s] \in {"spawn1", "spawn2"}
    BY <1>2, <1>7
  <2>2. 2 * s + 1 \in Threads /\ p[2 * s + 1] = "none" /\ Child(s, 2 * s + 1)
    BY <1>7, <2>1 DEF Tree, Child
  <2>3. 2 * s + 1 # t
    BY <2>2
  <2>4. 2 * s + 1 # c
    <3>1. CASE s = t
      BY <1>0, <1>2, <1>7, <3>1
    <3>2. CASE s # t
      BY <1>1, <2>2, <3>2
    <3> QED
      BY <3>1, <3>2
  <2> QED
    BY <1>2, <2>2, <2>3, <2>4
<1>8. ASSUME NEW d \in Threads, q[d] = "none", g[d][2] # 0 PROVE Given(q, d)
  <2>1. p[d] = "none" /\ d # c
    BY <1>2, <1>8, <1>3
  <2>2. Given(p, d)
    BY <1>8, <2>1 DEF Tree
  <2>3. ASSUME NEW s \in Threads, s # 0, d = 2 * s, p[s] = "spawn1" PROVE Given(q, d)
    <3>1. s # t /\ s # c
      BY <1>3, <2>1, <2>3
    <3> QED
      BY <1>2, <2>3, <3>1 DEF Given
  <2>4. ASSUME NEW s \in Threads, s # 0, d = 2 * s + 1, p[s] \in {"spawn1", "spawn2"} PROVE Given(q, d)
    <3>1. q[s] \in {"spawn1", "spawn2"}
      <4>1. CASE s = t
        BY <1>2, <2>1, <2>4, <4>1
      <4>2. CASE s # t
        BY <1>2, <1>3, <2>4, <4>2
      <4> QED
        BY <4>1, <4>2
    <3> QED
      BY <2>4, <3>1 DEF Given
  <2> QED
    BY <1>4, <2>2, <2>3, <2>4 DEF Given
<1> QED
  BY <1>2, <1>3, <1>4, <1>5, <1>6, <1>7, <1>8 DEF Tree

(* The reaction begins, and ends. *)
LEMMA TreeMain ==
    ASSUME NEW p, NEW g, Tree(p, g), NEW q,
           \/ p[0] = "begin" /\ q = [s \in Threads |-> IF s = 0 THEN "join" ELSE IF s \in {1} THEN "begin" ELSE p[s]]
           \/ p[0] = "join" /\ q = [p EXCEPT ![0] = "end"]
    PROVE  Tree(q, g)
<1>0. 0 \in Threads /\ 1 \in Threads /\ \A s \in Threads : s \in Nat
  BY ThreadsAssumption
<1>1. CASE p[0] = "begin" /\ q = [s \in Threads |-> IF s = 0 THEN "join" ELSE IF s \in {1} THEN "begin" ELSE p[s]]
  <2>1. /\ q = [s \in Threads |-> q[s]] /\ q[0] = "join" /\ q[1] = "begin"
        /\ \A s \in Threads : s # 0 /\ s # 1 => q[s] = "none"
        /\ \A s \in Threads : s # 0 => p[s] = "none"
    BY <1>0, <1>1 DEF Tree
  <2>2. \A s, c \in Threads : s # 0 /\ Child(s, c) => q[c] = "none" /\ g[c][2] = 0
    <3> SUFFICES ASSUME NEW s \in Threads, NEW c \in Threads, s # 0, Child(s, c)
                 PROVE  q[c] = "none" /\ g[c][2] = 0
      OBVIOUS
    <3>1. c # 0 /\ c # 1
      BY OneParent
    <3> QED
      BY <2>1, <3>1 DEF Tree
  <2>3. ASSUME NEW c \in Threads, q[c] = "none", g[c][2] # 0 PROVE Given(q, c)
    <3>1. c # 0 /\ c # 1 /\ p[c] = "none"
      BY <2>1, <2>3
    <3>2. Given(p, c)
      BY <2>3, <3>1 DEF Tree
    <3> QED
      BY <2>1, <3>1, <3>2 DEF Given
  <2>4. \A s \in Threads : s # 0 => q[s] \in Worker_places /\ q[s] \notin {"spawn1", "spawn2"}
    BY <2>1 DEF Worker_places
  <2> QED
    BY <2>1, <2>2, <2>3, <2>4 DEF Tree
<1>2. CASE p[0] = "join" /\ q = [p EXCEPT ![0] = "end"]
  <2>1. /\ q = [s \in Threads |-> q[s]] /\ q[0] = "end"
        /\ \A s \in Threads : s # 0 => q[s] = p[s]
    BY <1>0, <1>2 DEF Tree
  <2>2. \A s, c \in Threads : s # 0 /\ Child(s, c) /\ q[s] \in {"none", "begin", "split"} =>
          q[c] = "none" /\ g[c][2] = 0
    <3> SUFFICES ASSUME NEW s \in Threads, NEW c \in Threads, s # 0, Child(s, c), q[s] \in {"none", "begin", "split"}
                 PROVE  q[c] = "none" /\ g[c][2] = 0
      OBVIOUS
    <3>1. c # 0
      BY OneParent
    <3> QED
      BY <2>1, <3>1 DEF Tree
  <2>3. ASSUME NEW s \in Threads, s # 0
        PROVE  /\ q[s] = "spawn1" => 2 * s \in Threads /\ q[2 * s] = "none"
               /\ q[s] \in {"spawn1", "spawn2"} => 2 * s + 1 \in Threads /\ q[2 * s + 1] = "none"
    <3>1. q[s] = p[s] /\ 2 * s # 0 /\ 2 * s + 1 # 0
      BY <1>0, <2>1, <2>3
    <3> QED
      BY <2>1, <2>3, <3>1, ZenonT(30) DEF Tree
  <2>4. ASSUME NEW c \in Threads, q[c] = "none", g[c][2] # 0 PROVE Given(q, c)
    <3>1. c # 0 /\ p[c] = "none"
      BY <2>1, <2>4
    <3>2. Given(p, c)
      BY <2>4, <3>1 DEF Tree
    <3> QED
      BY <1>2, <2>1, <3>2 DEF Given
  <2>5. \A s \in Threads : s # 0 => q[s] \in Worker_places
    BY <2>1 DEF Tree
  <2> QED
    BY <2>1, <2>2, <2>3, <2>4, <2>5 DEF Tree
<1> QED
  BY <1>1, <1>2

(* The steps of a worker, in basics and in middle. *)
LEMMA WorkerMoves ==
    ASSUME NEW t,
           (program = "basics" /\ BasicsWorker(t)) \/ (program = "middle" /\ MiddleWorker(t)),
           NEW from, from = mem.range[t][1], NEW size, size = mem.range[t][2],
           NEW mine, mine = Mine(program, size)
    PROVE  \/ SumUp(t, "begin", mem.range[t], "end")
           \/ ~(size < MinSize) /\ \E test : When(t, "begin", test, "split")
           \/ Do(t, "split", [mem EXCEPT !.threadCount = @ + 2,
                                !.range[2 * t] = <<from + mine, (size - mine) \div 2>>,
                                !.range[2 * t + 1] = <<(from + mine) + (size - mine) \div 2,
                                                       (size - mine) - (size - mine) \div 2>>], "spawn1")
           \/ Spawn(t, "spawn1", {2 * t}, "spawn2")
           \/ Spawn(t, "spawn2", {2 * t + 1}, "work")
           \/ SumUp(t, "work", <<from, mine>>, "join")
           \/ Join(t, "join", {2 * t, 2 * t + 1}, "end")
<1>0. /\ When(t, "begin", ~(mem.threadCount > maxThreadCount \/ size < MinSize), "split") => ~(size < MinSize)
      /\ from = mem.range[t][1] /\ size = mem.range[t][2]
  BY DEF When
<1>1. CASE program = "basics" /\ BasicsWorker(t)
  <2>1. mine = 0
    BY <1>1 DEF Mine
  <2> QED
    BY <1>0, <1>1, <2>1 DEF BasicsWorker, nuclearWorker, Halves
<1>2. CASE program = "middle" /\ MiddleWorker(t)
  <2>1. mine = size \div maxThreadCount
    BY <1>2 DEF Mine
  <2> QED
    BY <1>0, <1>2, <2>1 DEF MiddleWorker, nuclearWorker, Halves
<1> QED
  BY <1>1, <1>2

NuclearInv ==
    /\ mem = [range |-> mem.range, threadCount |-> mem.threadCount, sum |-> mem.sum, counted |-> mem.counted]
    /\ Tree(pc, mem.range)
    /\ Divided(Parts(program, pc, mem.range), mem.counted, mem.sum)

(* There is a thread for everyone who is started. *)
Roomy ==
    program \in {"basics", "middle"} =>
        \A t \in Threads : pc[t] = "split" => 2 * t \in Threads /\ 2 * t + 1 \in Threads

(* At first everything is before the first thread. *)
LEMMA NuclearStart == NuclearInit => NuclearInv
<1> SUFFICES ASSUME NuclearInit PROVE NuclearInv
  OBVIOUS
<1> DEFINE g == [t \in Threads |-> IF t = 1 THEN <<0, ValuesCount>> ELSE <<0, 0>>]
<1>1. /\ pc = [t \in Threads |-> IF t = 0 THEN "begin" ELSE "none"]
      /\ mem = [range |-> g, threadCount |-> 1, sum |-> 0, counted |-> {}]
  BY DEF NuclearInit, ThreadInit
<1>2. mem.range = g /\ mem.sum = 0 /\ mem.counted = {}
  BY <1>1
<1>3. 0 \in Threads /\ 1 \in Threads /\ Threads \subseteq Nat /\ ValuesCount \in Nat
  BY ThreadsAssumption, ValuesAssumption
<1>4. /\ pc = [t \in Threads |-> pc[t]] /\ pc[0] = "begin" /\ \A t \in Threads : t # 0 => pc[t] = "none"
  BY <1>1, <1>3
<1>5. /\ g \in [Threads -> Nat \X Nat]
      /\ g[1] = <<0, ValuesCount>> /\ \A t \in Threads : t # 1 => g[t] = <<0, 0>>
  BY <1>3
<1> HIDE DEF g
<1>6. Tree(pc, g)
  <2>1. \A t, c \in Threads : t # 0 /\ Child(t, c) => pc[c] = "none" /\ g[c][2] = 0
    <3> SUFFICES ASSUME NEW t \in Threads, NEW c \in Threads, t # 0, Child(t, c)
                 PROVE  pc[c] = "none" /\ g[c][2] = 0
      OBVIOUS
    <3>1. c # 0 /\ c # 1
      BY OneParent
    <3> QED
      BY <1>4, <1>5, <3>1
  <2>2. \A c \in Threads : g[c][2] # 0 => Given(pc, c)
    BY <1>4, <1>5 DEF Given
  <2>3. g[0][2] = 0
    BY <1>3, <1>5
  <2> QED
    BY <1>4, <1>5, <2>1, <2>2, <2>3 DEF Tree, Worker_places
<1>7. ASSUME NEW kind PROVE Divided(Parts(kind, pc, g), {}, 0)
  <2> DEFINE P == Parts(kind, pc, g)
  <2>1. \A t \in Threads : pc[t] \in {"none", "begin"}
    BY <1>4
  <2>2. \A t \in Threads : P[t] = Values(g[t][1], g[t][2])
    BY <2>1 DEF Parts, Part
  <2>3. P[1] = 0..ValuesCount - 1
    BY <1>3, <1>5, <2>2 DEF Values
  <2>4. \A t \in Threads : t # 1 => P[t] = {}
    BY <1>5, <2>2 DEF Values
  <2>5. Cardinality({}) = 0
    BY FS_EmptySet
  <2> HIDE DEF P
  <2>6. \A t \in Threads : P[t] \subseteq 0..ValuesCount - 1
    BY <2>3, <2>4
  <2>7. \A s, t \in Threads : s # t => P[s] \cap P[t] = {}
    BY <2>4
  <2>8. \A v \in 0..ValuesCount - 1 : \E t \in Threads : v \in P[t]
    BY <1>3, <2>3
  <2>9. Divided(P, {}, 0)
    BY <2>5, <2>6, <2>7, <2>8 DEF Divided
  <2> QED
    BY <2>9 DEF P
<1> QED
  BY <1>1, <1>2, <1>6, <1>7 DEF NuclearInv

(* What a worker does, seen by the ranges and by the values. *)
LEMMA NuclearStep ==
    ASSUME NuclearInv, Roomy, program' = program, NEW t \in Threads, t # 0,
           (program = "basics" /\ BasicsWorker(t)) \/ (program = "middle" /\ MiddleWorker(t))
    PROVE  NuclearInv'
<1> DEFINE g == mem.range
           P == Parts(program, pc, g)
           r == g[t]
           from == r[1]
           size == r[2]
           mine == Mine(program, size)
           half == (size - mine) \div 2
<1>1. /\ mem = [range |-> g, threadCount |-> mem.threadCount, sum |-> mem.sum, counted |-> mem.counted]
      /\ Tree(pc, g) /\ Divided(P, mem.counted, mem.sum)
      /\ pc = [s \in Threads |-> pc[s]] /\ g \in [Threads -> Nat \X Nat]
  BY DEF NuclearInv, Tree
<1>2. from \in Nat /\ size \in Nat /\ r = <<from, size>>
  BY <1>1
<1>3. mine \in 0..size
  BY <1>2, MineIs
<1>4. half \in 0..size - mine
  <2> HIDE DEF size, mine
  <2>1. size - mine \in Nat
    BY <1>2, <1>3
  <2> QED
    BY <2>1
<1>5. ASSUME mem' = mem, Tree(pc', g), Parts(program, pc', g) = P PROVE NuclearInv'
  BY <1>1, <1>5 DEF NuclearInv
<1>6. ASSUME NEW f, NEW n, NEW a, NEW b, SumUp(t, a, <<f, n>>, b), a # "none", a \notin {"spawn1", "spawn2"}, b \in {"join", "end"},
             P[t] = Values(f, n), f \in Nat, n \in Nat
      PROVE  NuclearInv'
  <2>1. /\ pc[t] = a /\ pc' = [pc EXCEPT ![t] = b]
        /\ mem' = [mem EXCEPT !.sum = mem.sum + n, !.counted = mem.counted \union Values(f, n)]
    BY <1>6 DEF SumUp, Do, Go, Values
  <2>2. /\ mem' = [range |-> g, threadCount |-> mem.threadCount, sum |-> mem.sum + n,
                  counted |-> mem.counted \union Values(f, n)]
    BY <1>1, <2>1
  <2>3. /\ mem' = [range |-> mem'.range, threadCount |-> mem'.threadCount, sum |-> mem'.sum, counted |-> mem'.counted]
        /\ mem'.range = g /\ mem'.sum = mem.sum + n /\ mem'.counted = mem.counted \union P[t]
    BY <1>6, <2>2
  <2>4. Tree(pc', g)
    BY <1>1, <1>6, <2>1, TreeGo
  <2>5. Cardinality(P[t]) = n
    BY <1>6, ValuesAre
  <2>6. \A s \in Threads : Parts(program, pc', g)[s] = IF s = t THEN {} ELSE P[s]
    BY <1>1, <1>6, <2>1 DEF Parts, Part
  <2> HIDE DEF P, g
  <2>7. Divided(Parts(program, pc', g), mem.counted \union P[t], mem.sum + n)
    BY <1>1, <2>5, <2>6, PartCounted
  <2> QED
    BY <2>3, <2>4, <2>7 DEF NuclearInv
<1>7. CASE SumUp(t, "begin", r, "end")
  <2>1. pc[t] = "begin"
    BY <1>7 DEF SumUp, Do, Go
  <2>2. P[t] = Values(from, size)
    BY <2>1 DEF Parts, Part
  <2> QED
    BY <1>2, <1>6, <1>7, <2>2
<1>8. CASE \E test : When(t, "begin", test, "split")
  <2>1. pc[t] = "begin" /\ pc' = [pc EXCEPT ![t] = "split"] /\ mem' = mem
    BY <1>8 DEF When, Go
  <2>2. Tree(pc', g)
    BY <1>1, <2>1, TreeGo
  <2>3. Parts(program, pc', g) = P
    BY <1>1, <2>1 DEF Parts, Part
  <2> QED
    BY <1>5, <2>1, <2>2, <2>3
<1>9. ASSUME NEW c, NEW a, NEW b, Spawn(t, a, {c}, b),
             \/ a = "spawn1" /\ b = "spawn2" /\ c = 2 * t
             \/ a = "spawn2" /\ b = "work" /\ c = 2 * t + 1
      PROVE  NuclearInv'
  <2>1. /\ pc[t] = a /\ mem' = mem
        /\ pc' = [s \in Threads |-> IF s = t THEN b ELSE IF s \in {c} THEN "begin" ELSE pc[s]]
    BY <1>9 DEF Spawn
  <2>2. c \in Threads
    BY <1>1, <1>9, <2>1 DEF Tree
  <2>3. Tree(pc', g) /\ pc[c] = "none"
    <3>1. \/ pc[t] = "spawn1" /\ b = "spawn2" /\ c = 2 * t
          \/ pc[t] = "spawn2" /\ b = "work" /\ c = 2 * t + 1
      BY <1>9, <2>1
    <3>2. c # t
      <4>1. t \in Nat
        BY ThreadsAssumption
      <4> QED
        BY <1>9, <4>1
    <3>3. /\ pc' = [s \in Threads |-> pc'[s]] /\ pc'[t] = b /\ pc'[c] = "begin"
          /\ \A s \in Threads : s # t /\ s # c => pc'[s] = pc[s]
      BY <2>1, <2>2, <3>2
    <3>4. Tree(pc, g)
      BY <1>1
    <3> HIDE DEF P, r, from, size, mine, half, g
    <3> QED
      BY <2>2, <3>1, <3>3, <3>4, TreeSpawn
  <2>4. Parts(program, pc', g) = P
    <3>1. ASSUME NEW s \in Threads PROVE Part(program, pc'[s], g[s]) = Part(program, pc[s], g[s])
      BY <1>9, <2>1, <2>3 DEF Part
    <3> QED
      BY <3>1 DEF Parts
  <2> QED
    BY <1>5, <2>1, <2>3, <2>4
<1>10. CASE SumUp(t, "work", <<from, mine>>, "join")
  <2>1. pc[t] = "work"
    BY <1>10 DEF SumUp, Do, Go
  <2>2. P[t] = Values(from, mine)
    BY <2>1 DEF Parts, Part
  <2>3. mine \in Nat
    BY <1>2, <1>3
  <2> QED
    BY <1>2, <1>6, <1>10, <2>2, <2>3
<1>11. CASE Join(t, "join", {2 * t, 2 * t + 1}, "end")
  <2>1. pc[t] = "join" /\ pc' = [pc EXCEPT ![t] = "end"] /\ mem' = mem
    BY <1>11 DEF Join, When, Go
  <2>2. Tree(pc', g)
    BY <1>1, <2>1, TreeGo
  <2>3. Parts(program, pc', g) = P
    BY <1>1, <2>1 DEF Parts, Part
  <2> QED
    BY <1>5, <2>1, <2>2, <2>3
<1>12. ASSUME NEW c, c = 2 * t, NEW d, d = 2 * t + 1, NEW r1, r1 = <<from + mine, half>>,
              NEW r2, r2 = <<(from + mine) + half, (size - mine) - half>>,
              Do(t, "split", [mem EXCEPT !.threadCount = @ + 2, !.range[c] = r1, !.range[d] = r2], "spawn1")
       PROVE  NuclearInv'
  <2>1. /\ pc[t] = "split" /\ pc' = [pc EXCEPT ![t] = "spawn1"]
        /\ mem' = [mem EXCEPT !.threadCount = @ + 2, !.range[c] = r1, !.range[d] = r2]
    BY <1>12 DEF Do, Go
  <2>2. c \in Threads /\ d \in Threads
    BY <1>12, <2>1 DEF Roomy
  <2>3. c # d /\ c # t /\ d # t /\ Child(t, c) /\ Child(t, d)
    <3>1. t \in Nat
      BY ThreadsAssumption
    <3> QED
      BY <1>12, <3>1 DEF Child
  <2> DEFINE h == [g EXCEPT ![c] = r1, ![d] = r2]
             Q == Parts(program, pc', h)
  <2>4. /\ mem' = [range |-> mem'.range, threadCount |-> mem'.threadCount, sum |-> mem'.sum, counted |-> mem'.counted]
        /\ mem'.range = h /\ mem'.sum = mem.sum /\ mem'.counted = mem.counted
    <3> HIDE DEF h
    <3>1. mem' = [range |-> [g EXCEPT ![c] = r1, ![d] = r2], threadCount |-> mem.threadCount + 2, sum |-> mem.sum, counted |-> mem.counted]
      BY <1>1, <2>1
    <3> QED
      BY <3>1 DEF h
  <2>5. /\ h[t] = r /\ h[c] = r1 /\ h[d] = r2
        /\ \A s \in Threads : s \notin {c, d} => h[s] = g[s]
    BY <1>1, <2>2, <2>3
  <2>6. r1 \in Nat \X Nat /\ r2 \in Nat \X Nat
    <3> HIDE DEF from, size, mine, half
    <3>1. from + mine \in Nat /\ half \in Nat /\ (from + mine) + half \in Nat /\ (size - mine) - half \in Nat
      BY <1>2, <1>3, <1>4
    <3> QED
      BY <1>12, <3>1
  <2>7. Tree(pc', h)
    <3>1. 2 * t \in Threads /\ 2 * t + 1 \in Threads /\ h = [g EXCEPT ![2 * t] = r1, ![2 * t + 1] = r2]
      BY <1>12, <2>2
    <3> HIDE DEF h, g
    <3> QED
      BY <1>1, <2>1, <2>6, <3>1, TreeSplit
  <2>8. pc[c] = "none" /\ pc[d] = "none" /\ g[c][2] = 0 /\ g[d][2] = 0
    BY <1>1, <2>1, <2>2, <2>3 DEF Tree
  <2>9. pc'[t] = "spawn1" /\ \A s \in Threads : s # t => pc'[s] = pc[s]
    BY <1>1, <2>1
  <2>10. /\ P[t] = Values(from, size) /\ Q[t] = Values(from, mine)
         /\ Q[c] = Values(from + mine, half)
         /\ Q[d] = Values((from + mine) + half, (size - mine) - half)
    <3>1. /\ P[t] = Part(program, pc[t], g[t]) /\ Q[t] = Part(program, pc'[t], h[t])
          /\ Q[c] = Part(program, pc'[c], h[c]) /\ Q[d] = Part(program, pc'[d], h[d])
      BY <2>2 DEF Parts
    <3>2. pc'[c] = "none" /\ pc'[d] = "none"
      BY <2>2, <2>3, <2>8, <2>9
    <3>3. r1[1] = from + mine /\ r1[2] = half /\ r2[1] = (from + mine) + half /\ r2[2] = (size - mine) - half
      BY <1>12
    <3> QED
      BY <2>1, <2>5, <2>9, <3>1, <3>2, <3>3 DEF Part
  <2>11. P[c] = {} /\ P[d] = {}
    <3>1. P[c] = Values(g[c][1], g[c][2]) /\ P[d] = Values(g[d][1], g[d][2])
      BY <2>2, <2>8 DEF Parts, Part
    <3>2. g[c][1] \in Nat /\ g[d][1] \in Nat
      BY <1>1, <2>2
    <3> QED
      BY <2>8, <3>1, <3>2 DEF Values
  <2>12. /\ P[t] = Q[t] \union Q[c] \union Q[d]
         /\ Q[t] \cap Q[c] = {} /\ Q[t] \cap Q[d] = {} /\ Q[c] \cap Q[d] = {}
    <3> HIDE DEF P, Q, from, size, mine, half
    <3> QED
      BY <1>2, <1>3, <1>4, <2>10, SMTT(30) DEF Values
  <2>13. \A s \in Threads : s \notin {t, c, d} => Q[s] = P[s]
    BY <2>5, <2>9 DEF Parts
  <2>14. Divided(Q, mem.counted, mem.sum)
    <3> HIDE DEF P, Q, g, h, from, size, mine, half
    <3>1. Divided(P, mem.counted, mem.sum)
      BY <1>1
    <3>2. t # c /\ t # d /\ c # d
      BY <2>3
    <3> QED
      BY <2>2, <2>11, <2>12, <2>13, <3>1, <3>2, PartSplit
  <2> QED
    BY <2>4, <2>7, <2>14 DEF NuclearInv
<1> QED
  BY <1>7, <1>8, <1>9, <1>10, <1>11, <1>12, WorkerMoves

(* What main does: it is not a thread that has a part. *)
LEMMA NuclearMainStep ==
    ASSUME NuclearInv, program' = program, NuclearMain
    PROVE  NuclearInv'
<1> DEFINE g == mem.range
<1>1. /\ Tree(pc, g) /\ 0 \in Threads /\ 1 \in Threads /\ mem' = mem /\ g[0][2] = 0
      /\ g[0][1] \in Nat
  <2>1. Tree(pc, g) /\ 0 \in Threads /\ 1 \in Threads
    BY ThreadsAssumption DEF NuclearInv
  <2>2. mem' = mem
    BY DEF NuclearMain, Spawn, Join, When
  <2> QED
    BY <2>1, <2>2 DEF Tree
<1>2. \/ pc[0] = "begin" /\ pc' = [s \in Threads |-> IF s = 0 THEN "join" ELSE IF s \in {1} THEN "begin" ELSE pc[s]]
      \/ pc[0] = "join" /\ pc' = [pc EXCEPT ![0] = "end"]
  BY DEF NuclearMain, Spawn, Join, When, Go
<1>3. Tree(pc', g)
  <2> HIDE DEF g
  <2> QED
    BY <1>1, <1>2, TreeMain
<1>4. ASSUME NEW s \in Threads PROVE Part(program, pc'[s], g[s]) = Part(program, pc[s], g[s])
  <2>1. CASE s = 0
    <3>1. Values(g[0][1], g[0][2]) = {} /\ pc[0] \in {"begin", "join"} /\ pc'[0] \in {"join", "end"}
      BY <1>1, <1>2 DEF Values, Tree
    <3> QED
      BY <2>1, <3>1 DEF Part
  <2>2. CASE s # 0 /\ pc'[s] = pc[s]
    BY <2>2
  <2>3. CASE s = 1 /\ pc'[s] = "begin" /\ pc[s] = "none"
    BY <2>3 DEF Part
  <2>4. pc[0] = "begin" => pc[1] = "none"
    BY <1>1 DEF Tree
  <2> QED
    BY <1>1, <1>2, <2>1, <2>2, <2>3, <2>4 DEF Tree
<1>5. Parts(program, pc', g) = Parts(program, pc, g)
  BY <1>4 DEF Parts
<1> QED
  BY <1>1, <1>3, <1>5 DEF NuclearInv

(* Every step keeps the parts and what was counted a division of the values. *)
LEMMA NuclearInductive ==
    ASSUME program \in {"basics", "middle"}, NuclearInv, Roomy, [Next]_vars
    PROVE  NuclearInv'
<1>1. program' = program
  BY ThreadStep
<1>2. CASE UNCHANGED <<pc, mem>>
  BY <1>1, <1>2 DEF NuclearInv
<1>3. ASSUME NEW t \in Threads, SpuriousWake(t) PROVE NuclearInv'
  BY <1>2, <1>3 DEF SpuriousWake
<1>4. ASSUME NEW t \in Threads, Step(t) PROVE NuclearInv'
  <2>1. \/ t = 0 /\ NuclearMain
        \/ t # 0 /\ (\/ program = "basics" /\ BasicsWorker(t)
                     \/ program = "middle" /\ MiddleWorker(t))
    BY <1>4 DEF Step, Run
  <2> QED
    BY <1>1, <2>1, NuclearMainStep, NuclearStep
<1> QED
  BY <1>2, <1>3, <1>4, ThreadStep DEF threadVars

(* When everyone has ended nobody has a part: what is left to a thread     *)
(* that never began would be given by one that has not ended.              *)
LEMMA NuclearEnd ==
    ASSUME NuclearInv, AllEnd
    PROVE  mem.sum = ValuesCount /\ mem.counted = 0..ValuesCount - 1
<1> DEFINE g == mem.range
           P == Parts(program, pc, g)
<1>1. Tree(pc, g) /\ Divided(P, mem.counted, mem.sum) /\ 0 \in Threads
  BY ThreadsAssumption DEF NuclearInv
<1>2. \A t \in Threads : pc[t] \in {"none", "end"}
  BY DEF AllEnd
<1>3. ASSUME NEW t \in Threads PROVE P[t] = {}
  <2>1. P[t] = Part(program, pc[t], g[t])
    BY DEF Parts
  <2>2. CASE pc[t] = "end"
    BY <2>1, <2>2 DEF Part
  <2>3. CASE pc[t] = "none"
    <3>1. ~Given(pc, t)
      <4>1. pc[0] # "begin"
        BY <1>1, <1>2
      <4>2. \A s \in Threads : pc[s] \notin {"spawn1", "spawn2"}
        BY <1>2
      <4> QED
        BY <4>1, <4>2 DEF Given
    <3>2. g[t][2] = 0 /\ g[t][1] \in Nat
      BY <1>1, <2>3, <3>1 DEF Tree
    <3>3. Values(g[t][1], g[t][2]) = {}
      BY <3>2 DEF Values
    <3> QED
      BY <2>1, <2>3, <3>3 DEF Part
  <2> QED
    BY <1>2, <2>2, <2>3
<1> HIDE DEF P
<1>4. mem.counted = 0..ValuesCount - 1 /\ mem.sum = Cardinality(mem.counted)
  BY <1>1, <1>3 DEF Divided
<1>5. Cardinality(0..ValuesCount - 1) = ValuesCount
  <2>1. ValuesCount \in Nat /\ ValuesCount - 1 \in Int /\ 0 \in Int
    BY ValuesAssumption
  <2>2. Cardinality(0..ValuesCount - 1) = IF 0 > ValuesCount - 1 THEN 0 ELSE (ValuesCount - 1) - 0 + 1
    BY <2>1, FS_Interval
  <2> QED
    BY <2>1, <2>2
<1> QED
  BY <1>4, <1>5

-----------------------------------------------------------------------------
(* The three programs that add.                                            *)

SumsInv ==
    /\ program = "counter" => CounterInv
    /\ program = "mutex" => MutexInv
    /\ program \in {"basics", "middle"} => NuclearInv

(* Each begins with nothing added, ... *)
LEMMA SumsInit == Init => SumsInv
  BY CounterStart, MutexStart, NuclearStart DEF Init, SumsInv

(* ... and goes on. *)
LEMMA SumsStep == ASSUME SumsInv, Roomy, [Next]_vars PROVE SumsInv'
<1>1. program' = program
  BY ThreadStep
<1>2. program = "counter" => CounterInv'
  BY CounterInductive DEF SumsInv
<1>3. program = "mutex" => MutexInv'
  BY MutexInductive DEF SumsInv
<1>4. program \in {"basics", "middle"} => NuclearInv'
  BY NuclearInductive DEF SumsInv
<1> QED
  BY <1>1, <1>2, <1>3, <1>4 DEF SumsInv

(* No increment is lost, and every value is summed once, when there is a   *)
(* thread for each that is started.                                        *)
THEOREM RoomyMeansExact == Spec /\ []Roomy => []SumsExact
<1>1. ASSUME SumsInv PROVE SumsExact
  <2>1. ASSUME Ended("counter") PROVE mem.m_value = 6
    <3>1. CounterInv /\ pc[1] = "end" /\ pc[2] = "end"
      BY <1>1, <2>1, TwoEnd DEF Ended, SumsInv, CounterInv
    <3>2. mem.m_value = mem.rounds[1] + mem.rounds[2] /\ mem.rounds[1] = 3 /\ mem.rounds[2] = 3
      BY <3>1 DEF CounterInv, Added
    <3> QED
      BY <3>2
  <2>2. ASSUME Ended("mutex")
        PROVE  mem.shared_counter = 2 * Loops + 1 /\ mem.shared_counter_atomic = 2 * Loops + 1
    <3>1. MutexInv /\ pc[1] = "end" /\ pc[2] = "end"
      BY <1>1, <2>2, TwoEnd DEF Ended, SumsInv, MutexInv
    <3>2. mem.i[1] \in Nat /\ mem.i[1] = Loops /\ mem.i[2] = Loops
      BY <3>1 DEF MutexInv, MutexData
    <3>3. /\ mem.shared_counter = 1 + mem.i[1] + mem.i[2]
          /\ mem.shared_counter_atomic = 1 + mem.i[1] + mem.i[2]
      BY <3>1 DEF MutexInv, Made
    <3> QED
      BY <3>2, <3>3
  <2>3. ASSUME program \in {"basics", "middle"}, AllEnd
        PROVE  mem.sum = ValuesCount /\ mem.counted = 0..ValuesCount - 1
    BY <1>1, <2>3, NuclearEnd DEF SumsInv
  <2> QED
    BY <2>1, <2>2, <2>3 DEF SumsExact
<1> QED
  BY SumsInit, SumsStep, <1>1, PTL DEF Spec

-----------------------------------------------------------------------------
(* Which threads there have to be: a thread's number grows as its range    *)
(* shrinks, and who splits has values to divide.                           *)

RoomInv ==
    program \in {"basics", "middle"} =>
      /\ mem = [range |-> mem.range, threadCount |-> mem.threadCount, sum |-> mem.sum, counted |-> mem.counted]
      /\ pc = [t \in Threads |-> pc[t]]
      /\ mem.range \in [Threads -> Nat \X Nat]
      /\ pc[0] # "split"
      /\ \A t \in Threads : mem.range[t][2] # 0 =>
            (mem.range[t][2] - 1) * (t + 1) <= 2 * (ValuesCount - 1)
      /\ \A t \in Threads : pc[t] = "split" => mem.range[t][2] >= MinSize

(* A part of half of what was more than one. *)
LEMMA HalfIsLess ==
    ASSUME NEW n \in Nat, NEW m \in Nat, m # 0, 2 * (m - 1) <= n - 1,
           NEW t \in Nat, NEW c \in Nat, c <= 2 * t + 1, NEW b \in Int, (n - 1) * (t + 1) <= b
    PROVE  (m - 1) * (c + 1) <= b
<1>1. PICK k \in Nat : k = m - 1
  OBVIOUS
<1>2. PICK l \in Nat : l = n - 1
  <2>1. n - 1 >= 0
    BY <1>1
  <2> QED
    BY <2>1
<1>3. PICK u \in Nat : u = t + 1
  OBVIOUS
<1>4. PICK v \in Nat : v = c + 1 /\ v <= 2 * u
  BY <1>3
<1>5. 2 * k <= l
  BY <1>1, <1>2
<1>6. k * v <= k * (2 * u)
  BY <1>4
<1>7. k * (2 * u) = (2 * k) * u /\ (2 * k) * u <= l * u
  BY <1>5
<1> QED
  BY <1>1, <1>2, <1>3, <1>4, <1>6, <1>7

(* At first the first thread has everything. *)
LEMMA RoomInit == Init => RoomInv
<1> SUFFICES ASSUME program \in {"basics", "middle"}, NuclearInit PROVE RoomInv
  BY DEF Init, RoomInv
<1>1. /\ pc = [t \in Threads |-> IF t = 0 THEN "begin" ELSE "none"]
      /\ mem = [range |-> [t \in Threads |-> IF t = 1 THEN <<0, ValuesCount>> ELSE <<0, 0>>],
                threadCount |-> 1, sum |-> 0, counted |-> {}]
  BY DEF NuclearInit, ThreadInit
<1>2. 0 \in Threads /\ ValuesCount \in Nat
  BY ThreadsAssumption, ValuesAssumption
<1>3. /\ mem = [range |-> mem.range, threadCount |-> mem.threadCount, sum |-> mem.sum, counted |-> mem.counted]
      /\ mem.range = [t \in Threads |-> IF t = 1 THEN <<0, ValuesCount>> ELSE <<0, 0>>]
  BY <1>1
<1>4. /\ mem.range \in [Threads -> Nat \X Nat]
      /\ \A t \in Threads : mem.range[t][2] # 0 => t = 1 /\ mem.range[t][2] = ValuesCount
  BY <1>2, <1>3
<1>5. ASSUME NEW t \in Threads, mem.range[t][2] # 0
      PROVE  (mem.range[t][2] - 1) * (t + 1) <= 2 * (ValuesCount - 1)
  <2>1. t = 1 /\ mem.range[t][2] = ValuesCount
    BY <1>4, <1>5
  <2>2. (ValuesCount - 1) * (1 + 1) <= 2 * (ValuesCount - 1)
    BY <1>2
  <2> QED
    BY <2>1, <2>2
<1>6. \A t \in Threads : pc[t] # "split"
  BY <1>1
<1>7. pc = [t \in Threads |-> pc[t]]
  BY <1>1
<1> QED
  BY <1>2, <1>3, <1>4, <1>5, <1>6, <1>7 DEF RoomInv

(* Someone goes on, and nobody is given a range. *)
LEMMA RoomGo ==
    ASSUME program \in {"basics", "middle"}, RoomInv, program' = program,
           mem' = mem \/ \E n, C : mem' = [mem EXCEPT !.sum = n, !.counted = C],
           pc' = [t \in Threads |-> pc'[t]], pc'[0] # "split",
           \A t \in Threads : pc'[t] = "split" => pc[t] = "split" \/ mem.range[t][2] >= MinSize
    PROVE  RoomInv'
<1> DEFINE g == mem.range
<1>1. mem = [range |-> g, threadCount |-> mem.threadCount, sum |-> mem.sum, counted |-> mem.counted]
  BY DEF RoomInv
<1>2. PICK n, C : mem' = [range |-> g, threadCount |-> mem.threadCount, sum |-> n, counted |-> C]
  <2>1. CASE mem' = mem
    BY <1>1, <2>1
  <2>2. CASE \E n, C : mem' = [mem EXCEPT !.sum = n, !.counted = C]
    <3>1. PICK n, C : mem' = [mem EXCEPT !.sum = n, !.counted = C]
      BY <2>2
    <3> QED
      BY <1>1, <3>1
  <2> QED
    BY <2>1, <2>2
<1>3. /\ mem' = [range |-> mem'.range, threadCount |-> mem'.threadCount, sum |-> mem'.sum, counted |-> mem'.counted]
      /\ mem'.range = g
  BY <1>2
<1> QED
  BY <1>3 DEF RoomInv

(* Who splits has at least two values, and there are threads enough, ...   *)
Space == MinSize >= 2 /\ 0..4 * ValuesCount \subseteq Threads

(* ... so that there is one for each that is started: the number of a      *)
(* thread that splits is less than twice that of the values.               *)
LEMMA RoomHolds ==
    ASSUME Space, RoomInv
    PROVE  Roomy
<1> SUFFICES ASSUME program \in {"basics", "middle"}, NEW t \in Threads, pc[t] = "split"
             PROVE  2 * t \in Threads /\ 2 * t + 1 \in Threads
  BY DEF Roomy
<1>1. t \in Nat /\ ValuesCount \in Nat /\ MinSize \in Nat
  BY ThreadsAssumption, ValuesAssumption
<1>2. mem.range[t][2] \in Nat /\ mem.range[t][2] >= MinSize /\ (mem.range[t][2] # 0 =>
         (mem.range[t][2] - 1) * (t + 1) <= 2 * (ValuesCount - 1))
  BY DEF RoomInv
<1>3. PICK k \in Nat : k = mem.range[t][2] - 1 /\ k >= 1 /\ k * (t + 1) <= 2 * (ValuesCount - 1)
  BY <1>1, <1>2 DEF Space
<1>4. PICK u \in Nat : u = t + 1
  BY <1>1
<1>5. k * u >= u
  BY <1>3
<1>6. t + 1 <= 2 * (ValuesCount - 1)
  BY <1>1, <1>3, <1>4, <1>5
<1>7. 2 * t \in 0..4 * ValuesCount /\ 2 * t + 1 \in 0..4 * ValuesCount
  BY <1>1, <1>6
<1> QED
  BY <1>7 DEF Space

(* A worker that splits gives its threads less than half of what it had. *)
LEMMA RoomWorker ==
    ASSUME Space, NuclearInv, RoomInv, program' = program, NEW t \in Threads, t # 0,
           (program = "basics" /\ BasicsWorker(t)) \/ (program = "middle" /\ MiddleWorker(t))
    PROVE  RoomInv'
<1> DEFINE g == mem.range
           r == g[t]
           from == r[1]
           size == r[2]
           mine == Mine(program, size)
           half == (size - mine) \div 2
<1>1. /\ mem = [range |-> g, threadCount |-> mem.threadCount, sum |-> mem.sum, counted |-> mem.counted]
      /\ pc = [s \in Threads |-> pc[s]] /\ g \in [Threads -> Nat \X Nat] /\ pc[0] # "split"
      /\ program \in {"basics", "middle"} /\ 0 \in Threads /\ MinSize \in Nat /\ ValuesCount \in Nat
      /\ \A s \in Threads : s \in Nat
  BY ThreadsAssumption, ValuesAssumption DEF RoomInv
<1>2. from \in Nat /\ size \in Nat
  BY <1>1
<1>3. mine \in 0..size
  BY <1>2, MineIs
<1>4. half \in 0..size - mine
  <2> HIDE DEF size, mine
  <2>1. size - mine \in Nat
    BY <1>2, <1>3
  <2> QED
    BY <2>1
<1>5. ASSUME NEW a, NEW b, pc[t] = a, b # "split" \/ size >= MinSize, pc' = [pc EXCEPT ![t] = b],
             mem' = mem \/ \E n, C : mem' = [mem EXCEPT !.sum = n, !.counted = C]
      PROVE  RoomInv'
  <2>1. /\ pc' = [s \in Threads |-> pc'[s]] /\ pc'[t] = b
        /\ \A s \in Threads : s # t => pc'[s] = pc[s]
    BY <1>1, <1>5
  <2>2. pc'[0] # "split" /\ \A s \in Threads : pc'[s] = "split" => pc[s] = "split" \/ g[s][2] >= MinSize
    BY <1>1, <1>5, <2>1
  <2> QED
    BY <1>1, <1>5, <2>1, <2>2, RoomGo
<1>6. ASSUME NEW a, NEW b, NEW x, SumUp(t, a, x, b), b # "split" PROVE RoomInv'
  <2>1. /\ pc[t] = a /\ pc' = [pc EXCEPT ![t] = b]
        /\ \E n, C : mem' = [mem EXCEPT !.sum = n, !.counted = C]
    BY <1>6 DEF SumUp, Do, Go
  <2> QED
    BY <1>5, <1>6, <2>1
<1>7. CASE ~(size < MinSize) /\ \E test : When(t, "begin", test, "split")
  <2>1. pc[t] = "begin" /\ pc' = [pc EXCEPT ![t] = "split"] /\ mem' = mem
    BY <1>7 DEF When, Go
  <2>2. size >= MinSize
    BY <1>1, <1>2, <1>7
  <2> QED
    BY <1>5, <2>1, <2>2
<1>8. CASE Join(t, "join", {2 * t, 2 * t + 1}, "end")
  <2>1. pc[t] = "join" /\ pc' = [pc EXCEPT ![t] = "end"] /\ mem' = mem
    BY <1>8 DEF Join, When, Go
  <2> QED
    BY <1>5, <2>1
<1>9. ASSUME NEW c, NEW a, NEW b, b # "split", Spawn(t, a, {c}, b) PROVE RoomInv'
  <2>1. /\ pc' = [s \in Threads |-> IF s = t THEN b ELSE IF s \in {c} THEN "begin" ELSE pc[s]]
        /\ mem' = mem
    BY <1>9 DEF Spawn
  <2>2. /\ pc' = [s \in Threads |-> pc'[s]]
        /\ \A s \in Threads : pc'[s] = "split" => pc[s] = "split"
    BY <1>9, <2>1
  <2> QED
    BY <1>1, <2>1, <2>2, RoomGo
<1>10. ASSUME NEW c, c = 2 * t, NEW d, d = 2 * t + 1, NEW r1, r1 = <<from + mine, half>>,
              NEW r2, r2 = <<(from + mine) + half, (size - mine) - half>>,
              Do(t, "split", [mem EXCEPT !.threadCount = @ + 2, !.range[c] = r1, !.range[d] = r2], "spawn1")
       PROVE  RoomInv'
  <2>1. /\ pc[t] = "split" /\ pc' = [pc EXCEPT ![t] = "spawn1"]
        /\ mem' = [mem EXCEPT !.threadCount = @ + 2, !.range[c] = r1, !.range[d] = r2]
    BY <1>10 DEF Do, Go
  <2>2. c \in Threads /\ d \in Threads /\ c # d
    <3>1. 2 * t \in Threads /\ 2 * t + 1 \in Threads
      BY <1>1, <2>1, RoomHolds DEF Roomy
    <3>2. 2 * t # 2 * t + 1
      BY <1>1
    <3> QED
      BY <1>10, <3>1, <3>2
  <2> DEFINE h == [g EXCEPT ![c] = r1, ![d] = r2]
  <2>3. /\ mem' = [range |-> mem'.range, threadCount |-> mem'.threadCount, sum |-> mem'.sum, counted |-> mem'.counted]
        /\ mem'.range = h
    <3> HIDE DEF h
    <3>1. mem' = [range |-> [g EXCEPT ![c] = r1, ![d] = r2], threadCount |-> mem.threadCount + 2, sum |-> mem.sum, counted |-> mem.counted]
      BY <1>1, <2>1
    <3> QED
      BY <3>1 DEF h
  <2>4. /\ h[c] = r1 /\ h[d] = r2 /\ \A s \in Threads : s \notin {c, d} => h[s] = g[s]
    BY <1>1, <2>2
  <2>5. r1 \in Nat \X Nat /\ r2 \in Nat \X Nat
    <3> HIDE DEF from, size, mine, half
    <3>1. from + mine \in Nat /\ half \in Nat /\ (from + mine) + half \in Nat /\ (size - mine) - half \in Nat
      BY <1>2, <1>3, <1>4
    <3> QED
      BY <1>10, <3>1
  <2>6. h \in [Threads -> Nat \X Nat]
    BY <1>1, <2>5
  <2>7. size # 0 /\ (size - 1) * (t + 1) <= 2 * (ValuesCount - 1) /\ size >= MinSize
    <3>1. size >= MinSize /\ MinSize >= 2
      BY <1>1, <2>1 DEF RoomInv, Space
    <3>2. size # 0
      BY <1>1, <1>2, <3>1
    <3> QED
      BY <1>1, <3>1, <3>2 DEF RoomInv
  <2>8. /\ half # 0 => (half - 1) * (c + 1) <= 2 * (ValuesCount - 1)
        /\ (size - mine) - half # 0 => ((size - mine) - half - 1) * (d + 1) <= 2 * (ValuesCount - 1)
    <3>1. \A n \in Nat : 2 * (n \div 2) <= n /\ n <= 2 * (n \div 2) + 1
      BY Z3
    <3>2. /\ half \in Nat /\ (size - mine) - half \in Nat
          /\ 2 * (half - 1) <= size - 1
          /\ 2 * ((size - mine) - half - 1) <= size - 1
      <4>1. size - mine \in Nat
        <5> HIDE DEF size, mine
        <5> QED
          BY <1>2, <1>3
      <4>2. 2 * half <= size - mine /\ size - mine <= 2 * half + 1
        BY <3>1, <4>1
      <4> HIDE DEF size, mine, half
      <4> QED
        BY <1>2, <1>3, <1>4, <4>2
    <3>3. t \in Nat /\ c \in Nat /\ d \in Nat /\ c <= 2 * t + 1 /\ d <= 2 * t + 1
      BY <1>1, <1>10
    <3>4. 2 * (ValuesCount - 1) \in Int
      BY <1>1
    <3> HIDE DEF size, mine, half
    <3> QED
      BY <1>2, <2>7, <3>2, <3>3, <3>4, HalfIsLess
  <2>9. r1[2] = half /\ r2[2] = (size - mine) - half
    <3> HIDE DEF from, size, mine, half
    <3> QED
      BY <1>10
  <2>10. ASSUME NEW s \in Threads, h[s][2] # 0
        PROVE  (h[s][2] - 1) * (s + 1) <= 2 * (ValuesCount - 1)
    <3>1. CASE s = c
      <4>1. h[s][2] = half
        BY <2>4, <2>9, <3>1
      <4> HIDE DEF h, half, size, mine
      <4> QED
        BY <2>8, <2>10, <3>1, <4>1
    <3>2. CASE s = d
      <4>1. h[s][2] = (size - mine) - half
        BY <2>4, <2>9, <3>2
      <4> HIDE DEF h, half, size, mine
      <4> QED
        BY <2>8, <2>10, <3>2, <4>1
    <3>3. CASE s \notin {c, d}
      <4>1. h[s][2] = g[s][2]
        BY <2>4, <3>3
      <4> HIDE DEF h
      <4> QED
        BY <1>1, <2>10, <4>1 DEF RoomInv
    <3> QED
      BY <3>1, <3>2, <3>3
  <2>11. /\ pc' = [s \in Threads |-> pc'[s]] /\ pc'[0] # "split"
         /\ \A s \in Threads : pc'[s] = "split" => pc[s] = "split"
    BY <1>1, <2>1
  <2>12. pc[c] = "none" /\ pc[d] = "none"
    BY <1>10, <2>1, <2>2 DEF NuclearInv, Tree, Child
  <2>13. ASSUME NEW s \in Threads, pc'[s] = "split" PROVE h[s][2] >= MinSize
    <3>1. pc[s] = "split" /\ s \notin {c, d}
      BY <2>11, <2>12, <2>13
    <3>2. h[s][2] = g[s][2]
      BY <2>4, <3>1
    <3> HIDE DEF h
    <3> QED
      BY <1>1, <3>1, <3>2 DEF RoomInv
  <2> HIDE DEF h
  <2> QED
    BY <2>3, <2>6, <2>10, <2>11, <2>13 DEF RoomInv
<1> QED
  BY <1>6, <1>7, <1>8, <1>9, <1>10, WorkerMoves

(* So it is, step by step. *)
LEMMA RoomStep ==
    ASSUME Space, SumsInv, RoomInv, [Next]_vars
    PROVE  RoomInv'
<1>1. program' = program
  BY ThreadStep
<1> SUFFICES ASSUME program \in {"basics", "middle"} PROVE RoomInv'
  BY <1>1 DEF RoomInv
<1>2. /\ NuclearInv /\ pc = [s \in Threads |-> pc[s]] /\ 0 \in Threads /\ pc[0] # "split"
  BY ThreadsAssumption DEF SumsInv, RoomInv
<1>3. CASE UNCHANGED <<pc, mem>>
  BY <1>1, <1>3 DEF RoomInv
<1>4. ASSUME NEW t \in Threads, SpuriousWake(t) PROVE RoomInv'
  BY <1>3, <1>4 DEF SpuriousWake
<1>5. CASE NuclearMain
  <2>1. /\ mem' = mem
        /\ \/ pc' = [s \in Threads |-> IF s = 0 THEN "join" ELSE IF s \in {1} THEN "begin" ELSE pc[s]]
           \/ pc' = [pc EXCEPT ![0] = "end"]
    BY <1>5 DEF NuclearMain, Spawn, Join, When, Go
  <2>2. /\ pc' = [s \in Threads |-> pc'[s]] /\ pc'[0] # "split"
        /\ \A s \in Threads : pc'[s] = "split" => pc[s] = "split"
    BY <1>2, <2>1
  <2> QED
    BY <1>1, <2>1, <2>2, RoomGo
<1>6. ASSUME NEW t \in Threads, Step(t) PROVE RoomInv'
  <2>1. \/ t = 0 /\ NuclearMain
        \/ t # 0 /\ (\/ program = "basics" /\ BasicsWorker(t)
                     \/ program = "middle" /\ MiddleWorker(t))
    BY <1>6 DEF Step, Run
  <2> QED
    BY <1>1, <1>2, <1>5, <2>1, RoomWorker
<1> QED
  BY <1>3, <1>4, <1>6, ThreadStep DEF threadVars

(* With threads enough, and ranges of one value never divided, nothing has *)
(* to be said of the run.                                                  *)
THEOREM SumsAreExact == Space /\ Spec => []SumsExact
<1> SUFFICES ASSUME Space PROVE Spec => []SumsExact
  OBVIOUS
<1>1. Init => SumsInv /\ RoomInv
  BY SumsInit, RoomInit
<1>2. SumsInv /\ RoomInv /\ [Next]_vars => (SumsInv /\ RoomInv)'
  BY RoomHolds, SumsStep, RoomStep
<1>3. SumsInv /\ RoomInv => Roomy
  BY RoomHolds
<1>4. Spec => []Roomy
  BY <1>1, <1>2, <1>3, PTL DEF Spec
<1> QED
  BY <1>4, RoomyMeansExact, PTL

-----------------------------------------------------------------------------
(* What is handed over: the places of the threads.                         *)

Placed == pc = [t \in Threads |-> pc[t]]

(* At first main is at its beginning, and the others are not there. *)
LEMMA PlacedStart ==
    ASSUME NEW m, ThreadInit(m)
    PROVE  /\ Placed /\ pc[0] = "begin" /\ mem = m /\ held = {}
           /\ \A t \in Threads : t # 0 => pc[t] = "none"
  BY ThreadsAssumption DEF ThreadInit, Placed

(* A thread goes from one place to another, ... *)
LEMMA GoIs ==
    ASSUME Placed, NEW t \in Threads, NEW a, NEW b, Go(t, a, b)
    PROVE  /\ Placed' /\ pc[t] = a /\ pc'[t] = b
           /\ \A s \in Threads : s # t => pc'[s] = pc[s]
<1>1. pc[t] = a /\ pc' = [pc EXCEPT ![t] = b] /\ pc = [s \in Threads |-> pc[s]]
  BY DEF Go, Placed
<1>2. pc' = [s \in Threads |-> pc'[s]] /\ pc'[t] = b /\ \A s \in Threads : s # t => pc'[s] = pc[s]
  BY <1>1
<1> QED
  BY <1>1, <1>2 DEF Placed

(* ... main spawns threads, ... *)
LEMMA SpawnIs ==
    ASSUME NEW a, NEW b, NEW ts, Spawn(0, a, ts, b), 0 \notin ts
    PROVE  /\ Placed' /\ pc[0] = a /\ pc'[0] = b
           /\ UNCHANGED <<held, waiting, mem>>
           /\ \A s \in Threads : s # 0 => pc'[s] = IF s \in ts THEN "begin" ELSE pc[s]
<1>1. /\ pc[0] = a /\ UNCHANGED <<held, waiting, mem>>
      /\ pc' = [s \in Threads |-> IF s = 0 THEN b ELSE IF s \in ts THEN "begin" ELSE pc[s]]
  BY DEF Spawn
<1>2. 0 \in Threads
  BY ThreadsAssumption
<1> QED
  BY <1>1, <1>2 DEF Placed

(* ... and joins them. *)
LEMMA JoinIs ==
    ASSUME Placed, NEW a, NEW b, NEW ts, Join(0, a, ts, b)
    PROVE  /\ Placed' /\ pc[0] = a /\ pc'[0] = b
           /\ UNCHANGED <<held, waiting, mem>>
           /\ \A s \in Threads : s # 0 => pc'[s] = pc[s]
           /\ \A s \in ts : pc[s] = "end"
<1>1. Go(0, a, b) /\ UNCHANGED <<held, waiting, mem>> /\ \A s \in ts : pc[s] = "end"
  BY DEF Join, When
<1> QED
  BY <1>1, GoIs, ThreadsAssumption

(* The process ends. *)
LEMMA ExitIs ==
    ASSUME NEW a, ExitProcess(0, a)
    PROVE  /\ Placed' /\ pc[0] = a /\ UNCHANGED <<held, waiting, mem>>
           /\ \A s \in Threads : pc'[s] = "end"
  BY DEF ExitProcess, Placed

-----------------------------------------------------------------------------
(* guarded_suspension.cpp: who pops has the mutex, and there is a message. *)

GuardedData(m) == m = [msgs |-> m.msgs, popped |-> m.popped, crowd |-> m.crowd] /\ m.msgs \in Nat /\ m.popped \in Nat
PushedAt(place) ==
    IF place \in {"begin", "lock1", "push1"} THEN 0
    ELSE IF place \in {"unlock1", "notify1", "lock2", "push2"} THEN 2 ELSE 4
GuardedInv ==
    /\ Placed /\ LockInv /\ GuardedData(mem)
    /\ mem.msgs + mem.popped = PushedAt(pc[0])
    /\ \A t \in Threads : t # 0 /\ pc[t] = "pop" => Has(t, "cv_m") /\ mem.msgs > 0

(* At first no message is pushed. *)
LEMMA GuardedStart == GuardedInit => GuardedInv
<1> SUFFICES ASSUME GuardedInit PROVE GuardedInv
  OBVIOUS
<1> DEFINE m == [msgs |-> 0, popped |-> 0, crowd |-> FALSE]
<1>1. ThreadInit(m)
  BY DEF GuardedInit
<1>2. /\ Placed /\ pc[0] = "begin" /\ mem = m /\ held = {}
      /\ \A t \in Threads : t # 0 => pc[t] = "none"
  BY <1>1, PlacedStart
<1>3. LockInv
  BY <1>2, StartUnlocked
<1> QED
  BY <1>2, <1>3 DEF GuardedInv, GuardedData, PushedAt

(* A step that neither pushes nor pops, of a thread that is not to pop. *)
LEMMA GuardedQuiet ==
    ASSUME GuardedInv, UNCHANGED mem, Placed', LockInv', PushedAt(pc'[0]) = PushedAt(pc[0]),
           \A t \in Threads : t # 0 /\ pc'[t] = "pop" => pc[t] = "pop" /\ (Has(t, "cv_m") => Has(t, "cv_m")')
    PROVE  GuardedInv'
  BY DEF GuardedInv, GuardedData

(* A worker pops a message, with the mutex, and never one that is not there. *)
LEMMA GuardedWorkerStep ==
    ASSUME GuardedInv, NEW t \in Threads, t # 0, GuardedWorker(t)
    PROVE  GuardedInv'
<1>1. /\ Placed /\ LockInv /\ GuardedData(mem)
      /\ mem.msgs + mem.popped = PushedAt(pc[0])
      /\ \A s \in Threads : s # 0 /\ pc[s] = "pop" => Has(s, "cv_m") /\ mem.msgs > 0
      /\ 0 \in Threads
  BY ThreadsAssumption DEF GuardedInv
<1>2. ASSUME NEW a, NEW b, Lock(t, a, "cv_m", b), b # "pop" PROVE GuardedInv'
  <2>1. Go(t, a, b) /\ UNCHANGED mem
    BY <1>2 DEF Lock
  <2>2. Placed' /\ pc'[t] = b /\ \A s \in Threads : s # t => pc'[s] = pc[s]
    BY <1>1, <2>1, GoIs
  <2>3. LockInv' /\ \A s, n : Has(s, n)' <=> Has(s, n) \/ (s = t /\ n = "cv_m")
    BY <1>1, <1>2, LockTaken
  <2> QED
    BY <1>1, <1>2, <2>1, <2>2, <2>3, GuardedQuiet
<1>3. CASE Holds(t, "cv_m") /\ When(t, "wait", mem.msgs > 0, "pop")
  <2>1. Go(t, "wait", "pop") /\ mem.msgs > 0 /\ UNCHANGED <<held, mem>>
    BY <1>3 DEF When
  <2>2. Placed' /\ pc'[t] = "pop" /\ \A s \in Threads : s # t => pc'[s] = pc[s]
    BY <1>1, <2>1, GoIs
  <2>3. Has(t, "cv_m")
    BY <1>1, <1>3 DEF LockInv, Holds, Has
  <2>4. LockInv' /\ \A s, n : Has(s, n)' <=> Has(s, n)
    BY <1>1, <2>1 DEF LockInv, Has
  <2> QED
    BY <1>1, <2>1, <2>2, <2>3, <2>4 DEF GuardedInv, GuardedData
<1>4. CASE Block(t, "wait", "cv", "cv_m")
  <2>1. Holds(t, "cv_m") /\ held' = Released(t, "cv_m") /\ pc[t] = "wait" /\ UNCHANGED <<pc, mem>>
    BY <1>4 DEF Block
  <2>2. LockInv' /\ \A s, n : Has(s, n)' <=> Has(s, n) /\ ~(s = t /\ n = "cv_m")
    BY <1>1, <2>1, LockGiven
  <2>3. Placed'
    BY <1>1, <2>1 DEF Placed
  <2> QED
    BY <1>1, <2>1, <2>2, <2>3, GuardedQuiet
<1>5. CASE Do(t, "pop", [mem EXCEPT !.msgs = @ - 1, !.popped = @ + 1], "unlock")
  <2>1. Go(t, "pop", "unlock") /\ mem' = [mem EXCEPT !.msgs = @ - 1, !.popped = @ + 1] /\ UNCHANGED held
    BY <1>5 DEF Do
  <2>2. Placed' /\ pc[t] = "pop" /\ pc'[t] = "unlock" /\ \A s \in Threads : s # t => pc'[s] = pc[s]
    BY <1>1, <2>1, GoIs
  <2>3. PICK k \in Nat, n \in Nat : mem.msgs = k + 1 /\ mem.popped = n
    <3>1. mem.msgs \in Nat /\ mem.msgs > 0 /\ mem.popped \in Nat
      BY <1>1, <2>2 DEF GuardedData
    <3>2. mem.msgs - 1 \in Nat /\ mem.msgs = (mem.msgs - 1) + 1
      BY <3>1
    <3> QED
      BY <3>1, <3>2
  <2>4. mem'.msgs = k /\ mem'.popped = n + 1 /\ GuardedData(mem')
    <3>1. mem' = [msgs |-> (k + 1) - 1, popped |-> n + 1, crowd |-> mem.crowd]
      BY <1>1, <2>1, <2>3 DEF GuardedData
    <3>2. (k + 1) - 1 = k /\ n + 1 \in Nat
      OBVIOUS
    <3> QED
      BY <3>1, <3>2 DEF GuardedData
  <2>5. mem'.msgs + mem'.popped = PushedAt(pc'[0])
    <3>1. k + (n + 1) = (k + 1) + n
      OBVIOUS
    <3> QED
      BY <1>1, <2>2, <2>3, <2>4, <3>1
  <2>6. LockInv' /\ \A s, n1 : Has(s, n1)' <=> Has(s, n1)
    BY <1>1, <2>1 DEF LockInv, Has
  <2>7. \A s \in Threads : s # 0 => pc'[s] # "pop"
    <3>1. Has(t, "cv_m")
      BY <1>1, <2>2
    <3>2. \A s \in Threads : s # t /\ s # 0 => pc[s] # "pop"
      BY <1>1, <3>1 DEF LockInv
    <3> QED
      BY <2>2, <3>2
  <2> QED
    BY <2>2, <2>4, <2>5, <2>6, <2>7 DEF GuardedInv
<1>6. CASE Unlock(t, "unlock", "cv_m", "end")
  <2>1. Go(t, "unlock", "end") /\ Holds(t, "cv_m") /\ held' = Released(t, "cv_m") /\ UNCHANGED mem
    BY <1>6 DEF Unlock
  <2>2. Placed' /\ pc'[t] = "end" /\ \A s \in Threads : s # t => pc'[s] = pc[s]
    BY <1>1, <2>1, GoIs
  <2>3. LockInv' /\ \A s, n : Has(s, n)' <=> Has(s, n) /\ ~(s = t /\ n = "cv_m")
    BY <1>1, <2>1, LockGiven
  <2> QED
    BY <1>1, <2>1, <2>2, <2>3, GuardedQuiet
<1> QED
  BY <1>2, <1>3, <1>4, <1>5, <1>6 DEF GuardedWorker, WaitUntil, Relock

(* Main pushes two messages at a time. *)
LEMMA GuardedMainStep ==
    ASSUME GuardedInv, GuardedMain
    PROVE  GuardedInv'
<1>1. /\ Placed /\ LockInv /\ GuardedData(mem)
      /\ mem.msgs + mem.popped = PushedAt(pc[0])
      /\ \A s \in Threads : s # 0 /\ pc[s] = "pop" => Has(s, "cv_m") /\ mem.msgs > 0
      /\ 0 \in Threads
  BY ThreadsAssumption DEF GuardedInv
<1>2. ASSUME NEW a, NEW b, Go(0, a, b), UNCHANGED <<held, mem>>, PushedAt(a) = PushedAt(b)
      PROVE  GuardedInv'
  <2>1. Placed' /\ pc[0] = a /\ pc'[0] = b /\ \A s \in Threads : s # 0 => pc'[s] = pc[s]
    BY <1>1, <1>2, GoIs
  <2>2. LockInv' /\ \A s, n : Has(s, n)' <=> Has(s, n)
    BY <1>1, <1>2 DEF LockInv, Has
  <2> QED
    BY <1>1, <1>2, <2>1, <2>2, GuardedQuiet
<1>3. ASSUME NEW a, NEW b, Lock(0, a, "cv_m", b), PushedAt(a) = PushedAt(b) PROVE GuardedInv'
  <2>1. Go(0, a, b) /\ UNCHANGED mem
    BY <1>3 DEF Lock
  <2>2. Placed' /\ pc[0] = a /\ pc'[0] = b /\ \A s \in Threads : s # 0 => pc'[s] = pc[s]
    BY <1>1, <2>1, GoIs
  <2>3. LockInv' /\ \A s, n : Has(s, n)' <=> Has(s, n) \/ (s = 0 /\ n = "cv_m")
    BY <1>1, <1>3, LockTaken
  <2> QED
    BY <1>1, <1>3, <2>1, <2>2, <2>3, GuardedQuiet
<1>4. ASSUME NEW a, NEW b, Unlock(0, a, "cv_m", b), PushedAt(a) = PushedAt(b) PROVE GuardedInv'
  <2>1. Go(0, a, b) /\ Holds(0, "cv_m") /\ held' = Released(0, "cv_m") /\ UNCHANGED mem
    BY <1>4 DEF Unlock
  <2>2. Placed' /\ pc[0] = a /\ pc'[0] = b /\ \A s \in Threads : s # 0 => pc'[s] = pc[s]
    BY <1>1, <2>1, GoIs
  <2>3. LockInv' /\ \A s, n : Has(s, n)' <=> Has(s, n) /\ ~(s = 0 /\ n = "cv_m")
    BY <1>1, <2>1, LockGiven
  <2> QED
    BY <1>1, <1>4, <2>1, <2>2, <2>3, GuardedQuiet
<1>5. ASSUME NEW a, NEW b, NEW m, Do(0, a, m, b), NEW c,
             m = [mem EXCEPT !.msgs = mem.msgs + 2, !.crowd = c] \/ m = [mem EXCEPT !.msgs = mem.msgs + 2],
             PushedAt(b) = PushedAt(a) + 2
      PROVE  GuardedInv'
  <2>1. Go(0, a, b) /\ mem' = m /\ UNCHANGED held
    BY <1>5 DEF Do
  <2>2. Placed' /\ pc[0] = a /\ pc'[0] = b /\ \A s \in Threads : s # 0 => pc'[s] = pc[s]
    BY <1>1, <2>1, GoIs
  <2>3. PICK k \in Nat, n \in Nat : mem.msgs = k /\ mem.popped = n
    BY <1>1 DEF GuardedData
  <2>4. mem'.msgs = k + 2 /\ mem'.popped = n /\ GuardedData(mem')
    <3>1. PICK d : mem' = [msgs |-> k + 2, popped |-> n, crowd |-> d]
      BY <1>1, <1>5, <2>1, <2>3 DEF GuardedData
    <3>2. k + 2 \in Nat
      OBVIOUS
    <3> QED
      BY <3>1, <3>2 DEF GuardedData
  <2>5. mem'.msgs + mem'.popped = PushedAt(pc'[0]) /\ mem'.msgs > 0
    <3>1. (k + 2) + n = (k + n) + 2 /\ k + 2 > 0
      OBVIOUS
    <3> QED
      BY <1>1, <1>5, <2>2, <2>3, <2>4, <3>1
  <2>6. LockInv' /\ \A s, n1 : Has(s, n1)' <=> Has(s, n1)
    BY <1>1, <2>1 DEF LockInv, Has
  <2> QED
    BY <1>1, <2>2, <2>4, <2>5, <2>6 DEF GuardedInv
<1>6. CASE Spawn(0, "begin", 1..3, "lock1")
  <2>1. /\ Placed' /\ pc[0] = "begin" /\ pc'[0] = "lock1" /\ UNCHANGED <<held, mem>>
        /\ \A s \in Threads : s # 0 => pc'[s] = IF s \in 1..3 THEN "begin" ELSE pc[s]
    BY <1>6, SpawnIs
  <2>2. LockInv' /\ \A s, n : Has(s, n)' <=> Has(s, n)
    BY <1>1, <2>1 DEF LockInv, Has
  <2>3. PushedAt(pc'[0]) = PushedAt(pc[0])
    BY <2>1 DEF PushedAt
  <2>4. \A s \in Threads : s # 0 /\ pc'[s] = "pop" => pc[s] = "pop"
    BY <2>1
  <2> QED
    BY <1>1, <2>1, <2>2, <2>3, <2>4, GuardedQuiet
<1>7. CASE Do(0, "push1", [mem EXCEPT !.msgs = @ + 2, !.crowd = (Cardinality(waiting) = 3)], "unlock1")
  <2>1. PushedAt("unlock1") = PushedAt("push1") + 2
    BY DEF PushedAt
  <2> QED
    BY <1>5, <1>7, <2>1
<1>8. CASE Do(0, "push2", [mem EXCEPT !.msgs = @ + 2], "unlock2")
  <2>1. PushedAt("unlock2") = PushedAt("push2") + 2
    BY DEF PushedAt
  <2> QED
    BY <1>5, <1>8, <2>1
<1>9. CASE Lock(0, "lock1", "cv_m", "push1") \/ Lock(0, "lock2", "cv_m", "push2")
  BY <1>3, <1>9 DEF PushedAt
<1>10. CASE Unlock(0, "unlock1", "cv_m", "notify1") \/ Unlock(0, "unlock2", "cv_m", "notify2")
  BY <1>4, <1>10 DEF PushedAt
<1>11. CASE NotifyOne(0, "notify1", "cv", "lock2") \/ NotifyOne(0, "notify2", "cv", "join")
  BY <1>2, <1>11 DEF PushedAt, NotifyOne
<1>12. CASE Join(0, "join", 1..3, "end")
  BY <1>2, <1>12 DEF PushedAt, Join, When
<1> QED
  BY <1>6, <1>7, <1>8, <1>9, <1>10, <1>11, <1>12 DEF GuardedMain

(* What is said of the messages stays true. *)
LEMMA GuardedInductive ==
    ASSUME program = "guarded", GuardedInv, [Next]_vars
    PROVE  GuardedInv'
<1>1. CASE UNCHANGED <<pc, held, mem>>
  BY <1>1 DEF GuardedInv, GuardedData, Placed, LockInv, Has
<1>2. ASSUME NEW t \in Threads, SpuriousWake(t) PROVE GuardedInv'
  BY <1>1, <1>2 DEF SpuriousWake
<1>3. ASSUME NEW t \in Threads, Step(t) PROVE GuardedInv'
  BY <1>3, GuardedMainStep, GuardedWorkerStep DEF Step, Run
<1> QED
  BY <1>1, <1>2, <1>3, ThreadStep DEF threadVars

-----------------------------------------------------------------------------
(* Steps of one thread, where its locks do not matter.                     *)

Moved(t, a, b) ==
    /\ Placed' /\ pc[t] = a /\ pc'[t] = b
    /\ \A s \in Threads : s # t => pc'[s] = pc[s]

(* A thread that waits for something, or locks, goes on and changes no data, ... *)
LEMMA QuietIs ==
    ASSUME Placed, NEW t \in Threads, NEW a, NEW b, NEW x,
           \/ When(t, a, x, b) \/ NotifyOne(t, a, x, b)
           \/ Lock(t, a, x, b) \/ LockRecursive(t, a, x, b) \/ Unlock(t, a, x, b)
    PROVE  Moved(t, a, b) /\ UNCHANGED mem
<1>1. Go(t, a, b) /\ UNCHANGED mem
  BY DEF When, NotifyOne, Lock, LockRecursive, Unlock
<1> QED
  BY <1>1, GoIs DEF Moved

(* ... or changes the data. *)
LEMMA DoIs ==
    ASSUME Placed, NEW t \in Threads, NEW a, NEW b, NEW m, Do(t, a, m, b)
    PROVE  Moved(t, a, b) /\ mem' = m
<1>1. Go(t, a, b) /\ mem' = m
  BY DEF Do
<1> QED
  BY <1>1, GoIs DEF Moved

-----------------------------------------------------------------------------
(* 01_thread.cpp: main ends the process only after the threads it joins.   *)

HelloData(m) == m = [lines |-> m.lines] /\ m.lines = [t \in Threads |-> m.lines[t]]
HelloLines(t) == IF t \in {1, 2} THEN Loops ELSE 1
HelloInv ==
    /\ Placed /\ HelloData(mem)
    /\ \A t \in 2..4 : pc[t] = "end" => mem.lines[t] = HelloLines(t)
    /\ pc[0] # "none"
    /\ pc[0] \in {"methods", "join", "return", "end"} => pc[2] = "end"
    /\ pc[0] \in {"return", "end"} => pc[3] = "end" /\ pc[4] = "end"

(* Nothing is printed at first. *)
LEMMA HelloStart == HelloInit => HelloInv
<1> SUFFICES ASSUME HelloInit PROVE HelloInv
  OBVIOUS
<1> DEFINE m == [lines |-> [t \in Threads |-> 0]]
<1>1. ThreadInit(m)
  BY DEF HelloInit
<1>2. /\ Placed /\ pc[0] = "begin" /\ mem = m
      /\ \A t \in Threads : t # 0 => pc[t] = "none"
  BY <1>1, PlacedStart
<1>3. HelloData(mem)
  BY <1>2 DEF HelloData
<1> QED
  BY <1>2, <1>3, ThreadsAssumption DEF HelloInv

(* A worker prints, or has printed all. *)
LEMMA HelloWorkerStep ==
    ASSUME HelloInv, NEW t \in Threads, t # 0, HelloWorker(t)
    PROVE  HelloInv'
<1>1. /\ Placed /\ HelloData(mem)
      /\ \A s \in 2..4 : s \in Threads /\ (pc[s] = "end" => mem.lines[s] = HelloLines(s))
      /\ 0 \in Threads
  BY ThreadsAssumption DEF HelloInv
<1>2. CASE Do(t, "begin", [mem EXCEPT !.lines[t] = @ + 1], "begin")
  <2>1. Moved(t, "begin", "begin") /\ mem' = [mem EXCEPT !.lines[t] = @ + 1]
    BY <1>1, <1>2, DoIs
  <2>2. mem' = [lines |-> [mem.lines EXCEPT ![t] = @ + 1]]
    BY <1>1, <2>1 DEF HelloData
  <2>3. HelloData(mem') /\ \A s \in Threads : s # t => mem'.lines[s] = mem.lines[s]
    BY <1>1, <2>2 DEF HelloData
  <2>4. Placed' /\ \A s \in Threads : pc'[s] = pc[s]
    BY <2>1 DEF Moved
  <2>5. pc[t] = "begin"
    BY <2>1 DEF Moved
  <2>6. \A s \in 2..4 : pc'[s] = "end" => mem'.lines[s] = HelloLines(s)
    BY <1>1, <2>3, <2>4, <2>5
  <2> QED
    BY <1>1, <2>3, <2>4, <2>6 DEF HelloInv
<1>3. CASE When(t, "begin", mem.lines[t] = HelloLines(t), "end")
  <2>1. Moved(t, "begin", "end") /\ UNCHANGED mem /\ mem.lines[t] = HelloLines(t)
    BY <1>1, <1>3, QuietIs DEF When
  <2>2. /\ Placed' /\ pc'[0] = pc[0] /\ pc'[t] = "end"
        /\ \A s \in Threads : s # t => pc'[s] = pc[s]
    BY <1>1, <2>1 DEF Moved
  <2>3. \A s \in 2..4 : pc'[s] = "end" => mem'.lines[s] = HelloLines(s)
    BY <1>1, <2>1, <2>2
  <2>4. \A s \in 2..4 : pc[s] = "end" => pc'[s] = "end"
    BY <1>1, <2>2
  <2> QED
    BY <1>1, <2>1, <2>2, <2>3, <2>4 DEF HelloInv
<1> QED
  BY <1>2, <1>3 DEF HelloWorker, Hello, HelloLines

(* Main starts and joins them. *)
LEMMA HelloMainStep ==
    ASSUME HelloInv, HelloMain
    PROVE  HelloInv'
<1>1. /\ Placed /\ HelloData(mem)
      /\ \A s \in 2..4 : s \in Threads /\ (pc[s] = "end" => mem.lines[s] = HelloLines(s))
      /\ 0 \in Threads
      /\ pc[0] \in {"methods", "join", "return", "end"} => pc[2] = "end"
      /\ pc[0] \in {"return", "end"} => pc[3] = "end" /\ pc[4] = "end"
  BY ThreadsAssumption DEF HelloInv
<1>2. CASE Spawn(0, "begin", {1, 2}, "join2")
  <2>1. /\ Placed' /\ pc'[0] = "join2" /\ UNCHANGED mem
        /\ \A s \in Threads : s # 0 => pc'[s] = IF s \in {1, 2} THEN "begin" ELSE pc[s]
    BY <1>2, SpawnIs
  <2>2. \A s \in 2..4 : pc'[s] = "end" => pc[s] = "end"
    BY <1>1, <2>1
  <2> QED
    BY <1>1, <2>1, <2>2 DEF HelloInv
<1>3. CASE Join(0, "join2", {2}, "methods")
  <2>1. /\ Placed' /\ pc'[0] = "methods" /\ UNCHANGED mem /\ pc[2] = "end"
        /\ \A s \in Threads : s # 0 => pc'[s] = pc[s]
    BY <1>1, <1>3, JoinIs
  <2> QED
    BY <1>1, <2>1 DEF HelloInv
<1>4. CASE Spawn(0, "methods", {3, 4}, "join")
  <2>1. /\ Placed' /\ pc[0] = "methods" /\ pc'[0] = "join" /\ UNCHANGED mem
        /\ \A s \in Threads : s # 0 => pc'[s] = IF s \in {3, 4} THEN "begin" ELSE pc[s]
    BY <1>4, SpawnIs
  <2>2. \A s \in 2..4 : pc'[s] = "end" => pc[s] = "end"
    BY <1>1, <2>1
  <2> QED
    BY <1>1, <2>1, <2>2 DEF HelloInv
<1>5. CASE Join(0, "join", {3, 4}, "return")
  <2>1. /\ Placed' /\ pc[0] = "join" /\ pc'[0] = "return" /\ UNCHANGED mem /\ pc[3] = "end" /\ pc[4] = "end"
        /\ \A s \in Threads : s # 0 => pc'[s] = pc[s]
    BY <1>1, <1>5, JoinIs
  <2> QED
    BY <1>1, <2>1 DEF HelloInv
<1>6. CASE ExitProcess(0, "return")
  <2>1. /\ Placed' /\ pc[0] = "return" /\ UNCHANGED mem
        /\ \A s \in Threads : pc'[s] = "end"
    BY <1>6, ExitIs
  <2>2. \A s \in 2..4 : pc[s] = "end"
    BY <1>1, <2>1
  <2> QED
    BY <1>1, <2>1, <2>2 DEF HelloInv
<1> QED
  BY <1>2, <1>3, <1>4, <1>5, <1>6 DEF HelloMain

(* What is said of hello stays true. *)
LEMMA HelloInductive ==
    ASSUME program = "hello", HelloInv, [Next]_vars
    PROVE  HelloInv'
<1>1. CASE UNCHANGED <<pc, mem>>
  BY <1>1 DEF HelloInv, HelloData, Placed
<1>2. ASSUME NEW t \in Threads, SpuriousWake(t) PROVE HelloInv'
  BY <1>1, <1>2 DEF SpuriousWake
<1>3. ASSUME NEW t \in Threads, Step(t) PROVE HelloInv'
  BY <1>3, HelloMainStep, HelloWorkerStep DEF Step, Run
<1> QED
  BY <1>1, <1>2, <1>3, ThreadStep DEF threadVars

(* When all have ended, every thread that is joined has printed its lines. *)
LEMMA HelloEnd ==
    ASSUME HelloInv, AllEnd
    PROVE  \A t \in 2..4 : mem.lines[t] = IF t = 2 THEN Loops ELSE 1
<1>1. pc[0] = "end" /\ pc[2] = "end" /\ pc[3] = "end" /\ pc[4] = "end"
  BY ThreadsAssumption DEF HelloInv, AllEnd
<1>2. \A t \in 2..4 : mem.lines[t] = HelloLines(t)
  BY <1>1 DEF HelloInv
<1> QED
  BY <1>2 DEF HelloLines

-----------------------------------------------------------------------------
(* One of two threads goes on. *)
TwoMoved(t, a, b) ==
    /\ t \in {1, 2} /\ TwoInv' /\ pc[t] = a /\ pc'[t] = b
    /\ \A s \in {1, 2} : s # t => pc'[s] = pc[s]

(* Of the workers, only those two take steps. *)
LEMMA TwoMoves ==
    ASSUME TwoInv, NEW t \in Threads, t # 0, NEW a, NEW b, Go(t, a, b), a # "none", a # "end"
    PROVE  TwoMoved(t, a, b)
<1>1. pc[t] = a
  BY DEF Go
<1>2. t \in {1, 2}
  BY <1>1 DEF TwoInv
<1> QED
  BY <1>2, TwoGo DEF TwoMoved

-----------------------------------------------------------------------------
(* test2_mutex_many: two mails from each.                                  *)

Mailed(place) == IF place \in {"unlock2", "unlock1", "end"} THEN 2 ELSE 0
EmployeesInv ==
    /\ TwoInv /\ mem = [mails |-> mem.mails]
    /\ mem.mails = Mailed(pc[1]) + Mailed(pc[2])

(* At first none is sent. *)
LEMMA EmployeesStart == EmployeesInit => EmployeesInv
<1> SUFFICES ASSUME EmployeesInit PROVE EmployeesInv
  OBVIOUS
<1> DEFINE m == [mails |-> 0]
<1>1. ThreadInit(m)
  BY DEF EmployeesInit
<1>2. TwoInv
  BY <1>1, TwoStart
<1>3. pc[1] = "none" /\ pc[2] = "none" /\ mem = m
  BY <1>1, ThreadsAssumption DEF ThreadInit
<1> QED
  BY <1>2, <1>3 DEF EmployeesInv, Mailed

(* A step that sends what its thread has sent more. *)
LEMMA EmployeeGoes ==
    ASSUME EmployeesInv, NEW t, NEW a, NEW b, TwoMoved(t, a, b),
           NEW n \in Nat, mem' = [mem EXCEPT !.mails = @ + n], Mailed(b) = Mailed(a) + n
    PROVE  EmployeesInv'
<1>1. /\ TwoInv' /\ t \in {1, 2} /\ pc[t] = a /\ pc'[t] = b
      /\ \A s \in {1, 2} : s # t => pc'[s] = pc[s]
  BY DEF TwoMoved
<1>2. mem = [mails |-> mem.mails] /\ mem.mails = Mailed(pc[1]) + Mailed(pc[2])
  BY DEF EmployeesInv
<1>3. mem' = [mails |-> mem.mails + n]
  BY <1>2
<1>4. PICK j \in Nat, k \in Nat : j = Mailed(pc[1]) /\ k = Mailed(pc[2])
  BY DEF Mailed
<1>5. Mailed(pc'[1]) + Mailed(pc'[2]) = (j + k) + n
  <2>1. CASE t = 1
    <3>1. Mailed(pc'[1]) = j + n /\ Mailed(pc'[2]) = k
      BY <1>1, <1>4, <2>1
    <3> QED
      BY <3>1
  <2>2. CASE t = 2
    <3>1. Mailed(pc'[1]) = j /\ Mailed(pc'[2]) = k + n
      BY <1>1, <1>4, <2>2
    <3> QED
      BY <3>1
  <2> QED
    BY <1>1, <2>1, <2>2
<1>6. mem'.mails = (j + k) + n /\ mem' = [mails |-> mem'.mails]
  BY <1>2, <1>3, <1>4
<1> QED
  BY <1>1, <1>5, <1>6 DEF EmployeesInv

(* An employee locks both, sends two, and unlocks them. *)
LEMMA EmployeeStep ==
    ASSUME EmployeesInv, NEW t \in Threads, t # 0, NEW self, NEW partner, invite_to_lunch(t, self, partner)
    PROVE  EmployeesInv'
<1>1. TwoInv /\ mem = [mails |-> mem.mails] /\ mem.mails \in Nat
  BY DEF EmployeesInv, Mailed
<1>2. ASSUME NEW a, NEW b, a # "none", a # "end", Go(t, a, b), UNCHANGED mem, Mailed(a) = Mailed(b)
      PROVE  EmployeesInv'
  <2>1. TwoMoved(t, a, b)
    BY <1>1, <1>2, TwoMoves
  <2>2. mem' = [mem EXCEPT !.mails = @ + 0]
    BY <1>1, <1>2
  <2>3. Mailed(b) = Mailed(a) + 0
    BY <1>2 DEF Mailed
  <2> QED
    BY <2>1, <2>2, <2>3, EmployeeGoes
<1>3. CASE Do(t, "send", [mem EXCEPT !.mails = @ + 2], "unlock2")
  <2>1. Go(t, "send", "unlock2") /\ mem' = [mem EXCEPT !.mails = @ + 2]
    BY <1>3 DEF Do
  <2>2. TwoMoved(t, "send", "unlock2")
    BY <1>1, <2>1, TwoMoves
  <2>3. Mailed("unlock2") = Mailed("send") + 2
    BY DEF Mailed
  <2> QED
    BY <2>1, <2>2, <2>3, EmployeeGoes
<1>4. CASE LockBoth(t, "begin", self, partner, "send")
  BY <1>2, <1>4 DEF LockBoth, Mailed
<1>5. CASE Unlock(t, "unlock2", partner, "unlock1") \/ Unlock(t, "unlock1", self, "end")
  BY <1>2, <1>5 DEF Unlock, Mailed
<1> QED
  BY <1>3, <1>4, <1>5 DEF invite_to_lunch

(* The number of mails stays true. *)
LEMMA EmployeesInductive ==
    ASSUME program = "employees", EmployeesInv, [Next]_vars
    PROVE  EmployeesInv'
<1>1. CASE UNCHANGED <<pc, mem>>
  BY <1>1 DEF EmployeesInv, TwoInv
<1>2. ASSUME NEW t \in Threads, SpuriousWake(t) PROVE EmployeesInv'
  BY <1>1, <1>2 DEF SpuriousWake
<1>3. CASE TwoThreads
  <2>1. TwoInv' /\ UNCHANGED mem /\ \A t \in {1, 2} : pc'[t] = pc[t] \/ (pc[t] = "none" /\ pc'[t] = "begin")
    BY <1>3, TwoMain DEF EmployeesInv
  <2>2. Mailed(pc'[1]) = Mailed(pc[1]) /\ Mailed(pc'[2]) = Mailed(pc[2])
    BY <2>1 DEF Mailed
  <2> QED
    BY <2>1, <2>2 DEF EmployeesInv
<1>4. ASSUME NEW t \in Threads, Step(t) PROVE EmployeesInv'
  BY <1>3, <1>4, EmployeeStep DEF Step, Run, Employee
<1> QED
  BY <1>1, <1>2, <1>4, ThreadStep DEF threadVars

-----------------------------------------------------------------------------
(* test4_recursive_mutex: what func1 wrote is there when func2 is back,    *)
(* for all that the other thread writes is the same.                       *)

RecursiveData(m) == m = [m_shared |-> m.m_shared, back |-> m.back]
RecursiveInv ==
    /\ TwoInv /\ RecursiveData(mem)
    /\ pc[2] \in {"unlock1", "back"} => mem.m_shared = "func1"
    /\ pc[2] \in {"unlock2", "end"} => mem.back = "func1"

(* At first nothing is written. *)
LEMMA RecursiveStart == RecursiveInit => RecursiveInv
<1> SUFFICES ASSUME RecursiveInit PROVE RecursiveInv
  OBVIOUS
<1> DEFINE m == [m_shared |-> "", back |-> ""]
<1>1. ThreadInit(m)
  BY DEF RecursiveInit
<1>2. TwoInv
  BY <1>1, TwoStart
<1>3. pc[2] = "none" /\ mem = m
  <2>1. mem = m /\ \A t \in Threads : t # 0 => pc[t] = "none"
    BY <1>1, PlacedStart
  <2> HIDE DEF m
  <2> QED
    BY <2>1, ThreadsAssumption
<1> QED
  BY <1>2, <1>3 DEF RecursiveInv, RecursiveData

(* A step of either thread. *)
LEMMA TesterStep ==
    ASSUME RecursiveInv, NEW t \in Threads, t # 0, Tester(t)
    PROVE  RecursiveInv'
<1>1. /\ TwoInv /\ RecursiveData(mem)
      /\ pc[2] \in {"unlock1", "back"} => mem.m_shared = "func1"
      /\ pc[2] \in {"unlock2", "end"} => mem.back = "func1"
  BY DEF RecursiveInv
<1>2. ASSUME NEW a, NEW b, a # "none", a # "end", Go(t, a, b), UNCHANGED mem,
             \/ t # 2
             \/ b \notin {"unlock1", "back", "unlock2", "end"}
             \/ <<a, b>> \in {<<"unlock1", "back">>, <<"unlock2", "end">>}
      PROVE  RecursiveInv'
  <2>1. TwoMoved(t, a, b)
    BY <1>1, <1>2, TwoMoves
  <2> QED
    BY <1>1, <1>2, <2>1 DEF TwoMoved, RecursiveInv
<1>3. ASSUME Do(t, "write1", [mem EXCEPT !.m_shared = "func1"], "unlock1") PROVE RecursiveInv'
  <2>1. Go(t, "write1", "unlock1") /\ mem' = [mem EXCEPT !.m_shared = "func1"]
    BY <1>3 DEF Do
  <2>2. TwoMoved(t, "write1", "unlock1")
    BY <1>1, <2>1, TwoMoves
  <2>3. RecursiveData(mem') /\ mem'.m_shared = "func1" /\ mem'.back = mem.back
    BY <1>1, <2>1 DEF RecursiveData
  <2> QED
    BY <1>1, <2>2, <2>3 DEF TwoMoved, RecursiveInv
<1>4. ASSUME t = 2, Do(t, "write2", [mem EXCEPT !.m_shared = "func2"], "call") PROVE RecursiveInv'
  <2>1. Go(t, "write2", "call") /\ mem' = [mem EXCEPT !.m_shared = "func2"]
    BY <1>4 DEF Do
  <2>2. TwoMoved(t, "write2", "call")
    BY <1>1, <2>1, TwoMoves
  <2>3. RecursiveData(mem')
    BY <1>1, <2>1 DEF RecursiveData
  <2> QED
    BY <1>1, <1>4, <2>2, <2>3 DEF TwoMoved, RecursiveInv
<1>5. ASSUME t = 2, Do(t, "back", [mem EXCEPT !.back = mem.m_shared], "unlock2") PROVE RecursiveInv'
  <2>1. Go(t, "back", "unlock2") /\ mem' = [mem EXCEPT !.back = mem.m_shared]
    BY <1>5 DEF Do
  <2>2. TwoMoved(t, "back", "unlock2")
    BY <1>1, <2>1, TwoMoves
  <2>3. RecursiveData(mem') /\ mem'.back = "func1"
    BY <1>1, <1>5, <2>1, <2>2 DEF RecursiveData, TwoMoved
  <2> QED
    BY <1>1, <1>5, <2>2, <2>3 DEF TwoMoved, RecursiveInv
<1>6. ASSUME func1(t, "begin", "end"), t = 1 PROVE RecursiveInv'
  <2>1. CASE LockRecursive(t, "begin", "m_mutex", "write1")
    BY <1>2, <1>6, <2>1 DEF LockRecursive
  <2>2. CASE Unlock(t, "unlock1", "m_mutex", "end")
    BY <1>2, <1>6, <2>2 DEF Unlock
  <2> QED
    BY <1>3, <1>6, <2>1, <2>2 DEF func1
<1>7. ASSUME func1(t, "call", "back") PROVE RecursiveInv'
  <2>1. CASE LockRecursive(t, "call", "m_mutex", "write1")
    BY <1>2, <1>7, <2>1 DEF LockRecursive
  <2>2. CASE Unlock(t, "unlock1", "m_mutex", "back")
    BY <1>2, <1>7, <2>2 DEF Unlock
  <2> QED
    BY <1>3, <1>7, <2>1, <2>2 DEF func1
<1>8. CASE LockRecursive(t, "begin", "m_mutex", "write2")
  BY <1>2, <1>8 DEF LockRecursive
<1>9. CASE Unlock(t, "unlock2", "m_mutex", "end")
  BY <1>2, <1>9 DEF Unlock
<1>10. ASSUME func2(t), t # 1 PROVE RecursiveInv'
  <2>1. ASSUME NEW a, NEW b, NEW m, Do(t, a, m, b), a # "none" PROVE t = 2
    BY <1>1, <1>10, <2>1 DEF Do, Go, TwoInv
  <2> QED
    BY <1>4, <1>5, <1>7, <1>8, <1>9, <1>10, <2>1 DEF func2
<1> QED
  BY <1>6, <1>10 DEF Tester

(* What is said of the recursive mutex stays true. *)
LEMMA RecursiveInductive ==
    ASSUME program = "recursive", RecursiveInv, [Next]_vars
    PROVE  RecursiveInv'
<1>1. CASE UNCHANGED <<pc, mem>>
  BY <1>1 DEF RecursiveInv, RecursiveData, TwoInv
<1>2. ASSUME NEW t \in Threads, SpuriousWake(t) PROVE RecursiveInv'
  BY <1>1, <1>2 DEF SpuriousWake
<1>3. CASE TwoThreads
  <2>1. TwoInv' /\ UNCHANGED mem /\ \A t \in {1, 2} : pc'[t] = pc[t] \/ (pc[t] = "none" /\ pc'[t] = "begin")
    BY <1>3, TwoMain DEF RecursiveInv
  <2> QED
    BY <2>1 DEF RecursiveInv, RecursiveData
<1>4. ASSUME NEW t \in Threads, Step(t) PROVE RecursiveInv'
  BY <1>3, <1>4, TesterStep DEF Step, Run
<1> QED
  BY <1>1, <1>2, <1>4, ThreadStep DEF threadVars

-----------------------------------------------------------------------------
(* The producer and the consumer of 05_condition.cpp, and the reader's     *)
(* buyers: what one adds the other takes, wherever they are.               *)

RealInv ==
    /\ mem = [finished |-> mem.finished, data |-> mem.data, counter |-> mem.counter,
              printed |-> mem.printed, window |-> mem.window]
    /\ mem.data \in Nat /\ mem.counter \in Nat /\ mem.printed \in Nat
    /\ mem.printed + mem.data = mem.counter

(* Nothing is produced at first, ... *)
LEMMA RealStart == RealInit => RealInv
  BY DEF RealInit, ThreadInit, RealInv

(* ... then one more, or all that there is is printed. *)
LEMMA RealStep ==
    ASSUME RealInv
    PROVE  /\ mem' = [mem EXCEPT !.printed = @ + mem.data, !.data = 0] => RealInv'
           /\ mem' = [mem EXCEPT !.data = @ + 1, !.counter = @ + 1] => RealInv'
           /\ \A w : mem' = [mem EXCEPT !.finished = TRUE, !.window = w] => RealInv'
<1>0. PICK f, w : f = mem.finished /\ w = mem.window
  OBVIOUS
<1>1. PICK d \in Nat, c \in Nat, p \in Nat :
        mem = [finished |-> f, data |-> d, counter |-> c, printed |-> p, window |-> w] /\ p + d = c
  BY <1>0 DEF RealInv
<1>2. p + d = c
  BY <1>1
<1>3. ASSUME mem' = [mem EXCEPT !.printed = @ + mem.data, !.data = 0] PROVE RealInv'
  <2>1. mem' = [finished |-> f, data |-> 0, counter |-> c, printed |-> p + d, window |-> w]
    BY <1>1, <1>3
  <2>2. p + d \in Nat /\ (p + d) + 0 = c
    BY <1>2
  <2>3. mem'.data = 0 /\ mem'.counter = c /\ mem'.printed = p + d
    BY <2>1
  <2>4. mem' = [finished |-> mem'.finished, data |-> mem'.data, counter |-> mem'.counter,
                printed |-> mem'.printed, window |-> mem'.window]
    BY <2>1
  <2> QED
    BY <2>2, <2>3, <2>4 DEF RealInv
<1>4. ASSUME mem' = [mem EXCEPT !.data = @ + 1, !.counter = @ + 1] PROVE RealInv'
  <2>1. mem' = [finished |-> f, data |-> d + 1, counter |-> c + 1, printed |-> p, window |-> w]
    BY <1>1, <1>4
  <2>2. d + 1 \in Nat /\ c + 1 \in Nat /\ p + (d + 1) = c + 1
    BY <1>2
  <2>3. mem'.data = d + 1 /\ mem'.counter = c + 1 /\ mem'.printed = p
    BY <2>1
  <2>4. mem' = [finished |-> mem'.finished, data |-> mem'.data, counter |-> mem'.counter,
                printed |-> mem'.printed, window |-> mem'.window]
    BY <2>1
  <2> QED
    BY <2>2, <2>3, <2>4 DEF RealInv
<1>5. ASSUME NEW v, mem' = [mem EXCEPT !.finished = TRUE, !.window = v] PROVE RealInv'
  <2>1. mem' = [finished |-> TRUE, data |-> d, counter |-> c, printed |-> p, window |-> v]
    BY <1>1, <1>5
  <2> QED
    BY <1>1, <2>1 DEF RealInv
<1> QED
  BY <1>3, <1>4, <1>5

(* These are the steps of the program. *)
LEMMA RealInductive ==
    ASSUME program = "real", RealInv, [Next]_vars
    PROVE  RealInv'
<1>1. CASE UNCHANGED mem
  BY <1>1 DEF RealInv
<1>2. ASSUME NEW t \in Threads, SpuriousWake(t) PROVE RealInv'
  BY <1>1, <1>2 DEF SpuriousWake
<1>3. ASSUME test_condition PROVE RealInv'
  <2>1. CASE Spawn(0, "begin", {1, 2}, "finish") \/ Join(0, "join2", {2}, "join1") \/ Join(0, "join1", {1}, "end")
    BY <1>1, <2>1 DEF Spawn, Join, When
  <2>2. CASE Do(0, "finish", [mem EXCEPT !.finished = TRUE,
                                         !.window = (pc[1] = "wait" /\ Holds(1, "conditionMutex"))], "join2")
    <3>1. \E w : mem' = [mem EXCEPT !.finished = TRUE, !.window = w]
      BY <2>2 DEF Do
    <3> QED
      BY <3>1, RealStep
  <2> QED
    BY <1>3, <2>1, <2>2 DEF test_condition
<1>4. ASSUME NEW t, consumer(t) PROVE RealInv'
  <2>1. CASE Do(t, "print", [mem EXCEPT !.printed = @ + mem.data, !.data = 0], "outer")
    BY <2>1, RealStep DEF Do
  <2>2. CASE Wait(t, "wait", "condition", "conditionMutex", "inner")
    BY <1>1, <2>2 DEF Wait, Block, Relock, Lock
  <2> QED
    BY <1>1, <1>4, <2>1, <2>2 DEF consumer, Lock, When, Unlock
<1>5. ASSUME NEW t, producer(t) PROVE RealInv'
  <2>1. CASE Do(t, "push", [mem EXCEPT !.data = @ + 1, !.counter = @ + 1], "unlock")
    BY <2>1, RealStep DEF Do
  <2> QED
    BY <1>1, <1>5, <2>1 DEF producer, Lock, When, Unlock, NotifyOne
<1>6. ASSUME NEW t \in Threads, Step(t) PROVE RealInv'
  BY <1>3, <1>4, <1>5, <1>6 DEF Step, Run
<1> QED
  BY <1>1, <1>2, <1>6, ThreadStep DEF threadVars

-----------------------------------------------------------------------------
ReaderInv ==
    /\ mem = [buyers |-> mem.buyers, pushed |-> mem.pushed, page |-> mem.page, served |-> mem.served]
    /\ mem.buyers \in Nat /\ mem.pushed \in Nat /\ mem.served \in Nat
    /\ mem.served + mem.buyers = mem.pushed

(* No buyer has come at first. *)
LEMMA ReaderStart == ReaderInit => ReaderInv
  BY DEF ReaderInit, ThreadInit, ReaderInv

(* One comes, ... *)
LEMMA BuyerComes ==
    ASSUME ReaderInv
    PROVE  mem' = [mem EXCEPT !.buyers = @ + 1, !.pushed = @ + 1] => ReaderInv'
<1>0. PICK g : g = mem.page
  OBVIOUS
<1>1. PICK b \in Nat, p \in Nat, s \in Nat :
        mem = [buyers |-> b, pushed |-> p, page |-> g, served |-> s] /\ s + b = p
  BY <1>0 DEF ReaderInv
<1>2. s + b = p
  BY <1>1
<1>3. ASSUME mem' = [mem EXCEPT !.buyers = @ + 1, !.pushed = @ + 1] PROVE ReaderInv'
  <2>1. mem' = [buyers |-> b + 1, pushed |-> p + 1, page |-> g, served |-> s]
    BY <1>1, <1>3
  <2>2. b + 1 \in Nat /\ p + 1 \in Nat /\ s + (b + 1) = p + 1
    BY <1>2
  <2>3. mem'.buyers = b + 1 /\ mem'.pushed = p + 1 /\ mem'.served = s
    BY <2>1
  <2>4. mem' = [buyers |-> mem'.buyers, pushed |-> mem'.pushed, page |-> mem'.page, served |-> mem'.served]
    BY <2>1
  <2> QED
    BY <2>2, <2>3, <2>4 DEF ReaderInv
<1> QED
  BY <1>3

(* ... and is served, if there is one, between two pages. *)
LEMMA BuyerServed ==
    ASSUME ReaderInv
    PROVE  mem' = [mem EXCEPT !.page = @ + 1,
                              !.buyers = IF @ > 0 THEN @ - 1 ELSE @,
                              !.served = IF mem.buyers > 0 THEN @ + 1 ELSE @] => ReaderInv'
<1>0. PICK g : g = mem.page
  OBVIOUS
<1>1. PICK b \in Nat, p \in Nat, s \in Nat :
        mem = [buyers |-> b, pushed |-> p, page |-> g, served |-> s] /\ s + b = p
  BY <1>0 DEF ReaderInv
<1>2. s + b = p
  BY <1>1
<1>3. ASSUME mem' = [mem EXCEPT !.page = @ + 1,
                                !.buyers = IF @ > 0 THEN @ - 1 ELSE @,
                                !.served = IF mem.buyers > 0 THEN @ + 1 ELSE @]
      PROVE  ReaderInv'
  <2>1. mem' = [buyers |-> IF b > 0 THEN b - 1 ELSE b, pushed |-> p, page |-> g + 1,
                served |-> IF b > 0 THEN s + 1 ELSE s]
    BY <1>1, <1>3
  <2>2. CASE b > 0
    <3>1. mem' = [buyers |-> b - 1, pushed |-> p, page |-> g + 1, served |-> s + 1]
      BY <2>1, <2>2
    <3>2. b - 1 \in Nat /\ s + 1 \in Nat /\ (s + 1) + (b - 1) = p
      BY <1>2, <2>2
    <3>3. mem'.buyers = b - 1 /\ mem'.pushed = p /\ mem'.served = s + 1
      BY <3>1
    <3>4. mem' = [buyers |-> mem'.buyers, pushed |-> mem'.pushed, page |-> mem'.page, served |-> mem'.served]
      BY <3>1
    <3> QED
      BY <3>2, <3>3, <3>4 DEF ReaderInv
  <2>3. CASE ~(b > 0)
    <3>1. mem' = [buyers |-> b, pushed |-> p, page |-> g + 1, served |-> s]
      BY <2>1, <2>3
    <3>2. mem'.buyers = b /\ mem'.pushed = p /\ mem'.served = s
      BY <3>1
    <3>3. mem' = [buyers |-> mem'.buyers, pushed |-> mem'.pushed, page |-> mem'.page, served |-> mem'.served]
      BY <3>1
    <3> QED
      BY <1>2, <3>2, <3>3 DEF ReaderInv
  <2> QED
    BY <2>2, <2>3
<1> QED
  BY <1>3

(* These are the steps of the program. *)
LEMMA ReaderInductive ==
    ASSUME program = "reader", ReaderInv, [Next]_vars
    PROVE  ReaderInv'
<1>1. CASE UNCHANGED mem
  BY <1>1 DEF ReaderInv
<1>2. ASSUME NEW t \in Threads, SpuriousWake(t) PROVE ReaderInv'
  BY <1>1, <1>2 DEF SpuriousWake
<1>3. ASSUME ReaderMain PROVE ReaderInv'
  <2>1. CASE Do(0, "push", [mem EXCEPT !.buyers = @ + 1, !.pushed = @ + 1], "unlock")
    BY <2>1, BuyerComes DEF Do
  <2> QED
    BY <1>1, <1>3, <2>1 DEF ReaderMain, Spawn, Lock, Unlock, When, Join
<1>4. ASSUME NEW t, cashier(t) PROVE ReaderInv'
  <2>1. CASE Do(t, "serve", [mem EXCEPT !.page = @ + 1,
                                        !.buyers = IF @ > 0 THEN @ - 1 ELSE @,
                                        !.served = IF mem.buyers > 0 THEN @ + 1 ELSE @], "unlock")
    BY <2>1, BuyerServed DEF Do
  <2> QED
    BY <1>1, <1>4, <2>1 DEF cashier, Lock, Unlock, When
<1>5. ASSUME NEW t \in Threads, Step(t) PROVE ReaderInv'
  BY <1>3, <1>4, <1>5 DEF Step, Run
<1> QED
  BY <1>1, <1>2, <1>5, ThreadStep DEF threadVars

-----------------------------------------------------------------------------
(* Programs of main and one other thread.                                  *)

OneInv == Placed /\ \A t \in Threads : t \notin {0, 1} => pc[t] = "none"

(* At first only main has begun, ... *)
LEMMA OneStart ==
    ASSUME NEW m, ThreadInit(m)
    PROVE  OneInv /\ pc[0] = "begin" /\ pc[1] = "none" /\ mem = m
<1>1. /\ Placed /\ pc[0] = "begin" /\ mem = m
      /\ \A t \in Threads : t # 0 => pc[t] = "none"
  BY PlacedStart
<1> QED
  BY <1>1, ThreadsAssumption DEF OneInv

(* ... it spawns the other, ... *)
LEMMA OneSpawn ==
    ASSUME OneInv, NEW a, NEW b, Spawn(0, a, {1}, b)
    PROVE  OneInv' /\ pc[0] = a /\ pc'[0] = b /\ pc'[1] = "begin" /\ UNCHANGED mem
<1>1. /\ Placed' /\ pc[0] = a /\ pc'[0] = b /\ UNCHANGED mem
      /\ \A s \in Threads : s # 0 => pc'[s] = IF s \in {1} THEN "begin" ELSE pc[s]
  BY SpawnIs
<1> QED
  BY <1>1, ThreadsAssumption DEF OneInv

(* ... takes steps itself, ... *)
LEMMA OneMain ==
    ASSUME OneInv, NEW a, NEW b, Go(0, a, b)
    PROVE  OneInv' /\ pc[0] = a /\ pc'[0] = b /\ pc'[1] = pc[1]
<1>1. /\ Placed' /\ pc[0] = a /\ pc'[0] = b
      /\ \A s \in Threads : s # 0 => pc'[s] = pc[s]
  BY GoIs, ThreadsAssumption DEF OneInv
<1> QED
  BY <1>1, ThreadsAssumption DEF OneInv

(* ... and so does the other. *)
LEMMA OneWorker ==
    ASSUME OneInv, NEW t \in Threads, t # 0, NEW a, NEW b, Go(t, a, b), a # "none"
    PROVE  OneInv' /\ t = 1 /\ pc[1] = a /\ pc'[1] = b /\ pc'[0] = pc[0]
<1>1. /\ Placed' /\ pc[t] = a /\ pc'[t] = b
      /\ \A s \in Threads : s # t => pc'[s] = pc[s]
  BY GoIs, ThreadsAssumption DEF OneInv
<1> QED
  BY <1>1, ThreadsAssumption DEF OneInv

-----------------------------------------------------------------------------
(* test_simple: the worker processes after the flag, and main writes its   *)
(* data before it.                                                         *)

SimpleData(m) == m = [data |-> m.data, ready |-> m.ready, processed |-> m.processed]
Flagged == {"unlock", "notify", "lock2", "wait", "unlock2", "join", "end"}
Processed == {"unlock", "notify", "end"}
SimpleAt(main, worker, m) ==
    /\ m.ready = TRUE => main \in Flagged
    /\ worker \in Processed \union {"process"} => m.ready = TRUE
    /\ worker \in Processed => m.data = "after processing"
    /\ main # "none" /\ (main = "end" => worker = "end")
SimpleInv == OneInv /\ SimpleData(mem) /\ SimpleAt(pc[0], pc[1], mem)

(* At first the flag is not set. *)
LEMMA SimpleStart == SimpleInit => SimpleInv
<1> SUFFICES ASSUME SimpleInit PROVE SimpleInv
  OBVIOUS
<1>1. PICK d : ThreadInit([data |-> d, ready |-> FALSE, processed |-> FALSE])
  BY DEF SimpleInit
<1>2. OneInv /\ pc[0] = "begin" /\ pc[1] = "none" /\ mem = [data |-> d, ready |-> FALSE, processed |-> FALSE]
  BY <1>1, OneStart
<1>3. SimpleData(mem)
  BY <1>2 DEF SimpleData
<1>4. mem.ready = FALSE
  BY <1>2
<1> QED
  BY <1>2, <1>3, <1>4 DEF SimpleInv, SimpleAt, Processed

(* A step of the worker. *)
LEMMA SimpleWorkerStep ==
    ASSUME SimpleInv, NEW t \in Threads, t # 0, worker_thread(t)
    PROVE  SimpleInv'
<1>1. OneInv /\ SimpleData(mem) /\ SimpleAt(pc[0], pc[1], mem)
  BY DEF SimpleInv
<1>2. ASSUME NEW a, NEW b, a # "none", Go(t, a, b), UNCHANGED mem, a # "end",
             \/ b \notin Processed \union {"process"}
             \/ a \in Processed
             \/ b = "process" /\ mem.ready = TRUE
      PROVE  SimpleInv'
  <2>1. OneInv' /\ pc[1] = a /\ pc'[1] = b /\ pc'[0] = pc[0]
    BY <1>1, <1>2, OneWorker
  <2>2. SimpleAt(pc'[0], pc'[1], mem')
    BY <1>1, <1>2, <2>1 DEF SimpleAt, Processed
  <2> QED
    BY <1>1, <1>2, <2>1, <2>2 DEF SimpleInv
<1>3. CASE Lock(t, "begin", "m", "wait")
  BY <1>2, <1>3 DEF Lock, Processed
<1>4. CASE WaitUntil(t, "wait", "cv", "m", mem.ready, "process")
  <2>1. CASE Block(t, "wait", "cv", "m")
    BY <1>1, <2>1 DEF Block, SimpleInv, OneInv, Placed
  <2>2. CASE Relock(t, "wait", "cv", "m", "wait")
    BY <1>2, <2>2 DEF Relock, Lock, Processed
  <2>3. CASE When(t, "wait", mem.ready, "process")
    <3>1. mem.ready
      BY <2>3 DEF When
    <3>2. mem.ready = TRUE
      <4>1. mem.ready \in BOOLEAN => mem.ready = TRUE
        BY <3>1
      <4> QED
        BY <3>1, <4>1
    <3> QED
      BY <1>2, <2>3, <3>2 DEF When
  <2> QED
    BY <1>4, <2>1, <2>2, <2>3 DEF WaitUntil
<1>5. CASE Do(t, "process", [mem EXCEPT !.data = "after processing", !.processed = TRUE], "unlock")
  <2>1. Go(t, "process", "unlock") /\ mem' = [mem EXCEPT !.data = "after processing", !.processed = TRUE]
    BY <1>5 DEF Do
  <2>2. OneInv' /\ pc[1] = "process" /\ pc'[1] = "unlock" /\ pc'[0] = pc[0]
    BY <1>1, <2>1, OneWorker
  <2>3. SimpleData(mem') /\ mem'.data = "after processing" /\ mem'.ready = mem.ready
    BY <1>1, <2>1 DEF SimpleData
  <2>4. SimpleAt(pc'[0], pc'[1], mem')
    BY <1>1, <2>2, <2>3 DEF SimpleAt, Processed
  <2> QED
    BY <2>2, <2>3, <2>4 DEF SimpleInv
<1>6. CASE Unlock(t, "unlock", "m", "notify") \/ NotifyOne(t, "notify", "cv", "end")
  BY <1>2, <1>6 DEF Unlock, NotifyOne, Processed
<1> QED
  BY <1>3, <1>4, <1>5, <1>6 DEF worker_thread

(* A step of main. *)
LEMMA SimpleMainStep ==
    ASSUME SimpleInv, test_simple
    PROVE  SimpleInv'
<1>1. OneInv /\ SimpleData(mem) /\ SimpleAt(pc[0], pc[1], mem)
  BY DEF SimpleInv
<1>2. ASSUME NEW a, NEW b, Go(0, a, b), UNCHANGED mem, b # "none", b # "end" \/ pc[1] = "end",
             a \in Flagged => b \in Flagged
      PROVE  SimpleInv'
  <2>1. OneInv' /\ pc[0] = a /\ pc'[0] = b /\ pc'[1] = pc[1]
    BY <1>1, <1>2, OneMain
  <2>2. SimpleAt(pc'[0], pc'[1], mem')
    BY <1>1, <1>2, <2>1 DEF SimpleAt
  <2> QED
    BY <1>1, <1>2, <2>1, <2>2 DEF SimpleInv
<1>3. CASE Spawn(0, "begin", {1}, "write")
  <2>1. OneInv' /\ pc[0] = "begin" /\ pc'[0] = "write" /\ pc'[1] = "begin" /\ UNCHANGED mem
    BY <1>1, <1>3, OneSpawn
  <2>2. SimpleAt(pc'[0], pc'[1], mem')
    BY <1>1, <2>1 DEF SimpleAt, Flagged, Processed
  <2> QED
    BY <1>1, <2>1, <2>2 DEF SimpleInv
<1>4. CASE Do(0, "write", [mem EXCEPT !.data = "Example data"], "lock")
  <2>1. Go(0, "write", "lock") /\ mem' = [mem EXCEPT !.data = "Example data"]
    BY <1>4 DEF Do
  <2>2. OneInv' /\ pc[0] = "write" /\ pc'[0] = "lock" /\ pc'[1] = pc[1]
    BY <1>1, <2>1, OneMain
  <2>3. SimpleData(mem') /\ mem'.ready = mem.ready
    BY <1>1, <2>1 DEF SimpleData
  <2>4. mem.ready # TRUE
    BY <1>1, <2>2 DEF SimpleAt, Flagged
  <2>5. SimpleAt(pc'[0], pc'[1], mem')
    BY <1>1, <2>2, <2>3, <2>4 DEF SimpleAt
  <2> QED
    BY <2>2, <2>3, <2>5 DEF SimpleInv
<1>5. CASE Do(0, "flag", [mem EXCEPT !.ready = TRUE], "unlock")
  <2>1. Go(0, "flag", "unlock") /\ mem' = [mem EXCEPT !.ready = TRUE]
    BY <1>5 DEF Do
  <2>2. OneInv' /\ pc[0] = "flag" /\ pc'[0] = "unlock" /\ pc'[1] = pc[1]
    BY <1>1, <2>1, OneMain
  <2>3. SimpleData(mem') /\ mem'.ready = TRUE /\ mem'.data = mem.data
    BY <1>1, <2>1 DEF SimpleData
  <2>4. SimpleAt(pc'[0], pc'[1], mem')
    BY <1>1, <2>2, <2>3 DEF SimpleAt, Flagged
  <2> QED
    BY <2>2, <2>3, <2>4 DEF SimpleInv
<1>6. CASE Lock(0, "lock", "m", "flag") \/ Lock(0, "lock2", "m", "wait")
  BY <1>2, <1>6 DEF Lock, Flagged
<1>7. CASE WaitUntil(0, "wait", "cv", "m", mem.processed, "unlock2")
  <2>1. CASE Block(0, "wait", "cv", "m")
    BY <1>1, <2>1 DEF Block, SimpleInv, OneInv, Placed
  <2>2. CASE Relock(0, "wait", "cv", "m", "wait")
    BY <1>2, <2>2 DEF Relock, Lock
  <2>3. CASE When(0, "wait", mem.processed, "unlock2")
    BY <1>2, <2>3 DEF When, Flagged
  <2> QED
    BY <1>7, <2>1, <2>2, <2>3 DEF WaitUntil
<1>8. CASE Unlock(0, "unlock", "m", "notify") \/ Unlock(0, "unlock2", "m", "join")
  BY <1>2, <1>8 DEF Unlock, Flagged
<1>9. CASE NotifyOne(0, "notify", "cv", "lock2")
  BY <1>2, <1>9 DEF NotifyOne, Flagged
<1>10. CASE Join(0, "join", {1}, "end")
  BY <1>2, <1>10 DEF Join, When, Flagged
<1> QED
  BY <1>3, <1>4, <1>5, <1>6, <1>7, <1>8, <1>9, <1>10 DEF test_simple

(* What is said of the two stays true. *)
LEMMA SimpleInductive ==
    ASSUME program = "simple", SimpleInv, [Next]_vars
    PROVE  SimpleInv'
<1>1. CASE UNCHANGED <<pc, mem>>
  BY <1>1 DEF SimpleInv, SimpleData, SimpleAt, OneInv, Placed
<1>2. ASSUME NEW t \in Threads, SpuriousWake(t) PROVE SimpleInv'
  BY <1>1, <1>2 DEF SpuriousWake
<1>3. ASSUME NEW t \in Threads, Step(t) PROVE SimpleInv'
  BY <1>3, SimpleMainStep, SimpleWorkerStep DEF Step, Run
<1> QED
  BY <1>1, <1>2, <1>3, ThreadStep DEF threadVars

-----------------------------------------------------------------------------
(* Futures: `fs`, whose results are `result`, and main has those of        *)
(* `gotten`.  A future has no other result than its own.                   *)

FutureData(m) ==
    /\ m = [state |-> m.state, got |-> m.got]
    /\ m.state = [f \in Threads |-> m.state[f]] /\ m.got = [f \in Threads |-> m.got[f]]
FuturesAt(p, m, fs, result, gotten) ==
    /\ p = [t \in Threads |-> p[t]] /\ p[0] # "none"
    /\ \A t \in Threads : t \notin fs /\ t # 0 => p[t] = "none"
    /\ FutureData(m)
    /\ \A f \in fs : m.state[f] \in {"none", result[f]}
    /\ \A f \in gotten : m.got[f] = result[f]
Stepped(t, a, b) == pc[t] = a /\ pc'[t] = b /\ (t # 0 => pc'[0] = pc[0])
Continues(f, a, b) == Spawn(0, a, {f}, b) \/ (Go(0, a, b) /\ UNCHANGED mem)
FuturesOf(fs, gotten) == fs \subseteq Threads /\ 0 \notin fs /\ gotten \subseteq fs

(* None has a result at first. *)
LEMMA FutureStart ==
    ASSUME FutureInit, NEW fs, NEW result, NEW gotten, FuturesOf(fs, gotten), gotten = {}
    PROVE  FuturesAt(pc, mem, fs, result, gotten) /\ pc[0] = "begin"
<1> DEFINE m == [state |-> [f \in Threads |-> "none"], got |-> [f \in Threads |-> "none"]]
<1>1. ThreadInit(m)
  BY DEF FutureInit
<1>2. /\ Placed /\ pc[0] = "begin" /\ mem = m
      /\ \A t \in Threads : t # 0 => pc[t] = "none"
  BY <1>1, PlacedStart
<1>3. FutureData(mem)
  BY <1>2 DEF FutureData
<1>4. \A f \in fs : mem.state[f] = "none"
  BY <1>2 DEF FuturesOf
<1> QED
  BY <1>2, <1>3, <1>4 DEF FuturesAt, Placed

(* A result is set, by its thread or by main, ... *)
LEMMA FutureSet ==
    ASSUME NEW fs, NEW result, NEW gotten, FuturesOf(fs, gotten), FuturesAt(pc, mem, fs, result, gotten),
           NEW t \in Threads, NEW f \in fs, NEW a, NEW b, NEW r, SetResult(t, a, f, r, b), r = result[f], a # "none", b # "none"
    PROVE  FuturesAt(pc', mem', fs, result, gotten) /\ Stepped(t, a, b)
<1>1. Go(t, a, b) /\ mem' = [mem EXCEPT !.state[f] = result[f]]
  BY DEF SetResult, Do
<1>2. Placed /\ f \in Threads /\ 0 \in Threads /\ FutureData(mem)
  BY ThreadsAssumption DEF FuturesAt, FuturesOf, Placed
<1>3. /\ Placed' /\ pc[t] = a /\ pc'[t] = b
      /\ \A s \in Threads : s # t => pc'[s] = pc[s]
  BY <1>1, <1>2, GoIs
<1>4. mem' = [state |-> [mem.state EXCEPT ![f] = result[f]], got |-> mem.got]
  BY <1>1, <1>2 DEF FutureData
<1>5. /\ FutureData(mem') /\ mem'.got = mem.got /\ mem'.state[f] = result[f]
      /\ \A g \in Threads : g # f => mem'.state[g] = mem.state[g]
  BY <1>2, <1>4 DEF FutureData
<1>6. \A g \in fs : mem'.state[g] \in {"none", result[g]}
  BY <1>5 DEF FuturesAt, FuturesOf
<1>7. \A s \in Threads : s \notin fs /\ s # 0 => pc'[s] = "none"
  BY <1>3 DEF FuturesAt
<1>8. pc' = [s \in Threads |-> pc'[s]] /\ pc'[0] # "none"
  BY <1>2, <1>3 DEF FuturesAt, Placed
<1>9. \A g \in gotten : mem'.got[g] = result[g]
  BY <1>5 DEF FuturesAt
<1> QED
  BY <1>2, <1>3, <1>5, <1>6, <1>7, <1>8, <1>9 DEF FuturesAt, Stepped

(* ... by a thread at its end, ... *)
LEMMA FutureWorker ==
    ASSUME NEW fs, NEW result, NEW gotten, FuturesOf(fs, gotten), FuturesAt(pc, mem, fs, result, gotten),
           NEW t \in Threads, t # 0, SetResult(t, "begin", t, result[t], "end")
    PROVE  FuturesAt(pc', mem', fs, result, gotten) /\ pc'[0] = pc[0]
<1>1. pc[t] = "begin"
  BY DEF SetResult, Do, Go
<1>2. t \in fs
  BY <1>1 DEF FuturesAt
<1>3. PICK r : r = result[t]
  OBVIOUS
<1>4. SetResult(t, "begin", t, r, "end") /\ "begin" # "none" /\ "end" # "none"
  BY <1>3
<1>5. FuturesAt(pc', mem', fs, result, gotten) /\ Stepped(t, "begin", "end")
  BY <1>2, <1>3, <1>4, FutureSet
<1> QED
  BY <1>5 DEF Stepped

(* ... and main gets it, ... *)
LEMMA FutureGot ==
    ASSUME NEW fs, NEW result, NEW gotten, FuturesOf(fs, gotten), FuturesAt(pc, mem, fs, result, gotten),
           NEW f \in fs, NEW a, NEW b, FutureGet(0, a, f, b), b # "none"
    PROVE  FuturesAt(pc', mem', fs, result, gotten \union {f}) /\ Stepped(0, a, b)
<1>1. Go(0, a, b) /\ mem' = [mem EXCEPT !.got[f] = mem.state[f]] /\ mem.state[f] # "none"
  BY DEF FutureGet, Do
<1>2. Placed /\ f \in Threads /\ 0 \in Threads /\ FutureData(mem)
  BY ThreadsAssumption DEF FuturesAt, FuturesOf, Placed
<1>3. /\ Placed' /\ pc[0] = a /\ pc'[0] = b
      /\ \A s \in Threads : s # 0 => pc'[s] = pc[s]
  BY <1>1, <1>2, GoIs
<1>4. mem.state[f] = result[f]
  BY <1>1 DEF FuturesAt
<1>5. mem' = [state |-> mem.state, got |-> [mem.got EXCEPT ![f] = result[f]]]
  BY <1>1, <1>2, <1>4 DEF FutureData
<1>6. /\ FutureData(mem') /\ mem'.state = mem.state /\ mem'.got[f] = result[f]
      /\ \A g \in Threads : g # f => mem'.got[g] = mem.got[g]
  BY <1>2, <1>5 DEF FutureData
<1>7. \A g \in gotten \union {f} : mem'.got[g] = result[g]
  BY <1>6 DEF FuturesAt, FuturesOf
<1>8. pc' = [s \in Threads |-> pc'[s]] /\ pc'[0] # "none"
  BY <1>3 DEF Placed
<1> QED
  BY <1>3, <1>6, <1>7, <1>8 DEF FuturesAt, Stepped

(* ... or goes on without one. *)
LEMMA FutureQuiet ==
    ASSUME NEW fs, NEW result, NEW gotten, FuturesOf(fs, gotten), FuturesAt(pc, mem, fs, result, gotten),
           NEW f \in fs, NEW a, NEW b, Continues(f, a, b), b # "none"
    PROVE  FuturesAt(pc', mem', fs, result, gotten) /\ Stepped(0, a, b)
<1>1. Placed /\ 0 \in Threads
  BY ThreadsAssumption DEF FuturesAt, Placed
<1>2. /\ Placed' /\ pc[0] = a /\ pc'[0] = b /\ UNCHANGED mem
      /\ \A s \in Threads : s # 0 => pc'[s] = pc[s] \/ s \in fs
  <2>1. CASE Go(0, a, b) /\ UNCHANGED mem
    BY <1>1, <2>1, GoIs
  <2>2. CASE Spawn(0, a, {f}, b)
    <3>1. 0 \notin {f}
      BY DEF FuturesOf
    <3> QED
      BY <2>2, <3>1, SpawnIs
  <2> QED
    BY <2>1, <2>2 DEF Continues
<1> QED
  BY <1>2 DEF FuturesAt, Placed, Stepped

-----------------------------------------------------------------------------
(* The promises: what main has got at a place of its own.                  *)

PromiseGot(place) ==
    IF place \in {"join1", "exception", "get2"} THEN {1}
    ELSE IF place \in {"join2", "event", "get3"} THEN {1, 2}
    ELSE IF place \in {"join3", "end"} THEN {1, 2, 3} ELSE {}
PromiseInv == FuturesAt(pc, mem, {1, 2, 3}, PromiseResult, PromiseGot(pc[0]))

(* The three are futures. *)
LEMMA PromiseFutures == \A place : FuturesOf({1, 2, 3}, PromiseGot(place))
  BY ThreadsAssumption DEF FuturesOf, PromiseGot

(* What is said of them is true at first, ... *)
LEMMA PromiseStart == FutureInit => PromiseInv
<1>1. PromiseGot("begin") = {}
  BY DEF PromiseGot
<1> QED
  BY <1>1, FutureStart, PromiseFutures DEF PromiseInv

(* ... at a step of main, ... *)
LEMMA PromiseTestStep ==
    ASSUME PromiseInv, NEW f \in {1, 2, 3}, NEW from, NEW get, NEW join, NEW to,
           PromiseTest(f, from, get, join, to), get # "none", join # "none", to # "none",
           PromiseGot(get) = PromiseGot(from), PromiseGot(join) = PromiseGot(get) \union {f},
           PromiseGot(to) = PromiseGot(join)
    PROVE  PromiseInv'
<1>1. \A place : FuturesOf({1, 2, 3}, PromiseGot(place))
  BY PromiseFutures
<1>2. CASE Spawn(0, from, {f}, get)
  <2>1. Continues(f, from, get)
    BY <1>2 DEF Continues, Spawn
  <2>2. FuturesAt(pc', mem', {1, 2, 3}, PromiseResult, PromiseGot(pc[0])) /\ Stepped(0, from, get)
    BY <1>1, <2>1, FutureQuiet DEF PromiseInv
  <2> QED
    BY <2>2 DEF PromiseInv, Stepped
<1>3. CASE FutureGet(0, get, f, join)
  <2>1. /\ FuturesAt(pc', mem', {1, 2, 3}, PromiseResult, PromiseGot(pc[0]) \union {f})
        /\ Stepped(0, get, join)
    BY <1>1, <1>3, FutureGot DEF PromiseInv
  <2> QED
    BY <2>1 DEF PromiseInv, Stepped
<1>4. CASE Join(0, join, {f}, to)
  <2>1. Continues(f, join, to)
    BY <1>4 DEF Continues, Join, When
  <2>2. FuturesAt(pc', mem', {1, 2, 3}, PromiseResult, PromiseGot(pc[0])) /\ Stepped(0, join, to)
    BY <1>1, <2>1, FutureQuiet DEF PromiseInv
  <2> QED
    BY <2>2 DEF PromiseInv, Stepped
<1> QED
  BY <1>2, <1>3, <1>4 DEF PromiseTest

(* ... and at every step. *)
LEMMA PromiseInductive ==
    ASSUME program = "promise", PromiseInv, [Next]_vars
    PROVE  PromiseInv'
<1>1. CASE UNCHANGED <<pc, mem>>
  BY <1>1 DEF PromiseInv
<1>2. ASSUME NEW t \in Threads, SpuriousWake(t) PROVE PromiseInv'
  BY <1>1, <1>2 DEF SpuriousWake
<1>3. ASSUME PromiseMain PROVE PromiseInv'
  <2>1. CASE PromiseTest(1, "begin", "get1", "join1", "exception")
    BY <2>1, PromiseTestStep DEF PromiseGot
  <2>2. CASE PromiseTest(2, "exception", "get2", "join2", "event")
    BY <2>2, PromiseTestStep DEF PromiseGot
  <2>3. CASE PromiseTest(3, "event", "get3", "join3", "end")
    BY <2>3, PromiseTestStep DEF PromiseGot
  <2> QED
    BY <1>3, <2>1, <2>2, <2>3 DEF PromiseMain
<1>4. ASSUME NEW t \in Threads, t # 0, PromiseWorker(t) PROVE PromiseInv'
  <2>1. SetResult(t, "begin", t, PromiseResult[t], "end")
    BY <1>4 DEF PromiseWorker
  <2>2. /\ FuturesOf({1, 2, 3}, PromiseGot(pc[0]))
        /\ FuturesAt(pc, mem, {1, 2, 3}, PromiseResult, PromiseGot(pc[0]))
    BY PromiseFutures DEF PromiseInv
  <2>3. FuturesAt(pc', mem', {1, 2, 3}, PromiseResult, PromiseGot(pc[0])) /\ pc'[0] = pc[0]
    BY <1>4, <2>1, <2>2, FutureWorker
  <2> QED
    BY <2>3 DEF PromiseInv
<1>5. ASSUME NEW t \in Threads, Step(t) PROVE PromiseInv'
  BY <1>3, <1>4, <1>5 DEF Step, Run
<1> QED
  BY <1>1, <1>2, <1>5, ThreadStep DEF threadVars

-----------------------------------------------------------------------------
(* The async calls.                                                        *)

AsyncGot(place) ==
    IF place = "get2" THEN {1} ELSE IF place = "get3" THEN {1, 2}
    ELSE IF place \in {"test2", "get4"} THEN {1, 2, 3}
    ELSE IF place \in {"return", "end"} THEN {1, 2, 3, 4} ELSE {}
AsyncInv == FuturesAt(pc, mem, {1, 2, 3, 4}, AsyncResult, AsyncGot(pc[0]))

(* The four are futures. *)
LEMMA AsyncFutures == \A place : FuturesOf({1, 2, 3, 4}, AsyncGot(place))
  BY ThreadsAssumption DEF FuturesOf, AsyncGot

(* What is said of them is true at first, ... *)
LEMMA AsyncStart == FutureInit => AsyncInv
<1>1. AsyncGot("begin") = {}
  BY DEF AsyncGot
<1> QED
  BY <1>1, FutureStart, AsyncFutures DEF AsyncInv

(* ... when main calls, ... *)
LEMMA AsyncCallStep ==
    ASSUME AsyncInv, NEW f \in {1, 2, 3, 4}, NEW a, NEW b, AsyncCall(f, a, b), b # "none", AsyncGot(b) = AsyncGot(a)
    PROVE  AsyncInv'
<1>1. FuturesOf({1, 2, 3, 4}, AsyncGot(pc[0])) /\ FuturesAt(pc, mem, {1, 2, 3, 4}, AsyncResult, AsyncGot(pc[0]))
  BY AsyncFutures DEF AsyncInv
<1>2. Continues(f, a, b)
  BY DEF AsyncCall, When, Continues, Spawn
<1>3. FuturesAt(pc', mem', {1, 2, 3, 4}, AsyncResult, AsyncGot(pc[0])) /\ Stepped(0, a, b)
  BY <1>1, <1>2, FutureQuiet
<1> QED
  BY <1>3 DEF AsyncInv, Stepped

(* ... when it gets a result, and runs the call itself if it is deferred, ... *)
LEMMA AsyncGetStep ==
    ASSUME AsyncInv, NEW f \in {1, 2, 3, 4}, NEW a, NEW b, AsyncGet(f, a, b), a # "none", b # "none",
           AsyncGot(b) = AsyncGot(a) \union {f}
    PROVE  AsyncInv'
<1>1. FuturesOf({1, 2, 3, 4}, AsyncGot(pc[0])) /\ FuturesAt(pc, mem, {1, 2, 3, 4}, AsyncResult, AsyncGot(pc[0]))
  BY AsyncFutures DEF AsyncInv
<1>2. CASE SetResult(0, a, f, AsyncResult[f], a)
  <2>1. PICK r : r = AsyncResult[f]
    OBVIOUS
  <2>2. SetResult(0, a, f, r, a) /\ 0 \in Threads
    BY <1>2, <2>1, ThreadsAssumption
  <2>3. FuturesAt(pc', mem', {1, 2, 3, 4}, AsyncResult, AsyncGot(pc[0])) /\ Stepped(0, a, a)
    BY <1>1, <2>1, <2>2, FutureSet
  <2> QED
    BY <2>3 DEF AsyncInv, Stepped
<1>3. CASE FutureGet(0, a, f, b)
  <2>1. /\ FuturesAt(pc', mem', {1, 2, 3, 4}, AsyncResult, AsyncGot(pc[0]) \union {f})
        /\ Stepped(0, a, b)
    BY <1>1, <1>3, FutureGot
  <2> QED
    BY <2>1 DEF AsyncInv, Stepped
<1> QED
  BY <1>2, <1>3 DEF AsyncGet

(* ... when the futures are destroyed, and when a thread has run a call. *)
LEMMA AsyncInductive ==
    ASSUME program = "async", AsyncInv, [Next]_vars
    PROVE  AsyncInv'
<1>1. CASE UNCHANGED <<pc, mem>>
  BY <1>1 DEF AsyncInv
<1>2. ASSUME NEW t \in Threads, SpuriousWake(t) PROVE AsyncInv'
  BY <1>1, <1>2 DEF SpuriousWake
<1>3. FuturesOf({1, 2, 3, 4}, AsyncGot(pc[0])) /\ FuturesAt(pc, mem, {1, 2, 3, 4}, AsyncResult, AsyncGot(pc[0]))
  BY AsyncFutures DEF AsyncInv
<1>4. ASSUME AsyncMain PROVE AsyncInv'
  <2>1. CASE AsyncCall(1, "begin", "call2") \/ AsyncCall(2, "call2", "call3") \/ AsyncCall(3, "call3", "get1")
    BY <2>1, AsyncCallStep DEF AsyncGot
  <2>2. CASE AsyncCall(4, "test2", "get4")
    BY <2>2, AsyncCallStep DEF AsyncGot
  <2>3. CASE AsyncGet(1, "get1", "get2")
    BY <2>3, AsyncGetStep DEF AsyncGot
  <2>4. CASE AsyncGet(2, "get2", "get3")
    BY <2>4, AsyncGetStep DEF AsyncGot
  <2>5. CASE AsyncGet(3, "get3", "test2")
    BY <2>5, AsyncGetStep DEF AsyncGot
  <2>6. CASE AsyncGet(4, "get4", "return")
    BY <2>6, AsyncGetStep DEF AsyncGot
  <2>7. ASSUME Go(0, "return", "end"), UNCHANGED mem PROVE AsyncInv'
    <3>1. "end" # "none" /\ AsyncGot("return") = AsyncGot("end") /\ Continues(1, "return", "end")
      BY <2>7 DEF AsyncGot, Continues
    <3>2. FuturesAt(pc', mem', {1, 2, 3, 4}, AsyncResult, AsyncGot(pc[0])) /\ Stepped(0, "return", "end")
      BY <1>3, <3>1, FutureQuiet
    <3> QED
      BY <3>1, <3>2 DEF AsyncInv, Stepped
  <2>8. CASE Join(0, "return", {f \in 1..4 : pc[f] # "none"}, "end")
    BY <2>7, <2>8 DEF Join, When
  <2> QED
    BY <1>4, <2>1, <2>2, <2>3, <2>4, <2>5, <2>6, <2>8 DEF AsyncMain
<1>5. ASSUME NEW t \in Threads, t # 0, AsyncWorker(t) PROVE AsyncInv'
  <2>1. SetResult(t, "begin", t, AsyncResult[t], "end")
    BY <1>5 DEF AsyncWorker
  <2>2. FuturesAt(pc', mem', {1, 2, 3, 4}, AsyncResult, AsyncGot(pc[0])) /\ pc'[0] = pc[0]
    BY <1>3, <1>5, <2>1, FutureWorker
  <2> QED
    BY <2>2 DEF AsyncInv
<1>6. ASSUME NEW t \in Threads, Step(t) PROVE AsyncInv'
  BY <1>4, <1>5, <1>6 DEF Step, Run
<1> QED
  BY <1>1, <1>2, <1>6, ThreadStep DEF threadVars

-----------------------------------------------------------------------------
(* The packaged tasks.                                                     *)

TaskGot(place) ==
    IF place \in {"task_bind", "get2"} THEN {1} ELSE IF place \in {"task_thread", "join", "get3"} THEN {1, 2}
    ELSE IF place \in {"task_exception", "get4"} THEN {1, 2, 3}
    ELSE IF place = "end" THEN {1, 2, 3, 4} ELSE {}
TaskInv == FuturesAt(pc, mem, {1, 2, 3, 4}, TaskResult, TaskGot(pc[0]))

(* The four have futures. *)
LEMMA TaskFutures == \A place : FuturesOf({1, 2, 3, 4}, TaskGot(place))
  BY ThreadsAssumption DEF FuturesOf, TaskGot

(* What is said of them is true at first, ... *)
LEMMA TaskStart == FutureInit => TaskInv
<1>1. TaskGot("begin") = {}
  BY DEF TaskGot
<1> QED
  BY <1>1, FutureStart, TaskFutures DEF TaskInv

(* ... when main runs a task, ... *)
LEMMA TaskSetStep ==
    ASSUME TaskInv, NEW f \in {1, 2, 3, 4}, NEW a, NEW b, a # "none", b # "none",
           NEW r, SetResult(0, a, f, r, b), r = TaskResult[f], TaskGot(b) = TaskGot(a)
    PROVE  TaskInv'
<1>1. FuturesOf({1, 2, 3, 4}, TaskGot(pc[0])) /\ FuturesAt(pc, mem, {1, 2, 3, 4}, TaskResult, TaskGot(pc[0]))
  BY TaskFutures DEF TaskInv
<1>2. FuturesAt(pc', mem', {1, 2, 3, 4}, TaskResult, TaskGot(pc[0])) /\ Stepped(0, a, b)
  BY <1>1, FutureSet, ThreadsAssumption
<1> QED
  BY <1>2 DEF TaskInv, Stepped

(* ... starts and joins a thread, ... *)
LEMMA TaskQuietStep ==
    ASSUME TaskInv, NEW f \in {1, 2, 3, 4}, NEW a, NEW b, b # "none", Continues(f, a, b), TaskGot(b) = TaskGot(a)
    PROVE  TaskInv'
<1>1. FuturesOf({1, 2, 3, 4}, TaskGot(pc[0])) /\ FuturesAt(pc, mem, {1, 2, 3, 4}, TaskResult, TaskGot(pc[0]))
  BY TaskFutures DEF TaskInv
<1>2. FuturesAt(pc', mem', {1, 2, 3, 4}, TaskResult, TaskGot(pc[0])) /\ Stepped(0, a, b)
  BY <1>1, FutureQuiet
<1> QED
  BY <1>2 DEF TaskInv, Stepped

(* ... or gets a result, ... *)
LEMMA TaskGetStep ==
    ASSUME TaskInv, NEW f \in {1, 2, 3, 4}, NEW a, NEW b, b # "none",
           FutureGet(0, a, f, b), TaskGot(b) = TaskGot(a) \union {f}
    PROVE  TaskInv'
<1>1. FuturesOf({1, 2, 3, 4}, TaskGot(pc[0])) /\ FuturesAt(pc, mem, {1, 2, 3, 4}, TaskResult, TaskGot(pc[0]))
  BY TaskFutures DEF TaskInv
<1>2. FuturesAt(pc', mem', {1, 2, 3, 4}, TaskResult, TaskGot(pc[0]) \union {f}) /\ Stepped(0, a, b)
  BY <1>1, FutureGot
<1> QED
  BY <1>2 DEF TaskInv, Stepped

(* ... and when the thread has run its own. *)
LEMMA TaskInductive ==
    ASSUME program = "task", TaskInv, [Next]_vars
    PROVE  TaskInv'
<1>1. CASE UNCHANGED <<pc, mem>>
  BY <1>1 DEF TaskInv
<1>2. ASSUME NEW t \in Threads, SpuriousWake(t) PROVE TaskInv'
  BY <1>1, <1>2 DEF SpuriousWake
<1>3. ASSUME TaskMain PROVE TaskInv'
  <2>1. CASE SetResult(0, "begin", 1, TaskResult[1], "get1")
    <3>1. TaskGot("get1") = TaskGot("begin") /\ "begin" # "none" /\ "get1" # "none"
      BY DEF TaskGot
    <3> QED
      BY <2>1, <3>1, TaskSetStep
  <2>2. CASE FutureGet(0, "get1", 1, "task_bind")
    <3>1. TaskGot("task_bind") = TaskGot("get1") \union {1} /\ "task_bind" # "none"
      BY DEF TaskGot
    <3> QED
      BY <2>2, <3>1, TaskGetStep
  <2>3. CASE SetResult(0, "task_bind", 2, TaskResult[2], "get2")
    <3>1. TaskGot("get2") = TaskGot("task_bind") /\ "task_bind" # "none" /\ "get2" # "none"
      BY DEF TaskGot
    <3> QED
      BY <2>3, <3>1, TaskSetStep
  <2>4. CASE FutureGet(0, "get2", 2, "task_thread")
    <3>1. TaskGot("task_thread") = TaskGot("get2") \union {2} /\ "task_thread" # "none"
      BY DEF TaskGot
    <3> QED
      BY <2>4, <3>1, TaskGetStep
  <2>5. CASE Spawn(0, "task_thread", {3}, "join")
    <3>1. TaskGot("join") = TaskGot("task_thread") /\ "join" # "none"
      BY DEF TaskGot
    <3>2. Continues(3, "task_thread", "join")
      BY <2>5 DEF Continues, Spawn
    <3> QED
      BY <3>1, <3>2, TaskQuietStep
  <2>6. CASE Join(0, "join", {3}, "get3")
    <3>1. TaskGot("get3") = TaskGot("join") /\ "get3" # "none"
      BY DEF TaskGot
    <3>2. Continues(3, "join", "get3")
      BY <2>6 DEF Continues, Join, When
    <3> QED
      BY <3>1, <3>2, TaskQuietStep
  <2>7. CASE FutureGet(0, "get3", 3, "task_exception")
    <3>1. TaskGot("task_exception") = TaskGot("get3") \union {3} /\ "task_exception" # "none"
      BY DEF TaskGot
    <3> QED
      BY <2>7, <3>1, TaskGetStep
  <2>8. CASE SetResult(0, "task_exception", 4, TaskResult[4], "get4")
    <3>1. TaskGot("get4") = TaskGot("task_exception") /\ "task_exception" # "none" /\ "get4" # "none"
      BY DEF TaskGot
    <3> QED
      BY <2>8, <3>1, TaskSetStep
  <2>9. CASE FutureGet(0, "get4", 4, "end")
    <3>1. TaskGot("end") = TaskGot("get4") \union {4} /\ "end" # "none"
      BY DEF TaskGot
    <3> QED
      BY <2>9, <3>1, TaskGetStep
  <2> QED
    BY <1>3, <2>1, <2>2, <2>3, <2>4, <2>5, <2>6, <2>7, <2>8, <2>9 DEF TaskMain
<1>4. ASSUME NEW t \in Threads, t # 0, TaskWorker(t) PROVE TaskInv'
  <2>1. SetResult(t, "begin", t, TaskResult[t], "end")
    BY <1>4 DEF TaskWorker
  <2>2. FuturesOf({1, 2, 3, 4}, TaskGot(pc[0])) /\ FuturesAt(pc, mem, {1, 2, 3, 4}, TaskResult, TaskGot(pc[0]))
    BY TaskFutures DEF TaskInv
  <2>3. FuturesAt(pc', mem', {1, 2, 3, 4}, TaskResult, TaskGot(pc[0])) /\ pc'[0] = pc[0]
    BY <1>4, <2>1, <2>2, FutureWorker
  <2> QED
    BY <2>3 DEF TaskInv
<1>5. ASSUME NEW t \in Threads, Step(t) PROVE TaskInv'
  BY <1>3, <1>4, <1>5 DEF Step, Run
<1> QED
  BY <1>1, <1>2, <1>5, ThreadStep DEF threadVars

(* When all have ended main has got every result. *)
LEMMA FuturesEnd ==
    ASSUME AllEnd
    PROVE  /\ PromiseInv => \A f \in 1..3 : mem.got[f] = PromiseResult[f]
           /\ AsyncInv => \A f \in 1..4 : mem.got[f] = AsyncResult[f]
           /\ TaskInv => \A f \in 1..4 : mem.got[f] = TaskResult[f]
<1>1. pc[0] \in {"none", "end"}
  BY ThreadsAssumption DEF AllEnd
<1>2. 1..3 = {1, 2, 3} /\ 1..4 = {1, 2, 3, 4}
  OBVIOUS
<1>3. ASSUME PromiseInv PROVE \A f \in 1..3 : mem.got[f] = PromiseResult[f]
  <2>1. PromiseGot(pc[0]) = {1, 2, 3}
    BY <1>1, <1>3 DEF PromiseInv, FuturesAt, PromiseGot
  <2> QED
    BY <1>2, <1>3, <2>1 DEF PromiseInv, FuturesAt
<1>4. ASSUME AsyncInv PROVE \A f \in 1..4 : mem.got[f] = AsyncResult[f]
  <2>1. AsyncGot(pc[0]) = {1, 2, 3, 4}
    BY <1>1, <1>4 DEF AsyncInv, FuturesAt, AsyncGot
  <2> QED
    BY <1>2, <1>4, <2>1 DEF AsyncInv, FuturesAt
<1>5. ASSUME TaskInv PROVE \A f \in 1..4 : mem.got[f] = TaskResult[f]
  <2>1. TaskGot(pc[0]) = {1, 2, 3, 4}
    BY <1>1, <1>5 DEF TaskInv, FuturesAt, TaskGot
  <2> QED
    BY <1>2, <1>5, <2>1 DEF TaskInv, FuturesAt
<1> QED
  BY <1>3, <1>4, <1>5

-----------------------------------------------------------------------------
(* threads.cpp: what main has joined is done.                              *)

AllTasks == {<<0, "begin">>, <<0, "self">>} \union {<<t, "begin">> : t \in 1..5}
Joined(main, p, done) ==
    /\ main # "begin" => <<0, "begin">> \in done
    /\ main \in {"join2", "async", "destroy", "return", "end"} => <<0, "self">> \in done
    /\ main \in {"multy2", "self", "join2", "async", "destroy", "return", "end"} => p[1] = "end"
    /\ main \in {"async", "destroy", "return", "end"} => p[2] = "end" /\ p[3] = "end"
    /\ main \in {"return", "end"} => p[4] = "end" /\ p[5] = "end"
ThreadsInv ==
    /\ Placed /\ mem = [done |-> mem.done] /\ mem.done \subseteq AllTasks
    /\ \A t \in Threads : t \notin 0..5 => pc[t] # "begin"
    /\ \A t \in 1..5 : pc[t] = "end" => <<t, "begin">> \in mem.done
    /\ pc[0] # "none" /\ Joined(pc[0], pc, mem.done)

(* At first nothing is. *)
LEMMA ThreadsStart == ThreadsInit => ThreadsInv
<1> SUFFICES ASSUME ThreadsInit PROVE ThreadsInv
  OBVIOUS
<1> DEFINE m == [done |-> {}]
<1>1. ThreadInit(m)
  BY DEF ThreadsInit
<1>2. /\ Placed /\ pc[0] = "begin" /\ mem = m
      /\ \A t \in Threads : t # 0 => pc[t] = "none"
  BY <1>1, PlacedStart
<1>3. Joined(pc[0], pc, mem.done)
  BY <1>2 DEF Joined
<1>4. mem = [done |-> mem.done] /\ mem.done = {}
  BY <1>2
<1>5. \A t \in 1..5 : pc[t] # "end"
  BY <1>2, ThreadsAssumption
<1> QED
  BY <1>2, <1>3, <1>4, <1>5 DEF ThreadsInv

(* A task that is done. *)
LEMMA TaskDone ==
    ASSUME ThreadsInv, NEW t \in Threads, NEW a, NEW b, Task(t, a, b)
    PROVE  /\ Moved(t, a, b) /\ mem' = [done |-> mem'.done]
           /\ mem'.done = mem.done \union {<<t, a>>}
<1>1. Placed /\ mem = [done |-> mem.done]
  BY DEF ThreadsInv
<1>2. Do(t, a, [mem EXCEPT !.done = @ \union {<<t, a>>}], b)
  BY DEF Task
<1>3. Moved(t, a, b) /\ mem' = [mem EXCEPT !.done = @ \union {<<t, a>>}]
  BY <1>1, <1>2, DoIs
<1>4. mem' = [done |-> mem.done \union {<<t, a>>}]
  BY <1>1, <1>3
<1> QED
  BY <1>3, <1>4

(* A thread does its own, ... *)
LEMMA ThreadsWorkerStep ==
    ASSUME ThreadsInv, NEW t \in Threads, t # 0, ThreadsWorker(t)
    PROVE  ThreadsInv'
<1>1. /\ Placed /\ mem.done \subseteq AllTasks
      /\ \A s \in Threads : s \notin 0..5 => pc[s] # "begin"
      /\ \A s \in 1..5 : s \in Threads /\ (pc[s] = "end" => <<s, "begin">> \in mem.done)
      /\ pc[0] # "none" /\ Joined(pc[0], pc, mem.done) /\ 0 \in Threads
  BY ThreadsAssumption DEF ThreadsInv
<1>2. Moved(t, "begin", "end") /\ mem' = [done |-> mem'.done] /\ mem'.done = mem.done \union {<<t, "begin">>}
  BY TaskDone DEF ThreadsWorker
<1>3. /\ Placed' /\ pc[t] = "begin" /\ pc'[t] = "end" /\ pc'[0] = pc[0]
      /\ \A s \in Threads : s # t => pc'[s] = pc[s]
  BY <1>1, <1>2 DEF Moved
<1>4. t \in 1..5
  <2>1. t \in 0..5
    BY <1>1, <1>3
  <2> QED
    BY <2>1
<1>5. mem'.done \subseteq AllTasks
  BY <1>1, <1>2, <1>4 DEF AllTasks
<1>6. \A s \in 1..5 : pc'[s] = "end" => <<s, "begin">> \in mem'.done
  BY <1>1, <1>2, <1>3
<1>7. \A s \in 1..5 : pc[s] = "end" => pc'[s] = "end"
  BY <1>1, <1>3
<1>8. Joined(pc'[0], pc', mem'.done)
  BY <1>1, <1>2, <1>3, <1>7 DEF Joined
<1>9. \A s \in Threads : s \notin 0..5 => pc'[s] # "begin"
  BY <1>1, <1>3
<1> QED
  BY <1>1, <1>2, <1>3, <1>5, <1>6, <1>8, <1>9 DEF ThreadsInv

(* ... and main its own, between which it starts and joins threads. *)
LEMMA ThreadsMainStep ==
    ASSUME ThreadsInv, ThreadsMain
    PROVE  ThreadsInv'
<1>1. /\ Placed /\ mem.done \subseteq AllTasks /\ mem = [done |-> mem.done]
      /\ \A s \in Threads : s \notin 0..5 => pc[s] # "begin"
      /\ \A s \in 1..5 : s \in Threads /\ (pc[s] = "end" => <<s, "begin">> \in mem.done)
      /\ Joined(pc[0], pc, mem.done) /\ 0 \in Threads
  BY ThreadsAssumption DEF ThreadsInv
<1>2. ASSUME NEW a, NEW b, Task(0, a, b), <<a, b>> \in {<<"begin", "multy1">>, <<"self", "join2">>}
      PROVE  ThreadsInv'
  <2>1. Moved(0, a, b) /\ mem' = [done |-> mem'.done] /\ mem'.done = mem.done \union {<<0, a>>}
    BY <1>1, <1>2, TaskDone
  <2>2. /\ Placed' /\ pc[0] = a /\ pc'[0] = b
        /\ \A s \in Threads : s # 0 => pc'[s] = pc[s]
    BY <2>1 DEF Moved
  <2>3. a \in {"begin", "self"} /\ b \in {"multy1", "join2"} /\ (a = "begin" <=> b = "multy1")
    BY <1>2
  <2>4. mem'.done \subseteq AllTasks
    BY <1>1, <2>1, <2>3 DEF AllTasks
  <2>5. \A s \in 1..5 : pc'[s] = pc[s]
    BY <1>1, <2>2
  <2>6. Joined(pc'[0], pc', mem'.done)
    BY <1>1, <2>1, <2>2, <2>3, <2>5 DEF Joined
  <2>7. \A s \in 1..5 : pc'[s] = "end" => <<s, "begin">> \in mem'.done
    BY <1>1, <2>1, <2>5
  <2>8. \A s \in Threads : s \notin 0..5 => pc'[s] # "begin"
    BY <1>1, <2>2
  <2> QED
    BY <2>1, <2>2, <2>3, <2>4, <2>6, <2>7, <2>8 DEF ThreadsInv
<1>3. ASSUME NEW a, NEW b, NEW ts, Spawn(0, a, ts, b), ts \subseteq 1..5, a # b, b # "none",
             \A done, p, q : Joined(a, p, done) /\ (\A s \in 1..5 \ ts : q[s] = p[s]) => Joined(b, q, done)
      PROVE  ThreadsInv'
  <2>1. 0 \notin ts
    BY <1>3
  <2>2. /\ Placed' /\ pc[0] = a /\ pc'[0] = b /\ UNCHANGED mem
        /\ \A s \in Threads : s # 0 => pc'[s] = IF s \in ts THEN "begin" ELSE pc[s]
    BY <1>3, <2>1, SpawnIs
  <2>3. \A s \in 1..5 : pc'[s] = IF s \in ts THEN "begin" ELSE pc[s]
    BY <1>1, <2>2
  <2>4. Joined(pc'[0], pc', mem.done)
    BY <1>1, <1>3, <2>2, <2>3
  <2>5. \A s \in Threads : s \notin 0..5 => pc'[s] # "begin"
    BY <1>1, <1>3, <2>2
  <2>6. \A s \in 1..5 : pc'[s] = "end" => <<s, "begin">> \in mem.done
    BY <1>1, <2>3
  <2> QED
    BY <1>1, <1>3, <2>2, <2>4, <2>5, <2>6 DEF ThreadsInv
<1>4. ASSUME NEW a, NEW b, NEW ts, Join(0, a, ts, b), b # "none",
             \A done : Joined(a, pc, done) /\ (\A s \in ts : pc[s] = "end") => Joined(b, pc, done)
      PROVE  ThreadsInv'
  <2>1. /\ Placed' /\ pc[0] = a /\ pc'[0] = b /\ UNCHANGED mem
        /\ \A s \in Threads : s # 0 => pc'[s] = pc[s]
        /\ \A s \in ts : pc[s] = "end"
    BY <1>1, <1>4, JoinIs
  <2>2. \A s \in 1..5 : pc'[s] = pc[s]
    BY <1>1, <2>1
  <2>3. Joined(b, pc, mem.done)
    BY <1>1, <1>4, <2>1
  <2>4. Joined(pc'[0], pc', mem.done)
    BY <2>1, <2>2, <2>3 DEF Joined
  <2>5. \A s \in Threads : s \notin 0..5 => pc'[s] # "begin"
    BY <1>1, <2>1
  <2>6. \A s \in 1..5 : pc'[s] = "end" => <<s, "begin">> \in mem.done
    BY <1>1, <2>2
  <2> QED
    BY <1>1, <1>4, <2>1, <2>4, <2>5, <2>6 DEF ThreadsInv
<1>5. CASE Spawn(0, "multy1", {1}, "join1") \/ Spawn(0, "multy2", {2, 3}, "self") \/ Spawn(0, "async", {4, 5}, "destroy")
  <2>1. CASE Spawn(0, "multy1", {1}, "join1")
    <3>1. \A done, p, q : Joined("multy1", p, done) /\ (\A s \in 1..5 \ {1} : q[s] = p[s]) => Joined("join1", q, done)
      BY DEF Joined
    <3> QED
      BY <1>3, <2>1, <3>1
  <2>2. CASE Spawn(0, "multy2", {2, 3}, "self")
    <3>1. \A done, p, q : Joined("multy2", p, done) /\ (\A s \in 1..5 \ {2, 3} : q[s] = p[s]) => Joined("self", q, done)
      BY DEF Joined
    <3> QED
      BY <1>3, <2>2, <3>1
  <2>3. CASE Spawn(0, "async", {4, 5}, "destroy")
    <3>1. \A done, p, q : Joined("async", p, done) /\ (\A s \in 1..5 \ {4, 5} : q[s] = p[s]) => Joined("destroy", q, done)
      BY DEF Joined
    <3> QED
      BY <1>3, <2>3, <3>1
  <2> QED
    BY <1>5, <2>1, <2>2, <2>3
<1>6. CASE Join(0, "join1", {1}, "multy2") \/ Join(0, "join2", {2, 3}, "async") \/ Join(0, "destroy", {4, 5}, "return")
  <2>1. CASE Join(0, "join1", {1}, "multy2")
    <3>1. \A done : Joined("join1", pc, done) /\ (\A s \in {1} : pc[s] = "end") => Joined("multy2", pc, done)
      BY DEF Joined
    <3> QED
      BY <1>4, <2>1, <3>1
  <2>2. CASE Join(0, "join2", {2, 3}, "async")
    <3>1. \A done : Joined("join2", pc, done) /\ (\A s \in {2, 3} : pc[s] = "end") => Joined("async", pc, done)
      BY DEF Joined
    <3> QED
      BY <1>4, <2>2, <3>1
  <2>3. CASE Join(0, "destroy", {4, 5}, "return")
    <3>1. \A done : Joined("destroy", pc, done) /\ (\A s \in {4, 5} : pc[s] = "end") => Joined("return", pc, done)
      BY DEF Joined
    <3> QED
      BY <1>4, <2>3, <3>1
  <2> QED
    BY <1>6, <2>1, <2>2, <2>3
<1>7. CASE ExitProcess(0, "return")
  <2>1. /\ Placed' /\ pc[0] = "return" /\ UNCHANGED mem
        /\ \A s \in Threads : pc'[s] = "end"
    BY <1>7, ExitIs
  <2>2. \A s \in 1..5 : pc'[s] = "end"
    BY <1>1, <2>1
  <2>3. pc[1] = "end" /\ pc[2] = "end" /\ pc[3] = "end" /\ pc[4] = "end" /\ pc[5] = "end"
    BY <1>1, <2>1 DEF Joined
  <2>4. \A s \in 1..5 : pc[s] = "end"
    <3>1. \A s \in 1..5 : s \in {1, 2, 3, 4, 5}
      OBVIOUS
    <3> QED
      BY <2>3, <3>1
  <2>5. Joined(pc'[0], pc', mem.done)
    BY <1>1, <2>1, <2>2 DEF Joined
  <2> QED
    BY <1>1, <2>1, <2>4, <2>5 DEF ThreadsInv
<1> QED
  BY <1>2, <1>5, <1>6, <1>7 DEF ThreadsMain

(* What is said of them stays true. *)
LEMMA ThreadsInductive ==
    ASSUME program = "threads", ThreadsInv, [Next]_vars
    PROVE  ThreadsInv'
<1>1. CASE UNCHANGED <<pc, mem>>
  BY <1>1 DEF ThreadsInv, Placed
<1>2. ASSUME NEW t \in Threads, SpuriousWake(t) PROVE ThreadsInv'
  BY <1>1, <1>2 DEF SpuriousWake
<1>3. ASSUME NEW t \in Threads, Step(t) PROVE ThreadsInv'
  BY <1>3, ThreadsMainStep, ThreadsWorkerStep DEF Step, Run
<1> QED
  BY <1>1, <1>2, <1>3, ThreadStep DEF threadVars

(* When all have ended everything is done. *)
LEMMA ThreadsEnd == ASSUME ThreadsInv, AllEnd PROVE mem.done = AllTasks
<1>1. pc[0] = "end" /\ mem.done \subseteq AllTasks
  BY ThreadsAssumption DEF ThreadsInv, AllEnd
<1>2. /\ <<0, "begin">> \in mem.done /\ <<0, "self">> \in mem.done
      /\ pc[1] = "end" /\ pc[2] = "end" /\ pc[3] = "end" /\ pc[4] = "end" /\ pc[5] = "end"
  BY <1>1 DEF ThreadsInv, Joined
<1>3. \A t \in 1..5 : pc[t] = "end"
  <2>1. \A t \in 1..5 : t \in {1, 2, 3, 4, 5}
    OBVIOUS
  <2> QED
    BY <1>2, <2>1
<1>4. \A t \in 1..5 : <<t, "begin">> \in mem.done
  BY <1>3 DEF ThreadsInv
<1> QED
  BY <1>1, <1>2, <1>4 DEF AllTasks

-----------------------------------------------------------------------------
(* The event loop: n events have been taken from those that were sent.     *)

Takers(e) == {h \in DOMAIN Handlers : e \in Handlers[h]}
FirstTaker(e) == {h \in Takers(e) : \A g \in Takers(e) : h <= g}
HandledOf(sent, n) == [k \in 1..n |-> <<sent[k], FirstTaker(sent[k])>>]
LoopData(m) ==
    /\ m = [m_event_queue |-> m.m_event_queue, sent |-> m.sent, m_quit |-> m.m_quit, handled |-> m.handled]
    /\ m.sent \in Seq(STRING) /\ m.m_event_queue \in Seq(STRING) /\ m.m_quit \in BOOLEAN
Rest(q, sent, n) ==
    /\ n \in 0..Len(sent) /\ Len(q) = Len(sent) - n
    /\ \A i \in 1..Len(q) : q[i] = sent[n + i]
QuitAt(sent, n) == n > 0 /\ sent[n] = "quit" /\ \A k \in 1..n - 1 : sent[k] # "quit"
NoQuit(sent, n) == \A k \in 1..n : sent[k] # "quit"
TakenTo(m, n) ==
    /\ Rest(m.m_event_queue, m.sent, n)
    /\ IF m.m_quit THEN QuitAt(m.sent, n) /\ m.handled = HandledOf(m.sent, n - 1)
       ELSE NoQuit(m.sent, n) /\ m.handled = HandledOf(m.sent, n)
LoopInv ==
    /\ Placed /\ pc[0] # "none" /\ LoopData(mem)
    /\ \E n \in Nat : TakenTo(mem, n)
    /\ pc[0] = "end" => mem.m_quit

(* Who takes an event is the first of those that would. *)
LEMMA TakerIsFirst == \A e : Taker(e) = FirstTaker(e)
<1> SUFFICES ASSUME NEW e PROVE Taker(e) = FirstTaker(e)
  OBVIOUS
<1>1. PICK n \in Nat : n = Len(Handlers)
  BY EventsAssumption
<1>2. DOMAIN Handlers = 1..n
  BY <1>1, EventsAssumption
<1>3. ASSUME NEW h \in 1..n, NEW g \in 1..n PROVE g \in 1..h - 1 <=> ~(h <= g)
  OBVIOUS
<1>4. ASSUME NEW h \in 1..n, NEW g \in 1..h - 1 PROVE g \in 1..n
  OBVIOUS
<1> QED
  BY <1>2, <1>3, <1>4 DEF Taker, FirstTaker, Takers

(* At first none is taken. *)
LEMMA LoopStart == LoopInit => LoopInv
<1> SUFFICES ASSUME LoopInit PROVE LoopInv
  OBVIOUS
<1>1. PICK s \in Sent : ThreadInit([m_event_queue |-> s, sent |-> s, m_quit |-> FALSE, handled |-> <<>>])
  BY DEF LoopInit
<1>2. /\ Placed /\ pc[0] = "begin"
      /\ mem = [m_event_queue |-> s, sent |-> s, m_quit |-> FALSE, handled |-> <<>>]
  BY <1>1, PlacedStart
<1>3. s \in Seq(STRING)
  BY EventsAssumption
<1>4. LoopData(mem)
  BY <1>2, <1>3 DEF LoopData
<1>5. Rest(s, s, 0) /\ NoQuit(s, 0)
  BY <1>3 DEF Rest, NoQuit
<1>6. <<>> = HandledOf(s, 0)
  BY DEF HandledOf
<1>7. TakenTo(mem, 0)
  BY <1>2, <1>5, <1>6 DEF TakenTo
<1> QED
  BY <1>2, <1>4, <1>7 DEF LoopInv

(* One event is taken from the queue. *)
LEMMA RestNext ==
    ASSUME NEW q \in Seq(STRING), NEW sent \in Seq(STRING), NEW n \in Nat, Rest(q, sent, n), q # <<>>,
           NEW m, m = n + 1
    PROVE  /\ m \in Nat /\ m \in 1..Len(sent) /\ Rest(Tail(q), sent, m) /\ Head(q) = sent[m]
           /\ Tail(q) \in Seq(STRING)
<1>1. PICK l \in Nat : Len(q) = l /\ l > 0
  BY EmptySeq
<1>2. PICK z \in Nat : Len(sent) = z
  OBVIOUS
<1>3. n \in 0..z /\ l = z - n /\ \A i \in 1..l : q[i] = sent[n + i]
  BY <1>1, <1>2 DEF Rest
<1>4. m \in 0..z /\ l - 1 = z - m /\ m \in 1..z /\ m \in Nat
  BY <1>1, <1>3
<1>5. Tail(q) \in Seq(STRING) /\ Len(Tail(q)) = l - 1 /\ \A i \in 1..l - 1 : Tail(q)[i] = q[i + 1]
  BY <1>1
<1>6. ASSUME NEW i \in 1..l - 1 PROVE Tail(q)[i] = sent[m + i]
  <2>1. i + 1 \in 1..l /\ n + (i + 1) = m + i
    BY <1>1, <1>4
  <2>2. q[i + 1] = sent[n + (i + 1)]
    BY <1>3, <2>1
  <2> QED
    BY <1>5, <2>1, <2>2
<1>7. Head(q) = sent[m]
  <2>1. 1 \in 1..l /\ q[1] = sent[n + 1] /\ Head(q) = q[1]
    BY <1>1, <1>3
  <2> QED
    BY <2>1
<1> QED
  BY <1>2, <1>4, <1>5, <1>6, <1>7 DEF Rest

(* One more is handled. *)
LEMMA HandledNext ==
    ASSUME NEW sent, NEW n \in Nat, NEW m, m = n + 1
    PROVE  Append(HandledOf(sent, n), <<sent[m], FirstTaker(sent[m])>>) = HandledOf(sent, m)
<1> DEFINE E(k) == <<sent[k], FirstTaker(sent[k])>>
           S == {E(k) : k \in Nat}
<1>1. HandledOf(sent, n) = [k \in 1..n |-> E(k)] /\ HandledOf(sent, m) = [k \in 1..m |-> E(k)]
  BY DEF HandledOf
<1>2. \A k \in Nat : E(k) \in S
  OBVIOUS
<1> HIDE DEF E, S
<1> DEFINE h == [k \in 1..n |-> E(k)]
           g == [k \in 1..m |-> E(k)]
<1>3. h \in Seq(S) /\ Len(h) = n
  BY <1>2
<1>4. m \in Nat /\ E(m) \in S
  BY <1>2
<1>5. g \in Seq(S) /\ Len(g) = m
  BY <1>2, <1>4
<1>6. Append(h, E(m)) \in Seq(S) /\ Len(Append(h, E(m))) = m
  BY <1>3, <1>4
<1>7. ASSUME NEW k \in 1..m PROVE Append(h, E(m))[k] = g[k]
  <2>1. g[k] = E(k)
    OBVIOUS
  <2>2. CASE k = m
    BY <1>3, <1>4, <2>1, <2>2
  <2>3. CASE k # m
    <3>1. k \in 1..n
      BY <2>3
    <3>2. h[k] = E(k) /\ Append(h, E(m))[k] = h[k]
      BY <1>3, <1>4, <3>1
    <3> QED
      BY <2>1, <3>2
  <2> QED
    BY <2>2, <2>3
<1> HIDE DEF h, g
<1>8. Append(h, E(m)) = g
  BY <1>5, <1>6, <1>7
<1> QED
  BY <1>1, <1>8 DEF E, h, g

(* The loop takes an event and lets it be handled, or quits. *)
LEMMA LoopStep ==
    ASSUME LoopInv, exec
    PROVE  LoopInv'
<1> DEFINE event == Head(mem.m_event_queue)
           rest == Tail(mem.m_event_queue)
<1>1. Placed /\ LoopData(mem) /\ 0 \in Threads
  BY ThreadsAssumption DEF LoopInv
<1>2. PICK n \in Nat : TakenTo(mem, n)
  BY DEF LoopInv
<1>3. PICK k : k = n + 1
  OBVIOUS
<1>4. CASE When(0, "begin", mem.m_quit, "end")
  <2>1. Moved(0, "begin", "end") /\ UNCHANGED mem /\ mem.m_quit
    BY <1>1, <1>4, QuietIs DEF When
  <2> QED
    BY <1>1, <1>2, <2>1 DEF LoopInv, Moved
<1>5. ASSUME ~mem.m_quit, mem.m_event_queue # <<>> PROVE
        /\ k \in Nat /\ k \in 1..Len(mem.sent) /\ Rest(rest, mem.sent, k) /\ event = mem.sent[k]
        /\ rest \in Seq(STRING) /\ NoQuit(mem.sent, n) /\ mem.handled = HandledOf(mem.sent, n)
  <2>1. mem.m_event_queue \in Seq(STRING) /\ mem.sent \in Seq(STRING)
    BY <1>1 DEF LoopData
  <2>2. Rest(mem.m_event_queue, mem.sent, n) /\ NoQuit(mem.sent, n) /\ mem.handled = HandledOf(mem.sent, n)
    BY <1>2, <1>5 DEF TakenTo
  <2>3. PICK q \in Seq(STRING), sent \in Seq(STRING) : q = mem.m_event_queue /\ sent = mem.sent
    BY <2>1
  <2>4. Rest(q, sent, n) /\ q # <<>>
    BY <1>5, <2>2, <2>3
  <2> HIDE DEF event, rest
  <2>5. /\ k \in Nat /\ k \in 1..Len(sent) /\ Rest(Tail(q), sent, k) /\ Head(q) = sent[k]
        /\ Tail(q) \in Seq(STRING)
    BY <1>3, <2>4, RestNext
  <2> QED
    BY <2>2, <2>3, <2>5 DEF event, rest
<1> HIDE DEF event, rest
<1>6. ASSUME ~mem.m_quit, mem.m_event_queue # <<>>, event = "quit",
             Do(0, "begin", [mem EXCEPT !.m_event_queue = rest, !.m_quit = TRUE], "begin")
      PROVE  LoopInv'
  <2>1. Moved(0, "begin", "begin") /\ mem' = [mem EXCEPT !.m_event_queue = rest, !.m_quit = TRUE]
    BY <1>1, <1>6, DoIs
  <2>2. mem' = [m_event_queue |-> rest, sent |-> mem.sent, m_quit |-> TRUE, handled |-> mem.handled]
    BY <1>1, <2>1 DEF LoopData
  <2>3. LoopData(mem')
    BY <1>1, <1>5, <1>6, <2>2 DEF LoopData
  <2>4. k - 1 = n /\ k > 0
    BY <1>3
  <2>5. QuitAt(mem.sent, k)
    BY <1>5, <1>6, <2>4 DEF QuitAt, NoQuit
  <2>6. TakenTo(mem', k)
    BY <1>5, <1>6, <2>2, <2>4, <2>5 DEF TakenTo
  <2>7. Placed' /\ pc'[0] = "begin"
    BY <2>1 DEF Moved
  <2> QED
    BY <1>5, <1>6, <2>3, <2>6, <2>7 DEF LoopInv
<1>7. ASSUME ~mem.m_quit, mem.m_event_queue # <<>>, event # "quit",
             Do(0, "begin", [mem EXCEPT !.m_event_queue = rest,
                                        !.handled = Append(@, <<event, Taker(event)>>)], "begin")
      PROVE  LoopInv'
  <2>1. /\ Moved(0, "begin", "begin")
        /\ mem' = [mem EXCEPT !.m_event_queue = rest, !.handled = Append(@, <<event, Taker(event)>>)]
    BY <1>1, <1>7, DoIs
  <2>2. mem' = [m_event_queue |-> rest, sent |-> mem.sent, m_quit |-> mem.m_quit,
                handled |-> Append(mem.handled, <<event, Taker(event)>>)]
    BY <1>1, <2>1 DEF LoopData
  <2>3. Append(mem.handled, <<event, Taker(event)>>) = HandledOf(mem.sent, k)
    <3>1. Append(HandledOf(mem.sent, n), <<mem.sent[k], FirstTaker(mem.sent[k])>>) = HandledOf(mem.sent, k)
      BY <1>3, HandledNext
    <3>2. Taker(event) = FirstTaker(event) /\ event = mem.sent[k] /\ mem.handled = HandledOf(mem.sent, n)
      BY <1>5, <1>7, TakerIsFirst
    <3> QED
      BY <3>1, <3>2
  <2>4. LoopData(mem')
    BY <1>1, <1>5, <1>7, <2>2 DEF LoopData
  <2>5. NoQuit(mem.sent, k)
    <3>1. \A i \in 1..k : i = k \/ i \in 1..n
      BY <1>3
    <3>2. mem.sent[k] # "quit"
      BY <1>5, <1>7
    <3> QED
      BY <1>5, <1>7, <3>1, <3>2 DEF NoQuit
  <2>6. TakenTo(mem', k)
    BY <1>5, <1>7, <2>2, <2>3, <2>5 DEF TakenTo
  <2>7. Placed' /\ pc'[0] = "begin"
    BY <2>1 DEF Moved
  <2> QED
    BY <1>5, <1>7, <2>4, <2>6, <2>7 DEF LoopInv
<1>8. CASE /\ ~mem.m_quit /\ mem.m_event_queue # <<>>
           /\ Do(0, "begin", IF event = "quit" THEN [mem EXCEPT !.m_event_queue = rest, !.m_quit = TRUE]
                             ELSE [mem EXCEPT !.m_event_queue = rest,
                                              !.handled = Append(@, <<event, Taker(event)>>)], "begin")
  <2>1. CASE event = "quit"
    BY <1>6, <1>8, <2>1
  <2>2. CASE event # "quit"
    BY <1>7, <1>8, <2>2
  <2> QED
    BY <2>1, <2>2
<1> QED
  BY <1>4, <1>8 DEF exec, event, rest

(* What is said of the loop stays true. *)
LEMMA LoopInductive ==
    ASSUME program = "events", LoopInv, [Next]_vars
    PROVE  LoopInv'
<1>1. CASE UNCHANGED <<pc, mem>>
  BY <1>1 DEF LoopInv, Placed
<1>2. ASSUME NEW t \in Threads, SpuriousWake(t) PROVE LoopInv'
  BY <1>1, <1>2 DEF SpuriousWake
<1>3. ASSUME NEW t \in Threads, Step(t) PROVE LoopInv'
  BY <1>3, LoopStep DEF Step, Run
<1> QED
  BY <1>1, <1>2, <1>3, ThreadStep DEF threadVars

(* At its end, all before the quit is handled. *)
LEMMA LoopEnd == ASSUME LoopInv, AllEnd PROVE HandledUntilQuit
<1>1. mem.m_quit /\ mem.sent \in Seq(STRING)
  BY ThreadsAssumption DEF LoopInv, LoopData, AllEnd
<1>2. PICK n \in Nat : TakenTo(mem, n)
  BY DEF LoopInv
<1>3. QuitAt(mem.sent, n) /\ mem.handled = HandledOf(mem.sent, n - 1) /\ n \in 1..Len(mem.sent)
  <2>1. QuitAt(mem.sent, n) /\ mem.handled = HandledOf(mem.sent, n - 1) /\ n \in 0..Len(mem.sent)
    BY <1>1, <1>2 DEF TakenTo, Rest
  <2>2. n > 0
    BY <2>1 DEF QuitAt
  <2> QED
    BY <1>1, <2>1, <2>2
<1>4. n \in DOMAIN mem.sent
  BY <1>1, <1>3
<1>5. mem.handled = [k \in 1..n - 1 |-> <<mem.sent[k], FirstTaker(mem.sent[k])>>]
  BY <1>3 DEF HandledOf
<1> QED
  BY <1>3, <1>4, <1>5 DEF QuitAt, HandledUntilQuit, FirstTaker, Takers

-----------------------------------------------------------------------------
(* Hello world over ZeroMQ: a client that waits has one request, which is  *)
(* in the queue, taken by the server, or replied to.                       *)

Absent(q, c) == \A i \in 1..Len(q) : q[i] # c
Once(q, c) == \E i \in 1..Len(q) : q[i] = c /\ \A j \in 1..Len(q) : j # i => q[j] # c
Taken(place, m, c) == place = "send" /\ m.from = c
ClientAt(place, main, m, c) ==
    \/ place # "recv" /\ m.sent[c] = m.got[c] /\ m.replies[c] = 0 /\ Absent(m.queue, c) /\ ~Taken(main, m, c)
    \/ /\ place = "recv" /\ m.sent[c] = m.got[c] + 1
       /\ \/ m.replies[c] = 0 /\ Once(m.queue, c) /\ ~Taken(main, m, c)
          \/ m.replies[c] = 0 /\ Absent(m.queue, c) /\ Taken(main, m, c)
          \/ m.replies[c] = 1 /\ Absent(m.queue, c) /\ ~Taken(main, m, c)
WorldData(m) ==
    /\ m = [queue |-> m.queue, from |-> m.from, sent |-> m.sent, got |-> m.got, replies |-> m.replies]
    /\ m.queue \in Seq(Peers)
    /\ m.sent \in [Peers -> Nat] /\ m.got \in [Peers -> Nat] /\ m.replies \in [Peers -> Nat]
WorldInv ==
    /\ Placed /\ WorldData(mem)
    /\ pc[0] = "begin" => \A c \in Peers : pc[c] = "none"
    /\ pc[0] = "send" => mem.from \in Peers
    /\ \A c \in Peers : ClientAt(pc[c], pc[0], mem, c)

(* The peers are threads of their own. *)
LEMMA PeersApart == Peers \subseteq Threads /\ 0 \notin Peers /\ 0 \in Threads
  BY ThreadsAssumption DEF Peers

(* A request that is sent is the last of the queue. *)
LEMMA RequestSent ==
    ASSUME NEW q \in Seq(Peers), NEW c \in Peers
    PROVE  /\ Append(q, c) \in Seq(Peers)
           /\ Absent(q, c) => Once(Append(q, c), c)
           /\ \A d : d # c => /\ Absent(q, d) => Absent(Append(q, c), d)
                              /\ Once(q, d) => Once(Append(q, c), d)
<1>1. PICK n \in Nat : n = Len(q)
  OBVIOUS
<1>2. PICK k : k = n + 1
  OBVIOUS
<1> DEFINE r == Append(q, c)
<1>3. r \in Seq(Peers) /\ Len(r) = k /\ r[k] = c /\ \A i \in 1..n : r[i] = q[i]
  BY <1>1, <1>2
<1>4. k \in 1..k /\ (\A i \in 1..k : i = k \/ i \in 1..n) /\ (\A i \in 1..n : i \in 1..k /\ i # k)
  BY <1>2
<1> HIDE DEF r
<1>5. ASSUME Absent(q, c) PROVE Once(r, c)
  BY <1>1, <1>3, <1>4, <1>5 DEF Absent, Once
<1>6. ASSUME NEW d, d # c, Absent(q, d) PROVE Absent(r, d)
  BY <1>1, <1>3, <1>4, <1>6 DEF Absent
<1>7. ASSUME NEW d, d # c, Once(q, d) PROVE Once(r, d)
  <2>1. PICK i \in 1..n : q[i] = d /\ \A j \in 1..n : j # i => q[j] # d
    BY <1>1, <1>7 DEF Once
  <2>2. i \in 1..k /\ r[i] = d /\ \A j \in 1..k : j # i => r[j] # d
    BY <1>3, <1>4, <1>7, <2>1
  <2> QED
    BY <1>3, <2>2 DEF Once
<1> QED
  BY <1>3, <1>5, <1>6, <1>7 DEF r

(* One that is taken is the first. *)
LEMMA RequestTaken ==
    ASSUME NEW q \in Seq(Peers), q # <<>>
    PROVE  /\ Tail(q) \in Seq(Peers) /\ Head(q) \in Peers /\ ~Absent(q, Head(q))
           /\ Once(q, Head(q)) => Absent(Tail(q), Head(q))
           /\ \A d : d # Head(q) => /\ Absent(q, d) => Absent(Tail(q), d)
                                    /\ Once(q, d) => Once(Tail(q), d)
<1>1. PICK n \in Nat : n = Len(q) /\ n > 0
  BY EmptySeq
<1>2. PICK k \in Nat : k = n - 1
  BY <1>1
<1> DEFINE r == Tail(q)
           c == Head(q)
<1>3. r \in Seq(Peers) /\ Len(r) = k /\ c = q[1] /\ c \in Peers /\ \A i \in 1..k : r[i] = q[i + 1]
  BY <1>1, <1>2
<1>4. /\ 1 \in 1..n /\ \A i \in 1..k : i + 1 \in 1..n /\ i + 1 # 1
      /\ \A i \in 1..n : i # 1 => \E j \in 1..k : j + 1 = i
      /\ \A i, j \in 1..k : i # j => i + 1 # j + 1
  <2>1. ASSUME NEW i \in 1..n, i # 1 PROVE \E j \in 1..k : j + 1 = i
    <3>1. i - 1 \in 1..k /\ (i - 1) + 1 = i
      BY <1>2, <2>1
    <3> QED
      BY <3>1
  <2> QED
    BY <1>1, <1>2, <2>1
<1> HIDE DEF r, c
<1>5. ~Absent(q, c)
  BY <1>1, <1>3, <1>4 DEF Absent
<1>6. ASSUME Once(q, c) PROVE Absent(r, c)
  <2>1. PICK i \in 1..n : q[i] = c /\ \A j \in 1..n : j # i => q[j] # c
    BY <1>1, <1>6 DEF Once
  <2>2. i = 1
    BY <1>3, <1>4, <2>1
  <2>3. ASSUME NEW j \in 1..k PROVE r[j] # c
    <3>1. PICK m \in 1..n : m = j + 1 /\ m # 1 /\ r[j] = q[m]
      BY <1>3, <1>4
    <3> QED
      BY <2>1, <2>2, <3>1
  <2> QED
    BY <1>3, <2>3 DEF Absent
<1>7. ASSUME NEW d, d # c, Absent(q, d) PROVE Absent(r, d)
  BY <1>1, <1>3, <1>4, <1>7 DEF Absent
<1>8. ASSUME NEW d, d # c, Once(q, d) PROVE Once(r, d)
  <2>1. PICK i \in 1..n : q[i] = d /\ \A j \in 1..n : j # i => q[j] # d
    BY <1>1, <1>8 DEF Once
  <2>2. PICK h \in 1..k : h + 1 = i
    BY <1>3, <1>4, <1>8, <2>1
  <2>3. r[h] = d
    BY <1>3, <2>1, <2>2
  <2>4. ASSUME NEW j \in 1..k, j # h PROVE r[j] # d
    <3>1. PICK m \in 1..n : m = j + 1 /\ m # i /\ r[j] = q[m]
      BY <1>3, <1>4, <2>2, <2>4
    <3> QED
      BY <2>1, <3>1
  <2> QED
    BY <1>3, <2>3, <2>4 DEF Once
<1> QED
  BY <1>3, <1>5, <1>6, <1>7, <1>8 DEF r, c

(* At first nobody has sent anything. *)
LEMMA WorldStart == HelloWorldInit => WorldInv
<1> SUFFICES ASSUME HelloWorldInit PROVE WorldInv
  OBVIOUS
<1> DEFINE m == [queue |-> <<>>, from |-> 0, sent |-> [c \in Peers |-> 0], got |-> [c \in Peers |-> 0],
                 replies |-> [c \in Peers |-> 0]]
<1>1. ThreadInit(m)
  BY DEF HelloWorldInit
<1>2. /\ Placed /\ pc[0] = "begin" /\ mem = m
      /\ \A t \in Threads : t # 0 => pc[t] = "none"
  BY <1>1, PlacedStart
<1>3. WorldData(mem)
  BY <1>2 DEF WorldData
<1>4. ASSUME NEW c \in Peers PROVE pc[c] = "none" /\ ClientAt(pc[c], pc[0], mem, c)
  <2>1. pc[c] = "none"
    BY <1>2, PeersApart
  <2>2. mem.sent[c] = 0 /\ mem.got[c] = 0 /\ mem.replies[c] = 0 /\ mem.queue = <<>>
    BY <1>2
  <2>3. Absent(mem.queue, c)
    BY <2>2 DEF Absent
  <2> QED
    BY <1>2, <2>1, <2>2, <2>3 DEF ClientAt, Taken
<1> QED
  BY <1>2, <1>3, <1>4 DEF WorldInv

(* The server takes a request and replies to it. *)
LEMMA ServerStep ==
    ASSUME WorldInv, HelloWorldServer
    PROVE  WorldInv'
<1>1. /\ Placed /\ WorldData(mem) /\ 0 \in Threads
      /\ pc[0] = "begin" => \A c \in Peers : pc[c] = "none"
      /\ pc[0] = "send" => mem.from \in Peers
      /\ \A c \in Peers : ClientAt(pc[c], pc[0], mem, c)
  BY PeersApart DEF WorldInv
<1>2. CASE Spawn(0, "begin", Peers, "recv")
  <2>1. /\ Placed' /\ pc[0] = "begin" /\ pc'[0] = "recv" /\ UNCHANGED mem
        /\ \A s \in Threads : s # 0 => pc'[s] = IF s \in Peers THEN "begin" ELSE pc[s]
    BY <1>2, SpawnIs, PeersApart
  <2>2. ASSUME NEW c \in Peers PROVE ClientAt(pc'[c], pc'[0], mem', c)
    <3>1. pc'[c] = "begin" /\ pc[c] = "none" /\ ClientAt(pc[c], pc[0], mem, c)
      BY <1>1, <2>1, PeersApart
    <3> QED
      BY <2>1, <3>1 DEF ClientAt, Taken
  <2> QED
    BY <1>1, <2>1, <2>2 DEF WorldInv
<1>3. ASSUME mem.queue # <<>>, Do(0, "recv", [mem EXCEPT !.from = Head(mem.queue), !.queue = Tail(@)], "send")
      PROVE  WorldInv'
  <2>1. Moved(0, "recv", "send") /\ mem' = [mem EXCEPT !.from = Head(mem.queue), !.queue = Tail(@)]
    BY <1>1, <1>3, DoIs
  <2>2. PICK q \in Seq(Peers) : q = mem.queue
    BY <1>1 DEF WorldData
  <2>3. /\ Tail(q) \in Seq(Peers) /\ Head(q) \in Peers /\ ~Absent(q, Head(q))
        /\ Once(q, Head(q)) => Absent(Tail(q), Head(q))
        /\ \A d : d # Head(q) => /\ Absent(q, d) => Absent(Tail(q), d)
                                 /\ Once(q, d) => Once(Tail(q), d)
    BY <1>3, <2>2, RequestTaken
  <2>4. PICK r, h : r = Tail(q) /\ h = Head(q)
    OBVIOUS
  <2>5. mem' = [queue |-> r, from |-> h, sent |-> mem.sent, got |-> mem.got, replies |-> mem.replies]
    BY <1>1, <2>1, <2>2, <2>4 DEF WorldData
  <2>6. mem'.queue = r /\ mem'.from = h /\ mem'.sent = mem.sent /\ mem'.got = mem.got /\ mem'.replies = mem.replies
    BY <2>5
  <2>7. WorldData(mem')
    BY <1>1, <2>3, <2>4, <2>5 DEF WorldData
  <2>8. ASSUME NEW c \in Peers PROVE ClientAt(pc'[c], pc'[0], mem', c)
    <3>1. pc'[c] = pc[c] /\ pc[0] = "recv" /\ pc'[0] = "send" /\ ClientAt(pc[c], pc[0], mem, c)
      BY <1>1, <2>1, PeersApart DEF Moved
    <3>2. CASE c = h
      BY <2>2, <2>3, <2>4, <2>6, <3>1, <3>2 DEF ClientAt, Taken
    <3>3. CASE c # h
      BY <2>2, <2>3, <2>4, <2>6, <3>1, <3>3 DEF ClientAt, Taken
    <3> QED
      BY <3>2, <3>3
  <2>9. Placed' /\ pc'[0] = "send" /\ mem'.from \in Peers
    BY <2>1, <2>3, <2>4, <2>6 DEF Moved
  <2> QED
    BY <2>7, <2>8, <2>9 DEF WorldInv
<1>4. ASSUME Do(0, "send", [mem EXCEPT !.replies[Reply(mem)] = @ + 1], "recv")
      PROVE  WorldInv'
  <2>1. Moved(0, "send", "recv") /\ mem' = [mem EXCEPT !.replies[mem.from] = @ + 1]
    BY <1>1, <1>4, DoIs DEF Reply
  <2>2. PICK h \in Peers : h = mem.from
    BY <1>1, <2>1 DEF Moved
  <2>3. PICK k \in Nat, n \in Nat : k = mem.replies[h] /\ n = k + 1
    BY <1>1 DEF WorldData
  <2>4. /\ mem' = [queue |-> mem.queue, from |-> mem.from, sent |-> mem.sent, got |-> mem.got,
                   replies |-> mem'.replies]
        /\ mem'.replies = [mem.replies EXCEPT ![h] = n]
    BY <1>1, <2>1, <2>2, <2>3 DEF WorldData
  <2>5. mem'.queue = mem.queue /\ mem'.from = mem.from /\ mem'.sent = mem.sent /\ mem'.got = mem.got
    BY <2>4
  <2>6. /\ mem'.replies \in [Peers -> Nat] /\ mem'.replies[h] = n
        /\ \A c \in Peers : c # h => mem'.replies[c] = mem.replies[c]
    BY <1>1, <2>4 DEF WorldData
  <2>7. WorldData(mem')
    BY <1>1, <2>4, <2>5, <2>6 DEF WorldData
  <2>8. ASSUME NEW c \in Peers PROVE ClientAt(pc'[c], pc'[0], mem', c)
    <3>1. pc'[c] = pc[c] /\ pc[0] = "send" /\ pc'[0] = "recv" /\ ClientAt(pc[c], pc[0], mem, c)
      BY <1>1, <2>1, PeersApart DEF Moved
    <3>2. CASE c = h
      <4>1. Taken(pc[0], mem, c)
        BY <2>2, <3>1, <3>2 DEF Taken
      <4>2. pc[c] = "recv" /\ mem.sent[c] = mem.got[c] + 1 /\ mem.replies[c] = 0 /\ Absent(mem.queue, c)
        BY <3>1, <4>1 DEF ClientAt
      <4>3. mem'.replies[c] = 1
        BY <2>3, <2>6, <3>2, <4>2
      <4> QED
        BY <2>5, <3>1, <4>2, <4>3 DEF ClientAt, Taken
    <3>3. CASE c # h
      BY <2>2, <2>5, <2>6, <3>1, <3>3 DEF ClientAt, Taken
    <3> QED
      BY <3>2, <3>3
  <2>9. Placed' /\ pc'[0] = "recv"
    BY <2>1 DEF Moved
  <2> QED
    BY <2>7, <2>8, <2>9 DEF WorldInv
<1> QED
  BY <1>2, <1>3, <1>4 DEF HelloWorldServer

(* A client sends a request, or receives the reply. *)
LEMMA ClientStep ==
    ASSUME WorldInv, NEW t \in Peers, HelloWorldClient(t)
    PROVE  WorldInv'
<1>1. /\ Placed /\ WorldData(mem) /\ t \in Threads /\ t # 0 /\ 0 \in Threads
      /\ pc[0] = "begin" => \A c \in Peers : pc[c] = "none"
      /\ pc[0] = "send" => mem.from \in Peers
      /\ \A c \in Peers : ClientAt(pc[c], pc[0], mem, c)
  BY PeersApart DEF WorldInv
<1>2. ASSUME NEW a, NEW b, Moved(t, a, b), a # "none", WorldData(mem'), mem'.from = mem.from,
             ClientAt(b, pc[0], mem', t),
             \A c \in Peers : c # t => ClientAt(pc[c], pc[0], mem', c)
      PROVE  WorldInv'
  <2>1. /\ Placed' /\ pc[t] = a /\ pc'[t] = b /\ pc'[0] = pc[0]
        /\ \A c \in Peers : c # t => pc'[c] = pc[c]
    BY <1>1, <1>2, PeersApart DEF Moved
  <2>2. pc[0] # "begin"
    BY <1>1, <1>2, <2>1
  <2>3. \A c \in Peers : ClientAt(pc'[c], pc'[0], mem', c)
    BY <1>2, <2>1
  <2> QED
    BY <1>1, <1>2, <2>1, <2>2, <2>3 DEF WorldInv
<1>3. CASE When(t, "begin", mem.got[t] = Requests, "end")
  <2>1. Go(t, "begin", "end") /\ UNCHANGED mem
    BY <1>3 DEF When
  <2>2. Moved(t, "begin", "end")
    BY <1>1, <2>1, GoIs DEF Moved
  <2>3. pc[t] = "begin" /\ ClientAt(pc[t], pc[0], mem, t)
    BY <1>1, <2>2 DEF Moved
  <2>4. ClientAt("end", pc[0], mem, t)
    BY <2>3 DEF ClientAt
  <2>5. mem' = mem
    BY <2>1
  <2> QED
    BY <1>1, <1>2, <2>2, <2>4, <2>5
<1>4. ASSUME Do(t, "begin", [mem EXCEPT !.queue = Append(@, t), !.sent[t] = @ + 1], "recv")
      PROVE  WorldInv'
  <2>1. Moved(t, "begin", "recv") /\ mem' = [mem EXCEPT !.queue = Append(@, t), !.sent[t] = @ + 1]
    BY <1>1, <1>4, DoIs
  <2>2. PICK q \in Seq(Peers) : q = mem.queue
    BY <1>1 DEF WorldData
  <2>3. /\ Append(q, t) \in Seq(Peers)
        /\ Absent(q, t) => Once(Append(q, t), t)
        /\ \A d : d # t => /\ Absent(q, d) => Absent(Append(q, t), d)
                           /\ Once(q, d) => Once(Append(q, t), d)
    BY <2>2, RequestSent
  <2>4. PICK r : r = Append(q, t)
    OBVIOUS
  <2>5. PICK k \in Nat, n \in Nat : k = mem.sent[t] /\ n = k + 1
    BY <1>1 DEF WorldData
  <2>6. /\ mem' = [queue |-> r, from |-> mem.from, sent |-> mem'.sent, got |-> mem.got, replies |-> mem.replies]
        /\ mem'.sent = [mem.sent EXCEPT ![t] = n]
    BY <1>1, <2>1, <2>2, <2>4, <2>5 DEF WorldData
  <2>7. mem'.queue = r /\ mem'.from = mem.from /\ mem'.replies = mem.replies /\ mem'.got = mem.got
    BY <2>6
  <2>8. /\ mem'.sent \in [Peers -> Nat] /\ mem'.sent[t] = n
        /\ \A c \in Peers : c # t => mem'.sent[c] = mem.sent[c]
    BY <1>1, <2>6 DEF WorldData
  <2>9. WorldData(mem')
    BY <1>1, <2>3, <2>4, <2>6, <2>7, <2>8 DEF WorldData
  <2>10. ClientAt("recv", pc[0], mem', t)
    <3>1. ClientAt("begin", pc[0], mem, t)
      BY <1>1, <2>1 DEF Moved
    <3>2. mem.sent[t] = mem.got[t] /\ mem.replies[t] = 0 /\ Absent(mem.queue, t) /\ ~Taken(pc[0], mem, t)
      BY <3>1 DEF ClientAt
    <3>3. Once(mem'.queue, t) /\ mem'.replies[t] = 0 /\ ~Taken(pc[0], mem', t)
      BY <2>2, <2>3, <2>4, <2>7, <3>2 DEF Taken
    <3>4. mem'.sent[t] = mem'.got[t] + 1
      BY <2>5, <2>7, <2>8, <3>2
    <3> QED
      BY <3>3, <3>4 DEF ClientAt
  <2>11. ASSUME NEW c \in Peers, c # t PROVE ClientAt(pc[c], pc[0], mem', c)
    <3>1. ClientAt(pc[c], pc[0], mem, c)
      BY <1>1
    <3> QED
      BY <2>2, <2>3, <2>4, <2>7, <2>8, <2>11, <3>1 DEF ClientAt, Taken
  <2> QED
    BY <1>2, <2>1, <2>7, <2>9, <2>10, <2>11
<1>5. ASSUME mem.replies[t] > 0, Do(t, "recv", [mem EXCEPT !.replies[t] = @ - 1, !.got[t] = @ + 1], "begin")
      PROVE  WorldInv'
  <2>1. Moved(t, "recv", "begin") /\ mem' = [mem EXCEPT !.replies[t] = @ - 1, !.got[t] = @ + 1]
    BY <1>1, <1>5, DoIs
  <2>2. PICK k \in Nat, n \in Nat : k = mem.got[t] /\ n = k + 1
    BY <1>1 DEF WorldData
  <2>3. PICK r \in Nat, p \in Nat : r = mem.replies[t] /\ p = r - 1
    BY <1>1, <1>5 DEF WorldData
  <2>4. /\ mem' = [queue |-> mem.queue, from |-> mem.from, sent |-> mem.sent, got |-> mem'.got,
                   replies |-> mem'.replies]
        /\ mem'.got = [mem.got EXCEPT ![t] = n] /\ mem'.replies = [mem.replies EXCEPT ![t] = p]
    BY <1>1, <2>1, <2>2, <2>3 DEF WorldData
  <2>5. mem'.queue = mem.queue /\ mem'.from = mem.from /\ mem'.sent = mem.sent
    BY <2>4
  <2>6. /\ mem'.got \in [Peers -> Nat] /\ mem'.got[t] = n
        /\ mem'.replies \in [Peers -> Nat] /\ mem'.replies[t] = p
        /\ \A c \in Peers : c # t => mem'.got[c] = mem.got[c] /\ mem'.replies[c] = mem.replies[c]
    BY <1>1, <2>4 DEF WorldData
  <2>7. WorldData(mem')
    BY <1>1, <2>4, <2>5, <2>6 DEF WorldData
  <2>8. ClientAt("begin", pc[0], mem', t)
    <3>1. ClientAt("recv", pc[0], mem, t)
      BY <1>1, <2>1 DEF Moved
    <3>2. mem.replies[t] # 0
      BY <1>5
    <3>3. mem.sent[t] = mem.got[t] + 1 /\ mem.replies[t] = 1 /\ Absent(mem.queue, t) /\ ~Taken(pc[0], mem, t)
      BY <3>1, <3>2 DEF ClientAt
    <3>4. mem'.replies[t] = 0 /\ mem'.sent[t] = mem'.got[t]
      BY <2>2, <2>3, <2>5, <2>6, <3>3
    <3>5. Absent(mem'.queue, t) /\ ~Taken(pc[0], mem', t)
      BY <2>5, <3>3 DEF Taken
    <3> QED
      BY <3>4, <3>5 DEF ClientAt
  <2>9. ASSUME NEW c \in Peers, c # t PROVE ClientAt(pc[c], pc[0], mem', c)
    <3>1. ClientAt(pc[c], pc[0], mem, c)
      BY <1>1
    <3> QED
      BY <2>5, <2>6, <2>9, <3>1 DEF ClientAt, Taken
  <2> QED
    BY <1>2, <2>1, <2>5, <2>7, <2>8, <2>9
<1> QED
  BY <1>3, <1>4, <1>5 DEF HelloWorldClient

(* What is said of the requests stays true. *)
LEMMA WorldInductive ==
    ASSUME program = "hello world", WorldInv, [Next]_vars
    PROVE  WorldInv'
<1>1. CASE UNCHANGED <<pc, mem>>
  BY <1>1 DEF WorldInv, Placed, WorldData, ClientAt, Taken
<1>2. ASSUME NEW t \in Threads, SpuriousWake(t) PROVE WorldInv'
  BY <1>1, <1>2 DEF SpuriousWake
<1>3. ASSUME NEW t \in Threads, Step(t) PROVE WorldInv'
  BY <1>3, ServerStep, ClientStep DEF Step, Run
<1> QED
  BY <1>1, <1>2, <1>3, ThreadStep DEF threadVars

(* No reply is lost, and none comes twice. *)
LEMMA WorldCounts ==
    ASSUME WorldInv, NEW c \in Peers
    PROVE  mem.sent[c] - mem.got[c] - mem.replies[c] \in {0, 1}
<1>1. ClientAt(pc[c], pc[0], mem, c) /\ WorldData(mem)
  BY DEF WorldInv
<1>2. PICK s \in Nat, g \in Nat, r \in Nat : s = mem.sent[c] /\ g = mem.got[c] /\ r = mem.replies[c]
  BY <1>1 DEF WorldData
<1>3. (s = g /\ r = 0) \/ (s = g + 1 /\ r \in {0, 1})
  BY <1>1, <1>2 DEF ClientAt
<1>4. s - g - r \in {0, 1}
  BY <1>3
<1> QED
  BY <1>2, <1>4

-----------------------------------------------------------------------------
(* The cashier of cashier_events.cpp: of the k events posted, n are taken, *)
(* and of the buyers among those, all but the one at the till are served.  *)

Events == {"buyer", "read", "stop"}
EventAt(j) == IF j <= Len(Calls) THEN Calls[j] ELSE "stop"
BuyersOf(k) == {j \in 1..k : EventAt(j) = "buyer"}
Buyers(k) == Cardinality(BuyersOf(k))
Unread(q, n, k) ==
    /\ q \in Seq(Events) /\ Len(q) + n = k
    /\ \A j \in 1..Len(q) : q[j] = EventAt(n + j)
Pending(worker, event) == IF worker \in {"popped", "switch", "buyer"} /\ event = "buyer" THEN 1 ELSE 0
CashData(m) ==
    /\ m = [m_events |-> m.m_events, m_buyers |-> m.m_buyers, m_currentPage |-> m.m_currentPage,
            call |-> m.call, event |-> m.event, served |-> m.served, failed |-> m.failed, early |-> m.early]
    /\ m.m_buyers \in Nat /\ m.served \in Nat
CashAt(m, worker, n, k) ==
    /\ m.call = k + 1 /\ Unread(m.m_events, n, k)
    /\ m.event = IF n = 0 THEN "unset" ELSE EventAt(n)
    /\ m.m_buyers + m.served = Buyers(k)
    /\ m.served + Pending(worker, m.event) = Buyers(n)
    /\ worker = "buyer" => m.event = "buyer"
    /\ m.failed = FALSE
    /\ \A j \in 1..n - 1 : EventAt(j) # "stop"
    /\ worker \in {"none", "begin", "look"} => m.event # "stop"
    /\ worker = "end" => m.early = TRUE \/ m.event = "stop"
CashierInv ==
    /\ OneInv /\ CashData(mem)
    /\ pc[0] # "none" /\ (pc[0] = "begin" => pc[1] = "none") /\ (pc[0] = "end" => pc[1] = "end")
    /\ \E n, k \in Nat : CashAt(mem, pc[1], n, k)

(* What is posted is a call of main, and after them the stop. *)
LEMMA EventType == \A j \in Nat \ {0} : EventAt(j) \in Events
<1>1. \A j \in Nat \ {0} : j <= Len(Calls) => Calls[j] \in Events
  BY CashierAssumption DEF Events
<1> QED
  BY <1>1 DEF EventAt, Events

(* The buyers are counted one by one. *)
LEMMA BuyersNext ==
    ASSUME NEW k \in Nat, NEW m, m = k + 1
    PROVE  /\ Buyers(k) \in Nat /\ Buyers(0) = 0
           /\ Buyers(m) = IF EventAt(m) = "buyer" THEN Buyers(k) + 1 ELSE Buyers(k)
<1>1. \A j \in Nat : IsFiniteSet(BuyersOf(j))
  <2> SUFFICES ASSUME NEW j \in Nat PROVE IsFiniteSet(BuyersOf(j))
    OBVIOUS
  <2>1. IsFiniteSet(1..j) /\ BuyersOf(j) \subseteq 1..j
    BY FS_Interval DEF BuyersOf
  <2> QED
    BY <2>1, FS_Subset
<1>2. Buyers(k) \in Nat
  BY <1>1, FS_CardinalityType DEF Buyers
<1>3. BuyersOf(0) = {}
  BY DEF BuyersOf
<1>4. Buyers(0) = 0
  BY <1>3, FS_EmptySet DEF Buyers
<1>5. m \notin BuyersOf(k) /\ m \in 1..m /\ \A j : j \in 1..m <=> j \in 1..k \/ j = m
  BY DEF BuyersOf
<1>6. CASE EventAt(m) = "buyer"
  <2>1. BuyersOf(m) = BuyersOf(k) \union {m}
    BY <1>5, <1>6 DEF BuyersOf
  <2>2. Cardinality(BuyersOf(m)) = Cardinality(BuyersOf(k)) + 1
    BY <1>1, <1>5, <2>1, FS_AddElement
  <2> QED
    BY <1>2, <1>4, <1>6, <2>2 DEF Buyers
<1>7. CASE EventAt(m) # "buyer"
  <2>1. BuyersOf(m) = BuyersOf(k)
    BY <1>5, <1>7 DEF BuyersOf
  <2> QED
    BY <1>2, <1>4, <1>7, <2>1 DEF Buyers
<1> QED
  BY <1>6, <1>7

(* There are no fewer among more. *)
LEMMA BuyersMore ==
    ASSUME NEW n \in Nat, NEW k \in Nat, n <= k
    PROVE  Buyers(n) <= Buyers(k)
<1>1. IsFiniteSet(1..k) /\ BuyersOf(k) \subseteq 1..k
  BY FS_Interval DEF BuyersOf
<1>2. IsFiniteSet(BuyersOf(k))
  BY <1>1, FS_Subset
<1>3. BuyersOf(n) \subseteq BuyersOf(k)
  BY DEF BuyersOf
<1> QED
  BY <1>2, <1>3, FS_Subset DEF Buyers

(* One more event is posted, ... *)
LEMMA EventPosted ==
    ASSUME NEW q, NEW n \in Nat, NEW k \in Nat, Unread(q, n, k), NEW m, m = k + 1
    PROVE  Unread(Append(q, EventAt(m)), n, m)
<1>1. q \in Seq(Events)
  BY DEF Unread
<1>2. PICK l \in Nat : l = Len(q)
  BY <1>1
<1>3. l + n = k /\ \A j \in 1..l : q[j] = EventAt(n + j)
  BY <1>2 DEF Unread
<1>4. PICK e \in Events : e = EventAt(m)
  BY EventType
<1>5. PICK h \in Nat : h = l + 1
  BY <1>2
<1> DEFINE r == Append(q, e)
<1>6. r \in Seq(Events) /\ Len(r) = h /\ r[h] = e /\ \A j \in 1..l : r[j] = q[j]
  BY <1>1, <1>2, <1>5
<1> HIDE DEF r
<1>7. h + n = m /\ n + h = m /\ \A j \in 1..h : j = h \/ j \in 1..l
  BY <1>3, <1>5
<1>8. ASSUME NEW j \in 1..h PROVE r[j] = EventAt(n + j)
  BY <1>3, <1>4, <1>6, <1>7
<1> QED
  BY <1>4, <1>6, <1>7, <1>8 DEF Unread, r

(* ... or the first one is taken. *)
LEMMA EventTaken ==
    ASSUME NEW q, NEW n \in Nat, NEW k \in Nat, Unread(q, n, k), q # <<>>, NEW m, m = n + 1
    PROVE  Unread(Tail(q), m, k) /\ Head(q) = EventAt(m) /\ m \in Nat
<1>1. q \in Seq(Events)
  BY DEF Unread
<1>2. PICK l \in Nat : l = Len(q) /\ l > 0
  BY <1>1, EmptySeq
<1>3. l + n = k /\ \A j \in 1..l : q[j] = EventAt(n + j)
  BY <1>2 DEF Unread
<1>4. PICK h \in Nat : h = l - 1
  BY <1>2
<1> DEFINE r == Tail(q)
<1>5. r \in Seq(Events) /\ Len(r) = h /\ Head(q) = q[1] /\ \A j \in 1..h : r[j] = q[j + 1]
  BY <1>1, <1>2, <1>4
<1> HIDE DEF r
<1>6. h + m = k /\ 1 \in 1..l /\ n + 1 = m
  BY <1>2, <1>3, <1>4
<1>7. ASSUME NEW j \in 1..h PROVE r[j] = EventAt(m + j)
  <2>1. j + 1 \in 1..l /\ n + (j + 1) = m + j
    BY <1>4
  <2>2. q[j + 1] = EventAt(n + (j + 1))
    BY <1>3, <2>1
  <2> QED
    BY <1>5, <2>1, <2>2
<1>8. Head(q) = EventAt(m)
  <2>1. q[1] = EventAt(n + 1)
    BY <1>3, <1>6
  <2> QED
    BY <1>5, <1>6, <2>1
<1> QED
  BY <1>5, <1>6, <1>7, <1>8 DEF Unread, r

(* At first nothing is posted. *)
LEMMA CashierStart == CashierInit => CashierInv
<1> SUFFICES ASSUME CashierInit PROVE CashierInv
  OBVIOUS
<1> DEFINE m == [m_events |-> <<>>, m_buyers |-> 0, m_currentPage |-> 0, call |-> 1,
                 event |-> "unset", served |-> 0, failed |-> FALSE, early |-> FALSE]
<1>1. ThreadInit(m)
  BY DEF CashierInit
<1> HIDE DEF m
<1>2. OneInv /\ pc[0] = "begin" /\ pc[1] = "none" /\ mem = m
  BY <1>1, OneStart
<1>3. CashData(mem)
  BY <1>2 DEF CashData, m
<1>4. Unread(<<>>, 0, 0)
  BY DEF Unread
<1>5. Buyers(0) = 0
  <2>1. PICK i : i = 0 + 1
    OBVIOUS
  <2> QED
    BY <2>1, BuyersNext
<1>6. CashAt(mem, pc[1], 0, 0)
  BY <1>2, <1>4, <1>5 DEF CashAt, Pending, m
<1> QED
  BY <1>2, <1>3, <1>6 DEF CashierInv

(* A step of the worker that takes no event and serves nobody. *)
LEMMA CashierQuiet ==
    ASSUME CashierInv, NEW a, NEW b, a \notin {"none", "end"},
           OneInv', pc[1] = a, pc'[1] = b, pc'[0] = pc[0], CashData(mem'),
           mem'.call = mem.call, mem'.m_events = mem.m_events, mem'.event = mem.event,
           mem'.m_buyers = mem.m_buyers, mem'.served = mem.served, mem'.failed = mem.failed,
           Pending(b, mem.event) = Pending(a, mem.event),
           b = "buyer" => mem.event = "buyer",
           b \in {"none", "begin", "look"} => a \in {"begin", "look"} \/ mem.event # "stop",
           b = "end" => mem'.early = TRUE \/ mem.event = "stop"
    PROVE  CashierInv'
<1>1. PICK n \in Nat, k \in Nat : CashAt(mem, pc[1], n, k)
  BY DEF CashierInv
<1>2. CashAt(mem', pc'[1], n, k)
  BY <1>1 DEF CashAt
<1> QED
  BY <1>2 DEF CashierInv

(* The cashier takes an event. *)
LEMMA CashierTakes ==
    ASSUME CashierInv, OneInv', pc[1] = "look", pc'[1] = "popped", pc'[0] = pc[0], mem.m_events # <<>>
    PROVE  mem' = [mem EXCEPT !.event = Head(mem.m_events), !.m_events = Tail(@)] => CashierInv'
<1>1. CashData(mem)
  BY DEF CashierInv
<1>2. PICK n \in Nat, k \in Nat : CashAt(mem, "look", n, k)
  BY DEF CashierInv
<1>3. PICK i \in Nat : i = n + 1
  OBVIOUS
<1>4. PICK q : q = mem.m_events
  OBVIOUS
<1>5. Unread(q, n, k) /\ q # <<>>
  BY <1>2, <1>4 DEF CashAt
<1>6. Unread(Tail(q), i, k) /\ Head(q) = EventAt(i)
  BY <1>3, <1>5, EventTaken
<1>7. PICK r, e : r = Tail(q) /\ e = Head(q)
  OBVIOUS
<1>8. ASSUME mem' = [mem EXCEPT !.event = Head(mem.m_events), !.m_events = Tail(@)]
      PROVE  CashierInv'
  <2>1. mem' = [m_events |-> r, m_buyers |-> mem.m_buyers, m_currentPage |-> mem.m_currentPage,
                call |-> mem.call, event |-> e, served |-> mem.served, failed |-> mem.failed,
                early |-> mem.early]
    BY <1>1, <1>4, <1>7, <1>8 DEF CashData
  <2>2. /\ mem'.m_events = r /\ mem'.m_buyers = mem.m_buyers /\ mem'.call = mem.call /\ mem'.event = e
        /\ mem'.served = mem.served /\ mem'.failed = mem.failed
    BY <2>1
  <2>3. CashData(mem')
    BY <1>1, <2>1 DEF CashData
  <2>4. /\ mem.call = k + 1 /\ mem.m_buyers + mem.served = Buyers(k) /\ mem.failed = FALSE
        /\ mem.event = IF n = 0 THEN "unset" ELSE EventAt(n)
        /\ mem.event # "stop" /\ \A j \in 1..n - 1 : EventAt(j) # "stop"
        /\ mem.served + 0 = Buyers(n)
    BY <1>2 DEF CashAt, Pending
  <2>5. ASSUME NEW j \in 1..i - 1 PROVE EventAt(j) # "stop"
    <3>1. (j = n /\ n # 0) \/ j \in 1..n - 1
      BY <1>3, <2>5
    <3> QED
      BY <2>4, <3>1
  <2>6. mem'.served + Pending("popped", e) = Buyers(i)
    <3>1. /\ Buyers(n) \in Nat
          /\ Buyers(i) = IF EventAt(i) = "buyer" THEN Buyers(n) + 1 ELSE Buyers(n)
      BY <1>3, BuyersNext
    <3>2. PICK s \in Nat : s = mem.served
      BY <1>1 DEF CashData
    <3>3. s = Buyers(n)
      BY <2>4, <3>2
    <3>4. CASE e = "buyer"
      <4>1. Buyers(i) = s + 1 /\ Pending("popped", e) = 1
        BY <1>6, <1>7, <3>1, <3>3, <3>4 DEF Pending
      <4> QED
        BY <2>2, <3>2, <4>1
    <3>5. CASE e # "buyer"
      <4>1. Buyers(i) = s /\ Pending("popped", e) = 0 /\ s + 0 = s
        BY <1>6, <1>7, <3>1, <3>3, <3>5 DEF Pending
      <4> QED
        BY <2>2, <3>2, <4>1
    <3> QED
      BY <3>4, <3>5
  <2>7. i # 0
    BY <1>3
  <2>8. CashAt(mem', "popped", i, k)
    BY <1>6, <1>7, <2>2, <2>4, <2>5, <2>6, <2>7 DEF CashAt
  <2> QED
    BY <2>3, <2>8 DEF CashierInv
<1> QED
  BY <1>8

(* It serves a buyer, and there is one. *)
LEMMA CashierServes ==
    ASSUME CashierInv, OneInv', pc[1] = "buyer", pc'[1] = "sell", pc'[0] = pc[0]
    PROVE  mem' = [mem EXCEPT !.failed = @ \/ mem.m_buyers = 0, !.m_buyers = @ - 1, !.served = @ + 1]
              => CashierInv'
<1>1. CashData(mem)
  BY DEF CashierInv
<1>2. PICK n \in Nat, k \in Nat : CashAt(mem, "buyer", n, k)
  BY DEF CashierInv
<1>3. PICK b \in Nat, s \in Nat : b = mem.m_buyers /\ s = mem.served
  BY <1>1 DEF CashData
<1>4. /\ mem.call = k + 1 /\ Unread(mem.m_events, n, k) /\ b + s = Buyers(k) /\ mem.failed = FALSE
      /\ mem.event = IF n = 0 THEN "unset" ELSE EventAt(n)
      /\ mem.event = "buyer" /\ \A j \in 1..n - 1 : EventAt(j) # "stop"
      /\ s + 1 = Buyers(n)
  BY <1>2, <1>3 DEF CashAt, Pending
<1>5. Buyers(n) <= Buyers(k)
  <2>1. PICK l \in Nat : l = Len(mem.m_events) /\ l + n = k
    BY <1>4 DEF Unread
  <2>2. n <= k
    BY <2>1
  <2> QED
    BY <2>2, BuyersMore
<1>6. PICK c \in Nat : c = b - 1
  BY <1>3, <1>4, <1>5
<1>7. b # 0
  BY <1>6
<1>8. PICK t \in Nat : t = s + 1
  OBVIOUS
<1>9. (mem.failed \/ mem.m_buyers = 0) = FALSE
  <2>1. mem.m_buyers # 0
    BY <1>3, <1>7
  <2>2. mem.failed = FALSE
    BY <1>4
  <2> QED
    BY <2>1, <2>2
<1>10. ASSUME mem' = [mem EXCEPT !.failed = @ \/ mem.m_buyers = 0, !.m_buyers = @ - 1, !.served = @ + 1]
       PROVE  CashierInv'
  <2>1. mem' = [mem EXCEPT !.failed = FALSE, !.m_buyers = c, !.served = t]
    BY <1>3, <1>6, <1>8, <1>9, <1>10
  <2>2. mem' = [m_events |-> mem.m_events, m_buyers |-> c, m_currentPage |-> mem.m_currentPage,
                call |-> mem.call, event |-> mem.event, served |-> t, failed |-> FALSE,
                early |-> mem.early]
    BY <1>1, <2>1 DEF CashData
  <2>3. /\ mem'.m_events = mem.m_events /\ mem'.m_buyers = c /\ mem'.call = mem.call /\ mem'.event = mem.event
        /\ mem'.served = t /\ mem'.failed = FALSE
    BY <2>2
  <2>4. CashData(mem')
    BY <2>2 DEF CashData
  <2>5. c + t = Buyers(k) /\ t + 0 = Buyers(n)
    BY <1>4, <1>6, <1>8
  <2>6. CashAt(mem', "sell", n, k)
    BY <1>4, <2>3, <2>5 DEF CashAt, Pending
  <2> QED
    BY <2>4, <2>6 DEF CashierInv
<1> QED
  BY <1>10

(* A step of the worker. *)
LEMMA CashierWorkerStep ==
    ASSUME CashierInv, NEW t \in Threads, t # 0, CashierWorker(t)
    PROVE  CashierInv'
<1>1. OneInv /\ CashData(mem)
  BY DEF CashierInv
<1>2. ASSUME NEW a, NEW b, Go(t, a, b), UNCHANGED mem, a \notin {"none", "end"},
             Pending(b, mem.event) = Pending(a, mem.event),
             b = "buyer" => mem.event = "buyer",
             b \in {"none", "begin", "look"} => a \in {"begin", "look"} \/ mem.event # "stop",
             b = "end" => mem.event = "stop"
      PROVE  CashierInv'
  <2>1. OneInv' /\ pc[1] = a /\ pc'[1] = b /\ pc'[0] = pc[0]
    BY <1>1, <1>2, OneWorker
  <2>2. mem' = mem
    BY <1>2
  <2>3. CashData(mem')
    BY <1>1, <2>2
  <2> QED
    BY <1>2, <2>1, <2>2, <2>3, CashierQuiet
<1>3. CASE Lock(t, "begin", "m_mutex", "look")
  BY <1>2, <1>3 DEF Lock, Pending
<1>4. CASE Unlock(t, "look", "m_mutex", "while")
  BY <1>2, <1>4 DEF Unlock, Pending
<1>5. CASE When(t, "while", mem.event # "stop", "begin")
  BY <1>2, <1>5 DEF When, Pending
<1>6. CASE When(t, "while", mem.event = "stop", "end")
  BY <1>2, <1>6 DEF When, Pending
<1>7. CASE Do(t, "while", [mem EXCEPT !.early = TRUE], "end")
  <2>1. Go(t, "while", "end") /\ mem' = [mem EXCEPT !.early = TRUE]
    BY <1>7 DEF Do
  <2>2. OneInv' /\ pc[1] = "while" /\ pc'[1] = "end" /\ pc'[0] = pc[0]
    BY <1>1, <2>1, OneWorker
  <2>3. /\ mem'.call = mem.call /\ mem'.m_events = mem.m_events /\ mem'.event = mem.event
        /\ mem'.m_buyers = mem.m_buyers /\ mem'.served = mem.served /\ mem'.failed = mem.failed
        /\ mem'.early = TRUE
    BY <1>1, <2>1 DEF CashData
  <2>4. CashData(mem')
    BY <1>1, <2>1 DEF CashData
  <2> QED
    BY <2>2, <2>3, <2>4, CashierQuiet DEF Pending
<1>8. CASE mem.m_events # <<>> /\
           Do(t, "look", [mem EXCEPT !.event = Head(mem.m_events), !.m_events = Tail(@)], "popped")
  <2>1. Go(t, "look", "popped") /\ mem' = [mem EXCEPT !.event = Head(mem.m_events), !.m_events = Tail(@)]
    BY <1>8 DEF Do
  <2>2. OneInv' /\ pc[1] = "look" /\ pc'[1] = "popped" /\ pc'[0] = pc[0]
    BY <1>1, <2>1, OneWorker
  <2>3. mem' = [mem EXCEPT !.event = Head(mem.m_events), !.m_events = Tail(@)] => CashierInv'
    BY <1>8, <2>2, CashierTakes
  <2> QED
    BY <2>1, <2>3
<1>9. CASE Unlock(t, "popped", "m_mutex", "switch")
  BY <1>2, <1>9 DEF Unlock, Pending
<1>10. CASE mem.event = "read" /\
            Do(t, "switch", [mem EXCEPT !.m_currentPage = IF @ < totalPages THEN @ + 1 ELSE @], "while")
  <2>1. /\ Go(t, "switch", "while")
        /\ mem' = [mem EXCEPT !.m_currentPage = IF @ < totalPages THEN @ + 1 ELSE @]
    BY <1>10 DEF Do
  <2>2. OneInv' /\ pc[1] = "switch" /\ pc'[1] = "while" /\ pc'[0] = pc[0]
    BY <1>1, <2>1, OneWorker
  <2>3. PICK p : mem' = [mem EXCEPT !.m_currentPage = p]
    BY <2>1
  <2>4. /\ mem'.call = mem.call /\ mem'.m_events = mem.m_events /\ mem'.event = mem.event
        /\ mem'.m_buyers = mem.m_buyers /\ mem'.served = mem.served /\ mem'.failed = mem.failed
    BY <1>1, <2>3 DEF CashData
  <2>5. CashData(mem')
    BY <1>1, <2>3 DEF CashData
  <2> QED
    BY <1>10, <2>2, <2>4, <2>5, CashierQuiet DEF Pending
<1>11. CASE mem.event = "buyer" /\ Lock(t, "switch", "m_mutex", "buyer")
  BY <1>2, <1>11 DEF Lock, Pending
<1>12. CASE Do(t, "buyer", [mem EXCEPT !.failed = @ \/ mem.m_buyers = 0, !.m_buyers = @ - 1, !.served = @ + 1],
               "sell")
  <2>1. /\ Go(t, "buyer", "sell")
        /\ mem' = [mem EXCEPT !.failed = @ \/ mem.m_buyers = 0, !.m_buyers = @ - 1, !.served = @ + 1]
    BY <1>12 DEF Do
  <2>2. OneInv' /\ pc[1] = "buyer" /\ pc'[1] = "sell" /\ pc'[0] = pc[0]
    BY <1>1, <2>1, OneWorker
  <2>3. mem' = [mem EXCEPT !.failed = @ \/ mem.m_buyers = 0, !.m_buyers = @ - 1, !.served = @ + 1]
           => CashierInv'
    BY <2>2, CashierServes
  <2> QED
    BY <2>1, <2>3
<1>13. CASE Unlock(t, "sell", "m_mutex", "while")
  BY <1>2, <1>13 DEF Unlock, Pending
<1>14. CASE When(t, "switch", mem.event = "stop", "while")
  BY <1>2, <1>14 DEF When, Pending
<1> QED
  BY <1>3, <1>4, <1>5, <1>6, <1>7, <1>8, <1>9, <1>10, <1>11, <1>12, <1>13, <1>14 DEF CashierWorker

(* Main posts an event, and the buyer with it. *)
LEMMA CashierPosts ==
    ASSUME CashierInv, OneInv', pc[0] = "push", pc'[0] = "unlock", pc'[1] = pc[1]
    PROVE  mem' = [mem EXCEPT !.m_events = Append(@, EventAt(mem.call)),
                              !.m_buyers = IF EventAt(mem.call) = "buyer" THEN @ + 1 ELSE @,
                              !.call = @ + 1] => CashierInv'
<1>1. CashData(mem)
  BY DEF CashierInv
<1>2. PICK n \in Nat, k \in Nat : CashAt(mem, pc[1], n, k)
  BY DEF CashierInv
<1>3. PICK i \in Nat, l \in Nat : i = k + 1 /\ l = i + 1
  OBVIOUS
<1>4. mem.call = i /\ Unread(mem.m_events, n, k)
  BY <1>2, <1>3 DEF CashAt
<1>5. Unread(Append(mem.m_events, EventAt(i)), n, i)
  <2>1. PICK q : q = mem.m_events
    OBVIOUS
  <2>2. Unread(q, n, k)
    BY <1>4, <2>1
  <2>3. Unread(Append(q, EventAt(i)), n, i)
    BY <1>3, <2>2, EventPosted
  <2> QED
    BY <2>1, <2>3
<1>6. PICK b \in Nat, s \in Nat : b = mem.m_buyers /\ s = mem.served
  BY <1>1 DEF CashData
<1>7. b + s = Buyers(k)
  BY <1>2, <1>6 DEF CashAt
<1>8. PICK c \in Nat : c = (IF EventAt(i) = "buyer" THEN b + 1 ELSE b) /\ c + s = Buyers(i)
  <2>1. Buyers(i) = IF EventAt(i) = "buyer" THEN Buyers(k) + 1 ELSE Buyers(k)
    BY <1>3, BuyersNext
  <2>2. CASE EventAt(i) = "buyer"
    BY <1>6, <1>7, <2>1, <2>2
  <2>3. CASE EventAt(i) # "buyer"
    BY <1>6, <1>7, <2>1, <2>3
  <2> QED
    BY <2>2, <2>3
<1>9. PICK r : r = Append(mem.m_events, EventAt(i))
  OBVIOUS
<1>10. ASSUME mem' = [mem EXCEPT !.m_events = Append(@, EventAt(mem.call)),
                                 !.m_buyers = IF EventAt(mem.call) = "buyer" THEN @ + 1 ELSE @,
                                 !.call = @ + 1]
       PROVE  CashierInv'
  <2>1. mem' = [mem EXCEPT !.m_events = r, !.m_buyers = c, !.call = l]
    BY <1>3, <1>4, <1>6, <1>8, <1>9, <1>10
  <2>2. mem' = [m_events |-> r, m_buyers |-> c, m_currentPage |-> mem.m_currentPage,
                call |-> l, event |-> mem.event, served |-> mem.served, failed |-> mem.failed,
                early |-> mem.early]
    BY <1>1, <2>1 DEF CashData
  <2>3. /\ mem'.m_events = r /\ mem'.m_buyers = c /\ mem'.call = l /\ mem'.event = mem.event
        /\ mem'.served = mem.served /\ mem'.failed = mem.failed /\ mem'.early = mem.early
    BY <2>2
  <2>4. CashData(mem')
    BY <1>1, <2>2, <2>3 DEF CashData
  <2>5. CashAt(mem', pc[1], n, i)
    BY <1>2, <1>3, <1>5, <1>6, <1>8, <1>9, <2>3 DEF CashAt
  <2>6. CashAt(mem', pc'[1], n, i)
    BY <2>5
  <2> QED
    BY <2>4, <2>6 DEF CashierInv
<1> QED
  BY <1>10

(* A step of main. *)
LEMMA CashierMainStep ==
    ASSUME CashierInv, CashierMain
    PROVE  CashierInv'
<1>1. OneInv /\ CashData(mem) /\ (pc[0] = "begin" => pc[1] = "none")
  BY DEF CashierInv
<1>2. ASSUME NEW a, NEW b, Go(0, a, b), UNCHANGED mem, b \notin {"none", "begin"}, b = "end" => pc[1] = "end"
      PROVE  CashierInv'
  <2>1. OneInv' /\ pc'[0] = b /\ pc'[1] = pc[1]
    BY <1>1, <1>2, OneMain
  <2>2. mem' = mem
    BY <1>2
  <2> QED
    BY <1>2, <2>1, <2>2 DEF CashierInv
<1>3. CASE Spawn(0, "begin", {1}, "call")
  <2>1. OneInv' /\ pc[0] = "begin" /\ pc'[0] = "call" /\ pc'[1] = "begin" /\ UNCHANGED mem
    BY <1>1, <1>3, OneSpawn
  <2>2. PICK n \in Nat, k \in Nat : CashAt(mem, "none", n, k)
    BY <1>1, <2>1 DEF CashierInv
  <2>3. CashAt(mem', "begin", n, k)
    BY <2>1, <2>2 DEF CashAt, Pending
  <2> QED
    BY <1>1, <2>1, <2>3 DEF CashierInv
<1>4. CASE Lock(0, "call", "m_mutex", "push")
  BY <1>2, <1>4 DEF Lock
<1>5. CASE Do(0, "push", [mem EXCEPT !.m_events = Append(@, EventAt(mem.call)),
                                     !.m_buyers = IF EventAt(mem.call) = "buyer" THEN @ + 1 ELSE @,
                                     !.call = @ + 1], "unlock")
  <2>1. /\ Go(0, "push", "unlock")
        /\ mem' = [mem EXCEPT !.m_events = Append(@, EventAt(mem.call)),
                              !.m_buyers = IF EventAt(mem.call) = "buyer" THEN @ + 1 ELSE @,
                              !.call = @ + 1]
    BY <1>5 DEF Do
  <2>2. OneInv' /\ pc[0] = "push" /\ pc'[0] = "unlock" /\ pc'[1] = pc[1]
    BY <1>1, <2>1, OneMain
  <2>3. mem' = [mem EXCEPT !.m_events = Append(@, EventAt(mem.call)),
                           !.m_buyers = IF EventAt(mem.call) = "buyer" THEN @ + 1 ELSE @,
                           !.call = @ + 1] => CashierInv'
    BY <2>2, CashierPosts
  <2> QED
    BY <2>1, <2>3
<1>6. CASE Unlock(0, "unlock", "m_mutex", "more")
  BY <1>2, <1>6 DEF Unlock
<1>7. CASE When(0, "more", mem.call <= Len(Calls) + 1, "call") \/ When(0, "more", mem.call > Len(Calls) + 1, "join")
  BY <1>2, <1>7 DEF When
<1>8. CASE Join(0, "join", {1}, "end")
  BY <1>2, <1>8 DEF Join, When
<1> QED
  BY <1>3, <1>4, <1>5, <1>6, <1>7, <1>8 DEF CashierMain, Post, EventAt

(* What is said of the cashier stays true. *)
LEMMA CashierInductive ==
    ASSUME program = "cashier", CashierInv, [Next]_vars
    PROVE  CashierInv'
<1>1. CASE UNCHANGED <<pc, mem>>
  BY <1>1 DEF CashierInv, OneInv, Placed
<1>2. ASSUME NEW t \in Threads, SpuriousWake(t) PROVE CashierInv'
  BY <1>1, <1>2 DEF SpuriousWake
<1>3. ASSUME NEW t \in Threads, Step(t) PROVE CashierInv'
  BY <1>3, CashierMainStep, CashierWorkerStep DEF Step, Run
<1> QED
  BY <1>1, <1>2, <1>3, ThreadStep DEF threadVars

(* The till is never empty for a buyer, and in the end all are served. *)
LEMMA CashierEnd ==
    ASSUME CashierInv
    PROVE  /\ ~mem.failed
           /\ AllEnd => mem.early \/ mem.served = Cardinality(BuyersBeforeStop)
<1>1. PICK n \in Nat, k \in Nat : CashAt(mem, pc[1], n, k)
  BY DEF CashierInv
<1>2. ~mem.failed
  <2>1. mem.failed = FALSE
    BY <1>1 DEF CashAt
  <2> QED
    BY <2>1
<1>3. ASSUME AllEnd, mem.early # TRUE PROVE mem.served = Cardinality(BuyersBeforeStop)
  <2>1. pc[1] = "end"
    BY <1>3, ThreadsAssumption DEF AllEnd, CashierInv
  <2>2. n # 0 /\ EventAt(n) = "stop" /\ \A j \in 1..n - 1 : EventAt(j) # "stop"
    BY <1>1, <1>3, <2>1 DEF CashAt
  <2>3. mem.served = Buyers(n)
    <3>1. mem.served + 0 = Buyers(n) /\ mem.served \in Nat
      BY <1>1, <2>1 DEF CashAt, Pending, CashierInv, CashData
    <3> QED
      BY <3>1
  <2>4. PICK l \in Nat : l = Len(Calls) /\ DOMAIN Calls = 1..l
    BY CashierAssumption
  <2>5. BuyersOf(n) = BuyersBeforeStop
    <3>1. ASSUME NEW j \in 1..n, EventAt(j) = "buyer" PROVE j \in BuyersBeforeStop
      <4>1. j # n /\ j \in 1..l /\ Calls[j] = "buyer"
        BY <2>2, <2>4, <3>1 DEF EventAt
      <4>2. ASSUME NEW i \in 1..j PROVE Calls[i] # "stop"
        <5>1. i \in 1..n - 1 /\ i <= l
          BY <4>1
        <5> QED
          BY <2>2, <2>4, <5>1 DEF EventAt
      <4> QED
        BY <2>4, <4>1, <4>2 DEF BuyersBeforeStop
    <3>2. ASSUME NEW j \in BuyersBeforeStop PROVE j \in BuyersOf(n)
      <4>1. j \in 1..l /\ Calls[j] = "buyer" /\ \A i \in 1..j : Calls[i] # "stop"
        BY <2>4 DEF BuyersBeforeStop
      <4>2. j \in 1..n
        <5>1. SUFFICES ASSUME j \notin 1..n PROVE FALSE
          OBVIOUS
        <5>2. n \in 1..j /\ n <= l
          BY <2>2, <4>1, <5>1
        <5> QED
          BY <2>2, <2>4, <4>1, <5>2 DEF EventAt
      <4> QED
        BY <2>4, <4>1, <4>2 DEF BuyersOf, EventAt
    <3> QED
      BY <3>1, <3>2 DEF BuyersOf
  <2> QED
    BY <2>3, <2>5 DEF Buyers
<1> QED
  BY <1>2, <1>3

-----------------------------------------------------------------------------
(* What is handed over, whichever program runs.                            *)

HandedInv ==
    /\ program = "guarded" => GuardedInv
    /\ program = "hello" => HelloInv
    /\ program = "employees" => EmployeesInv
    /\ program = "recursive" => RecursiveInv
    /\ program = "simple" => SimpleInv
    /\ program = "real" => RealInv
    /\ program = "promise" => PromiseInv
    /\ program = "async" => AsyncInv
    /\ program = "task" => TaskInv
    /\ program = "cashier" => CashierInv
    /\ program = "reader" => ReaderInv
    /\ program = "events" => LoopInv
    /\ program = "hello world" => WorldInv
    /\ program = "threads" => ThreadsInv

(* Each program begins in its invariant, ... *)
LEMMA HandedInit == Init => HandedInv
<1> SUFFICES ASSUME Init PROVE HandedInv
  OBVIOUS
<1>1. program = "guarded" => GuardedInv
  BY GuardedStart DEF Init
<1>2. program = "hello" => HelloInv
  BY HelloStart DEF Init
<1>3. program = "employees" => EmployeesInv
  BY EmployeesStart DEF Init
<1>4. program = "recursive" => RecursiveInv
  BY RecursiveStart DEF Init
<1>5. program = "simple" => SimpleInv
  BY SimpleStart DEF Init
<1>6. program = "real" => RealInv
  BY RealStart DEF Init
<1>7. program = "promise" => PromiseInv
  BY PromiseStart DEF Init
<1>8. program = "async" => AsyncInv
  BY AsyncStart DEF Init
<1>9. program = "task" => TaskInv
  BY TaskStart DEF Init
<1>10. program = "cashier" => CashierInv
  BY CashierStart DEF Init
<1>11. program = "reader" => ReaderInv
  BY ReaderStart DEF Init
<1>12. program = "events" => LoopInv
  BY LoopStart DEF Init
<1>13. program = "hello world" => WorldInv
  BY WorldStart DEF Init
<1>14. program = "threads" => ThreadsInv
  BY ThreadsStart DEF Init
<1> QED
  BY <1>1, <1>2, <1>3, <1>4, <1>5, <1>6, <1>7, <1>8, <1>9, <1>10, <1>11, <1>12, <1>13, <1>14 DEF HandedInv

(* ... and stays in it. *)
LEMMA HandedStep == ASSUME HandedInv, [Next]_vars PROVE HandedInv'
<1>1. program' = program
  BY ThreadStep
<1>2. (program = "guarded" => GuardedInv)'
  BY <1>1, GuardedInductive DEF HandedInv
<1>3. (program = "hello" => HelloInv)'
  BY <1>1, HelloInductive DEF HandedInv
<1>4. (program = "employees" => EmployeesInv)'
  BY <1>1, EmployeesInductive DEF HandedInv
<1>5. (program = "recursive" => RecursiveInv)'
  BY <1>1, RecursiveInductive DEF HandedInv
<1>6. (program = "simple" => SimpleInv)'
  BY <1>1, SimpleInductive DEF HandedInv
<1>7. (program = "real" => RealInv)'
  BY <1>1, RealInductive DEF HandedInv
<1>8. (program = "promise" => PromiseInv)'
  BY <1>1, PromiseInductive DEF HandedInv
<1>9. (program = "async" => AsyncInv)'
  BY <1>1, AsyncInductive DEF HandedInv
<1>10. (program = "task" => TaskInv)'
  BY <1>1, TaskInductive DEF HandedInv
<1>11. (program = "cashier" => CashierInv)'
  BY <1>1, CashierInductive DEF HandedInv
<1>12. (program = "reader" => ReaderInv)'
  BY <1>1, ReaderInductive DEF HandedInv
<1>13. (program = "events" => LoopInv)'
  BY <1>1, LoopInductive DEF HandedInv
<1>14. (program = "hello world" => WorldInv)'
  BY <1>1, WorldInductive DEF HandedInv
<1>15. (program = "threads" => ThreadsInv)'
  BY <1>1, ThreadsInductive DEF HandedInv
<1> QED
  BY <1>1, <1>2, <1>3, <1>4, <1>5, <1>6, <1>7, <1>8, <1>9, <1>10, <1>11, <1>12, <1>13, <1>14, <1>15
  DEF HandedInv

(* In it, the two that are joined have ended. *)
LEMMA TwoHanded ==
    ASSUME AllEnd
    PROVE  /\ EmployeesInv => mem.mails = 4
           /\ RecursiveInv => mem.back = "func1"
           /\ SimpleInv => mem.data = "after processing"
<1>1. ASSUME EmployeesInv PROVE mem.mails = 4
  <2>1. pc[1] = "end" /\ pc[2] = "end"
    BY <1>1, TwoEnd DEF EmployeesInv
  <2>2. Mailed("end") = 2
    BY DEF Mailed
  <2> QED
    BY <1>1, <2>1, <2>2 DEF EmployeesInv
<1>2. ASSUME RecursiveInv PROVE mem.back = "func1"
  <2>1. pc[2] = "end"
    BY <1>2, TwoEnd DEF RecursiveInv
  <2> QED
    BY <1>2, <2>1 DEF RecursiveInv
<1>3. ASSUME SimpleInv PROVE mem.data = "after processing"
  <2>1. pc[0] \in {"none", "end"} /\ SimpleAt(pc[0], pc[1], mem)
    BY <1>3, ThreadsAssumption DEF AllEnd, SimpleInv
  <2>2. pc[1] = "end"
    BY <2>1 DEF SimpleAt
  <2> QED
    BY <2>1, <2>2 DEF SimpleAt, Processed
<1> QED
  BY <1>1, <1>2, <1>3

(* Whatever one thread hands to another arrives, once, and as it was: in   *)
(* each of the fourteen programs, however its threads interleave, whoever  *)
(* gets a mutex first, and whenever a condition variable wakes somebody.   *)
THEOREM EverythingArrives == Spec => []HandedOver
<1>1. ASSUME HandedInv PROVE HandedOver
  <2>1. program = "guarded" => mem.msgs + mem.popped \in {0, 2, 4}
    BY <1>1 DEF HandedInv, GuardedInv, PushedAt
  <2>2. Ended("hello") => \A t \in 2..4 : mem.lines[t] = IF t = 2 THEN Loops ELSE 1
    BY <1>1, HelloEnd DEF HandedInv, Ended
  <2>3. /\ Ended("employees") => mem.mails = 4
        /\ Ended("recursive") => mem.back = "func1"
        /\ Ended("simple") => mem.data = "after processing"
    BY <1>1, TwoHanded DEF HandedInv, Ended
  <2>4. program = "real" => mem.printed + mem.data = mem.counter
    BY <1>1 DEF HandedInv, RealInv
  <2>5. /\ Ended("promise") => \A f \in 1..3 : mem.got[f] = PromiseResult[f]
        /\ Ended("async") => \A f \in 1..4 : mem.got[f] = AsyncResult[f]
        /\ Ended("task") => \A f \in 1..4 : mem.got[f] = TaskResult[f]
    BY <1>1, FuturesEnd DEF HandedInv, Ended
  <2>6. /\ program = "cashier" => ~mem.failed
        /\ Ended("cashier") => mem.early \/ mem.served = Cardinality(BuyersBeforeStop)
    BY <1>1, CashierEnd DEF HandedInv, Ended
  <2>7. program = "reader" => mem.served + mem.buyers = mem.pushed
    BY <1>1 DEF HandedInv, ReaderInv
  <2>8. Ended("events") => HandledUntilQuit
    BY <1>1, LoopEnd DEF HandedInv, Ended
  <2>9. program = "hello world" => \A c \in Peers : mem.sent[c] - mem.got[c] - mem.replies[c] \in {0, 1}
    BY <1>1, WorldCounts DEF HandedInv
  <2>10. Ended("threads") => mem.done = {<<0, "begin">>, <<0, "self">>} \union {<<t, "begin">> : t \in 1..5}
    BY <1>1, ThreadsEnd DEF HandedInv, Ended, AllTasks
  <2> QED
    BY <2>1, <2>2, <2>3, <2>4, <2>5, <2>6, <2>7, <2>8, <2>9, <2>10 DEF HandedOver
<1> QED
  BY HandedInit, HandedStep, <1>1, PTL DEF Spec
=============================================================================
