----------------------------- MODULE StdThread ------------------------------
(***************************************************************************)
(* Threads, mutexes and condition variables of the standard library, as    *)
(* the demonstrations of webinars 23 to 25 use them.  A module that        *)
(* extends this one gives its threads one step operator each, a            *)
(* disjunction of the actions below: thread t goes from one place of its   *)
(* program to the next, and `mem` holds what the program's threads share.  *)
(*                                                                         *)
(* A thread that was spawned may take its time, so a program that starts   *)
(* several threads in a row spawns them at once.  Thread 0 is main.        *)
(***************************************************************************)
EXTENDS Naturals, Sequences, FiniteSets

CONSTANT Threads
(* Main and the workers; a program that is not given its number of workers *)
(* has five at most.                                                       *)
ASSUME ThreadsAssumption == Threads \subseteq Nat /\ 0..5 \subseteq Threads

VARIABLES
    pc,          \* the place of each thread; "none": not started, "end": returned
    held,        \* <<mutex, thread, level>>: who has locked what; level 0 is shared
    waiting,     \* <<condition variable, thread>>: who is blocked in wait
    mem          \* the program's own data, a record

threadVars == <<pc, held, waiting, mem>>

ThreadInit(m) ==
    /\ pc = [t \in Threads |-> IF t = 0 THEN "begin" ELSE "none"]
    /\ held = {} /\ waiting = {}
    /\ mem = m

AllEnd == \A t \in Threads : pc[t] \in {"none", "end"}

-----------------------------------------------------------------------------
Go(t, from, to) == pc[t] = from /\ pc' = [pc EXCEPT ![t] = to]

(* A step that only tests, ... *)
When(t, from, test, to) == Go(t, from, to) /\ test /\ UNCHANGED <<held, waiting, mem>>

(* ... and one that only computes. *)
Do(t, from, m, to) == Go(t, from, to) /\ mem' = m /\ UNCHANGED <<held, waiting>>

(* std::thread's constructor, and join. *)
Spawn(t, from, ts, to) ==
    /\ pc[t] = from
    /\ pc' = [s \in Threads |-> IF s = t THEN to ELSE IF s \in ts THEN "begin" ELSE pc[s]]
    /\ UNCHANGED <<held, waiting, mem>>

Join(t, from, ts, to) == When(t, from, \A s \in ts : pc[s] = "end", to)

(* The process ends with main, whatever its other threads are doing. *)
ExitProcess(t, from) ==
    /\ pc[t] = from
    /\ pc' = [s \in Threads |-> "end"]
    /\ UNCHANGED <<held, waiting, mem>>

-----------------------------------------------------------------------------
Holders(m) == {h \in held : h[1] = m}
Holds(t, m) == \E h \in held : h[1] = m /\ h[2] = t

(* What held is after t's last lock of m is undone. *)
Released(t, m) ==
    held \ {h \in Holders(m) : h[2] = t /\ \A g \in Holders(m) : g[2] = t => g[3] <= h[3]}

Lock(t, from, m, to) ==
    /\ Go(t, from, to)
    /\ Holders(m) = {}
    /\ held' = held \union {<<m, t, 1>>}
    /\ UNCHANGED <<waiting, mem>>

LockShared(t, from, m, to) ==
    /\ Go(t, from, to)
    /\ \A h \in Holders(m) : h[3] = 0
    /\ held' = held \union {<<m, t, 0>>}
    /\ UNCHANGED <<waiting, mem>>

LockRecursive(t, from, m, to) ==
    /\ Go(t, from, to)
    /\ \A h \in Holders(m) : h[2] = t
    /\ held' = held \union {<<m, t, Cardinality(Holders(m)) + 1>>}
    /\ UNCHANGED <<waiting, mem>>

(* std::lock: both, without deadlock. *)
LockBoth(t, from, m, n, to) ==
    /\ Go(t, from, to)
    /\ Holders(m) = {} /\ Holders(n) = {}
    /\ held' = held \union {<<m, t, 1>>, <<n, t, 1>>}
    /\ UNCHANGED <<waiting, mem>>

Unlock(t, from, m, to) ==
    /\ Go(t, from, to)
    /\ Holds(t, m)
    /\ held' = Released(t, m)
    /\ UNCHANGED <<waiting, mem>>

-----------------------------------------------------------------------------
(* wait gives up the mutex and blocks in one step, ... *)
Block(t, from, cv, m) ==
    /\ pc[t] = from /\ Holds(t, m)
    /\ held' = Released(t, m)
    /\ waiting' = waiting \union {<<cv, t>>}
    /\ UNCHANGED <<pc, mem>>

(* ... and has it again when it returns. *)
Relock(t, from, cv, m, to) ==
    /\ ~Holds(t, m) /\ <<cv, t>> \notin waiting
    /\ Lock(t, from, m, to)

Wait(t, from, cv, m, to) == Block(t, from, cv, m) \/ Relock(t, from, cv, m, to)

(* wait with a predicate, which only a thread that has the mutex changes. *)
WaitUntil(t, from, cv, m, test, to) ==
    \/ Holds(t, m) /\ When(t, from, test, to)
    \/ ~test /\ Block(t, from, cv, m)
    \/ Relock(t, from, cv, m, from)

Waiters(cv) == {w \in waiting : w[1] = cv}

NotifyOne(t, from, cv, to) ==
    /\ Go(t, from, to)
    /\ IF Waiters(cv) = {} THEN UNCHANGED waiting
       ELSE \E w \in Waiters(cv) : waiting' = waiting \ {w}
    /\ UNCHANGED <<held, mem>>

NotifyAll(t, from, cv, to) ==
    /\ Go(t, from, to)
    /\ waiting' = waiting \ Waiters(cv)
    /\ UNCHANGED <<held, mem>>

SpuriousWake(t) ==
    \E w \in waiting : w[2] = t /\ waiting' = waiting \ {w} /\ UNCHANGED <<pc, held, mem>>
=============================================================================
