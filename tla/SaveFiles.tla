------------------------------ MODULE SaveFiles ------------------------------
(***************************************************************************)
(* BlockSaver::save_block and its files.  A file is named by the second    *)
(* and the thread that saves the block; opening it truncates what it held; *)
(* a BlockPrinter of its own fills it.  save_block is the same in          *)
(* 10_Async_Cmd, 10_Async_Cmd_2 and 11_Async_Cmd_network.  The printer of  *)
(* 11_Async_Cmd_network sleeps for a second of its own before it prints:   *)
(* here printing may take any time, or none.  That the queue hands each    *)
(* block to one thread is TaskQueue's.                                     *)
(*                                                                         *)
(* Time goes by in ticks, Second of them to a second.  A sleep takes its   *)
(* time at least.                                                          *)
(***************************************************************************)
EXTENDS Naturals, FiniteSets

CONSTANTS
    Threads,     \* the savers
    Blocks,      \* the blocks to be saved
    NoBlock,
    Second,      \* ticks in a second
    MaxTime      \* bound: ticks

VARIABLES
    now,         \* the clock
    todo,        \* blocks not yet taken
    pc,          \* each thread: "idle", "sleeping", or its file is "open"
    block,       \* the block it saves
    wake,        \* when its sleep is over
    name,        \* the file it has open
    files,       \* what each file holds: a name and a block, or NoBlock
    crashed,     \* an exception left a thread: std::terminate
    closed       \* history: the blocks whose files were closed

vars == <<now, todo, pc, block, wake, name, files, crashed, closed>>

Names == (0..MaxTime) \X Threads

Init ==
    /\ now = 0 /\ todo = Blocks
    /\ pc = [w \in Threads |-> "idle"]
    /\ block = [w \in Threads |-> NoBlock]
    /\ wake = [w \in Threads |-> 0]
    /\ name = [w \in Threads |-> <<0, w>>]
    /\ files = {} /\ crashed = FALSE /\ closed = {}

Tick ==
    /\ now < MaxTime
    /\ now' = now + 1
    /\ UNCHANGED <<todo, pc, block, wake, name, files, crashed, closed>>

Goto(w, from, to) == pc[w] = from /\ pc' = [pc EXCEPT ![w] = to]

(* The thread has a block, and first sleeps for a second. *)
Start(w) ==
    /\ Goto(w, "idle", "sleeping")
    /\ \E b \in todo : block' = [block EXCEPT ![w] = b] /\ todo' = todo \ {b}
    /\ wake' = [wake EXCEPT ![w] = now + Second]
    /\ UNCHANGED <<now, name, files, crashed, closed>>

(* Mutant of FileName: the second alone, as in 08_Cmd. *)
FileNameSecond(w) == <<now \div Second, CHOOSE v \in Threads : TRUE>>

(* system_clock::now, to_time_t and the thread's id. *)
FileName(w) == <<now \div Second, w>>

Named(n) == {f \in files : f[1] = n}

(* The file is opened, and what it held is gone. *)
Open(w) ==
    /\ Goto(w, "sleeping", "open")
    /\ now >= wake[w]
    /\ name' = [name EXCEPT ![w] = FileName(w)]
    /\ files' = (files \ Named(FileName(w))) \union {<<FileName(w), NoBlock>>}
    /\ UNCHANGED <<now, todo, block, wake, crashed, closed>>

OpenFails(w) ==
    /\ pc[w] = "sleeping" /\ now >= wake[w]
    /\ crashed' = TRUE
    /\ UNCHANGED <<now, todo, pc, block, wake, name, files, closed>>

(* The printer of the file is given the block, prints it and is stopped,   *)
(* whenever it has; the file is closed.                                    *)
Close(w) ==
    /\ Goto(w, "open", "idle")
    /\ files' = (files \ Named(name[w])) \union {<<name[w], block[w]>>}
    /\ block' = [block EXCEPT ![w] = NoBlock]
    /\ closed' = closed \union {block[w]}
    /\ UNCHANGED <<now, todo, wake, name, crashed>>

Next ==
    /\ ~crashed
    /\ Tick \/ \E w \in Threads : Start(w) \/ Open(w) \/ OpenFails(w) \/ Close(w)

Spec == Init /\ [][Next]_vars

-----------------------------------------------------------------------------
(* A block that was saved stays saved: its file is never opened again for  *)
(* another block, by the same thread a second later or by another thread   *)
(* in the same second.  (The sleep in save_block is all that keeps the     *)
(* blocks of one thread a second apart.)                                   *)
SavedBlocksStay ==
    \A b \in closed : \E n \in Names : <<n, b>> \in files
=============================================================================
