----------------------------- MODULE BulkParser -----------------------------
(***************************************************************************)
(* The bulk parser of BlockProcessor (11_Async_Cmd_network, and the same   *)
(* code in 10_Async_Cmd_2): RunCmds reads lines, groups commands into      *)
(* static blocks of sz_ commands and dynamic blocks between braces, and    *)
(* notifies its observers of every finished block; Stop flushes the last   *)
(* static block.  One RunCmds call handles one chunk of text; cmds_ and    *)
(* block_level outlive the call, block_start_index does not.               *)
(*                                                                         *)
(* A line is "open", "close" or "cmd" (an empty line changes nothing and   *)
(* is left out).  A command is the number of the line that held it, so no  *)
(* two commands are alike.                                                 *)
(***************************************************************************)
EXTENDS Integers, Sequences

CONSTANTS
    BulkSize,    \* sz_, the length of a static block
    Wrap,        \* the modulus of size_t, the type of block_level
    Unmatched,   \* may the text hold a "}" that closes no block?
    MaxLines     \* bound: lines in the text

ASSUME BulkSizeAssumption == BulkSize \in Nat
ASSUME MaxLinesAssumption == MaxLines \in Nat
ASSUME WrapAssumption == Wrap \in Nat /\ Wrap > MaxLines
ASSUME UnmatchedAssumption == Unmatched \in BOOLEAN

VARIABLES
    cmds_,               \* commands of the block being collected
    block_level,         \* nesting depth, a size_t
    block_start_index,   \* local to RunCmds: where the last "{" of the chunk left cmds_
    crashed,             \* RunCmds threw out of the worker thread: std::terminate
    stopped,             \* Stop has returned
    events,              \* the notifications sent, in order
    \* history, read by the properties only
    lines,               \* the lines read so far
    received,            \* the commands read so far
    out,                 \* the commands of all printed blocks, one after the other
    chunk_start          \* how many lines were read before this chunk

parser == <<cmds_, block_level, block_start_index>>
vars == <<parser, crashed, stopped, events, lines, received, out, chunk_start>>

Kinds == {"open", "close", "cmd"}
EventKinds == {"event_save", "event_print_save"}
Commands == Seq(1..MaxLines)
Event == [event : EventKinds, cmds : Commands, at : 0..MaxLines, chunk : 0..MaxLines]

TypeOK ==
    /\ cmds_ \in Commands
    /\ block_level \in 0..(Wrap - 1)
    /\ block_start_index \in Nat
    /\ crashed \in BOOLEAN
    /\ stopped \in BOOLEAN
    /\ events \in Seq(Event)
    /\ lines \in Seq(Kinds) /\ Len(lines) <= MaxLines
    /\ received \in Commands
    /\ out \in Commands
    /\ chunk_start \in 0..MaxLines

Init ==
    /\ cmds_ = <<>> /\ block_level = 0 /\ block_start_index = 0
    /\ crashed = FALSE /\ stopped = FALSE
    /\ events = <<>> /\ lines = <<>> /\ received = <<>> /\ out = <<>>
    /\ chunk_start = 0

(* notify(event, cmds): the event is stamped with the line that caused it. *)
notify(event, cmds) ==
    /\ events' = Append(events, [event |-> event, cmds |-> cmds,
                                 at |-> Len(lines'), chunk |-> chunk_start])
    /\ out' = IF event = "event_print_save" THEN out \o cmds ELSE out

(* std::getline gives RunCmds one more line. *)
Getline(kind) ==
    /\ ~crashed /\ ~stopped
    /\ Len(lines) < MaxLines
    /\ lines' = Append(lines, kind)
    /\ UNCHANGED <<stopped, chunk_start>>

(* Mutant of OpenBlock: the flushed commands stay in cmds_. *)
OpenBlockNoClear ==
    /\ Getline("open")
    /\ IF cmds_ # <<>> /\ block_level = 0
       THEN notify("event_print_save", cmds_)
       ELSE UNCHANGED <<events, out>>
    /\ block_level' = (block_level + 1) % Wrap
    /\ block_start_index' = Len(cmds_)
    /\ UNCHANGED <<cmds_, crashed, received>>

(* Mutant of OpenBlock: the static block in progress joins the dynamic one. *)
OpenBlockNoFlush ==
    /\ Getline("open")
    /\ block_level' = (block_level + 1) % Wrap
    /\ block_start_index' = Len(cmds_)
    /\ UNCHANGED <<cmds_, events, out, crashed, received>>

(* "{": outside a block the collected static block is finished first. *)
OpenBlock ==
    /\ Getline("open")
    /\ IF cmds_ # <<>> /\ block_level = 0
       THEN notify("event_print_save", cmds_) /\ cmds_' = <<>>
       ELSE UNCHANGED <<cmds_, events, out>>
    /\ block_level' = (block_level + 1) % Wrap
    /\ block_start_index' = Len(cmds_')
    /\ UNCHANGED <<crashed, received>>

(* Mutant of CloseBlock: a signed counter. *)
CloseBlockSigned ==
    /\ Getline("close")
    /\ block_level' = block_level - 1
    /\ UNCHANGED <<block_start_index, received>>

(* "}": --block_level on a size_t wraps below zero. *)
CloseBlock ==
    /\ Getline("close")
    /\ Unmatched \/ block_level > 0
    /\ block_level' = (block_level - 1) % Wrap
    /\ UNCHANGED <<block_start_index, received>>

(* ... the outermost block is finished: print and save it. *)
CloseOuter ==
    /\ CloseBlock
    /\ block_level' = 0
    /\ notify("event_print_save", cmds_)
    /\ cmds_' = <<>>
    /\ UNCHANGED crashed

(* Mutant of Slice: a nested block is saved with all that precedes it. *)
SliceAll == cmds_

Slice == SubSeq(cmds_, block_start_index + 1, Len(cmds_))

(* Mutant of CloseNested: cmds_ is cleared at every "}". *)
CloseNestedClears ==
    /\ CloseBlock
    /\ block_level' # 0
    /\ block_start_index <= Len(cmds_)
    /\ notify("event_save", Slice)
    /\ cmds_' = <<>>
    /\ UNCHANGED crashed

(* ... a nested block: save the commands from block_start_index on. *)
CloseNested ==
    /\ CloseBlock
    /\ block_level' # 0
    /\ block_start_index <= Len(cmds_)
    /\ notify("event_save", Slice)
    /\ UNCHANGED <<cmds_, crashed>>

(* ... and when block_start_index lies past the end of cmds_ the vector of *)
(* the slice has a negative length: its constructor throws in the worker.  *)
CloseOutOfRange ==
    /\ CloseBlock
    /\ block_level' # 0
    /\ block_start_index > Len(cmds_)
    /\ crashed' = TRUE
    /\ UNCHANGED <<cmds_, events, out>>

(* A command: a static block is finished when it holds sz_ commands. *)
Command ==
    /\ Getline("cmd")
    /\ LET cmds == Append(cmds_, Len(lines'))
       IN  IF block_level = 0 /\ Len(cmds) = BulkSize
           THEN notify("event_print_save", cmds) /\ cmds_' = <<>>
           ELSE cmds_' = cmds /\ UNCHANGED <<events, out>>
    /\ received' = Append(received, Len(lines'))
    /\ UNCHANGED <<block_level, block_start_index, crashed>>

(* The next task of the queue: a new RunCmds call, a new local index. *)
NextChunk ==
    /\ ~crashed /\ ~stopped
    /\ chunk_start # Len(lines)
    /\ chunk_start' = Len(lines)
    /\ block_start_index' = 0
    /\ UNCHANGED <<cmds_, block_level, crashed, stopped, events, lines, received, out>>

(* Mutant of FlushOnStop: an open dynamic block is flushed too. *)
FlushOnStopAlways ==
    /\ ~crashed /\ ~stopped
    /\ stopped' = TRUE
    /\ UNCHANGED <<parser, crashed, lines, received, chunk_start>>
    /\ IF cmds_ # <<>>
       THEN notify("event_print_save", cmds_)
       ELSE UNCHANGED <<events, out>>

(* The end of Stop: the worker is joined, an unfinished static block is    *)
(* flushed, an unfinished dynamic block is dropped.                        *)
FlushOnStop ==
    /\ ~crashed /\ ~stopped
    /\ stopped' = TRUE
    /\ UNCHANGED <<parser, crashed, lines, received, chunk_start>>
    /\ IF block_level = 0 /\ cmds_ # <<>>
       THEN notify("event_print_save", cmds_)
       ELSE UNCHANGED <<events, out>>

RunLine == OpenBlock \/ CloseOuter \/ CloseNested \/ CloseOutOfRange \/ Command

Next == RunLine \/ NextChunk \/ FlushOnStop

Spec == Init /\ [][Next]_vars

-----------------------------------------------------------------------------
(* Safety that holds whatever the text is. *)

(* No command is lost, doubled or moved: the printed blocks in order,      *)
(* followed by the block being collected, are the commands in the order    *)
(* they were read (the clear() and push_back calls of RunCmds).            *)
InOrderOnce ==
    ~stopped => out \o cmds_ = received

(* Stop prints the last static block and never part of an open dynamic     *)
(* one: what is missing from the output after Stop is exactly the dynamic  *)
(* block nobody closed.                                                    *)
StopDropsOnlyOpenBlock ==
    stopped => received = IF block_level = 0 THEN out ELSE out \o cmds_

(* Safety of texts whose braces match. *)

(* A static block never outgrows sz_: the == test in RunCmds is enough     *)
(* because a block at level zero is always shorter than sz_.               *)
StaticBlockBounded ==
    ~Unmatched /\ BulkSize > 0 /\ block_level = 0 => Len(cmds_) < BulkSize

(* block_start_index stays inside cmds_ while a nested block can close:    *)
(* std::next(begin, block_start_index) is a valid iterator.                *)
SliceInBounds ==
    ~Unmatched /\ block_level > 1 => block_start_index <= Len(cmds_)
=============================================================================
