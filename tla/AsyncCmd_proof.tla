--------------------------- MODULE AsyncCmd_proof ---------------------------
(***************************************************************************)
(* Proofs about the bulk program, for every text, every way to cut it into *)
(* chunks, every BulkSize, width of size_t and number of savers.           *)
(*                                                                         *)
(* First the parser by itself (BulkParser, MCBulkParser): what RunCmds and *)
(* Stop do with cmds_, block_level and block_start_index, by the invariant *)
(* IInv; then that the blocks they print and save are the blocks of the    *)
(* text: DepthInv ties block_level to the braces, NestInv and              *)
(* NestedSavesInv cmds_ to the innermost block, TextInv and BlockInv to    *)
(* the block being collected.                                              *)
(*                                                                         *)
(* Then the pipeline (AsyncCmd).  It runs the parser (RunsParser), whose   *)
(* invariants hold in it for that reason; what the queues, observers and   *)
(* savers add is PipeInv, and PrinterServes that the printer's thread is   *)
(* a service.                                                              *)
(***************************************************************************)
EXTENDS AsyncCmd, MCBulkParser, SequenceTheorems, FiniteSetTheorems, WellFoundedInduction, TLAPS

(* With matching braces block_level counts the open ones and never wraps. *)
LevelBounded ==
    ~Unmatched => block_level <= Len(lines)

(* With matching braces the worker never dies of an out-of-range slice. *)
NoCrash ==
    ~Unmatched => ~crashed

IInv ==
    /\ TypeOK
    /\ InOrderOnce /\ StopDropsOnlyOpenBlock
    /\ LevelBounded /\ StaticBlockBounded /\ SliceInBounds /\ NoCrash

(* A number below the modulus is its own remainder: the arithmetic of      *)
(* block_level in RunCmds while it does not wrap.                          *)
LEMMA ModSmall ==
    ASSUME NEW m \in Nat, NEW n \in Nat, n < m
    PROVE  n % m = n
OBVIOUS

(* A remainder is below the modulus. *)
LEMMA ModRange ==
    ASSUME NEW m \in Nat, m > 0, NEW n \in Int
    PROVE  n % m \in 0..(m - 1)
OBVIOUS

(* Sequences of commands: concatenation as RunCmds uses it. *)
LEMMA ConcatEmpty ==
    ASSUME NEW s \in Commands
    PROVE  s \o <<>> = s
BY DEF Commands

(* cmds_ when it has been cleared. *)
LEMMA EmptyCommands == <<>> \in Commands /\ Len(<<>>) = 0
BY DEF Commands

(* The size of cmds_ is a natural number. *)
LEMMA LenCommands ==
    ASSUME NEW s \in Commands
    PROVE  Len(s) \in Nat
BY DEF Commands

(* The slice of event_save. *)
LEMMA SliceType ==
    ASSUME NEW s \in Commands, NEW i \in Nat, i <= Len(s)
    PROVE  SubSeq(s, i + 1, Len(s)) \in Commands
<1> DEFINE L == 1..MaxLines
<1>1. s \in Seq(L)
  BY DEF Commands
<1> HIDE DEF L
<1>2. \A j \in (i + 1)..Len(s) : s[j] \in L
  BY <1>1
<1>3. SubSeq(s, i + 1, Len(s)) \in Seq(L)
  BY <1>1, <1>2, SubSeqProperties
<1> QED
  BY <1>3 DEF Commands, L

(* Appending to cmds_ appends to the text it ends. *)
LEMMA ConcatAppend ==
    ASSUME NEW s \in Commands, NEW t \in Commands, NEW c \in 1..MaxLines
    PROVE  /\ Append(t, c) \in Commands /\ Len(Append(t, c)) = Len(t) + 1
           /\ s \o Append(t, c) = Append(s \o t, c)
<1> DEFINE L == 1..MaxLines
<1>1. s \in Seq(L) /\ t \in Seq(L) /\ <<c>> \in Seq(L) /\ c \in L
  BY DEF Commands
<1> HIDE DEF L
<1>2. Append(t, c) \in Seq(L) /\ Len(Append(t, c)) = Len(t) + 1
  BY <1>1, AppendProperties
<1>3. s \o t \in Seq(L)
  BY <1>1, ConcatProperties
<1>4. Append(t, c) = t \o <<c>> /\ Append(s \o t, c) = (s \o t) \o <<c>>
  BY <1>1, <1>3, AppendIsConcat
<1>5. (s \o t) \o <<c>> = s \o (t \o <<c>>)
  BY <1>1, ConcatAssociative
<1> QED
  BY <1>2, <1>4, <1>5 DEF Commands, L

(* A new BlockProcessor has printed and collected nothing. *)
LEMMA InitInv == Init => IInv
<1>1. Init => TypeOK
  <2> SUFFICES ASSUME Init PROVE TypeOK
    OBVIOUS
  <2>1. cmds_ \in Commands /\ received \in Commands /\ out \in Commands
    BY EmptyCommands DEF Init
  <2>2. events \in Seq(Event) /\ lines \in Seq(Kinds) /\ Len(lines) <= MaxLines
    BY MaxLinesAssumption DEF Init
  <2>3. /\ block_level \in 0..(Wrap - 1) /\ block_start_index \in Nat
        /\ chunk_start \in 0..MaxLines
    BY MaxLinesAssumption, WrapAssumption DEF Init
  <2> QED
    BY <2>1, <2>2, <2>3 DEF Init, TypeOK
<1>2. Init => out \o cmds_ = received
  <2>1. <<>> \o <<>> = <<>>
    BY ConcatEmpty, EmptyCommands
  <2> QED
    BY <2>1 DEF Init
<1> QED
  BY <1>1, <1>2, BulkSizeAssumption
  DEF Init, IInv, InOrderOnce, StopDropsOnlyOpenBlock, LevelBounded,
      StaticBlockBounded, SliceInBounds, NoCrash

(* The two kinds of event that notify is called with. *)
LEMMA EventNames == "event_print_save" \in EventKinds /\ "event_save" \in EventKinds
BY DEF EventKinds

(* What notify and Getline do to the types, for every line they handle. *)
LEMMA GetlineType ==
    ASSUME TypeOK, NEW kind \in Kinds, Getline(kind)
    PROVE  /\ lines' \in Seq(Kinds)
           /\ Len(lines') = Len(lines) + 1
           /\ Len(lines') \in Nat /\ Len(lines') >= 1 /\ Len(lines') <= MaxLines
           /\ ~crashed /\ ~stopped /\ stopped' = FALSE /\ chunk_start' = chunk_start
BY MaxLinesAssumption DEF TypeOK, Getline

(* notify adds one event, and prints the block when the event says so. *)
LEMMA NotifyType ==
    ASSUME TypeOK, NEW event \in EventKinds, NEW cmds \in Commands,
           Len(lines') \in Nat, Len(lines') <= MaxLines, notify(event, cmds)
    PROVE  /\ events' \in Seq(Event)
           /\ out' \in Commands
           /\ event = "event_print_save" => out' = out \o cmds
           /\ event # "event_print_save" => out' = out
<1> DEFINE e == [event |-> event, cmds |-> cmds, at |-> Len(lines'), chunk |-> chunk_start]
<1>1. e \in Event
  BY MaxLinesAssumption DEF TypeOK, Event
<1>2. events' = Append(events, e) /\ out' = IF event = "event_print_save" THEN out \o cmds ELSE out
  BY DEF notify
<1> HIDE DEF e
<1>3. events' \in Seq(Event)
  BY <1>1, <1>2 DEF TypeOK
<1>4. out \in Commands /\ out \o cmds \in Commands
  BY DEF TypeOK, Commands
<1> QED
  BY <1>2, <1>3, <1>4

(* OpenBlock, in both its branches. *)
LEMMA OpenBlockInv == IInv /\ OpenBlock => IInv'
<1> SUFFICES ASSUME IInv, OpenBlock PROVE IInv'
  OBVIOUS
<1> USE BulkSizeAssumption, MaxLinesAssumption, WrapAssumption, UnmatchedAssumption
<1>1. Getline("open") /\ TypeOK /\ "open" \in Kinds
  BY DEF OpenBlock, IInv, Kinds
<1>2. /\ lines' \in Seq(Kinds)
      /\ Len(lines') = Len(lines) + 1
      /\ Len(lines') \in Nat /\ Len(lines') >= 1 /\ Len(lines') <= MaxLines
      /\ ~crashed /\ ~stopped /\ stopped' = FALSE /\ chunk_start' = chunk_start
  BY <1>1, GetlineType
<1>3. /\ block_level' \in 0..(Wrap - 1)
      /\ ~Unmatched => block_level' = block_level + 1
  <2>1. block_level' = (block_level + 1) % Wrap
    BY DEF OpenBlock
  <2>2. block_level + 1 \in Int /\ Wrap > 0
    BY <1>1 DEF TypeOK
  <2>3. block_level' \in 0..(Wrap - 1)
    BY <2>1, <2>2, ModRange
  <2>4. ASSUME ~Unmatched PROVE block_level' = block_level + 1
    <3>1. block_level + 1 < Wrap /\ block_level + 1 \in Nat
      BY <2>4, <1>1, <1>2 DEF IInv, LevelBounded, TypeOK
    <3> QED
      BY <3>1, <2>1, ModSmall
  <2> QED
    BY <2>3, <2>4
<1>4. /\ cmds_' \in Commands
      /\ events' \in Seq(Event)
      /\ out' \in Commands
      /\ out' \o cmds_' = out \o cmds_
  <2>1. CASE cmds_ # <<>> /\ block_level = 0
    <3>1. notify("event_print_save", cmds_) /\ cmds_' = <<>>
      BY <2>1 DEF OpenBlock
    <3>2. cmds_ \in Commands /\ out \in Commands
      BY <1>1 DEF TypeOK
    <3>3. /\ events' \in Seq(Event)
          /\ out' = out \o cmds_ /\ out' \in Commands
      BY <3>1, <3>2, <1>1, <1>2, NotifyType, EventNames
    <3>4. out' \o <<>> = out' /\ <<>> \in Commands
      BY <3>3, ConcatEmpty, EmptyCommands
    <3> QED
      BY <3>1, <3>3, <3>4
  <2>2. CASE ~(cmds_ # <<>> /\ block_level = 0)
    BY <2>2, <1>1 DEF OpenBlock, TypeOK
  <2> QED
    BY <2>1, <2>2
<1>5. /\ block_start_index' = Len(cmds_')
      /\ received' = received
      /\ crashed' = crashed
  BY DEF OpenBlock
<1>6. TypeOK'
  BY <1>1, <1>2, <1>3, <1>4, <1>5, LenCommands DEF TypeOK
<1>7. InOrderOnce' /\ StopDropsOnlyOpenBlock'
  BY <1>2, <1>4, <1>5 DEF IInv, InOrderOnce, StopDropsOnlyOpenBlock
<1>8. LevelBounded' /\ StaticBlockBounded' /\ SliceInBounds' /\ NoCrash'
  BY <1>1, <1>2, <1>3, <1>4, <1>5
  DEF IInv, TypeOK, LevelBounded, StaticBlockBounded, SliceInBounds, NoCrash
<1> QED
  BY <1>6, <1>7, <1>8 DEF IInv

(* What the three outcomes of a "}" have in common. *)
LEMMA CloseBlockType ==
    ASSUME IInv, CloseBlock
    PROVE  /\ lines' \in Seq(Kinds)
           /\ Len(lines') = Len(lines) + 1
           /\ Len(lines') \in Nat /\ Len(lines') >= 1 /\ Len(lines') <= MaxLines
           /\ ~crashed /\ ~stopped /\ stopped' = FALSE /\ chunk_start' = chunk_start
           /\ block_level' \in 0..(Wrap - 1)
           /\ ~Unmatched => block_level > 0 /\ block_level' = block_level - 1
           /\ block_start_index' = block_start_index /\ received' = received
<1> USE MaxLinesAssumption, WrapAssumption
<1>1. Getline("close") /\ TypeOK /\ "close" \in Kinds
  BY DEF CloseBlock, IInv, Kinds
<1>2. /\ lines' \in Seq(Kinds)
      /\ Len(lines') = Len(lines) + 1
      /\ Len(lines') \in Nat /\ Len(lines') >= 1 /\ Len(lines') <= MaxLines
      /\ ~crashed /\ ~stopped /\ stopped' = FALSE /\ chunk_start' = chunk_start
  BY <1>1, GetlineType
<1>3. block_level' = (block_level - 1) % Wrap /\ block_level - 1 \in Int /\ Wrap > 0
  BY <1>1 DEF CloseBlock, TypeOK
<1>4. block_level' \in 0..(Wrap - 1)
  BY <1>3, ModRange
<1>5. ASSUME ~Unmatched PROVE block_level > 0 /\ block_level' = block_level - 1
  <2>1. block_level > 0
    BY <1>5 DEF CloseBlock
  <2>2. block_level - 1 \in Nat /\ block_level - 1 < Wrap
    BY <2>1, <1>1 DEF TypeOK
  <2> QED
    BY <2>1, <2>2, <1>3, ModSmall
<1> QED
  BY <1>2, <1>4, <1>5 DEF CloseBlock

(* The brace that closes a block outside all others, or one too many. *)
LEMMA CloseOuterInv == IInv /\ CloseOuter => IInv'
<1> SUFFICES ASSUME IInv, CloseOuter PROVE IInv'
  OBVIOUS
<1> USE BulkSizeAssumption, MaxLinesAssumption, WrapAssumption
<1>1. CloseBlock /\ TypeOK
  BY DEF CloseOuter, IInv
<1>2. notify("event_print_save", cmds_) /\ cmds_' = <<>> /\ block_level' = 0 /\ crashed' = crashed
  BY DEF CloseOuter
<1>3. cmds_ \in Commands /\ out \in Commands /\ received \in Commands
  BY <1>1 DEF TypeOK
<1>4. /\ events' \in Seq(Event)
      /\ out' = out \o cmds_
      /\ out' \in Commands
  BY <1>1, <1>2, <1>3, CloseBlockType, NotifyType, EventNames
<1>5. TypeOK'
  BY <1>1, <1>2, <1>4, CloseBlockType, EmptyCommands DEF TypeOK
<1>6. InOrderOnce' /\ StopDropsOnlyOpenBlock'
  BY <1>1, <1>2, <1>3, <1>4, CloseBlockType, ConcatEmpty DEF IInv, InOrderOnce, StopDropsOnlyOpenBlock
<1>7. LevelBounded' /\ StaticBlockBounded' /\ SliceInBounds' /\ NoCrash'
  BY <1>1, <1>2, CloseBlockType
  DEF IInv, TypeOK, LevelBounded, StaticBlockBounded, SliceInBounds, NoCrash
<1> QED
  BY <1>5, <1>6, <1>7 DEF IInv

(* The brace that closes a nested block, with the slice in bounds. *)
LEMMA CloseNestedInv == IInv /\ CloseNested => IInv'
<1> SUFFICES ASSUME IInv, CloseNested PROVE IInv'
  OBVIOUS
<1> USE BulkSizeAssumption, MaxLinesAssumption, WrapAssumption
<1>1. CloseBlock /\ TypeOK
  BY DEF CloseNested, IInv
<1>2. /\ notify("event_save", Slice) /\ cmds_' = cmds_ /\ crashed' = crashed
      /\ block_level' # 0 /\ block_start_index <= Len(cmds_)
  BY DEF CloseNested
<1>3. Slice \in Commands
  BY <1>1, <1>2, SliceType DEF TypeOK, Slice
<1>4. /\ events' \in Seq(Event)
      /\ out' = out
  BY <1>1, <1>2, <1>3, CloseBlockType, NotifyType, EventNames
<1>5. TypeOK'
  BY <1>1, <1>2, <1>4, CloseBlockType DEF TypeOK
<1>6. InOrderOnce' /\ StopDropsOnlyOpenBlock'
  <2>1. out \o cmds_ = received /\ stopped' = FALSE /\ received' = received
    BY <1>1, CloseBlockType DEF IInv, InOrderOnce
  <2>2. out' \o cmds_' = received'
    BY <1>2, <1>4, <2>1
  <2> QED
    BY <2>1, <2>2 DEF InOrderOnce, StopDropsOnlyOpenBlock
<1>7. LevelBounded' /\ NoCrash'
  <2>1. ~Unmatched => block_level \in Nat /\ block_level' = block_level - 1
    BY <1>1, CloseBlockType DEF TypeOK
  <2>2. Len(lines) \in Nat /\ Len(lines') = Len(lines) + 1
    BY <1>1, CloseBlockType DEF TypeOK
  <2>3. LevelBounded'
    BY <2>1, <2>2 DEF IInv, LevelBounded
  <2>4. ~crashed'
    BY <1>1, <1>2, CloseBlockType
  <2> QED
    BY <2>3, <2>4 DEF NoCrash
<1>8. StaticBlockBounded' /\ SliceInBounds'
  BY <1>1, <1>2, CloseBlockType DEF StaticBlockBounded, SliceInBounds
<1> QED
  BY <1>5, <1>6, <1>7, <1>8 DEF IInv

(* The same brace when the slice is not: only in a text whose braces do    *)
(* not match.                                                              *)
LEMMA CloseOutOfRangeInv == IInv /\ CloseOutOfRange => IInv'
<1> SUFFICES ASSUME IInv, CloseOutOfRange PROVE IInv'
  OBVIOUS
<1> USE BulkSizeAssumption, MaxLinesAssumption, WrapAssumption, UnmatchedAssumption
<1>1. CloseBlock /\ TypeOK
  BY DEF CloseOutOfRange, IInv
<1>2. /\ block_level' # 0 /\ block_start_index > Len(cmds_)
      /\ crashed' = TRUE /\ cmds_' = cmds_ /\ events' = events /\ out' = out
  BY DEF CloseOutOfRange
<1>3. Unmatched
  (* otherwise two blocks are open, and SliceInBounds denies the guard *)
  <2>1. Len(cmds_) \in Nat /\ block_level \in Nat /\ block_start_index \in Nat
    BY <1>1, LenCommands DEF TypeOK
  <2>2. ASSUME ~Unmatched PROVE FALSE
    <3>1. block_level > 1
      BY <1>1, <1>2, <2>1, <2>2, CloseBlockType
    <3> QED
      BY <1>2, <2>1, <2>2, <3>1 DEF IInv, SliceInBounds
  <2> QED
    BY <2>2
<1>4. TypeOK'
  BY <1>1, <1>2, CloseBlockType DEF TypeOK
<1>5. InOrderOnce' /\ StopDropsOnlyOpenBlock'
  BY <1>1, <1>2, CloseBlockType DEF IInv, InOrderOnce, StopDropsOnlyOpenBlock
<1>6. LevelBounded' /\ StaticBlockBounded' /\ SliceInBounds' /\ NoCrash'
  BY <1>3 DEF LevelBounded, StaticBlockBounded, SliceInBounds, NoCrash
<1> QED
  BY <1>4, <1>5, <1>6 DEF IInv

(* A command, which may fill a static block. *)
LEMMA CommandInv == IInv /\ Command => IInv'
<1> SUFFICES ASSUME IInv, Command PROVE IInv'
  OBVIOUS
<1> USE BulkSizeAssumption, MaxLinesAssumption, WrapAssumption, UnmatchedAssumption
<1> DEFINE cmds == Append(cmds_, Len(lines'))
<1>1. Getline("cmd") /\ TypeOK /\ "cmd" \in Kinds
  BY DEF Command, IInv, Kinds
<1>2. /\ lines' \in Seq(Kinds)
      /\ Len(lines') = Len(lines) + 1
      /\ Len(lines') \in Nat /\ Len(lines') >= 1 /\ Len(lines') <= MaxLines
      /\ ~crashed /\ ~stopped /\ stopped' = FALSE /\ chunk_start' = chunk_start
  BY <1>1, GetlineType
<1>3. /\ cmds \in Commands /\ Len(cmds) = Len(cmds_) + 1
      /\ received' = Append(received, Len(lines')) /\ received' \in Commands
      /\ block_level' = block_level /\ block_start_index' = block_start_index
      /\ crashed' = crashed
  <2>1. /\ received' = Append(received, Len(lines'))
        /\ block_level' = block_level /\ block_start_index' = block_start_index
        /\ crashed' = crashed
    BY DEF Command
  <2>2. cmds_ \in Commands /\ received \in Commands /\ Len(lines') \in 1..MaxLines
    BY <1>1, <1>2 DEF TypeOK
  <2> QED
    BY <2>1, <2>2, ConcatAppend
<1>4. out \o cmds = received'
  <2>1. out \o cmds_ = received
    BY <1>2 DEF IInv, InOrderOnce
  <2>2. out \o Append(cmds_, Len(lines')) = Append(out \o cmds_, Len(lines'))
    <3>1. out \in Commands /\ cmds_ \in Commands /\ Len(lines') \in 1..MaxLines
      BY <1>1, <1>2 DEF TypeOK
    <3> QED
      BY <3>1, ConcatAppend
  <2> QED
    BY <2>1, <2>2, <1>3
<1>5. CASE block_level = 0 /\ Len(cmds) = BulkSize
  <2>1. notify("event_print_save", cmds) /\ cmds_' = <<>>
    BY <1>5 DEF Command
  <2>2. /\ events' \in Seq(Event)
        /\ out' = out \o cmds
        /\ out' \in Commands
    BY <2>1, <1>1, <1>2, <1>3, NotifyType, EventNames
  <2>3. TypeOK'
    BY <1>1, <1>2, <1>3, <2>1, <2>2, EmptyCommands DEF TypeOK
  <2>4. out' \o cmds_' = received' /\ ~stopped'
    BY <1>2, <1>3, <1>4, <2>1, <2>2
  <2>5. InOrderOnce' /\ StopDropsOnlyOpenBlock'
    BY <2>4 DEF InOrderOnce, StopDropsOnlyOpenBlock
  <2>6. LevelBounded' /\ StaticBlockBounded' /\ SliceInBounds' /\ NoCrash'
    BY <1>1, <1>2, <1>3, <2>1, <1>5
    DEF IInv, TypeOK, LevelBounded, StaticBlockBounded, SliceInBounds, NoCrash
  <2> QED
    BY <2>3, <2>5, <2>6 DEF IInv
<1>6. CASE ~(block_level = 0 /\ Len(cmds) = BulkSize)
  <2>1. cmds_' = cmds /\ events' = events /\ out' = out
    BY <1>6 DEF Command
  <2>3. TypeOK'
    BY <1>1, <1>2, <1>3, <2>1 DEF TypeOK
  <2>5. InOrderOnce' /\ StopDropsOnlyOpenBlock'
    BY <1>2, <1>4, <2>1 DEF InOrderOnce, StopDropsOnlyOpenBlock
  <2>6. LevelBounded' /\ StaticBlockBounded' /\ SliceInBounds' /\ NoCrash'
    BY <1>1, <1>2, <1>3, <2>1, <1>6
    DEF IInv, TypeOK, LevelBounded, StaticBlockBounded, SliceInBounds, NoCrash
  <2> QED
    BY <2>3, <2>5, <2>6 DEF IInv
<1> QED
  BY <1>5, <1>6

(* The next call of RunCmds. *)
LEMMA NextChunkInv == IInv /\ NextChunk => IInv'
BY MaxLinesAssumption, WrapAssumption, BulkSizeAssumption
DEF IInv, NextChunk, TypeOK, InOrderOnce, StopDropsOnlyOpenBlock, LevelBounded,
    StaticBlockBounded, SliceInBounds, NoCrash

(* Stop prints the static block that was begun. *)
LEMMA FlushOnStopInv == IInv /\ FlushOnStop => IInv'
<1> SUFFICES ASSUME IInv, FlushOnStop PROVE IInv'
  OBVIOUS
<1> USE BulkSizeAssumption, MaxLinesAssumption, WrapAssumption
<1>1. /\ TypeOK /\ ~stopped /\ stopped' = TRUE /\ crashed' = crashed /\ lines' = lines
      /\ cmds_' = cmds_ /\ block_level' = block_level
      /\ block_start_index' = block_start_index
      /\ received' = received /\ chunk_start' = chunk_start
  BY DEF FlushOnStop, IInv, parser
<1>2. /\ out \in Commands /\ cmds_ \in Commands
      /\ Len(lines') \in Nat /\ Len(lines') <= MaxLines
  BY <1>1 DEF TypeOK
<1>3. /\ events' \in Seq(Event)
      /\ out' \in Commands
      /\ out' = IF block_level = 0 THEN out \o cmds_ ELSE out
  <2>1. CASE block_level = 0 /\ cmds_ # <<>>
    BY <2>1, <1>1, <1>2, NotifyType, EventNames DEF FlushOnStop
  <2>2. CASE ~(block_level = 0 /\ cmds_ # <<>>)
    <3>1. events' = events /\ out' = out
      BY <2>2 DEF FlushOnStop
    <3>2. block_level = 0 => out \o cmds_ = out
      BY <2>2, <1>2, ConcatEmpty
    <3> QED
      BY <3>1, <3>2, <1>1, <1>2 DEF TypeOK
  <2> QED
    BY <2>1, <2>2
<1>4. TypeOK'
  BY <1>1, <1>3 DEF TypeOK
<1>5. InOrderOnce' /\ StopDropsOnlyOpenBlock'
  BY <1>1, <1>3 DEF IInv, InOrderOnce, StopDropsOnlyOpenBlock
<1>6. LevelBounded' /\ StaticBlockBounded' /\ SliceInBounds' /\ NoCrash'
  BY <1>1 DEF IInv, LevelBounded, StaticBlockBounded, SliceInBounds, NoCrash
<1> QED
  BY <1>4, <1>5, <1>6 DEF IInv

(* Every step keeps the invariant. *)
LEMMA StepInv == ASSUME IInv, [Next]_vars PROVE IInv'
<1>1. IInv /\ UNCHANGED vars => IInv'
  BY DEF IInv, vars, parser, TypeOK, InOrderOnce, StopDropsOnlyOpenBlock,
         LevelBounded, StaticBlockBounded, SliceInBounds, NoCrash
<1> QED
  BY <1>1, OpenBlockInv, CloseOuterInv, CloseNestedInv, CloseOutOfRangeInv,
     CommandInv, NextChunkInv, FlushOnStopInv
  DEF Next, RunLine

(* The inductive invariant of the parser. *)
LEMMA Inductive == Spec => []IInv
<1>1. IInv /\ [Next]_vars => IInv'
  BY StepInv
<1> QED
  BY InitInv, <1>1, PTL DEF Spec

(* The types of the parser's fields: block_level stays a size_t. *)
THEOREM TypeCorrect == Spec => []TypeOK
<1>1. IInv => TypeOK
  BY DEF IInv
<1> QED
  BY Inductive, <1>1, PTL

(* RunCmds prints every command once and in the order it was read. *)
THEOREM PrintsInOrderOnce == Spec => []InOrderOnce
<1>1. IInv => InOrderOnce
  BY DEF IInv
<1> QED
  BY Inductive, <1>1, PTL

(* Stop drops an open dynamic block and nothing else. *)
THEOREM StopFlushes == Spec => []StopDropsOnlyOpenBlock
<1>1. IInv => StopDropsOnlyOpenBlock
  BY DEF IInv
<1> QED
  BY Inductive, <1>1, PTL

(* In a text whose braces match, the size test of RunCmds bounds every     *)
(* static block.                                                           *)
THEOREM StaticBlocksBounded == Spec => []StaticBlockBounded
<1>1. IInv => StaticBlockBounded
  BY DEF IInv
<1> QED
  BY Inductive, <1>1, PTL

(* ... std::next(begin, block_start_index) never leaves cmds_, ... *)
THEOREM SlicesInBounds == Spec => []SliceInBounds
<1>1. IInv => SliceInBounds
  BY DEF IInv
<1> QED
  BY Inductive, <1>1, PTL

(* ... and so the worker thread never dies of an exception. *)
THEOREM NeverCrashes == Spec => []NoCrash
<1>1. IInv => NoCrash
  BY DEF IInv
<1> QED
  BY Inductive, <1>1, PTL

-----------------------------------------------------------------------------
(* The text and its braces. *)

Texts == Seq(Kinds)

(* Numbers that are not negative have a least one, ... *)
LEMMA LeastOne == ASSUME NEW T \in SUBSET Nat, T # {} PROVE \E n \in T : \A m \in T : n <= m
<1>1. \E x \in T : \A y \in T : ~(<<y, x>> \in OpToRel(<, Nat))
  BY NatLessThanWellFounded, WFMin
<1>2. PICK x \in T : \A y \in T : ~(<<y, x>> \in OpToRel(<, Nat))
  BY <1>1
<1>3. \A y \in T : ~(y < x)
  BY <1>2 DEF OpToRel
<1> QED
  BY <1>3

(* ... and bounded ones a greatest. *)
LEMMA GreatestOne ==
    ASSUME NEW n \in Nat, NEW N \in SUBSET (0..n), N # {}
    PROVE  Max(N) \in N /\ \A y \in N : y <= Max(N)
<1> DEFINE T == {n - y : y \in N}
<1>1. T \in SUBSET Nat /\ T # {}
  <2>1. \A y \in N : n - y \in Nat
    OBVIOUS
  <2> QED
    BY <2>1
<1>2. PICK m \in T : \A l \in T : m <= l
  BY <1>1, LeastOne
<1>3. PICK x \in N : m = n - x
  BY <1>2
<1>4. \A y \in N : x >= y
  <2> TAKE y \in N
  <2>1. n - x <= n - y
    BY <1>2, <1>3
  <2> QED
    BY <2>1
<1>5. Max(N) \in N /\ \A y \in N : Max(N) >= y
  BY <1>3, <1>4 DEF Max
<1> QED
  BY <1>5

(* Max is the greatest. *)
LEMMA MaxIs ==
    ASSUME NEW N \in SUBSET Int, NEW x \in N, \A y \in N : y <= x
    PROVE  Max(N) = x
<1>1. Max(N) \in N /\ \A y \in N : Max(N) >= y
  BY DEF Max
<1>2. Max(N) \in Int /\ x \in Int /\ Max(N) <= x /\ Max(N) >= x
  BY <1>1
<1> QED
  BY <1>2

(* Counting braces line by line. *)
LEMMA BracesAre ==
    ASSUME NEW s, NEW kind, NEW i \in Nat
    PROVE  /\ Braces(s, i, kind) \in Nat /\ Braces(s, i, kind) <= i
           /\ Braces(s, 0, kind) = 0
           /\ Braces(s, i + 1, kind) = Braces(s, i, kind) + (IF s[i + 1] = kind THEN 1 ELSE 0)
<1> DEFINE B(n) == {j \in 1..n : s[j] = kind}
<1>1. IsFiniteSet(1..i) /\ Cardinality(1..i) = i
  BY FS_Interval
<1>2. IsFiniteSet(B(i)) /\ Cardinality(B(i)) <= i
  <2>1. B(i) \in SUBSET (1..i)
    OBVIOUS
  <2> QED
    BY <1>1, <2>1, FS_Subset
<1>3. Cardinality(B(i)) \in Nat
  BY <1>2, FS_CardinalityType
<1>4. Cardinality(B(0)) = 0
  <2>1. B(0) = {}
    OBVIOUS
  <2> QED
    BY <2>1, FS_EmptySet
<1>5. Cardinality(B(i + 1)) = Cardinality(B(i)) + (IF s[i + 1] = kind THEN 1 ELSE 0)
  <2>1. CASE s[i + 1] = kind
    <3>1. B(i + 1) = B(i) \cup {i + 1} /\ i + 1 \notin B(i)
      BY <2>1
    <3> HIDE DEF B
    <3> QED
      BY <1>2, <2>1, <3>1, FS_AddElement
  <2>2. CASE s[i + 1] # kind
    <3>1. B(i + 1) = B(i)
      BY <2>2
    <3> HIDE DEF B
    <3> QED
      BY <1>3, <2>2, <3>1
  <2> QED
    BY <2>1, <2>2
<1> QED
  BY <1>2, <1>3, <1>4, <1>5 DEF Braces

(* ... and the depth, which a line changes by one at most. *)
LEMMA DepthIs ==
    ASSUME NEW s, NEW i \in Nat
    PROVE  /\ Depth(s, i) \in Int /\ Depth(s, i) <= i
           /\ Depth(s, 0) = 0
           /\ s[i + 1] = "open" => Depth(s, i + 1) = Depth(s, i) + 1
           /\ s[i + 1] = "close" => Depth(s, i + 1) = Depth(s, i) - 1
           /\ s[i + 1] \notin {"open", "close"} => Depth(s, i + 1) = Depth(s, i)
<1>1. "open" # "close"
  OBVIOUS
<1> DEFINE o(n) == Braces(s, n, "open")
           c(n) == Braces(s, n, "close")
<1>2. /\ o(i) \in Nat /\ o(i) <= i /\ o(0) = 0
      /\ o(i + 1) = o(i) + (IF s[i + 1] = "open" THEN 1 ELSE 0)
  BY BracesAre
<1>3. /\ c(i) \in Nat /\ c(0) = 0
      /\ c(i + 1) = c(i) + (IF s[i + 1] = "close" THEN 1 ELSE 0)
  BY BracesAre
<1>4. \A n : Depth(s, n) = o(n) - c(n)
  BY DEF Depth
<1> HIDE DEF o, c
<1> QED
  BY <1>1, <1>2, <1>3, <1>4

(* The text when std::getline has read one more line. *)
LEMMA OneMoreLine ==
    ASSUME NEW s \in Texts, NEW kind \in Kinds
    PROVE  LET t == Append(s, kind) IN
           /\ t \in Texts /\ Len(s) \in Nat /\ Len(t) = Len(s) + 1
           /\ \A i \in 1..Len(s) : t[i] = s[i]
           /\ t[Len(s) + 1] = kind
           /\ DOMAIN s = 1..Len(s) /\ DOMAIN t = 1..Len(s) + 1
<1> DEFINE t == Append(s, kind)
<1>1. s \in Seq(Kinds) /\ t \in Seq(Kinds) /\ Len(t) = Len(s) + 1
  BY AppendProperties DEF Texts
<1>2. \A i \in 1..Len(t) : t[i] = IF i <= Len(s) THEN s[i] ELSE kind
  BY <1>1, AppendProperties
<1> HIDE DEF t
<1>3. /\ Len(s) \in Nat /\ Len(s) + 1 \in 1..Len(t)
      /\ \A i \in 1..Len(s) : t[i] = s[i]
      /\ t[Len(s) + 1] = kind
  BY <1>1, <1>2
<1>4. DOMAIN s = 1..Len(s) /\ DOMAIN t = 1..Len(s) + 1
  BY <1>1
<1> QED
  BY <1>1, <1>3, <1>4 DEF t, Texts

(* The depth of a line stays the same when the text goes on. *)
LEMMA DepthStays ==
    ASSUME NEW s \in Texts, NEW kind \in Kinds
    PROVE  LET t == Append(s, kind) IN
           /\ \A i \in 0..Len(s) : Depth(t, i) = Depth(s, i) /\ Depth(s, i) \in Int
           /\ Depth(t, Len(s) + 1) = Depth(s, Len(s)) +
                 (CASE kind = "open" -> 1 [] kind = "close" -> -1 [] OTHER -> 0)
           /\ Matched(t) => Matched(s)
<1> DEFINE t == Append(s, kind)
<1>1. /\ Len(s) \in Nat /\ \A i \in 1..Len(s) : t[i] = s[i]
      /\ t[Len(s) + 1] = kind
      /\ DOMAIN s = 1..Len(s) /\ DOMAIN t = 1..Len(s) + 1
  BY OneMoreLine
<1> HIDE DEF t
<1>2. ASSUME NEW i \in 0..Len(s) PROVE Depth(t, i) = Depth(s, i)
  <2>1. \A k : {j \in 1..i : t[j] = k} = {j \in 1..i : s[j] = k}
    BY <1>1
  <2> QED
    BY <2>1 DEF Depth, Braces
<1>3. \A i \in 0..Len(s) : Depth(s, i) \in Int
  BY <1>1, DepthIs
<1>4. Depth(t, Len(s)) = Depth(s, Len(s)) /\ Depth(s, Len(s)) \in Int
  BY <1>1, <1>2, <1>3
<1>5. Depth(t, Len(s) + 1) = Depth(s, Len(s)) +
         (CASE kind = "open" -> 1 [] kind = "close" -> -1 [] OTHER -> 0)
  <2>1. /\ t[Len(s) + 1] = "open" => Depth(t, Len(s) + 1) = Depth(t, Len(s)) + 1
        /\ t[Len(s) + 1] = "close" => Depth(t, Len(s) + 1) = Depth(t, Len(s)) - 1
        /\ t[Len(s) + 1] \notin {"open", "close"} => Depth(t, Len(s) + 1) = Depth(t, Len(s))
    BY <1>1, DepthIs
  <2>2. CASE kind = "open"
    BY <1>1, <1>4, <2>1, <2>2
  <2>3. CASE kind = "close"
    BY <1>1, <1>4, <2>1, <2>3
  <2>4. CASE kind = "cmd"
    BY <1>1, <1>4, <2>1, <2>4
  <2> QED
    BY <2>2, <2>3, <2>4 DEF Kinds
<1>6. Matched(t) => Matched(s)
  BY <1>1, <1>2 DEF Matched
<1> QED
  BY <1>2, <1>3, <1>5, <1>6 DEF t

(* The outermost brace is the last one opened at depth zero, ... *)
LEMMA OutermostIs ==
    ASSUME NEW s, NEW p \in Nat \ {0}
    PROVE  /\ Outermost(s, p) \in 1..p
           /\ Depth(s, Outermost(s, p) - 1) = 0
           /\ \A q \in 1..p : Depth(s, q - 1) = 0 => q <= Outermost(s, p)
<1> DEFINE N == {q \in 1..p : Depth(s, q - 1) = 0}
<1>1. 1 \in 1..p /\ 1 - 1 = 0 /\ Depth(s, 0) = 0
  BY DepthIs
<1>2. N \in SUBSET (0..p) /\ 1 \in N
  BY <1>1
<1>3. Max(N) \in N /\ \A q \in N : q <= Max(N)
  BY <1>2, GreatestOne
<1> QED
  BY <1>3 DEF Outermost

(* ... and behind the last brace there are commands only, ... *)
LEMMA LastBraceIs ==
    ASSUME NEW s, NEW p \in Nat
    PROVE  /\ LastBrace(s, p) \in 0..p
           /\ LastBrace(s, p) > 0 => s[LastBrace(s, p)] # "cmd"
           /\ \A q \in 1..p : q > LastBrace(s, p) => s[q] = "cmd"
<1> DEFINE N == {q \in 1..p : s[q] # "cmd"} \union {0}
<1>1. N \in SUBSET (0..p) /\ 0 \in N
  OBVIOUS
<1>2. Max(N) \in N /\ \A q \in N : q <= Max(N)
  BY <1>1, GreatestOne
<1>3. /\ Max(N) \in 0..p
      /\ Max(N) > 0 => s[Max(N)] # "cmd"
      /\ \A q \in 1..p : q > Max(N) => s[q] = "cmd"
  BY <1>2
<1> QED
  BY <1>3 DEF LastBrace

(* ... so that a command's group is told by how far behind it is. *)
LEMMA GroupIs ==
    ASSUME NEW s \in Texts, NEW p \in 1..Len(s), s[p] = "cmd"
    PROVE  Group(s, p) = (p - LastBrace(s, p) - 1) \div BulkSize
<1> DEFINE z == LastBrace(s, p)
           N == {q \in CommandLines(s) : z < q /\ q < p}
<1>1. /\ Len(s) \in Nat /\ p \in Nat /\ p > 0 /\ DOMAIN s = 1..Len(s)
  BY DEF Texts
<1>2. z \in 0..p /\ (z > 0 => s[z] # "cmd") /\ \A q \in 1..p : q > z => s[q] = "cmd"
  BY <1>1, LastBraceIs
<1>3. z < p
  BY <1>1, <1>2
<1> HIDE DEF z
<1>4. N = z + 1..p - 1
  BY <1>1, <1>2, <1>3 DEF CommandLines
<1> HIDE DEF N
<1>5. Cardinality(N) = p - z - 1
  <2>1. z + 1 \in Int /\ p - 1 \in Int /\ z + 1 <= p - 1 + 1
    BY <1>1, <1>2, <1>3
  <2>2. Cardinality(z + 1..p - 1) = IF z + 1 > p - 1 THEN 0 ELSE (p - 1) - (z + 1) + 1
    BY <2>1, FS_Interval
  <2> QED
    BY <1>1, <1>2, <1>3, <1>4, <2>2
<1> QED
  BY <1>5 DEF Group, N, z

(* The block that a command would belong to if it were the next line: the  *)
(* one that RunCmds collects.                                              *)
BlockBehind(text, i) ==
    IF Depth(text, i) > 0 THEN <<"dynamic", Outermost(text, i), 0>>
    ELSE <<"static", LastBrace(text, i), (i - LastBrace(text, i)) \div BulkSize>>
Current(text) == BlockBehind(text, Len(text))

(* A line's block stays the same when the text goes on. *)
LEMMA BlockStays ==
    ASSUME NEW s \in Texts, NEW kind \in Kinds, NEW p \in 1..Len(s)
    PROVE  LET t == Append(s, kind) IN
           /\ Outermost(t, p) = Outermost(s, p) /\ LastBrace(t, p) = LastBrace(s, p)
           /\ BlockOf(t, p) = BlockOf(s, p)
<1> DEFINE t == Append(s, kind)
<1>1. /\ Len(s) \in Nat /\ \A i \in 1..Len(s) : t[i] = s[i]
      /\ DOMAIN s = 1..Len(s) /\ DOMAIN t = 1..Len(s) + 1
  BY OneMoreLine
<1>2. \A i \in 0..Len(s) : Depth(t, i) = Depth(s, i)
  BY DepthStays
<1> HIDE DEF t
<1>3. {q \in 1..p : Depth(t, q - 1) = 0} = {q \in 1..p : Depth(s, q - 1) = 0}
  <2>1. \A q \in 1..p : q - 1 \in 0..Len(s)
    BY <1>1
  <2> QED
    BY <1>2, <2>1
<1>4. Outermost(t, p) = Outermost(s, p)
  BY <1>3 DEF Outermost
<1>5. {q \in 1..p : t[q] # "cmd"} = {q \in 1..p : s[q] # "cmd"}
  BY <1>1
<1>6. LastBrace(t, p) = LastBrace(s, p)
  BY <1>5 DEF LastBrace
<1>7. LastBrace(s, p) \in Nat
  BY <1>1, LastBraceIs
<1>8. {q \in CommandLines(t) : LastBrace(s, p) < q /\ q < p}
        = {q \in CommandLines(s) : LastBrace(s, p) < q /\ q < p}
  BY <1>1, <1>7 DEF CommandLines
<1>9. Group(t, p) = Group(s, p)
  BY <1>6, <1>8 DEF Group
<1>10. Depth(t, p) = Depth(s, p)
  BY <1>1, <1>2
<1>11. BlockOf(t, p) = BlockOf(s, p)
  BY <1>4, <1>6, <1>9, <1>10 DEF BlockOf
<1> QED
  BY <1>4, <1>6, <1>11 DEF t

(* The outermost brace and the last one after one more line. *)
LEMMA BracesAtEnd ==
    ASSUME NEW s \in Texts, NEW kind \in Kinds
    PROVE  LET t == Append(s, kind) IN
           /\ Depth(s, Len(s)) = 0 => Outermost(t, Len(s) + 1) = Len(s) + 1
           /\ Depth(s, Len(s)) # 0 => Outermost(t, Len(s) + 1) = Outermost(s, Len(s))
           /\ kind = "cmd" => LastBrace(t, Len(s) + 1) = LastBrace(s, Len(s))
           /\ kind # "cmd" => LastBrace(t, Len(s) + 1) = Len(s) + 1
<1> DEFINE t == Append(s, kind)
           n == Len(s)
           O == {q \in 1..n + 1 : Depth(t, q - 1) = 0}
           L == {q \in 1..n + 1 : t[q] # "cmd"} \union {0}
<1>1. /\ t \in Texts /\ n \in Nat /\ Len(t) = n + 1 /\ \A i \in 1..n : t[i] = s[i]
      /\ t[n + 1] = kind
  BY OneMoreLine
<1>2. \A i \in 0..n : Depth(t, i) = Depth(s, i)
  BY DepthStays
<1> HIDE DEF t, n
<1>3. \A q \in 1..n + 1 : q - 1 \in 0..n /\ Depth(t, q - 1) = Depth(s, q - 1) /\ (q = n + 1 => q - 1 = n)
  BY <1>1, <1>2
<1>4. ASSUME Depth(s, n) = 0 PROVE Outermost(t, n + 1) = n + 1
  <2>1. O \in SUBSET Int /\ n + 1 \in O /\ \A q \in O : q <= n + 1
    BY <1>1, <1>3, <1>4
  <2>2. Max(O) = n + 1
    BY <2>1, MaxIs
  <2> QED
    BY <2>2 DEF Outermost
<1>5. ASSUME Depth(s, n) # 0 PROVE Outermost(t, n + 1) = Outermost(s, n)
  <2>1. \A q : q \in O <=> q \in 1..n /\ Depth(s, q - 1) = 0
    <3>1. \A q \in 1..n : q \in 1..n + 1
      BY <1>1
    <3>2. \A q \in 1..n + 1 : q \in 1..n \/ q = n + 1
      BY <1>1
    <3> QED
      BY <1>3, <1>5, <3>1, <3>2
  <2>2. O = {q \in 1..n : Depth(s, q - 1) = 0}
    BY <2>1
  <2> QED
    BY <2>2 DEF Outermost
<1>6. ASSUME kind = "cmd" PROVE LastBrace(t, n + 1) = LastBrace(s, n)
  <2>1. L = {q \in 1..n : s[q] # "cmd"} \union {0}
    BY <1>1, <1>6
  <2> QED
    BY <2>1 DEF LastBrace
<1>7. ASSUME kind # "cmd" PROVE LastBrace(t, n + 1) = n + 1
  <2>1. L \in SUBSET Int /\ n + 1 \in L /\ \A q \in L : q <= n + 1
    BY <1>1, <1>7
  <2>2. Max(L) = n + 1
    BY <2>1, MaxIs
  <2> QED
    BY <2>2 DEF LastBrace
<1> QED
  BY <1>4, <1>5, <1>6, <1>7 DEF t, n

(* A command that comes next is of the current block. *)
LEMMA NextCommand ==
    ASSUME NEW s \in Texts
    PROVE  LET t == Append(s, "cmd") IN BlockOf(t, Len(s) + 1) = Current(s)
<1> DEFINE t == Append(s, "cmd")
           n == Len(s)
<1>0. "cmd" \in Kinds
  BY DEF Kinds
<1>1. /\ t \in Texts /\ n \in Nat /\ Len(t) = n + 1 /\ \A i \in 1..n : t[i] = s[i]
      /\ t[n + 1] = "cmd"
  BY <1>0, OneMoreLine
<1>2. /\ \A i \in 0..n : Depth(t, i) = Depth(s, i) /\ Depth(s, i) \in Int
      /\ Depth(t, n + 1) = Depth(s, n) + (CASE "cmd" = "open" -> 1 [] "cmd" = "close" -> -1 [] OTHER -> 0)
  BY <1>0, DepthStays
<1> HIDE DEF t, n
<1>3. Depth(t, n + 1) = Depth(s, n)
  <2>1. Depth(s, n) \in Int
    BY <1>1, <1>2
  <2> QED
    BY <1>2, <2>1
<1>4. LastBrace(t, n + 1) = LastBrace(s, n)
  BY <1>0, BracesAtEnd DEF t, n
<1>5. Group(t, n + 1) = (n - LastBrace(s, n)) \div BulkSize
  <2>1. n + 1 \in 1..Len(t)
    BY <1>1
  <2>2. LastBrace(s, n) \in Nat
    BY <1>1, LastBraceIs
  <2>4. PICK p \in 1..Len(t) : p = n + 1
    BY <2>1
  <2>5. Group(t, p) = (p - LastBrace(t, p) - 1) \div BulkSize
    BY <1>1, <2>4, GroupIs
  <2>6. p - LastBrace(t, p) - 1 = n - LastBrace(s, n)
    <3>1. LastBrace(t, p) = LastBrace(s, n)
      BY <1>4, <2>4
    <3> QED
      BY <1>1, <2>2, <2>4, <3>1
  <2>7. Group(t, p) = (n - LastBrace(s, n)) \div BulkSize
    BY <2>5, <2>6
  <2> QED
    BY <2>4, <2>7
<1>6. Depth(s, n) > 0 => Outermost(t, n + 1) = Outermost(s, n)
  <2>1. Depth(s, n) > 0 => Depth(s, n) # 0
    BY <1>1, <1>2
  <2> QED
    BY <1>0, <2>1, BracesAtEnd DEF t, n
<1>7. BlockOf(t, n + 1) = Current(s)
  BY <1>3, <1>4, <1>5, <1>6 DEF BlockOf, Current, BlockBehind, n
<1> QED
  BY <1>7 DEF t, n

(* The current block after one more line: another one, or the same. *)
LEMMA CurrentAfter ==
    ASSUME NEW s \in Texts, NEW kind \in Kinds, Depth(s, Len(s)) >= 0
    PROVE  LET t == Append(s, kind)
               n == Len(s)
           IN  /\ kind = "open" /\ Depth(s, n) = 0 => Current(t) = <<"dynamic", n + 1, 0>>
               /\ Depth(s, n) > 0 /\ Depth(t, n + 1) > 0 => Current(t) = Current(s)
               /\ kind = "close" /\ Depth(t, n + 1) = 0 =>
                     Current(t) = <<"static", n + 1, 0 \div BulkSize>>
               /\ kind = "cmd" /\ Depth(s, n) = 0 =>
                     Current(t) = <<"static", LastBrace(s, n), (n + 1 - LastBrace(s, n)) \div BulkSize>>
<1> DEFINE t == Append(s, kind)
           n == Len(s)
<1>1. /\ n \in Nat /\ Len(t) = n + 1
  BY OneMoreLine
<1>2. Depth(s, n) \in Int /\ Depth(t, n + 1) = Depth(s, n) +
                 (CASE kind = "open" -> 1 [] kind = "close" -> -1 [] OTHER -> 0)
  BY <1>1, DepthStays
<1>3. /\ Depth(s, n) = 0 => Outermost(t, n + 1) = n + 1
      /\ Depth(s, n) # 0 => Outermost(t, n + 1) = Outermost(s, n)
      /\ kind = "cmd" => LastBrace(t, n + 1) = LastBrace(s, n)
      /\ kind # "cmd" => LastBrace(t, n + 1) = n + 1
  BY BracesAtEnd
<1> HIDE DEF t
<1>4. /\ Current(t) = IF Depth(t, n + 1) > 0 THEN <<"dynamic", Outermost(t, n + 1), 0>>
            ELSE <<"static", LastBrace(t, n + 1), (n + 1 - LastBrace(t, n + 1)) \div BulkSize>>
      /\ Current(s) = IF Depth(s, n) > 0 THEN <<"dynamic", Outermost(s, n), 0>>
            ELSE <<"static", LastBrace(s, n), (n - LastBrace(s, n)) \div BulkSize>>
  <2>1. Current(t) = BlockBehind(t, n + 1) /\ Current(s) = BlockBehind(s, n)
    BY <1>1 DEF Current
  <2> HIDE DEF n
  <2>2. \A u, i : BlockBehind(u, i) = IF Depth(u, i) > 0 THEN <<"dynamic", Outermost(u, i), 0>>
                ELSE <<"static", LastBrace(u, i), (i - LastBrace(u, i)) \div BulkSize>>
    BY DEF BlockBehind
  <2>3. PICK m \in Nat : m = n + 1
    BY <1>1
  <2>4. Current(t) = IF Depth(t, m) > 0 THEN <<"dynamic", Outermost(t, m), 0>>
            ELSE <<"static", LastBrace(t, m), (m - LastBrace(t, m)) \div BulkSize>>
    BY <2>1, <2>2, <2>3
  <2>5. Current(s) = IF Depth(s, n) > 0 THEN <<"dynamic", Outermost(s, n), 0>>
            ELSE <<"static", LastBrace(s, n), (n - LastBrace(s, n)) \div BulkSize>>
    BY <2>1, <2>2
  <2>6. m - LastBrace(t, m) = n + 1 - LastBrace(t, n + 1)
    <3>1. LastBrace(t, m) = LastBrace(t, n + 1) /\ LastBrace(t, m) \in Nat
      BY <2>3, LastBraceIs
    <3> QED
      BY <1>1, <2>3, <3>1
  <2> QED
    BY <2>3, <2>4, <2>5, <2>6
<1> HIDE DEF n
<1>5. kind = "open" /\ Depth(s, n) = 0 => Current(t) = <<"dynamic", n + 1, 0>>
  BY <1>2, <1>3, <1>4
<1>6. Depth(s, n) > 0 /\ Depth(t, n + 1) > 0 => Current(t) = Current(s)
  BY <1>2, <1>3, <1>4
<1>7. kind = "close" /\ Depth(t, n + 1) = 0 => Current(t) = <<"static", n + 1, 0 \div BulkSize>>
  <2> SUFFICES ASSUME kind = "close", Depth(t, n + 1) = 0
               PROVE  Current(t) = <<"static", n + 1, 0 \div BulkSize>>
    OBVIOUS
  <2>1. LastBrace(t, n + 1) = n + 1
    BY <1>3
  <2>2. n + 1 - LastBrace(t, n + 1) = 0
    BY <1>1, <2>1
  <2> QED
    BY <1>4, <2>1, <2>2
<1>8. kind = "cmd" /\ Depth(s, n) = 0 =>
         Current(t) = <<"static", LastBrace(s, n), (n + 1 - LastBrace(s, n)) \div BulkSize>>
  BY <1>2, <1>3, <1>4
<1> QED
  BY <1>5, <1>6, <1>7, <1>8 DEF t, n

(* No command belongs to a block that begins behind it. *)
LEMMA NotAhead ==
    ASSUME NEW s \in Texts, NEW p \in 1..Len(s), s[p] = "cmd", NEW q \in Nat, q > p, NEW k, NEW g
    PROVE  BlockOf(s, p) # <<k, q, g>>
<1>1. p \in Nat \ {0}
  OBVIOUS
<1>2. Outermost(s, p) <= p /\ LastBrace(s, p) <= p /\ Outermost(s, p) \in Nat /\ LastBrace(s, p) \in Nat
  BY <1>1, OutermostIs, LastBraceIs
<1>3. BlockOf(s, p)[2] <= p /\ BlockOf(s, p)[2] \in Nat
  BY <1>2 DEF BlockOf
<1> QED
  BY <1>1, <1>3

-----------------------------------------------------------------------------
(* The worker's crash.  Until a brace closes nothing block_level is the    *)
(* depth, and an index for a nested block lies inside cmds_.               *)
LevelIsDepth == Matched(lines) => block_level = Depth(lines, Len(lines))
SliceFits == Matched(lines) /\ block_level > 1 => block_start_index <= Len(cmds_)

DepthInv == TypeOK /\ LevelIsDepth /\ SliceFits /\ CrashNeedsUnmatched

(* One more line, while every brace has closed a block: block_level does   *)
(* not wrap, since the text is shorter than size_t counts.                 *)
LEMMA LevelAfter ==
    ASSUME TypeOK, LevelIsDepth, NEW kind \in Kinds, Getline(kind), Matched(lines'),
           block_level' = CASE kind = "open" -> (block_level + 1) % Wrap
                            [] kind = "close" -> (block_level - 1) % Wrap
                            [] OTHER -> block_level
    PROVE  /\ Matched(lines) /\ block_level = Depth(lines, Len(lines))
           /\ block_level' = Depth(lines', Len(lines'))
           /\ kind = "open" => block_level' = block_level + 1
           /\ kind = "close" => block_level > 0 /\ block_level' = block_level - 1
           /\ kind = "cmd" => block_level' = block_level
<1> USE MaxLinesAssumption, WrapAssumption
<1> DEFINE n == Len(lines)
           d == Depth(lines, n)
           e == Depth(lines', n + 1)
<1>1. /\ lines \in Texts /\ n \in Nat /\ n + 1 <= MaxLines /\ lines' = Append(lines, kind)
      /\ block_level \in 0..Wrap - 1
  BY DEF TypeOK, Getline, Texts
<1>2. Len(lines') = n + 1 /\ DOMAIN lines' = 1..n + 1
  BY <1>1, OneMoreLine
<1>3. /\ e = d + (CASE kind = "open" -> 1 [] kind = "close" -> -1 [] OTHER -> 0)
      /\ Matched(lines)
  BY <1>1, DepthStays
<1>4. d \in Int /\ d <= n
  BY <1>1, DepthIs
<1>5. e >= 0
  <2>1. n + 1 \in DOMAIN lines'
    BY <1>1, <1>2
  <2> QED
    BY <2>1 DEF Matched
<1> HIDE DEF n, d, e
<1>6. block_level = d
  BY <1>3 DEF LevelIsDepth, d, n
<1>7. CASE kind = "open"
  <2>1. e = d + 1 /\ d + 1 \in Nat /\ d + 1 < Wrap
    BY <1>1, <1>3, <1>4, <1>6, <1>7
  <2>2. block_level' = d + 1
    BY <1>6, <1>7, <2>1, ModSmall
  <2> QED
    BY <1>2, <1>3, <1>6, <1>7, <2>1, <2>2 DEF d, e, n
<1>8. CASE kind = "close"
  <2>1. e = d - 1 /\ d - 1 \in Nat /\ d - 1 < Wrap /\ d > 0
    BY <1>1, <1>3, <1>4, <1>5, <1>6, <1>8
  <2>2. block_level' = d - 1
    BY <1>6, <1>8, <2>1, ModSmall
  <2> QED
    BY <1>2, <1>3, <1>6, <1>8, <2>1, <2>2 DEF d, e, n
<1>9. CASE kind = "cmd"
  <2>1. e = d /\ block_level' = block_level
    BY <1>3, <1>4, <1>9
  <2> QED
    BY <1>2, <1>3, <1>6, <1>9, <2>1 DEF d, e, n
<1> QED
  BY <1>7, <1>8, <1>9 DEF Kinds

(* The level and the depth change by d, and the text is still matched. *)
LevelMoves(d) ==
    /\ Matched(lines)
    /\ block_level = Depth(lines, Len(lines)) /\ block_level' = Depth(lines', Len(lines'))
    /\ block_level' = block_level + d /\ block_level \in Nat /\ block_level' \in Nat

(* The lines of RunCmds, each with what it does to the level. *)
LEMMA LineOf ==
    ASSUME TypeOK, LevelIsDepth
    PROVE  /\ OpenBlock => Getline("open") /\ (Matched(lines') => LevelMoves(1))
           /\ CloseBlock => Getline("close") /\ (Matched(lines') => LevelMoves(-1))
           /\ Command => Getline("cmd") /\ (Matched(lines') => LevelMoves(0))
<1>1. "open" \in Kinds /\ "close" \in Kinds /\ "cmd" \in Kinds /\ block_level \in Nat
  BY WrapAssumption DEF Kinds, TypeOK
<1>2. ASSUME OpenBlock PROVE Getline("open") /\ (Matched(lines') => LevelMoves(1))
  BY <1>1, <1>2, LevelAfter DEF OpenBlock, LevelMoves
<1>3. ASSUME CloseBlock PROVE Getline("close") /\ (Matched(lines') => LevelMoves(-1))
  BY <1>1, <1>3, LevelAfter DEF CloseBlock, LevelMoves
<1>4. ASSUME Command PROVE Getline("cmd") /\ (Matched(lines') => LevelMoves(0))
  BY <1>1, <1>4, LevelAfter DEF Command, LevelMoves
<1> QED
  BY <1>2, <1>3, <1>4

(* The depth invariant. *)
LEMMA DepthStep == ASSUME IInv, DepthInv, [Next]_vars PROVE DepthInv'
<1>1. TypeOK' /\ TypeOK
  BY StepInv DEF IInv
<1>2. ASSUME lines' = lines, block_level' = block_level, cmds_' = cmds_, crashed' = crashed,
             block_start_index' \in {0, block_start_index}
      PROVE  DepthInv'
  BY <1>1, <1>2, LenCommands DEF DepthInv, TypeOK, LevelIsDepth, SliceFits, CrashNeedsUnmatched
<1>3. CASE NextChunk \/ FlushOnStop \/ UNCHANGED vars
  BY <1>2, <1>3 DEF NextChunk, FlushOnStop, vars, parser
<1>4. ASSUME Matched(lines'), OpenBlock PROVE SliceFits' /\ block_level' = Depth(lines', Len(lines')) /\ ~crashed'
  <2>1. LevelMoves(1) /\ Getline("open")
    BY <1>4, LineOf DEF DepthInv
  <2>2. block_start_index' = Len(cmds_') /\ Len(cmds_') \in Nat /\ crashed' = crashed /\ ~crashed
    BY <1>1, <1>4, <2>1, LenCommands DEF OpenBlock, Getline, TypeOK
  <2> QED
    BY <2>1, <2>2 DEF LevelMoves, SliceFits
<1>5. ASSUME Matched(lines'), CloseBlock
      PROVE  /\ block_level' = Depth(lines', Len(lines')) /\ ~crashed
             /\ block_level' # 0 => block_start_index <= Len(cmds_)
             /\ block_start_index' = block_start_index
  BY <1>1, <1>5, LineOf DEF DepthInv, LevelMoves, SliceFits, CloseBlock, Getline, TypeOK
<1>6. ASSUME Matched(lines'), Command PROVE SliceFits' /\ block_level' = Depth(lines', Len(lines')) /\ ~crashed'
  <2>1. LevelMoves(0) /\ Getline("cmd")
    BY <1>6, LineOf DEF DepthInv
  <2>2. block_start_index' = block_start_index /\ crashed' = crashed /\ ~crashed
    BY <1>6, <2>1 DEF Command, Getline
  <2>3. block_level > 1 => Len(cmds_') = Len(cmds_) + 1
    BY <1>1, <1>6, <2>1 DEF Command, TypeOK, Commands, LevelMoves
  <2> QED
    BY <1>1, <2>1, <2>2, <2>3, LenCommands DEF LevelMoves, SliceFits, DepthInv, TypeOK
<1>7. ASSUME RunLine, ~Matched(lines') PROVE DepthInv'
  BY <1>1, <1>7 DEF DepthInv, LevelIsDepth, SliceFits, CrashNeedsUnmatched
<1>8. ASSUME RunLine, Matched(lines') PROVE DepthInv'
  <2>1. CASE OpenBlock \/ Command
    BY <1>1, <1>4, <1>6, <1>8, <2>1 DEF DepthInv, LevelIsDepth, CrashNeedsUnmatched
  <2>2. CASE CloseOuter
    BY <1>1, <1>5, <1>8, <2>2 DEF CloseOuter, DepthInv, LevelIsDepth, SliceFits, CrashNeedsUnmatched
  <2>3. CASE CloseNested
    BY <1>1, <1>5, <1>8, <2>3 DEF CloseNested, DepthInv, LevelIsDepth, SliceFits, CrashNeedsUnmatched
  <2>4. CASE CloseOutOfRange
    BY <1>1, <1>5, <1>8, <2>4, LenCommands DEF CloseOutOfRange, TypeOK
  <2> QED
    BY <1>8, <2>1, <2>2, <2>3, <2>4 DEF RunLine
<1> QED
  BY <1>3, <1>7, <1>8 DEF Next

(* The invariant of the depth. *)
LEMMA DepthInductive == Spec => [](IInv /\ DepthInv)
<1>1. Init => IInv /\ DepthInv
  <2> SUFFICES ASSUME Init PROVE IInv /\ DepthInv
    OBVIOUS
  <2>1. IInv /\ lines = <<>> /\ Len(lines) = 0 /\ block_level = 0 /\ ~crashed
    BY InitInv DEF Init
  <2>2. Depth(lines, 0) = 0
    BY DepthIs
  <2> QED
    BY <2>1, <2>2 DEF IInv, DepthInv, LevelIsDepth, SliceFits, CrashNeedsUnmatched
<1>2. IInv /\ DepthInv /\ [Next]_vars => (IInv /\ DepthInv)'
  BY StepInv, DepthStep
<1> QED
  BY <1>1, <1>2, PTL DEF Spec

(* The worker dies of a slice out of range only in a text with a brace     *)
(* that closes nothing, whatever came before and in whatever chunks.       *)
THEOREM CrashesUnmatchedOnly == Spec => []CrashNeedsUnmatched
<1>1. DepthInv => CrashNeedsUnmatched
  BY DEF DepthInv
<1> QED
  BY DepthInductive, <1>1, PTL

-----------------------------------------------------------------------------
(* Nested blocks that are saved.  When only commands came since an opening *)
(* brace of this chunk, they are the end of cmds_ from block_start_index.  *)
OpenSince(q) ==
    /\ lines[q] = "open" /\ chunk_start < q
    /\ \A r \in q + 1..Len(lines) : lines[r] = "cmd"
NestInv ==
    Matched(lines) => \A q \in 1..Len(lines) : OpenSince(q) =>
        /\ block_level > 0
        /\ Len(cmds_) = block_start_index + (Len(lines) - q)
        /\ \A k \in 1..Len(lines) - q : cmds_[block_start_index + k] = q + k

(* A brace that closes a block has an opening one. *)
LEMMA MatchingIs ==
    ASSUME NEW s, NEW p \in Nat \ {0}, s[p] = "close", Depth(s, p) >= 0
    PROVE  Matching(s, p) \in 1..p /\ s[Matching(s, p)] = "open"
<1> DEFINE J == {j \in 0..p - 1 : Depth(s, j) <= Depth(s, p)}
           N == {q \in 1..p : s[q] = "open" /\ Depth(s, q - 1) = Depth(s, p)}
<1>1. p - 1 \in Nat /\ (p - 1) + 1 = p /\ p \in Nat
  OBVIOUS
<1>2. \A i \in Nat : Depth(s, i) \in Int
  BY DepthIs
<1>3. Depth(s, p) = Depth(s, p - 1) - 1
  <2>1. s[(p - 1) + 1] = "close"
    BY <1>1
  <2>2. Depth(s, (p - 1) + 1) = Depth(s, p - 1) - 1
    BY <1>1, <2>1, DepthIs
  <2> QED
    BY <1>1, <2>2
<1>4. J \in SUBSET (0..p - 1) /\ 0 \in J
  BY <1>1, DepthIs
<1>5. PICK j \in J : \A i \in J : i <= j
  BY <1>1, <1>4, GreatestOne
<1>6. j \in Nat /\ j <= p - 1 /\ j # p - 1 /\ j + 1 \in 1..p /\ j + 1 <= p - 1
  BY <1>1, <1>2, <1>3, <1>5
<1>7. Depth(s, j + 1) > Depth(s, p) /\ Depth(s, j) <= Depth(s, p)
  <2>1. j + 1 \in 0..p - 1 /\ j + 1 \notin J
    BY <1>5, <1>6
  <2> QED
    BY <1>2, <1>6, <2>1
<1>8. s[j + 1] = "open" /\ Depth(s, j) = Depth(s, p)
  <2>1. /\ s[j + 1] = "open" => Depth(s, j + 1) = Depth(s, j) + 1
        /\ s[j + 1] = "close" => Depth(s, j + 1) = Depth(s, j) - 1
        /\ s[j + 1] \notin {"open", "close"} => Depth(s, j + 1) = Depth(s, j)
    BY <1>6, DepthIs
  <2>2. Depth(s, j) \in Int /\ Depth(s, j + 1) \in Int /\ Depth(s, p) \in Int
    BY <1>1, <1>2, <1>6
  <2>3. s[j + 1] = "open"
    BY <1>7, <2>1, <2>2
  <2> QED
    BY <1>7, <2>1, <2>2, <2>3
<1>9. N \in SUBSET (0..p) /\ j + 1 \in N
  <2>1. (j + 1) - 1 = j
    BY <1>6
  <2> QED
    BY <1>6, <1>8, <2>1
<1>10. Max(N) \in N
  BY <1>1, <1>9, GreatestOne
<1> QED
  BY <1>10 DEF Matching

(* It stays the same when the text goes on. *)
LEMMA MatchingStays ==
    ASSUME NEW s \in Texts, NEW kind \in Kinds, NEW p \in 0..Len(s)
    PROVE  Matching(Append(s, kind), p) = Matching(s, p)
<1> DEFINE t == Append(s, kind)
<1>1. Len(s) \in Nat /\ \A i \in 1..Len(s) : t[i] = s[i]
  BY OneMoreLine
<1>2. \A i \in 0..Len(s) : Depth(t, i) = Depth(s, i)
  BY DepthStays
<1> HIDE DEF t
<1>3. \A q \in 1..p : t[q] = s[q] /\ Depth(t, q - 1) = Depth(s, q - 1) /\ Depth(t, p) = Depth(s, p)
  <2>1. \A q \in 1..p : q \in 1..Len(s) /\ q - 1 \in 0..Len(s)
    BY <1>1
  <2> QED
    BY <1>1, <1>2, <2>1
<1>4. {q \in 1..p : t[q] = "open" /\ Depth(t, q - 1) = Depth(t, p)}
        = {q \in 1..p : s[q] = "open" /\ Depth(s, q - 1) = Depth(s, p)}
  BY <1>3
<1> QED
  BY <1>4 DEF Matching, t

(* What NestedSaveIsBlock says of one event, ... *)
SavedWhole(text, e) ==
    LET p == e.at
        q == Matching(text, p)
    IN  (/\ Matched(text) /\ e.event = "event_save"
         /\ e.chunk < q
         /\ \A r \in (q + 1)..(p - 1) : text[r] = "cmd")
        => ToSet(e.cmds) = {r \in CommandLines(text) : q < r /\ r < p}

(* ... it still says when the text goes on. *)
LEMMA SavedWholeStays ==
    ASSUME NEW s \in Texts, NEW kind \in Kinds, NEW e \in Event,
           e.event = "event_save" => e.at \in 1..Len(s) /\ s[e.at] = "close",
           SavedWhole(s, e)
    PROVE  SavedWhole(Append(s, kind), e)
<1> DEFINE t == Append(s, kind)
           p == e.at
           q == Matching(t, p)
<1> SUFFICES ASSUME Matched(t), e.event = "event_save", e.chunk < q,
                    \A r \in (q + 1)..(p - 1) : t[r] = "cmd"
             PROVE  ToSet(e.cmds) = {r \in CommandLines(t) : q < r /\ r < p}
  BY DEF SavedWhole
<1>1. /\ Len(s) \in Nat /\ \A i \in 1..Len(s) : t[i] = s[i]
      /\ DOMAIN s = 1..Len(s) /\ DOMAIN t = 1..Len(s) + 1 /\ Matched(s)
  BY OneMoreLine, DepthStays
<1>2. p \in 1..Len(s) /\ s[p] = "close"
  OBVIOUS
<1>3. q = Matching(s, p)
  BY <1>1, <1>2, MatchingStays
<1>4. q \in 1..p
  <2>1. p \in Nat \ {0} /\ Depth(s, p) >= 0
    BY <1>1, <1>2 DEF Matched
  <2> QED
    BY <1>2, <1>3, <2>1, MatchingIs
<1> HIDE DEF t, q, p
<1>5. {r \in CommandLines(t) : q < r /\ r < p} = {r \in CommandLines(s) : q < r /\ r < p}
  BY <1>1, <1>2, <1>4 DEF CommandLines
<1>6. \A r \in (q + 1)..(p - 1) : s[r] = "cmd"
  <2> SUFFICES ASSUME NEW r \in (q + 1)..(p - 1) PROVE s[r] = "cmd"
    OBVIOUS
  <2>1. r \in 1..Len(s) /\ t[r] = "cmd"
    BY <1>1, <1>2, <1>4
  <2> QED
    BY <1>1, <2>1
<1>7. ToSet(e.cmds) = {r \in CommandLines(s) : Matching(s, p) < r /\ r < p}
  BY <1>1, <1>3, <1>6 DEF SavedWhole, p
<1> QED
  BY <1>3, <1>5, <1>7

(* One step keeps what is known of the commands since an opening brace. *)
LEMMA NestStep == ASSUME IInv, DepthInv, NestInv, [Next]_vars PROVE NestInv'
<1>0. /\ TypeOK /\ lines \in Texts /\ Len(lines) \in Nat /\ chunk_start \in 0..MaxLines
      /\ cmds_ \in Commands /\ Len(cmds_) \in Nat /\ block_start_index \in Nat
  BY LenCommands DEF IInv, TypeOK, Texts
<1>1. CASE UNCHANGED <<lines, cmds_, block_level, block_start_index, chunk_start>>
  BY <1>1 DEF NestInv, OpenSince
<1>2. CASE NextChunk
  <2>1. \A q \in 1..Len(lines) : ~(chunk_start' < q)
    BY <1>0, <1>2 DEF NextChunk
  <2> QED
    BY <1>2, <2>1 DEF NextChunk, NestInv, OpenSince
<1>3. ASSUME NEW kind \in Kinds, Getline(kind), Matched(lines'), NEW q \in 1..Len(lines'),
             lines'[q] = "open", chunk_start' < q,
             \A r \in q + 1..Len(lines') : lines'[r] = "cmd"
      PROVE  /\ kind = "close" => FALSE
             /\ kind = "open" => q = Len(lines')
             /\ kind = "cmd" => q \in 1..Len(lines) /\ OpenSince(q)
             /\ Len(lines') = Len(lines) + 1
  <2>1. /\ lines' = Append(lines, kind) /\ Len(lines') = Len(lines) + 1
        /\ \A i \in 1..Len(lines) : lines'[i] = lines[i]
        /\ lines'[Len(lines) + 1] = kind /\ chunk_start' = chunk_start
    BY <1>0, <1>3, OneMoreLine DEF Getline
  <2>2. q = Len(lines) + 1 \/ (q \in 1..Len(lines) /\ Len(lines) + 1 \in q + 1..Len(lines'))
    BY <1>0, <2>1
  <2>3. CASE q = Len(lines) + 1
    BY <1>3, <2>1, <2>3
  <2>4. CASE q \in 1..Len(lines) /\ Len(lines) + 1 \in q + 1..Len(lines')
    <3>1. kind = "cmd"
      BY <1>3, <2>1, <2>4
    <3>2. \A r \in q + 1..Len(lines) : r \in 1..Len(lines) /\ r \in q + 1..Len(lines')
      BY <1>0, <2>1, <2>4
    <3> QED
      BY <1>3, <2>1, <2>4, <3>1, <3>2 DEF OpenSince
  <2> QED
    BY <2>2, <2>3, <2>4
<1>4. CASE RunLine
  <2> SUFFICES ASSUME Matched(lines'), NEW q \in 1..Len(lines'),
                      lines'[q] = "open", chunk_start' < q,
                      \A r \in q + 1..Len(lines') : lines'[r] = "cmd"
               PROVE  /\ block_level' > 0
                      /\ Len(cmds_') = block_start_index' + (Len(lines') - q)
                      /\ \A k \in 1..Len(lines') - q : cmds_'[block_start_index' + k] = q + k
    BY DEF NestInv, OpenSince
  <2>0. "open" \in Kinds /\ "close" \in Kinds /\ "cmd" \in Kinds
    BY DEF Kinds
  <2>1. CASE OpenBlock
    <3>1. LevelMoves(1) /\ Getline("open")
      BY <2>1, LineOf DEF DepthInv
    <3>2. q = Len(lines') /\ q \in Nat /\ Len(lines') = Len(lines) + 1
      BY <1>0, <1>3, <2>0, <3>1
    <3>3. block_start_index' = Len(cmds_') /\ Len(cmds_') \in Nat /\ block_level' > 0
      BY <1>0, <2>1, <3>1, EmptyCommands DEF OpenBlock, LevelMoves
    <3>4. Len(lines') - q = 0
      BY <1>0, <3>2
    <3> QED
      BY <3>3, <3>4
  <2>2. CASE CloseBlock
    <3>1. Getline("close")
      BY <2>2 DEF CloseBlock
    <3> QED
      BY <1>3, <2>0, <3>1
  <2>3. CASE Command
    <3>1. LevelMoves(0) /\ Getline("cmd")
      BY <2>3, LineOf DEF DepthInv
    <3>2. q \in 1..Len(lines) /\ OpenSince(q) /\ Len(lines') = Len(lines) + 1
      BY <1>3, <2>0, <3>1
    <3>3. /\ block_level > 0 /\ Len(cmds_) = block_start_index + (Len(lines) - q)
          /\ \A k \in 1..Len(lines) - q : cmds_[block_start_index + k] = q + k
      BY <3>1, <3>2 DEF NestInv, LevelMoves
    <3>4. block_level' = block_level /\ block_level \in Nat
      BY <3>1 DEF LevelMoves
    <3>5. cmds_' = Append(cmds_, Len(lines) + 1) /\ block_start_index' = block_start_index
      BY <2>3, <3>2, <3>3, <3>4 DEF Command
    <3>6. Len(lines) + 1 \in 1..MaxLines
      BY <1>0, <3>1, MaxLinesAssumption DEF Getline
    <3>7. /\ Len(cmds_') = Len(cmds_) + 1 /\ cmds_'[Len(cmds_) + 1] = Len(lines) + 1
          /\ \A i \in 1..Len(cmds_) : cmds_'[i] = cmds_[i]
      BY <1>0, <3>5, <3>6, AppendProperties DEF Commands
    <3>8. Len(cmds_') = block_start_index' + (Len(lines') - q)
      BY <1>0, <3>2, <3>3, <3>5, <3>7
    <3>9. ASSUME NEW k \in 1..Len(lines') - q PROVE cmds_'[block_start_index' + k] = q + k
      <4>1. CASE k \in 1..Len(lines) - q
        <5>1. block_start_index + k \in 1..Len(cmds_)
          BY <1>0, <3>2, <3>3, <4>1
        <5> QED
          BY <3>3, <3>5, <3>7, <4>1, <5>1
      <4>2. CASE k = Len(lines) + 1 - q
        <5>1. block_start_index + k = Len(cmds_) + 1 /\ q + k = Len(lines) + 1
          BY <1>0, <3>2, <3>3, <4>2
        <5> QED
          BY <3>5, <3>7, <5>1
      <4> QED
        BY <1>0, <3>2, <4>1, <4>2
    <3> QED
      BY <3>3, <3>4, <3>8, <3>9
  <2> QED
    BY <1>4, <2>1, <2>2, <2>3 DEF RunLine, CloseOuter, CloseNested, CloseOutOfRange
<1> QED
  BY <1>1, <1>2, <1>4 DEF Next, FlushOnStop, vars, parser

(* The brace that an event_save was sent for was read, and what it saved   *)
(* is the block of that brace.                                             *)
SavedAt(text, e) ==
    /\ e.event = "event_save" => e.at \in 1..Len(text) /\ text[e.at] = "close"
    /\ SavedWhole(text, e)
NestedSavesInv == \A i \in DOMAIN events : SavedAt(lines, events[i])

(* The text goes on: what was saved stays saved. *)
LEMMA SavedAtStays ==
    ASSUME NEW s \in Texts, NEW kind \in Kinds, NEW e \in Event, SavedAt(s, e)
    PROVE  SavedAt(Append(s, kind), e)
<1>1. /\ Len(s) \in Nat /\ Len(Append(s, kind)) = Len(s) + 1
      /\ \A i \in 1..Len(s) : Append(s, kind)[i] = s[i]
  BY OneMoreLine
<1>2. SavedWhole(Append(s, kind), e)
  BY SavedWholeStays DEF SavedAt
<1> QED
  BY <1>1, <1>2 DEF SavedAt

(* notify leaves the earlier events and adds its own. *)
LEMMA NotifiedIs ==
    ASSUME TypeOK, NEW event \in EventKinds, NEW cmds \in Commands,
           Len(lines') \in 0..MaxLines, notify(event, cmds)
    PROVE  LET e == [event |-> event, cmds |-> cmds, at |-> Len(lines'), chunk |-> chunk_start] IN
           /\ Len(events) \in Nat /\ DOMAIN events = 1..Len(events)
           /\ DOMAIN events' = 1..Len(events) + 1
           /\ \A i \in DOMAIN events : events'[i] = events[i]
           /\ events'[Len(events) + 1] = e
<1> DEFINE e == [event |-> event, cmds |-> cmds, at |-> Len(lines'), chunk |-> chunk_start]
<1>1. e \in Event /\ events \in Seq(Event)
  BY DEF TypeOK, Event
<1>2. events' = Append(events, e)
  BY DEF notify
<1> HIDE DEF e
<1>3. events' \in Seq(Event) /\ Len(events') = Len(events) + 1
      /\ \A i \in 1..Len(events') : events'[i] = IF i <= Len(events) THEN events[i] ELSE e
  BY <1>1, <1>2, AppendProperties
<1>4. Len(events) \in Nat /\ DOMAIN events = 1..Len(events) /\ DOMAIN events' = 1..Len(events) + 1
  BY <1>1, <1>3
<1>5. /\ \A i \in DOMAIN events : events'[i] = events[i]
      /\ events'[Len(events) + 1] = e
  BY <1>3, <1>4
<1> QED
  BY <1>4, <1>5 DEF e

(* The nested block that a brace closes is what CloseNested saves. *)
LEMMA ClosedIsSaved ==
    ASSUME IInv, DepthInv, NestInv, CloseNested
    PROVE  SavedAt(lines', [event |-> "event_save", cmds |-> Slice,
                            at |-> Len(lines'), chunk |-> chunk_start])
<1> DEFINE n == Len(lines)
           e == [event |-> "event_save", cmds |-> Slice, at |-> Len(lines'), chunk |-> chunk_start]
           q == Matching(lines', n + 1)
<1>1. Getline("close") /\ "close" \in Kinds /\ TypeOK /\ lines \in Texts /\ cmds_ \in Commands
      /\ block_start_index \in Nat
  BY DEF CloseNested, CloseBlock, Kinds, IInv, TypeOK, Texts
<1>2. /\ lines' = Append(lines, "close") /\ n \in Nat /\ Len(lines') = n + 1
      /\ \A i \in 1..n : lines'[i] = lines[i]
      /\ lines'[n + 1] = "close" /\ DOMAIN lines = 1..n /\ DOMAIN lines' = 1..n + 1
  BY <1>1, OneMoreLine DEF Getline
<1>3. e.event = "event_save" /\ e.cmds = Slice /\ e.at = n + 1 /\ e.chunk = chunk_start
  BY <1>2
<1> HIDE DEF n, e
<1>4. SUFFICES ASSUME Matched(lines'), chunk_start < q, \A r \in (q + 1)..n : lines'[r] = "cmd"
               PROVE  ToSet(Slice) = {r \in CommandLines(lines') : q < r /\ r < n + 1}
  <2>1. PICK p \in 1..Len(lines') : p = n + 1
    BY <1>2
  <2>2. e.at \in 1..Len(lines') /\ lines'[e.at] = "close"
    BY <1>2, <1>3
  <2>3. p - 1 = n
    BY <1>2, <2>1
  <2>4. SUFFICES ASSUME Matched(lines'), chunk_start < Matching(lines', p),
                        \A r \in (Matching(lines', p) + 1)..(p - 1) : lines'[r] = "cmd"
                 PROVE  ToSet(Slice) = {r \in CommandLines(lines') : Matching(lines', p) < r /\ r < p}
    <3>1. SavedWhole(lines', e)
      BY <1>3, <2>1, <2>4 DEF SavedWhole
    <3> QED
      BY <2>2, <3>1 DEF SavedAt, e, n
  <2>5. q = Matching(lines', p)
    BY <2>1
  <2>6. \A r \in (q + 1)..n : lines'[r] = "cmd"
    BY <2>3, <2>4, <2>5
  <2> QED
    BY <1>4, <2>1, <2>4, <2>5, <2>6
<1>5. q \in 1..n + 1 /\ lines'[q] = "open"
  <2>1. PICK p \in Nat \ {0} : p = n + 1
    BY <1>2
  <2>2. Depth(lines', p) >= 0
    BY <1>2, <1>4, <2>1 DEF Matched
  <2>3. lines'[p] = "close"
    BY <1>2, <2>1
  <2> QED
    BY <2>1, <2>2, <2>3, MatchingIs
<1> HIDE DEF q
<1>6. q \in 1..n /\ q # n + 1
  BY <1>2, <1>5
<1>7. OpenSince(q)
  <2>1. \A r \in q + 1..n : lines[r] = "cmd"
    BY <1>2, <1>4, <1>6
  <2> QED
    BY <1>2, <1>4, <1>5, <1>6, <2>1 DEF OpenSince, n
<1>8. Matched(lines)
  BY <1>1, <1>2, <1>4, DepthStays
<1>9. Len(cmds_) = block_start_index + (n - q) /\ \A k \in 1..n - q : cmds_[block_start_index + k] = q + k
  BY <1>6, <1>7, <1>8 DEF NestInv, n
<1>10. Len(Slice) = n - q /\ \A k \in 1..n - q : Slice[k] = q + k
  <2> DEFINE L == 1..MaxLines
  <2>1. cmds_ \in Seq(L) /\ Len(cmds_) \in Nat
    BY <1>1, LenCommands DEF Commands
  <2> HIDE DEF L
  <2>2. PICK a \in Nat : a = block_start_index + 1
    BY <1>1
  <2>3. \A j \in a..Len(cmds_) : cmds_[j] \in L
    BY <2>1, <2>2, <1>1
  <2>4. Slice = SubSeq(cmds_, a, Len(cmds_))
    BY <2>2 DEF Slice
  <2>5. /\ Len(Slice) = IF a <= Len(cmds_) THEN Len(cmds_) - a + 1 ELSE 0
        /\ \A i \in 1..Len(cmds_) - a + 1 : Slice[i] = cmds_[a + i - 1]
    BY <2>1, <2>2, <2>3, <2>4, SubSeqProperties
  <2>6. Len(Slice) = n - q
    BY <1>1, <1>2, <1>6, <1>9, <2>2, <2>5
  <2>7. ASSUME NEW k \in 1..n - q PROVE Slice[k] = q + k
    <3>1. k \in 1..Len(cmds_) - a + 1 /\ a + k - 1 = block_start_index + k
      BY <1>1, <1>2, <1>6, <1>9, <2>2
    <3> QED
      BY <1>9, <2>5, <3>1
  <2> QED
    BY <2>6, <2>7
<1>11. ToSet(Slice) = q + 1..n
  <2>1. Slice \in Commands
    BY <1>1, SliceType DEF CloseNested, Slice
  <2>2. ToSet(Slice) = {Slice[k] : k \in 1..n - q}
    BY <1>10, <2>1 DEF ToSet, Commands
  <2>3. {Slice[k] : k \in 1..n - q} = {q + k : k \in 1..n - q}
    BY <1>10
  <2>4. \A r \in q + 1..n : r - q \in 1..n - q /\ q + (r - q) = r
    BY <1>2, <1>6
  <2>5. \A k \in 1..n - q : q + k \in q + 1..n
    BY <1>2, <1>6
  <2>6. {q + k : k \in 1..n - q} = q + 1..n
    BY <2>4, <2>5
  <2> QED
    BY <2>2, <2>3, <2>6
<1>12. {r \in CommandLines(lines') : q < r /\ r < n + 1} = q + 1..n
  BY <1>2, <1>4, <1>6 DEF CommandLines
<1> QED
  BY <1>11, <1>12

(* One step keeps the saved blocks. *)
LEMMA NestedSavesStep == ASSUME IInv, DepthInv, NestInv, NestedSavesInv, [Next]_vars PROVE NestedSavesInv'
<1>1. TypeOK /\ TypeOK' /\ lines \in Texts /\ lines' \in Texts /\ Len(lines') \in 0..MaxLines /\ cmds_ \in Commands
      /\ events \in Seq(Event) /\ \A i \in DOMAIN events : events[i] \in Event
  BY StepInv DEF IInv, TypeOK, Texts
<1>2. (* the earlier events *)
      ASSUME lines' = lines \/ \E kind \in Kinds : lines' = Append(lines, kind)
      PROVE  \A i \in DOMAIN events : SavedAt(lines', events[i])
  BY <1>1, <1>2, SavedAtStays DEF NestedSavesInv
<1>3. (* the new one *)
      ASSUME lines' = lines \/ \E kind \in Kinds : lines' = Append(lines, kind),
             NEW event \in EventKinds, NEW cmds \in Commands, notify(event, cmds),
             SavedAt(lines', [event |-> event, cmds |-> cmds, at |-> Len(lines'), chunk |-> chunk_start])
      PROVE  NestedSavesInv'
  <2> DEFINE e == [event |-> event, cmds |-> cmds, at |-> Len(lines'), chunk |-> chunk_start]
  <2>1. /\ Len(events) \in Nat /\ DOMAIN events = 1..Len(events)
        /\ DOMAIN events' = 1..Len(events) + 1
        /\ \A i \in DOMAIN events : events'[i] = events[i]
        /\ events'[Len(events) + 1] = e
    BY <1>1, <1>3, NotifiedIs
  <2>2. SavedAt(lines', e)
    BY <1>3
  <2> HIDE DEF e
  <2>3. \A i \in 1..Len(events) + 1 : i \in DOMAIN events \/ i = Len(events) + 1
    BY <2>1
  <2>4. \A i \in 1..Len(events) + 1 : SavedAt(lines', events'[i])
    BY <1>2, <1>3, <2>1, <2>2, <2>3
  <2> QED
    BY <2>1, <2>4 DEF NestedSavesInv
<1>4. (* a printed block, or no event at all *)
      ASSUME lines' = lines \/ \E kind \in Kinds : lines' = Append(lines, kind),
             events' = events \/ \E cmds \in Commands : notify("event_print_save", cmds)
      PROVE  NestedSavesInv'
  <2>1. CASE events' = events
    BY <1>2, <1>4, <2>1 DEF NestedSavesInv
  <2>2. ASSUME NEW cmds \in Commands, notify("event_print_save", cmds) PROVE NestedSavesInv'
    <3>1. SavedAt(lines', [event |-> "event_print_save", cmds |-> cmds,
                           at |-> Len(lines'), chunk |-> chunk_start])
      BY DEF SavedAt, SavedWhole
    <3> QED
      BY <1>3, <1>4, <2>2, <3>1, EventNames
  <2> QED
    BY <1>4, <2>1, <2>2
<1>5. CASE NextChunk \/ UNCHANGED vars
  BY <1>4, <1>5 DEF NextChunk, vars
<1>6. CASE FlushOnStop
  BY <1>1, <1>4, <1>6 DEF FlushOnStop
<1>7. CASE OpenBlock
  BY <1>1, <1>4, <1>7 DEF OpenBlock, Getline, Kinds
<1>8. CASE CloseOuter
  BY <1>1, <1>4, <1>8 DEF CloseOuter, CloseBlock, Getline, Kinds
<1>9. CASE CloseNested
  <2>1. lines' = Append(lines, "close") /\ "close" \in Kinds /\ notify("event_save", Slice)
    BY <1>9 DEF CloseNested, CloseBlock, Getline, Kinds
  <2>2. Slice \in Commands
    BY <1>1, <1>9, SliceType DEF CloseNested, Slice, TypeOK
  <2> QED
    BY <1>3, <1>9, <2>1, <2>2, ClosedIsSaved, EventNames
<1>10. CASE CloseOutOfRange
  BY <1>4, <1>10 DEF CloseOutOfRange, CloseBlock, Getline, Kinds
<1>11. CASE Command
  <2>1. lines' = Append(lines, "cmd") /\ "cmd" \in Kinds
    BY <1>11 DEF Command, Getline, Kinds
  <2>2. Len(lines') \in 1..MaxLines
    <3>1. Len(lines') = Len(lines) + 1 /\ Len(lines) \in Nat
      BY <1>1, <2>1, OneMoreLine
    <3> QED
      BY <1>1, <3>1
  <2>3. Append(cmds_, Len(lines')) \in Commands
    BY <1>1, <2>2, EmptyCommands, ConcatAppend
  <2>4. events' = events \/ notify("event_print_save", Append(cmds_, Len(lines')))
    BY <1>11 DEF Command
  <2> QED
    BY <1>4, <2>1, <2>3, <2>4
<1> QED
  BY <1>5, <1>6, <1>7, <1>8, <1>9, <1>10, <1>11 DEF Next, RunLine

(* What event_save hands the savers is the nested block that was closed,   *)
(* if it holds no other block and came in one chunk: the one index that    *)
(* RunCmds keeps is enough for these.                                      *)
THEOREM NestedSavesWhole == Spec => []NestedSaveIsBlock
<1>1. Init => NestInv /\ NestedSavesInv
  BY DEF Init, NestInv, NestedSavesInv
<1>2. IInv /\ DepthInv /\ NestInv /\ NestedSavesInv /\ [Next]_vars => (NestInv /\ NestedSavesInv)'
  BY NestStep, NestedSavesStep
<1>3. NestedSavesInv => NestedSaveIsBlock
  BY DEF NestedSavesInv, SavedAt, SavedWhole, NestedSaveIsBlock
<1> QED
  BY DepthInductive, <1>1, <1>2, <1>3, PTL DEF Spec

-----------------------------------------------------------------------------
(* The blocks that are printed.  The commands of the block that a next     *)
(* command would belong to: cmds_, as RunCmds collects it.                 *)
Collected(text) == {p \in CommandLines(text) : BlockOf(text, p) = Current(text)}

(* All blocks but this one are finished.  *)
OthersFinished(text) ==
    \A p \in CommandLines(text) : Finished(text, FALSE, p) <=> BlockOf(text, p) # Current(text)

(* ... and the same commands after one more line. *)
WithLine(text, kind) == Collected(text) \union {p \in {Len(text) + 1} : kind = "cmd"}

(* Counting commands in groups. *)
LEMMA GroupStep ==
    ASSUME NEW a \in Nat, NEW b \in Nat \ {0}
    PROVE  /\ a % b \in 0..b - 1
           /\ (a % b) + 1 < b => (a + 1) % b = (a % b) + 1 /\ (a + 1) \div b = a \div b
           /\ (a % b) + 1 = b => (a + 1) % b = 0 /\ (a + 1) \div b = (a \div b) + 1
OBVIOUS

(* A group begins with its first command. *)
LEMMA GroupOrder ==
    ASSUME NEW a \in Nat, NEW b \in Nat \ {0}, NEW c \in Nat, c < a, a % b = 0
    PROVE  c \div b # a \div b
OBVIOUS

(* The blocks of the commands after one more line. *)
LEMMA BlocksAfter ==
    ASSUME NEW s \in Texts, NEW kind \in Kinds
    PROVE  LET t == Append(s, kind) IN
           /\ CommandLines(t) = CommandLines(s) \union {p \in {Len(s) + 1} : kind = "cmd"}
           /\ \A p \in CommandLines(s) : p \in 1..Len(s) /\ s[p] = "cmd" /\ BlockOf(t, p) = BlockOf(s, p)
           /\ kind = "cmd" => BlockOf(t, Len(s) + 1) = Current(s)
           /\ \A p \in CommandLines(t) : BlockOf(t, p) = Current(s) => Members(t, p) = WithLine(s, kind)
           /\ \A p \in CommandLines(s) : BlockOf(s, p) # Current(s) => Members(t, p) = Members(s, p)
<1> DEFINE t == Append(s, kind)
           m == Len(s) + 1
<1>1. /\ Len(s) \in Nat /\ \A i \in 1..Len(s) : t[i] = s[i]
      /\ t[m] = kind
      /\ DOMAIN s = 1..Len(s) /\ DOMAIN t = 1..Len(s) + 1 /\ 1..Len(s) + 1 = 1..Len(s) \union {m}
  BY OneMoreLine
<1>2. kind = "cmd" => BlockOf(t, m) = Current(s)
  BY NextCommand
<1>3. \A p \in 1..Len(s) : BlockOf(t, p) = BlockOf(s, p)
  BY BlockStays
<1> HIDE DEF t, m
<1>4. CommandLines(t) = CommandLines(s) \union {p \in {m} : kind = "cmd"}
  BY <1>1 DEF CommandLines
<1>5. \A p \in CommandLines(s) : p \in 1..Len(s) /\ s[p] = "cmd" /\ BlockOf(t, p) = BlockOf(s, p)
  BY <1>1, <1>3 DEF CommandLines
<1>6. ASSUME NEW p \in CommandLines(t), BlockOf(t, p) = Current(s) PROVE Members(t, p) = WithLine(s, kind)
  BY <1>2, <1>4, <1>5, <1>6 DEF Members, WithLine, Collected, m
<1>7. ASSUME NEW p \in CommandLines(s), BlockOf(s, p) # Current(s) PROVE Members(t, p) = Members(s, p)
  BY <1>2, <1>4, <1>5, <1>7 DEF Members
<1> QED
  BY <1>2, <1>4, <1>5, <1>6, <1>7 DEF t, m

(* A finished block stays finished. *)
LEMMA FinishedStays ==
    ASSUME NEW s \in Texts, NEW kind \in Kinds, NEW p \in CommandLines(s),
           BlockOf(s, p) # Current(s), Finished(s, FALSE, p)
    PROVE  Finished(Append(s, kind), FALSE, p)
<1> DEFINE t == Append(s, kind)
<1>1. /\ Len(s) \in Nat /\ Len(t) = Len(s) + 1 /\ \A i \in 1..Len(s) : t[i] = s[i]
  BY OneMoreLine
<1>2. \A i \in 0..Len(s) : Depth(t, i) = Depth(s, i)
  BY DepthStays
<1>3. Members(t, p) = Members(s, p) /\ p \in 1..Len(s)
  BY BlocksAfter
<1> HIDE DEF t
<1>4. \A r \in p..Len(s) : r \in p..Len(t) /\ t[r] = s[r] /\ Depth(t, r) = Depth(s, r)
  BY <1>1, <1>2, <1>3
<1>5. Depth(t, p) = Depth(s, p)
  BY <1>1, <1>2, <1>3
<1>6. Finished(t, FALSE, p)
  BY <1>3, <1>4, <1>5 DEF Finished
<1> QED
  BY <1>6 DEF t

(* A line that finishes the block being collected, ... *)
LEMMA BlockEnds ==
    ASSUME NEW s \in Texts, NEW kind \in Kinds, OthersFinished(s),
           LET t == Append(s, kind) IN
           \A p \in CommandLines(t) : /\ BlockOf(t, p) = Current(s) => Finished(t, FALSE, p)
                                      /\ BlockOf(t, p) # Current(t)
    PROVE  LET t == Append(s, kind) IN
           /\ Blocks(t, FALSE) = Blocks(s, FALSE) \union ({WithLine(s, kind)} \ {{}})
           /\ OthersFinished(t) /\ Collected(t) = {}
<1> DEFINE t == Append(s, kind)
           W == WithLine(s, kind)
<1>1. /\ CommandLines(t) = CommandLines(s) \union {p \in {Len(s) + 1} : kind = "cmd"}
      /\ \A p \in CommandLines(s) : BlockOf(t, p) = BlockOf(s, p)
      /\ kind = "cmd" => BlockOf(t, Len(s) + 1) = Current(s)
      /\ \A p \in CommandLines(t) : BlockOf(t, p) = Current(s) => Members(t, p) = W
      /\ \A p \in CommandLines(s) : BlockOf(s, p) # Current(s) => Members(t, p) = Members(s, p)
  BY BlocksAfter
<1>2. \A p \in CommandLines(s) : BlockOf(s, p) # Current(s) => Finished(t, FALSE, p)
  BY FinishedStays DEF OthersFinished
<1>3. \A p \in CommandLines(t) : /\ BlockOf(t, p) = Current(s) => Finished(t, FALSE, p)
                                 /\ BlockOf(t, p) # Current(t)
  OBVIOUS
<1> HIDE DEF t
<1>4. \A p \in CommandLines(t) : Finished(t, FALSE, p)
  BY <1>1, <1>2, <1>3
<1>5. OthersFinished(t) /\ Collected(t) = {}
  BY <1>3, <1>4 DEF OthersFinished, Collected
<1>6. \A p \in CommandLines(t) : p \in Members(t, p)
  BY DEF Members
<1>7. W = {} \/ \E p \in CommandLines(t) : BlockOf(t, p) = Current(s)
  BY <1>1 DEF WithLine, Collected
<1>8. \A p \in CommandLines(t) : BlockOf(t, p) = Current(s) => W # {}
  BY <1>1, <1>6
<1>9. Blocks(t, FALSE) = {Members(t, p) : p \in CommandLines(t)}
  BY <1>4 DEF Blocks
<1>10. Blocks(s, FALSE) = {Members(s, p) : p \in {q \in CommandLines(s) : BlockOf(s, q) # Current(s)}}
  BY DEF Blocks, OthersFinished
<1>11. Blocks(t, FALSE) \subseteq Blocks(s, FALSE) \union ({W} \ {{}})
  <2> SUFFICES ASSUME NEW p \in CommandLines(t) PROVE Members(t, p) \in Blocks(s, FALSE) \union ({W} \ {{}})
    BY <1>9
  <2>1. CASE BlockOf(t, p) = Current(s)
    BY <1>1, <1>8, <2>1
  <2>2. CASE BlockOf(t, p) # Current(s)
    BY <1>1, <1>10, <2>2
  <2> QED
    BY <2>1, <2>2
<1>12. Blocks(s, FALSE) \subseteq Blocks(t, FALSE)
  BY <1>1, <1>9, <1>10
<1>13. W # {} => W \in Blocks(t, FALSE)
  BY <1>1, <1>7, <1>9
<1> HIDE DEF W
<1> QED
  BY <1>5, <1>11, <1>12, <1>13 DEF t, W

(* ... and one that does not. *)
LEMMA BlockGoesOn ==
    ASSUME NEW s \in Texts, NEW kind \in Kinds, OthersFinished(s),
           LET t == Append(s, kind) IN
           /\ \A p \in CommandLines(t) : BlockOf(t, p) = Current(s) => ~Finished(t, FALSE, p)
           /\ Current(t) = Current(s)
    PROVE  LET t == Append(s, kind) IN
           /\ Blocks(t, FALSE) = Blocks(s, FALSE)
           /\ OthersFinished(t) /\ Collected(t) = WithLine(s, kind)
<1> DEFINE t == Append(s, kind)
           W == WithLine(s, kind)
<1>1. /\ CommandLines(t) = CommandLines(s) \union {p \in {Len(s) + 1} : kind = "cmd"}
      /\ \A p \in CommandLines(s) : BlockOf(t, p) = BlockOf(s, p)
      /\ kind = "cmd" => BlockOf(t, Len(s) + 1) = Current(s)
      /\ \A p \in CommandLines(s) : BlockOf(s, p) # Current(s) => Members(t, p) = Members(s, p)
  BY BlocksAfter
<1>2. \A p \in CommandLines(s) : BlockOf(s, p) # Current(s) => Finished(t, FALSE, p)
  BY FinishedStays DEF OthersFinished
<1>3. /\ \A p \in CommandLines(t) : BlockOf(t, p) = Current(s) => ~Finished(t, FALSE, p)
      /\ Current(t) = Current(s)
  OBVIOUS
<1> HIDE DEF t
<1>4. OthersFinished(t)
  BY <1>1, <1>2, <1>3 DEF OthersFinished
<1>5. Collected(t) = W
  BY <1>1, <1>3 DEF Collected, WithLine
<1>6. Blocks(t, FALSE) = {Members(t, p) : p \in {q \in CommandLines(t) : BlockOf(t, q) # Current(s)}}
  BY <1>3, <1>4 DEF Blocks, OthersFinished
<1>7. Blocks(s, FALSE) = {Members(s, p) : p \in {q \in CommandLines(s) : BlockOf(s, q) # Current(s)}}
  BY DEF Blocks, OthersFinished
<1>8. Blocks(t, FALSE) = Blocks(s, FALSE)
  BY <1>1, <1>6, <1>7
<1> QED
  BY <1>4, <1>5, <1>8 DEF t, W

(* Whether the next line finishes the block being collected. *)
Ends(text, kind) ==
    \/ kind = "open" /\ Depth(text, Len(text)) = 0
    \/ kind = "close" /\ Depth(text, Len(text)) = 1
    \/ kind = "cmd" /\ Depth(text, Len(text)) = 0 /\ Cardinality(Collected(text)) + 1 = BulkSize

(* A text as far as it was read: the finished blocks, and how many commands*)
(* of a static block are waiting.                                          *)
TextInv(text) ==
    /\ OthersFinished(text)
    /\ Depth(text, Len(text)) = 0 =>
          Cardinality(Collected(text)) = (Len(text) - LastBrace(text, Len(text))) % BulkSize

(* The collected commands are finitely many, and the next is one more. *)
LEMMA CountWithLine ==
    ASSUME NEW s \in Texts, NEW kind \in Kinds
    PROVE  /\ IsFiniteSet(Collected(s)) /\ Cardinality(Collected(s)) \in Nat
           /\ kind # "cmd" => WithLine(s, kind) = Collected(s)
           /\ kind = "cmd" => /\ WithLine(s, kind) = Collected(s) \union {Len(s) + 1}
                              /\ Cardinality(WithLine(s, kind)) = Cardinality(Collected(s)) + 1
<1>1. /\ Len(s) \in Nat /\ DOMAIN s = 1..Len(s)
  BY OneMoreLine
<1>2. Collected(s) \in SUBSET (1..Len(s)) /\ Len(s) + 1 \notin Collected(s)
  BY <1>1 DEF Collected, CommandLines
<1>3. IsFiniteSet(1..Len(s))
  BY <1>1, FS_Interval
<1>4. IsFiniteSet(Collected(s))
  BY <1>2, <1>3, FS_Subset
<1>5. Cardinality(Collected(s)) \in Nat
  BY <1>4, FS_CardinalityType
<1>6. Cardinality(Collected(s) \union {Len(s) + 1}) = Cardinality(Collected(s)) + 1
  BY <1>2, <1>4, FS_AddElement
<1>7. /\ kind # "cmd" => WithLine(s, kind) = Collected(s)
      /\ kind = "cmd" => WithLine(s, kind) = Collected(s) \union {Len(s) + 1}
  BY DEF WithLine
<1> QED
  BY <1>4, <1>5, <1>6, <1>7

(* What finishes the block being collected. *)
LEMMA FinishedNow ==
    ASSUME NEW s \in Texts, NEW kind \in Kinds, OthersFinished(s),
           NEW p \in CommandLines(Append(s, kind)), BlockOf(Append(s, kind), p) = Current(s)
    PROVE  Finished(Append(s, kind), FALSE, p) <=>
              IF Depth(s, Len(s)) > 0 THEN Depth(Append(s, kind), Len(s) + 1) = 0
              ELSE Cardinality(WithLine(s, kind)) = BulkSize \/ kind # "cmd"
<1> DEFINE t == Append(s, kind)
           n == Len(s)
           m == Len(s) + 1
<1>1. /\ n \in Nat /\ m \in Nat /\ m = n + 1 /\ Len(t) = m /\ \A i \in 1..n : t[i] = s[i]
      /\ t[m] = kind /\ DOMAIN s = 1..n /\ DOMAIN t = 1..m
  BY OneMoreLine
<1>2. \A i \in 0..n : Depth(t, i) = Depth(s, i)
  BY DepthStays
<1>3. /\ CommandLines(t) = CommandLines(s) \union {q \in {m} : kind = "cmd"}
      /\ Members(t, p) = WithLine(s, kind)
      /\ \A q \in CommandLines(s) : q \in 1..n /\ s[q] = "cmd" /\ BlockOf(t, q) = BlockOf(s, q)
  BY BlocksAfter
<1>4. BlockOf(t, p) = Current(s) /\ p \in CommandLines(t)
  OBVIOUS
<1> HIDE DEF t, n, m
<1>5. p \in 1..m /\ (p # m => p \in CommandLines(s) /\ p \in 1..n) /\ t[p] = "cmd"
  BY <1>1, <1>3, <1>4 DEF CommandLines
<1>6. Depth(t, p) > 0 <=> Depth(s, n) > 0
  <2>1. "dynamic" # "static"
    OBVIOUS
  <2>2. BlockOf(t, p)[1] = IF Depth(t, p) > 0 THEN "dynamic" ELSE "static"
    BY DEF BlockOf
  <2>3. Current(s)[1] = IF Depth(s, n) > 0 THEN "dynamic" ELSE "static"
    BY DEF Current, BlockBehind, n
  <2> QED
    BY <1>4, <2>1, <2>2, <2>3
<1>7. ASSUME p # m PROVE ~Finished(s, FALSE, p) /\ Depth(t, p) = Depth(s, p)
  <2>1. BlockOf(s, p) = Current(s)
    BY <1>3, <1>4, <1>5, <1>7
  <2>2. p \in 0..n /\ p \in CommandLines(s)
    BY <1>1, <1>5, <1>7
  <2>3. ~Finished(s, FALSE, p)
    BY <2>1, <2>2 DEF OthersFinished
  <2> QED
    BY <1>2, <2>2, <2>3
<1>8. m \in p..m /\ \A r \in p..m : r = m \/ (r \in p..n /\ p # m)
  BY <1>1, <1>5
<1>9. CASE Depth(s, n) > 0
  <2>1. \A r \in p..n : p # m => Depth(t, r) # 0
    <3> SUFFICES ASSUME NEW r \in p..n, p # m PROVE Depth(t, r) # 0
      OBVIOUS
    <3>1. Depth(s, r) # 0
      BY <1>1, <1>5, <1>6, <1>7, <1>9 DEF Finished, n
    <3>2. r \in 0..n
      BY <1>1, <1>5
    <3> QED
      BY <1>2, <3>1, <3>2
  <2>2. (\E r \in p..m : Depth(t, r) = 0) <=> Depth(t, m) = 0
    BY <1>8, <2>1
  <2>3. Finished(t, FALSE, p) <=> \E r \in p..m : Depth(t, r) = 0
    BY <1>1, <1>6, <1>9 DEF Finished
  <2> QED
    BY <1>9, <2>2, <2>3 DEF t, n, m
<1>10. CASE ~(Depth(s, n) > 0)
  <2>1. \A r \in p..n : p # m => t[r] = "cmd"
    <3> SUFFICES ASSUME NEW r \in p..n, p # m PROVE t[r] = "cmd"
      OBVIOUS
    <3>1. s[r] = "cmd"
      BY <1>1, <1>5, <1>6, <1>7, <1>10 DEF Finished, n
    <3>2. r \in 1..n
      BY <1>1, <1>5
    <3> QED
      BY <1>1, <3>1, <3>2
  <2>2. (\E r \in p..m : t[r] # "cmd") <=> kind # "cmd"
    BY <1>1, <1>8, <2>1
  <2>3. Finished(t, FALSE, p) <=>
           Cardinality(WithLine(s, kind)) = BulkSize \/ \E r \in p..m : t[r] # "cmd"
    BY <1>1, <1>3, <1>6, <1>10 DEF Finished
  <2> QED
    BY <1>10, <2>2, <2>3 DEF t, n, m
<1> QED
  BY <1>9, <1>10

(* One more line of the text. *)
LEMMA TextStep ==
    ASSUME NEW s \in Texts, NEW kind \in Kinds, BulkSize > 0, TextInv(s), Matched(Append(s, kind))
    PROVE  LET t == Append(s, kind) IN
           /\ TextInv(t)
           /\ Ends(s, kind) => /\ Blocks(t, FALSE) = Blocks(s, FALSE) \union ({WithLine(s, kind)} \ {{}})
                               /\ Collected(t) = {}
           /\ ~Ends(s, kind) => /\ Blocks(t, FALSE) = Blocks(s, FALSE)
                                /\ Collected(t) = WithLine(s, kind)
<1> DEFINE t == Append(s, kind)
           n == Len(s)
           m == Len(s) + 1
           z == LastBrace(s, n)
           c == Cardinality(Collected(s))
           W == WithLine(s, kind)
<1>1. /\ t \in Texts /\ n \in Nat /\ m \in Nat /\ m = n + 1 /\ Len(t) = m
      /\ t[m] = kind /\ DOMAIN s = 1..n /\ DOMAIN t = 1..m
  BY OneMoreLine
<1>2. /\ Depth(s, n) \in Int
      /\ Depth(t, m) = Depth(s, n) + (CASE kind = "open" -> 1 [] kind = "close" -> -1 [] OTHER -> 0)
      /\ Matched(s)
  <2>1. n \in 0..Len(s)
    BY <1>1
  <2> QED
    BY <2>1, DepthStays
<1>3. Depth(s, n) >= 0 /\ Depth(t, m) >= 0
  <2>1. Depth(t, m) >= 0
    BY <1>1 DEF Matched
  <2>2. n = 0 \/ n \in DOMAIN s
    BY <1>1
  <2> QED
    BY <1>1, <1>2, <2>1, <2>2, DepthIs DEF Matched
<1>4. /\ c \in Nat
      /\ kind # "cmd" => W = Collected(s)
      /\ kind = "cmd" => Cardinality(W) = c + 1
  BY CountWithLine
<1>5. BulkSize \in Nat \ {0} /\ OthersFinished(s) /\ (Depth(s, n) = 0 => c = (n - z) % BulkSize)
  BY BulkSizeAssumption DEF TextInv
<1>6. z \in 0..n /\ n - z \in Nat
  BY <1>1, LastBraceIs
<1>7. /\ kind = "open" /\ Depth(s, n) = 0 => Current(t) = <<"dynamic", m, 0>>
      /\ Depth(s, n) > 0 /\ Depth(t, m) > 0 => Current(t) = Current(s)
      /\ kind = "close" /\ Depth(t, m) = 0 => Current(t) = <<"static", m, 0 \div BulkSize>>
      /\ kind = "cmd" /\ Depth(s, n) = 0 => Current(t) = <<"static", z, (n + 1 - z) \div BulkSize>>
  BY <1>3, CurrentAfter
<1>8. kind = "cmd" => LastBrace(t, m) = z
  BY BracesAtEnd
<1>9. kind # "cmd" => LastBrace(t, m) = m
  BY BracesAtEnd
<1>10. \A p \in CommandLines(t) : BlockOf(t, p) = Current(s) =>
          (Finished(t, FALSE, p) <=> IF Depth(s, n) > 0 THEN Depth(t, m) = 0
                                     ELSE Cardinality(W) = BulkSize \/ kind # "cmd")
  BY <1>5, FinishedNow
<1>11. Depth(s, n) = 0 => c \in 0..BulkSize - 1
  BY <1>5, <1>6, GroupStep
<1> HIDE DEF t, n, m, z, c, W
<1>12. Ends(s, kind) <=> IF Depth(s, n) > 0 THEN Depth(t, m) = 0
                        ELSE Cardinality(W) = BulkSize \/ kind # "cmd"
  BY <1>2, <1>3, <1>4 DEF Ends, Kinds, c, n
<1>13. CASE Ends(s, kind)
  <2>1. \A p \in CommandLines(t) : BlockOf(t, p) = Current(s) => Finished(t, FALSE, p)
    BY <1>10, <1>12, <1>13
  <2>2. \A p \in CommandLines(t) : p \in 1..m /\ t[p] = "cmd"
    BY <1>1 DEF CommandLines
  <2>3. ASSUME NEW p \in CommandLines(t) PROVE BlockOf(t, p) # Current(t)
    <3>1. CASE kind # "cmd"
      <4>1. p \in 1..Len(t) /\ t[p] = "cmd" /\ m > p
        BY <1>1, <2>2, <3>1
      <4>2. \A k, g : BlockOf(t, p) # <<k, m, g>>
        BY <1>1, <4>1, NotAhead
      <4>3. \E k, g : Current(t) = <<k, m, g>>
        BY <1>2, <1>3, <1>7, <1>13, <3>1 DEF Ends, Kinds, n
      <4> QED
        BY <4>2, <4>3
    <3>2. CASE kind = "cmd"
      <4>1. Depth(s, n) = 0 /\ c + 1 = BulkSize
        BY <1>13, <3>2 DEF Ends, n, c
      <4>2. (n - z + 1) % BulkSize = 0
        BY <1>5, <1>6, <4>1, GroupStep
      <4>3. Current(t) = <<"static", z, (n - z + 1) \div BulkSize>>
        <5>1. n + 1 - z = n - z + 1
          BY <1>1, <1>6
        <5> QED
          BY <1>7, <3>2, <4>1, <5>1
      <4>4. ASSUME BlockOf(t, p) = Current(t) PROVE FALSE
        <5>1. BlockOf(t, p) = <<"static", LastBrace(t, p), Group(t, p)>>
          BY <4>3, <4>4 DEF BlockOf
        <5>2. LastBrace(t, p) = z /\ Group(t, p) = (n - z + 1) \div BulkSize
          BY <4>3, <4>4, <5>1
        <5>3. p \in 1..Len(t) /\ t[p] = "cmd" /\ p \in Nat
          BY <1>1, <2>2
        <5>4. Group(t, p) = (p - z - 1) \div BulkSize
          BY <1>1, <5>2, <5>3, GroupIs
        <5>5. z \in 0..p /\ (z > 0 => t[z] # "cmd") /\ p > 0
          BY <5>2, <5>3, LastBraceIs
        <5>6. p - z - 1 \in Nat /\ p - z - 1 < n - z + 1 /\ n - z + 1 \in Nat
          BY <1>1, <1>6, <5>3, <5>5
        <5> QED
          BY <1>5, <4>2, <5>2, <5>4, <5>6, GroupOrder
      <4> QED
        BY <4>4
    <3> QED
      BY <3>1, <3>2
  <2>4. /\ Blocks(t, FALSE) = Blocks(s, FALSE) \union ({W} \ {{}})
        /\ OthersFinished(t) /\ Collected(t) = {}
    BY <1>5, <2>1, <2>3, BlockEnds DEF t, W
  <2>5. Depth(t, m) = 0 => (m - LastBrace(t, m)) % BulkSize = 0
    <3>1. CASE kind # "cmd"
      BY <1>1, <1>5, <1>9, <3>1, ModSmall
    <3>2. CASE kind = "cmd"
      <4>1. Depth(s, n) = 0 /\ c + 1 = BulkSize
        BY <1>13, <3>2 DEF Ends, n, c
      <4>2. (n - z + 1) % BulkSize = 0
        BY <1>5, <1>6, <4>1, GroupStep
      <4>3. m - LastBrace(t, m) = n - z + 1
        BY <1>1, <1>6, <1>8, <3>2
      <4> QED
        BY <4>2, <4>3
    <3> QED
      BY <3>1, <3>2
  <2>6. TextInv(t)
    BY <1>1, <2>4, <2>5, FS_EmptySet DEF TextInv
  <2> QED
    BY <1>13, <2>4, <2>6 DEF t, W
<1>14. CASE ~Ends(s, kind)
  <2>1. \A p \in CommandLines(t) : BlockOf(t, p) = Current(s) => ~Finished(t, FALSE, p)
    BY <1>10, <1>12, <1>14
  <2>2. (Depth(s, n) > 0 /\ Depth(t, m) > 0) \/ (kind = "cmd" /\ Depth(s, n) = 0 /\ c + 1 < BulkSize)
    BY <1>2, <1>3, <1>4, <1>5, <1>11, <1>14 DEF Ends, Kinds, n, c
  <2>3. ASSUME kind = "cmd", Depth(s, n) = 0, c + 1 < BulkSize
        PROVE  /\ Current(t) = Current(s)
               /\ Depth(t, m) = 0 => Cardinality(W) = (m - LastBrace(t, m)) % BulkSize
    <3>1. (n - z + 1) % BulkSize = c + 1 /\ (n - z + 1) \div BulkSize = (n - z) \div BulkSize
      BY <1>5, <1>6, <2>3, GroupStep, ZenonT(30)
    <3>2. n + 1 - z = n - z + 1 /\ m - LastBrace(t, m) = n - z + 1
      BY <1>1, <1>6, <1>8, <2>3
    <3>3. Current(s) = <<"static", z, (n - z) \div BulkSize>>
      BY <2>3 DEF Current, BlockBehind, n, z
    <3>4. Current(t) = Current(s)
      BY <1>7, <2>3, <3>1, <3>2, <3>3
    <3> QED
      BY <1>4, <2>3, <3>1, <3>2, <3>4
  <2>4. Current(t) = Current(s)
    BY <1>7, <2>2, <2>3
  <2>5. /\ Blocks(t, FALSE) = Blocks(s, FALSE)
        /\ OthersFinished(t) /\ Collected(t) = W
    BY <1>5, <2>1, <2>4, BlockGoesOn DEF t, W
  <2>6. Depth(t, m) = 0 => Cardinality(W) = (m - LastBrace(t, m)) % BulkSize
    BY <2>2, <2>3
  <2>7. TextInv(t)
    BY <1>1, <2>5, <2>6 DEF TextInv
  <2> QED
    BY <1>14, <2>5, <2>7 DEF t, W
<1> QED
  BY <1>13, <1>14

(* What was printed is the finished blocks, and cmds_ is the block that is *)
(* not finished.                                                           *)
BlockInv ==
    Matched(lines) =>
        /\ TextInv(lines)
        /\ ~stopped => ToSet(cmds_) = Collected(lines) /\ Len(cmds_) = Cardinality(Collected(lines))
        /\ PrintedBlocks \ {{}} = Blocks(lines, stopped)

(* The commands of a sequence. *)
LEMMA SetOfCommands ==
    ASSUME NEW s \in Commands, NEW c \in 1..MaxLines
    PROVE  /\ ToSet(Append(s, c)) = ToSet(s) \union {c}
           /\ ToSet(<<>>) = {} /\ (s = <<>> => ToSet(s) = {})
<1> DEFINE L == 1..MaxLines
           t == Append(s, c)
<1>1. s \in Seq(L) /\ c \in L
  BY DEF Commands
<1> HIDE DEF L
<1>2. /\ t \in Seq(L) /\ Len(s) \in Nat /\ Len(t) = Len(s) + 1
      /\ \A i \in 1..Len(t) : t[i] = IF i <= Len(s) THEN s[i] ELSE c
  BY <1>1, AppendProperties
<1>3. ToSet(t) = {t[i] : i \in 1..Len(t)} /\ ToSet(s) = {s[i] : i \in 1..Len(s)}
  BY <1>1, <1>2 DEF ToSet
<1> HIDE DEF t
<1>4. \A i \in 1..Len(s) : i \in 1..Len(t) /\ t[i] = s[i]
  BY <1>2
<1>5. Len(t) \in 1..Len(t) /\ t[Len(t)] = c
  BY <1>2
<1>6. \A i \in 1..Len(t) : i \in 1..Len(s) \/ i = Len(t)
  BY <1>2
<1>7. ToSet(t) = ToSet(s) \union {c}
  BY <1>3, <1>4, <1>5, <1>6
<1>8. ToSet(<<>>) = {}
  BY DEF ToSet
<1> QED
  BY <1>7, <1>8 DEF t

(* What notify prints. *)
LEMMA PrintedIs ==
    ASSUME TypeOK, NEW event \in EventKinds, NEW cmds \in Commands,
           Len(lines') \in 0..MaxLines, notify(event, cmds)
    PROVE  PrintedBlocks' = PrintedBlocks \union {c \in {ToSet(cmds)} : event = "event_print_save"}
<1> DEFINE e == [event |-> event, cmds |-> cmds, at |-> Len(lines'), chunk |-> chunk_start]
           k == Len(events) + 1
<1>1. /\ Len(events) \in Nat /\ DOMAIN events = 1..Len(events)
      /\ DOMAIN events' = 1..k
      /\ \A i \in DOMAIN events : events'[i] = events[i]
      /\ events'[k] = e
  BY NotifiedIs
<1>2. e.event = event /\ e.cmds = cmds
  OBVIOUS
<1> HIDE DEF e
<1>3. DOMAIN events' = DOMAIN events \union {k}
  BY <1>1
<1> HIDE DEF k
<1>4. {j \in DOMAIN events' : events'[j].event = "event_print_save"}
        = {j \in DOMAIN events : events[j].event = "event_print_save"}
             \union {j \in {k} : event = "event_print_save"}
  BY <1>1, <1>2, <1>3
<1>5. \A j \in DOMAIN events : ToSet(events'[j].cmds) = ToSet(events[j].cmds)
  BY <1>1
<1>6. ToSet(events'[k].cmds) = ToSet(cmds)
  BY <1>1, <1>2
<1> QED
  BY <1>4, <1>5, <1>6 DEF PrintedBlocks

(* A line and the blocks: what the events of the step have to print, and   *)
(* what cmds_ has to hold behind it.                                       *)
LEMMA BlockLine ==
    ASSUME TypeOK, BlockInv, BulkSize > 0, NEW kind \in Kinds, Getline(kind),
           Matched(lines'), Matched(lines),
           LET W == WithLine(lines, kind) IN
           IF Ends(lines, kind)
           THEN /\ cmds_' = <<>>
                /\ PrintedBlocks' \ {{}} = (PrintedBlocks \ {{}}) \union ({W} \ {{}})
           ELSE /\ ToSet(cmds_') = W /\ Len(cmds_') = Cardinality(W)
                /\ PrintedBlocks' = PrintedBlocks
    PROVE  BlockInv'
<1> DEFINE W == WithLine(lines, kind)
<1>1. /\ lines \in Texts /\ lines' = Append(lines, kind) /\ ~stopped /\ ~stopped'
      /\ stopped = FALSE /\ stopped' = FALSE
  BY DEF Getline, TypeOK, Texts
<1>2. /\ TextInv(lines) /\ PrintedBlocks \ {{}} = Blocks(lines, FALSE)
  BY <1>1 DEF BlockInv
<1>3. /\ TextInv(lines')
      /\ Ends(lines, kind) => /\ Blocks(lines', FALSE) = Blocks(lines, FALSE) \union ({W} \ {{}})
                              /\ Collected(lines') = {}
      /\ ~Ends(lines, kind) => /\ Blocks(lines', FALSE) = Blocks(lines, FALSE)
                               /\ Collected(lines') = W
  BY <1>1, <1>2, TextStep
<1>4. CASE Ends(lines, kind)
  <2>1. cmds_' = <<>> /\ PrintedBlocks' \ {{}} = (PrintedBlocks \ {{}}) \union ({W} \ {{}})
    BY <1>4
  <2>2. ToSet(cmds_') = {} /\ Len(cmds_') = 0
    BY <2>1 DEF ToSet
  <2>3. PrintedBlocks' \ {{}} = Blocks(lines', stopped')
    BY <1>1, <1>2, <1>3, <1>4, <2>1
  <2> QED
    BY <1>3, <1>4, <2>2, <2>3, FS_EmptySet DEF BlockInv
<1>5. CASE ~Ends(lines, kind)
  <2>1. /\ ToSet(cmds_') = W /\ Len(cmds_') = Cardinality(W)
        /\ PrintedBlocks' = PrintedBlocks
    BY <1>5
  <2>2. PrintedBlocks' \ {{}} = Blocks(lines', stopped')
    BY <1>1, <1>2, <1>3, <1>5, <2>1
  <2> QED
    BY <1>3, <1>5, <2>1, <2>2 DEF BlockInv
<1> QED
  BY <1>4, <1>5

(* The line of the text that RunCmds handles. *)
LEMMA BlockRun ==
    ASSUME IInv, DepthInv, BlockInv, BulkSize > 0, RunLine, Matched(lines')
    PROVE  BlockInv'
<1>0. "open" \in Kinds /\ "close" \in Kinds /\ "cmd" \in Kinds
  BY DEF Kinds
<1>1. /\ TypeOK /\ TypeOK' /\ LevelIsDepth /\ lines \in Texts /\ cmds_ \in Commands /\ Len(cmds_) \in Nat
      /\ Len(lines') \in 0..MaxLines /\ ~crashed'
  <2>1. [Next]_vars
    BY DEF Next
  <2>2. IInv' /\ DepthInv'
    BY <2>1, StepInv, DepthStep
  <2> QED
    BY <2>2, LenCommands DEF IInv, DepthInv, TypeOK, Texts, CrashNeedsUnmatched
<1>2. ASSUME Matched(lines), ~stopped
      PROVE  /\ ToSet(cmds_) = Collected(lines) /\ Len(cmds_) = Cardinality(Collected(lines))
             /\ cmds_ = <<>> => Collected(lines) = {}
  <2>1. ToSet(cmds_) = Collected(lines) /\ Len(cmds_) = Cardinality(Collected(lines))
    BY <1>2 DEF BlockInv
  <2> QED
    BY <2>1 DEF ToSet
<1>3. events' = events => PrintedBlocks' = PrintedBlocks
  BY DEF PrintedBlocks
<1>4. CASE OpenBlock
  <2>1. LevelMoves(1) /\ Getline("open")
    BY <1>1, <1>4, LineOf
  <2>2. Matched(lines) /\ ~stopped /\ block_level = Depth(lines, Len(lines))
    BY <2>1 DEF LevelMoves, Getline
  <2>3. Ends(lines, "open") <=> block_level = 0
    BY <2>2 DEF Ends
  <2>4. WithLine(lines, "open") = ToSet(cmds_)
    BY <1>0, <1>1, <1>2, <2>2, CountWithLine
  <2>5. CASE block_level = 0 /\ cmds_ # <<>>
    <3>1. notify("event_print_save", cmds_) /\ cmds_' = <<>>
      BY <1>4, <2>5 DEF OpenBlock
    <3>2. PrintedBlocks' = PrintedBlocks \union {ToSet(cmds_)}
      BY <1>1, <3>1, PrintedIs, EventNames
    <3>3. PrintedBlocks' \ {{}} = (PrintedBlocks \ {{}}) \union ({ToSet(cmds_)} \ {{}})
      BY <3>2
    <3> QED
      BY <1>0, <1>1, <2>1, <2>2, <2>3, <2>4, <2>5, <3>1, <3>3, BlockLine
  <2>6. CASE block_level = 0 /\ cmds_ = <<>>
    <3>1. cmds_' = <<>> /\ events' = events
      BY <1>4, <2>6 DEF OpenBlock
    <3>2. WithLine(lines, "open") = {}
      BY <1>2, <2>2, <2>4, <2>6
    <3>3. PrintedBlocks' \ {{}} = (PrintedBlocks \ {{}}) \union ({WithLine(lines, "open")} \ {{}})
      BY <1>3, <3>1, <3>2
    <3> QED
      BY <1>0, <1>1, <2>1, <2>2, <2>3, <2>6, <3>1, <3>3, BlockLine
  <2>7. CASE block_level # 0
    <3>1. cmds_' = cmds_ /\ events' = events
      BY <1>4, <2>7 DEF OpenBlock
    <3>2. Len(cmds_) = Cardinality(WithLine(lines, "open"))
      BY <1>2, <2>2, <2>4
    <3> QED
      BY <1>0, <1>1, <1>3, <2>1, <2>2, <2>3, <2>4, <2>7, <3>1, <3>2, BlockLine
  <2> QED
    BY <2>5, <2>6, <2>7
<1>5. CASE CloseOuter \/ CloseNested
  <2>1. LevelMoves(-1) /\ Getline("close")
    BY <1>1, <1>5, LineOf DEF CloseOuter, CloseNested
  <2>2. /\ Matched(lines) /\ ~stopped /\ block_level = Depth(lines, Len(lines))
        /\ block_level \in Nat /\ block_level' = block_level - 1
    BY <2>1 DEF LevelMoves, Getline
  <2>3. Ends(lines, "close") <=> block_level' = 0
    BY <2>2 DEF Ends
  <2>4. WithLine(lines, "close") = ToSet(cmds_) /\ Len(cmds_) = Cardinality(WithLine(lines, "close"))
    BY <1>0, <1>1, <1>2, <2>2, CountWithLine
  <2>5. CASE CloseOuter
    <3>1. notify("event_print_save", cmds_) /\ cmds_' = <<>> /\ block_level' = 0
      BY <2>5 DEF CloseOuter
    <3>2. PrintedBlocks' = PrintedBlocks \union {ToSet(cmds_)}
      BY <1>1, <3>1, PrintedIs, EventNames
    <3>3. PrintedBlocks' \ {{}} = (PrintedBlocks \ {{}}) \union ({ToSet(cmds_)} \ {{}})
      BY <3>2
    <3> QED
      BY <1>0, <1>1, <2>1, <2>2, <2>3, <2>4, <3>1, <3>3, BlockLine
  <2>6. CASE CloseNested
    <3>1. notify("event_save", Slice) /\ cmds_' = cmds_ /\ block_level' # 0
      BY <2>6 DEF CloseNested
    <3>2. Slice \in Commands
      BY <1>1, <2>6, SliceType DEF CloseNested, Slice, TypeOK
    <3>3. PrintedBlocks' = PrintedBlocks \union {c \in {ToSet(Slice)} : "event_save" = "event_print_save"}
      BY <1>1, <3>1, <3>2, PrintedIs, EventNames
    <3>4. PrintedBlocks' = PrintedBlocks
      BY <3>3
    <3> QED
      BY <1>0, <1>1, <2>1, <2>2, <2>3, <2>4, <3>1, <3>4, BlockLine
  <2> QED
    BY <1>5, <2>5, <2>6
<1>6. CASE CloseOutOfRange
  BY <1>1, <1>6 DEF CloseOutOfRange
<1>7. CASE Command
  <2> DEFINE cmds == Append(cmds_, Len(lines'))
  <2>1. LevelMoves(0) /\ Getline("cmd")
    BY <1>1, <1>7, LineOf
  <2>2. /\ Matched(lines) /\ ~stopped /\ block_level = Depth(lines, Len(lines))
        /\ lines' = Append(lines, "cmd")
    BY <2>1 DEF LevelMoves, Getline
  <2>3. Len(lines') = Len(lines) + 1 /\ Len(lines') \in 1..MaxLines
    <3>1. Len(lines') = Len(lines) + 1 /\ Len(lines) \in Nat
      BY <1>0, <1>1, <2>2, OneMoreLine
    <3> QED
      BY <1>1, <3>1
  <2>4. cmds \in Commands /\ Len(cmds) = Len(cmds_) + 1
    BY <1>1, <2>3, EmptyCommands, ConcatAppend
  <2>5. ToSet(cmds) = WithLine(lines, "cmd") /\ Len(cmds) = Cardinality(WithLine(lines, "cmd"))
    <3>1. ToSet(cmds) = ToSet(cmds_) \union {Len(lines) + 1}
      BY <1>1, <2>3, SetOfCommands
    <3>2. /\ WithLine(lines, "cmd") = Collected(lines) \union {Len(lines) + 1}
          /\ Cardinality(WithLine(lines, "cmd")) = Cardinality(Collected(lines)) + 1
      BY <1>0, <1>1, CountWithLine
    <3> QED
      BY <1>2, <2>2, <2>4, <3>1, <3>2
  <2>6. Ends(lines, "cmd") <=> block_level = 0 /\ Len(cmds) = BulkSize
    BY <1>2, <2>2, <2>4 DEF Ends
  <2>7. IF block_level = 0 /\ Len(cmds) = BulkSize
        THEN notify("event_print_save", cmds) /\ cmds_' = <<>>
        ELSE cmds_' = cmds /\ events' = events
    BY <1>7 DEF Command
  <2> HIDE DEF cmds
  <2>8. CASE Ends(lines, "cmd")
    <3>1. notify("event_print_save", cmds) /\ cmds_' = <<>>
      BY <2>6, <2>7, <2>8
    <3>2. PrintedBlocks' = PrintedBlocks \union {ToSet(cmds)}
      BY <1>1, <2>4, <3>1, PrintedIs, EventNames
    <3>3. PrintedBlocks' \ {{}} = (PrintedBlocks \ {{}}) \union ({ToSet(cmds)} \ {{}})
      BY <3>2
    <3> QED
      BY <1>0, <1>1, <2>1, <2>2, <2>5, <2>8, <3>1, <3>3, BlockLine
  <2>9. CASE ~Ends(lines, "cmd")
    BY <1>0, <1>1, <1>3, <2>1, <2>2, <2>5, <2>6, <2>7, <2>9, BlockLine
  <2> QED
    BY <2>8, <2>9
<1> QED
  BY <1>4, <1>5, <1>6, <1>7 DEF RunLine

(* Stop prints the static block that is waiting: with the end of the text  *)
(* it is finished.                                                         *)
LEMMA BlockFlush ==
    ASSUME IInv, DepthInv, BlockInv, BulkSize > 0, FlushOnStop
    PROVE  BlockInv'
<1> SUFFICES ASSUME Matched(lines') PROVE BlockInv'
  BY DEF BlockInv
<1>1. /\ TypeOK /\ lines' = lines /\ Matched(lines) /\ ~stopped /\ stopped' = TRUE /\ stopped = FALSE
      /\ cmds_ \in Commands /\ Len(lines') \in 0..MaxLines /\ Len(lines) \in Nat
      /\ block_level = Depth(lines, Len(lines))
  BY DEF IInv, TypeOK, DepthInv, LevelIsDepth, FlushOnStop
<1>2. /\ TextInv(lines) /\ ToSet(cmds_) = Collected(lines)
      /\ PrintedBlocks \ {{}} = Blocks(lines, FALSE)
      /\ OthersFinished(lines)
  BY <1>1 DEF BlockInv, TextInv
<1>3. cmds_ = <<>> => ToSet(cmds_) = {}
  BY DEF ToSet
<1>4. \A p \in CommandLines(lines) : BlockOf(lines, p) = Current(lines) => Members(lines, p) = Collected(lines)
  BY DEF Members, Collected
<1>5. \A p \in CommandLines(lines) :
         Finished(lines, TRUE, p) <=> Finished(lines, FALSE, p) \/ ~(Depth(lines, p) > 0)
  BY DEF Finished
<1>6. ASSUME NEW p \in CommandLines(lines), BlockOf(lines, p) = Current(lines)
      PROVE  Depth(lines, p) > 0 <=> block_level > 0
  <2>1. "dynamic" # "static"
    OBVIOUS
  <2>2. BlockOf(lines, p)[1] = IF Depth(lines, p) > 0 THEN "dynamic" ELSE "static"
    BY DEF BlockOf
  <2>3. Current(lines)[1] = IF block_level > 0 THEN "dynamic" ELSE "static"
    BY <1>1 DEF Current, BlockBehind
  <2> QED
    BY <1>6, <2>1, <2>2, <2>3
<1>7. \A p \in CommandLines(lines) :
         Finished(lines, TRUE, p) <=> BlockOf(lines, p) # Current(lines) \/ ~(block_level > 0)
  <2> SUFFICES ASSUME NEW p \in CommandLines(lines)
               PROVE  Finished(lines, TRUE, p) <=> BlockOf(lines, p) # Current(lines) \/ ~(block_level > 0)
    OBVIOUS
  <2> QED
    BY <1>2, <1>5, <1>6 DEF OthersFinished
<1>8. Blocks(lines, TRUE) = Blocks(lines, FALSE) \union {c \in {Collected(lines)} \ {{}} : ~(block_level > 0)}
  <2>1. Blocks(lines, FALSE) = {Members(lines, p) : p \in {q \in CommandLines(lines) : BlockOf(lines, q) # Current(lines)}}
    BY <1>2 DEF Blocks, OthersFinished
  <2>2. CASE block_level > 0
    BY <1>7, <2>1, <2>2 DEF Blocks
  <2>3. CASE ~(block_level > 0)
    <3>1. Blocks(lines, TRUE) = {Members(lines, p) : p \in CommandLines(lines)}
      BY <1>7, <2>3 DEF Blocks
    <3>2. Collected(lines) # {} => \E p \in CommandLines(lines) : BlockOf(lines, p) = Current(lines)
      BY DEF Collected
    <3>3. \A p \in CommandLines(lines) : BlockOf(lines, p) = Current(lines) => Collected(lines) # {}
      BY DEF Collected
    <3>4. {Members(lines, p) : p \in CommandLines(lines)} = Blocks(lines, FALSE) \union ({Collected(lines)} \ {{}})
      BY <1>4, <2>1, <3>2, <3>3
    <3> QED
      BY <2>3, <3>1, <3>4
  <2> QED
    BY <2>2, <2>3
<1>9. block_level > 0 <=> block_level # 0
  BY <1>1, WrapAssumption DEF TypeOK
<1>10. PrintedBlocks' \ {{}} = Blocks(lines, TRUE)
  <2>1. CASE block_level = 0 /\ cmds_ # <<>>
    <3>1. notify("event_print_save", cmds_)
      BY <2>1 DEF FlushOnStop
    <3>2. PrintedBlocks' = PrintedBlocks \union {ToSet(cmds_)}
      BY <1>1, <3>1, PrintedIs, EventNames
    <3> QED
      BY <1>2, <1>8, <1>9, <2>1, <3>2
  <2>2. CASE ~(block_level = 0 /\ cmds_ # <<>>)
    <3>1. events' = events
      BY <2>2 DEF FlushOnStop
    <3>2. PrintedBlocks' = PrintedBlocks
      BY <3>1 DEF PrintedBlocks
    <3> QED
      BY <1>2, <1>3, <1>8, <1>9, <2>2, <3>2
  <2> QED
    BY <2>1, <2>2
<1> QED
  BY <1>1, <1>2, <1>10 DEF BlockInv

(* The blocks that RunCmds and Stop print are the finished blocks of the   *)
(* text, each of them whole and alone, for every bulk size, every text     *)
(* whose braces match and every way it is cut into chunks.                 *)
THEOREM PrintsTheBlocks ==
    ASSUME BulkSize > 0 PROVE Spec => []BlocksAsDefined
<1>1. Init => BlockInv
  <2> SUFFICES ASSUME Init PROVE BlockInv
    OBVIOUS
  <2>1. lines = <<>> /\ cmds_ = <<>> /\ events = <<>> /\ Len(lines) = 0
    BY DEF Init
  <2>2. CommandLines(lines) = {} /\ Collected(lines) = {}
    BY <2>1 DEF CommandLines, Collected
  <2>3. LastBrace(lines, 0) = 0
    BY LastBraceIs
  <2>4. TextInv(lines)
    <3>1. 0 % BulkSize = 0
      BY BulkSizeAssumption, ModSmall
    <3>2. OthersFinished(lines)
      BY <2>2 DEF OthersFinished
    <3>3. Cardinality(Collected(lines)) = (Len(lines) - LastBrace(lines, Len(lines))) % BulkSize
      BY <2>1, <2>2, <2>3, <3>1, FS_EmptySet
    <3> QED
      BY <3>2, <3>3 DEF TextInv
  <2>5. PrintedBlocks = {} /\ Blocks(lines, stopped) = {}
    BY <2>1, <2>2 DEF PrintedBlocks, Blocks
  <2>6. ToSet(cmds_) = {} /\ Len(cmds_) = 0
    BY <2>1 DEF ToSet
  <2> QED
    BY <2>2, <2>4, <2>5, <2>6, FS_EmptySet DEF BlockInv
<1>2. IInv /\ DepthInv /\ BlockInv /\ [Next]_vars => BlockInv'
  <2> SUFFICES ASSUME IInv, DepthInv, BlockInv, [Next]_vars PROVE BlockInv'
    OBVIOUS
  <2>1. CASE RunLine
    BY <2>1, BlockRun DEF BlockInv
  <2>2. CASE FlushOnStop
    BY <2>2, BlockFlush
  <2>3. CASE NextChunk \/ UNCHANGED vars
    <3>1. lines' = lines /\ cmds_' = cmds_ /\ events' = events /\ stopped' = stopped
      BY <2>3 DEF NextChunk, vars, parser
    <3> QED
      BY <3>1 DEF BlockInv, PrintedBlocks
  <2> QED
    BY <2>1, <2>2, <2>3 DEF Next
<1>3. BlockInv => BlocksAsDefined
  BY DEF BlockInv, BlocksAsDefined
<1> QED
  BY DepthInductive, <1>1, <1>2, <1>3, PTL DEF Spec

-----------------------------------------------------------------------------
(* The pipeline of AsyncCmd. *)

Lines == Seq(Kinds)

(* The client's stages, in the order of the program. *)
Flushed == {"flushing", "rRaised", "rJoining", "sStop", "sRaised", "sJoining", "done"}
PrinterStopped == Flushed \ {"flushing"}
PrinterJoined == {"sStop", "sRaised", "sJoining", "done"}
SaversStopped == {"sRaised", "sJoining", "done"}
Stages == {"feeding", "pRaised", "pJoining"} \union Flushed

PipeTypeOK ==
    /\ P!TypeOKFor(Lines)
    /\ R!TypeOKFor(Nat)
    /\ S!TypeOKFor(Nat)
    /\ stage \in Stages
    /\ rSeen \in Nat /\ sSeen \in Nat
    /\ fed \in Lines
    /\ printed \in Seq(Nat)
    /\ saved \in Seq(Nat)

(* Each flag tells how far the client has come, a join that its workers    *)
(* have left do_work; whoever left it saw the flag and an empty queue,     *)
(* which nobody fills any more; no observer is behind when it is stopped.  *)
StageInv ==
    /\ pStopped <=> stage # "feeding"
    /\ stopped <=> stage \in Flushed
    /\ rStopped <=> stage \in PrinterStopped
    /\ sStopped <=> stage \in SaversStopped
    /\ stage \in Flushed => pPc[Processor] = "exited"
    /\ stage \in PrinterStopped => AllNotified
    /\ stage \in PrinterJoined => rPc[Printer] = "exited"
    /\ stage = "done" => \A w \in Savers : sPc[w] = "exited"
    /\ pPc[Processor] = "exited" => pStopped /\ pTasks = <<>>
    /\ rPc[Printer] = "exited" => rStopped /\ rTasks = <<>>
    /\ \A w \in Savers : sPc[w] = "exited" => sStopped /\ sTasks = <<>>

(* Who is past the wait has a reason to be, and keeps it, as the savers'   *)
(* mutex keeps the others from the queue meanwhile; who runs has a task.   *)
LockInv ==
    /\ pPc[Processor] = "running" => pTask[Processor] \in Lines
    /\ rPc[Printer] = "running" => rTask[Printer] \in Nat
    /\ \A w \in Savers : sPc[w] = "running" => sTask[w] \in Nat
    /\ pPc[Processor] = "holding" => pStopped \/ pTasks # <<>>
    /\ rPc[Printer] = "holding" => rStopped \/ rTasks # <<>>
    /\ \A w \in Savers : sPc[w] = "holding" => sStopped \/ sTasks # <<>>
    /\ \A v, w \in Savers : S!HoldsMutex(v) /\ S!HoldsMutex(w) => v = w

(* The lines fed are those read, the rest of the chunk at hand and the     *)
(* chunks of the queue, one after the other: chunk i of the queue begins   *)
(* after line b[i] of the text.                                            *)
CutAt(b) ==
    /\ Len(b) = Len(pTasks) + 1
    /\ b[Len(b)] = Len(fed)
    /\ \A i \in 1..Len(b) : b[i] <= Len(fed)
    /\ \A i \in 1..Len(pTasks) :
        /\ b[i + 1] = b[i] + Len(pTasks[i])
        /\ \A j \in 1..Len(pTasks[i]) : pTasks[i][j] = fed[b[i] + j]
    /\ chunk_start <= Len(lines) /\ Len(lines) <= b[1]
    /\ \A i \in 1..Len(lines) : lines[i] = fed[i]
    /\ IF pPc[Processor] = "running"
       THEN /\ b[1] = chunk_start + Len(pTask[Processor])
            /\ \A j \in 1..Len(pTask[Processor]) :
                    pTask[Processor][j] = fed[chunk_start + j]
       ELSE b[1] = Len(lines) /\ chunk_start = Len(lines)
FeedInv == \E b \in Seq(Nat) : CutAt(b)

(* The printed blocks, the one at hand and those of the printer's queue    *)
(* are the blocks to print among the first rSeen, in order.                *)
AtHand == IF rPc[Printer] = "running" THEN <<rTask[Printer]>> ELSE <<>>
ToPrint == (printed \o AtHand) \o rTasks
PrintInv ==
    /\ rSeen <= Len(events)
    /\ \A i, j \in 1..Len(ToPrint) : i < j => ToPrint[i] < ToPrint[j]
    /\ \A k \in Nat :
        (\E i \in 1..Len(ToPrint) : ToPrint[i] = k)
            <=> k \in 1..rSeen /\ events[k].event = "event_print_save"

(* The savers' queue holds the last of the first sSeen blocks; each of the *)
(* others is saved once, or at hand of one saver.                          *)
TakenBySavers == sSeen - Len(sTasks)
SaveInv ==
    /\ sSeen <= rSeen
    /\ Len(sTasks) <= sSeen
    /\ \A i \in 1..Len(sTasks) : sTasks[i] = TakenBySavers + i
    /\ \A i \in 1..Len(saved) : saved[i] \in 1..TakenBySavers
    /\ \A i, j \in 1..Len(saved) : i # j => saved[i] # saved[j]
    /\ \A w \in Savers : sPc[w] = "running" =>
        /\ sTask[w] \in 1..TakenBySavers
        /\ \A i \in 1..Len(saved) : saved[i] # sTask[w]
    /\ \A v, w \in Savers :
        sPc[v] = "running" /\ sPc[w] = "running" /\ sTask[v] = sTask[w] => v = w
    /\ \A k \in 1..TakenBySavers :
        \/ \E i \in 1..Len(saved) : saved[i] = k
        \/ \E w \in Savers : sPc[w] = "running" /\ sTask[w] = k

PipeInv == PipeTypeOK /\ StageInv /\ LockInv /\ FeedInv /\ PrintInv /\ SaveInv

-----------------------------------------------------------------------------
(* The pipeline runs the parser: each of its steps is one of the parser's  *)
(* or leaves the parser alone.                                             *)
LEMMA ParserStep == [ANext]_allVars => [Next]_vars
<1> SUFFICES ASSUME [ANext]_allVars PROVE [Next]_vars
  OBVIOUS
<1>1. CASE UNCHANGED allVars
  BY <1>1 DEF allVars
<1>2. CASE ANext
  <2>1. CASE RunCmdsLine
    BY <2>1 DEF RunCmdsLine, Next
  <2>2. CASE RunCmdsReturns
    BY <2>2 DEF RunCmdsReturns, Next
  <2>3. CASE Disconnect
    BY <2>3 DEF Disconnect, StopProcessor, StopProcessorJoins, Next
  <2>4. CASE AddTask \/ ProcessorLoop \/ Notify \/ Observers
    BY <2>4 DEF AddTask, ProcessorLoop, Notify, UpdatePrinter, UpdateSaver,
                Observers, PrinterLoop, PrintTask, SaverLoop, SaveBlock
  <2> QED
    BY <1>2, <2>1, <2>2, <2>3, <2>4 DEF ANext, Worker
<1> QED
  BY <1>1, <1>2

(* What is proved of the parser holds in the pipeline. *)
THEOREM RunsParser == ASpec => Spec
<1>1. AInit => Init
  BY DEF AInit
<1> QED
  BY <1>1, ParserStep, PTL DEF ASpec, Spec

(* So the invariant of the parser holds in the pipeline. *)
LEMMA ParserInv == ASpec => []IInv
BY RunsParser, Inductive, PTL

(* notify adds at the end of events, and only before Stop has returned. *)
LEMMA EventsGrow ==
    ASSUME TypeOK, [Next]_vars
    PROVE  /\ Len(events) \in Nat
           /\ \/ events' = events
              \/ /\ ~stopped
                 /\ Len(events') = Len(events) + 1
                 /\ \A i \in 1..Len(events) : events'[i] = events[i]
<1>1. events \in Seq(Event) /\ Len(events) \in Nat
  BY DEF TypeOK
<1>2. ASSUME NEW kind \in EventKinds, NEW cmds, notify(kind, cmds)
      PROVE  /\ Len(events') = Len(events) + 1
             /\ \A i \in 1..Len(events) : events'[i] = events[i]
  <2>1. PICK e : events' = Append(events, e)
    BY <1>2 DEF notify
  <2>2. events \in Seq(Event \union {e}) /\ e \in Event \union {e}
    BY <1>1, SeqMonotonic
  <2> QED
    BY <2>1, <2>2, AppendProperties
<1>3. CASE UNCHANGED vars
  BY <1>1, <1>3 DEF vars
<1>4. CASE Next
  <2>1. CASE OpenBlock
    BY <1>1, <1>2, <2>1, EventNames DEF OpenBlock, Getline
  <2>2. CASE CloseOuter
    BY <1>1, <1>2, <2>2, EventNames DEF CloseOuter, CloseBlock, Getline
  <2>3. CASE CloseNested
    BY <1>1, <1>2, <2>3, EventNames DEF CloseNested, CloseBlock, Getline
  <2>4. CASE CloseOutOfRange
    BY <1>1, <2>4 DEF CloseOutOfRange
  <2>5. CASE Command
    BY <1>1, <1>2, <2>5, EventNames DEF Command, Getline
  <2>6. CASE NextChunk
    BY <1>1, <2>6 DEF NextChunk
  <2>7. CASE FlushOnStop
    BY <1>1, <1>2, <2>7, EventNames DEF FlushOnStop
  <2> QED
    BY <1>4, <2>1, <2>2, <2>3, <2>4, <2>5, <2>6, <2>7 DEF Next, RunLine
<1> QED
  BY <1>3, <1>4

-----------------------------------------------------------------------------
(* What the steps of the three queues do to the places of their workers.   *)

(* An update or AddTask: at most the one worker wakes. *)
LEMMA ProcessorNotified ==
    ASSUME pPc \in [{Processor} -> P!Places], P!NotifyOne
    PROVE  /\ pPc' \in [{Processor} -> P!Places]
           /\ \/ pPc'[Processor] = pPc[Processor]
              \/ pPc[Processor] = "waiting" /\ pPc'[Processor] = "ready"
BY DEF P!NotifyOne, P!Waiting, P!Places

(* The same for the printer's worker. *)
LEMMA PrinterNotified ==
    ASSUME rPc \in [{Printer} -> R!Places], R!NotifyOne
    PROVE  /\ rPc' \in [{Printer} -> R!Places]
           /\ \/ rPc'[Printer] = rPc[Printer]
              \/ rPc[Printer] = "waiting" /\ rPc'[Printer] = "ready"
BY DEF R!NotifyOne, R!Waiting, R!Places

(* ... or one saver, by update, or every saver, by Stop. *)
LEMMA SaversNotified ==
    ASSUME sPc \in [Savers -> S!Places], S!NotifyOne \/ S!NotifyEvery
    PROVE  /\ sPc' \in [Savers -> S!Places]
           /\ \A w \in Savers : \/ sPc'[w] = sPc[w]
                                \/ sPc[w] = "waiting" /\ sPc'[w] = "ready"
<1>1. CASE S!NotifyOne /\ S!Waiting = {}
  BY <1>1 DEF S!NotifyOne
<1>2. CASE S!NotifyOne /\ S!Waiting # {}
  <2>1. PICK w \in S!Waiting : sPc' = [sPc EXCEPT ![w] = "ready"]
    BY <1>2 DEF S!NotifyOne
  <2> QED
    BY <2>1 DEF S!Waiting, S!Places
<1>3. CASE S!NotifyEvery
  BY <1>3 DEF S!NotifyEvery, S!Waiting, S!Places
<1> QED
  BY <1>1, <1>2, <1>3

(* A turn of do_work: the worker moves on without a task, or takes the     *)
(* first of the queue.                                                     *)
LEMMA ProcessorTurn ==
    ASSUME PipeTypeOK, LockInv, P!Loop(Processor) \/ P!SpuriousWake(Processor)
    PROVE  /\ P!TypeOKFor(Lines)' /\ UNCHANGED pStopped
           /\ pPc[Processor] \notin {"running", "exited"}
           /\ \/ /\ UNCHANGED <<pTasks, pTask>>
                 /\ pPc'[Processor] # "running"
                 /\ pPc'[Processor] = "holding" => pStopped \/ pTasks # <<>>
                 /\ pPc'[Processor] = "exited" => pStopped /\ pTasks = <<>>
              \/ /\ pTasks # <<>> /\ Head(pTasks) \in Lines /\ pTasks' = Tail(pTasks)
                 /\ pTask' = [pTask EXCEPT ![Processor] = Head(pTasks)]
                 /\ pPc'[Processor] = "running"
<1>0. /\ pTasks \in Seq(Lines) /\ pStopped \in BOOLEAN
      /\ pTask \in [{Processor} -> Lines \union {NoTask}] /\ pPc \in [{Processor} -> P!Places]
  BY DEF PipeTypeOK, P!TypeOKFor
<1>1. pPc \in [{Processor} -> P!Places]
  BY DEF PipeTypeOK, P!TypeOKFor
<1>2. CASE P!Lock(Processor) \/ P!Block(Processor) \/ P!SpuriousWake(Processor)
  BY <1>0, <1>2 DEF P!TypeOKFor, P!Lock, P!Block, P!SpuriousWake, P!Places
<1>3. CASE P!Exit(Processor)
  BY <1>0, <1>3 DEF P!TypeOKFor, P!Exit, P!Places
<1>4. CASE P!Take(Processor)
  <2>1. pTasks # <<>>
    BY <1>4 DEF P!Take, LockInv
  <2>2. Head(pTasks) \in Lines /\ Tail(pTasks) \in Seq(Lines)
    BY <1>0, <2>1, HeadTailProperties
  <2>3. pTask' \in [{Processor} -> Lines \union {NoTask}] /\ pTasks' \in Seq(Lines)
    BY <1>0, <1>4, <2>2 DEF P!Take
  <2>4. P!TypeOKFor(Lines)'
    BY <1>0, <1>4, <2>3 DEF P!Take, P!TypeOKFor, P!Places
  <2> QED
    BY <1>1, <1>4, <2>1, <2>2, <2>4 DEF P!Take, P!Places
<1> QED
  BY <1>2, <1>3, <1>4 DEF P!Loop

(* The same for the printer's worker, whose tasks are numbers of events. *)
LEMMA PrinterTurn ==
    ASSUME PipeTypeOK, LockInv, R!Loop(Printer) \/ R!SpuriousWake(Printer)
    PROVE  /\ R!TypeOKFor(Nat)' /\ UNCHANGED rStopped
           /\ rPc[Printer] \notin {"running", "exited"}
           /\ \/ /\ UNCHANGED <<rTasks, rTask>>
                 /\ rPc'[Printer] # "running"
                 /\ rPc'[Printer] = "holding" => rStopped \/ rTasks # <<>>
                 /\ rPc'[Printer] = "exited" => rStopped /\ rTasks = <<>>
              \/ /\ rTasks # <<>> /\ Head(rTasks) \in Nat /\ rTasks' = Tail(rTasks)
                 /\ rTask' = [rTask EXCEPT ![Printer] = Head(rTasks)]
                 /\ rPc'[Printer] = "running"
<1>0. /\ rTasks \in Seq(Nat) /\ rStopped \in BOOLEAN
      /\ rTask \in [{Printer} -> Nat \union {NoTask}] /\ rPc \in [{Printer} -> R!Places]
  BY DEF PipeTypeOK, R!TypeOKFor
<1>1. rPc \in [{Printer} -> R!Places]
  BY DEF PipeTypeOK, R!TypeOKFor
<1>2. CASE R!Lock(Printer) \/ R!Block(Printer) \/ R!SpuriousWake(Printer)
  BY <1>0, <1>2 DEF R!TypeOKFor, R!Lock, R!Block, R!SpuriousWake, R!Places
<1>3. CASE R!Exit(Printer)
  BY <1>0, <1>3 DEF R!TypeOKFor, R!Exit, R!Places
<1>4. CASE R!Take(Printer)
  <2>1. rTasks # <<>>
    BY <1>4 DEF R!Take, LockInv
  <2>2. Head(rTasks) \in Nat /\ Tail(rTasks) \in Seq(Nat)
    BY <1>0, <2>1, HeadTailProperties
  <2>3. rTask' \in [{Printer} -> Nat \union {NoTask}] /\ rTasks' \in Seq(Nat)
    BY <1>0, <1>4, <2>2 DEF R!Take
  <2>4. R!TypeOKFor(Nat)'
    BY <1>0, <1>4, <2>3 DEF R!Take, R!TypeOKFor, R!Places
  <2> QED
    BY <1>1, <1>4, <2>1, <2>2, <2>4 DEF R!Take, R!Places
<1> QED
  BY <1>2, <1>3, <1>4 DEF R!Loop

(* ... and a saver leaves the places of the others alone. *)
LEMMA SaverTurn ==
    ASSUME PipeTypeOK, LockInv, NEW w \in Savers, S!Loop(w) \/ S!SpuriousWake(w)
    PROVE  /\ S!TypeOKFor(Nat)' /\ UNCHANGED sStopped
           /\ \A v \in Savers \ {w} : sPc'[v] = sPc[v]
           /\ sPc[w] \notin {"running", "exited"}
           /\ S!HoldsMutex(w) \/ ~S!HoldsMutex(w)' \/ \A v \in Savers : ~S!HoldsMutex(v)
           /\ \/ /\ UNCHANGED <<sTasks, sTask>>
                 /\ sPc'[w] # "running"
                 /\ sPc'[w] = "holding" => sStopped \/ sTasks # <<>>
                 /\ sPc'[w] = "exited" => sStopped /\ sTasks = <<>>
              \/ /\ sPc[w] = "holding"
                 /\ sTasks # <<>> /\ Head(sTasks) \in Nat /\ sTasks' = Tail(sTasks)
                 /\ sTask' = [sTask EXCEPT ![w] = Head(sTasks)]
                 /\ sPc'[w] = "running"
<1>0. /\ sTasks \in Seq(Nat) /\ sStopped \in BOOLEAN
      /\ sTask \in [Savers -> Nat \union {NoTask}] /\ sPc \in [Savers -> S!Places]
  BY DEF PipeTypeOK, S!TypeOKFor
<1>1. sPc \in [Savers -> S!Places]
  BY DEF PipeTypeOK, S!TypeOKFor
<1>2. CASE S!Lock(w)
  BY <1>0, <1>2 DEF S!TypeOKFor, S!Lock, S!MutexFree, S!HoldsMutex, S!Places
<1>3. CASE S!Block(w) \/ S!SpuriousWake(w)
  BY <1>0, <1>3 DEF S!TypeOKFor, S!Block, S!SpuriousWake, S!HoldsMutex, S!Places
<1>4. CASE S!Exit(w)
  BY <1>0, <1>4 DEF S!TypeOKFor, S!Exit, S!HoldsMutex, S!Places
<1>5. CASE S!Take(w)
  <2>1. sTasks # <<>>
    BY <1>5 DEF S!Take, LockInv
  <2>2. Head(sTasks) \in Nat /\ Tail(sTasks) \in Seq(Nat)
    BY <1>0, <2>1, HeadTailProperties
  <2>3. sTask' \in [Savers -> Nat \union {NoTask}] /\ sTasks' \in Seq(Nat)
    BY <1>0, <1>5, <2>2 DEF S!Take
  <2>4. S!TypeOKFor(Nat)'
    BY <1>0, <1>5, <2>3 DEF S!Take, S!TypeOKFor, S!Places
  <2> QED
    BY <1>1, <1>5, <2>1, <2>2, <2>4 DEF S!Take, S!HoldsMutex, S!Places
<1> QED
  BY <1>2, <1>3, <1>4, <1>5 DEF S!Loop

-----------------------------------------------------------------------------
(* At first every queue is empty and every worker at its loop. *)
LEMMA PipeInit == AInit => PipeInv
<1> SUFFICES ASSUME AInit PROVE PipeInv
  OBVIOUS
<1> USE DEF AInit, Init, P!Init, R!Init, S!Init
<1>1. PipeTypeOK
  <2>0. pTasks \in Seq(Lines) /\ rTasks \in Seq(Nat) /\ sTasks \in Seq(Nat)
    OBVIOUS
  <2>1. P!TypeOKFor(Lines)
    BY <2>0 DEF P!TypeOKFor, P!Places
  <2>2. R!TypeOKFor(Nat)
    BY <2>0 DEF R!TypeOKFor, R!Places
  <2>3. S!TypeOKFor(Nat)
    BY <2>0 DEF S!TypeOKFor, S!Places
  <2>4. stage \in Stages /\ rSeen \in Nat /\ sSeen \in Nat
    BY DEF Stages
  <2>5. fed \in Lines /\ printed \in Seq(Nat) /\ saved \in Seq(Nat)
    BY DEF Lines
  <2> QED
    BY <2>1, <2>2, <2>3, <2>4, <2>5 DEF PipeTypeOK
<1>2. StageInv
  BY DEF StageInv, Flushed, PrinterStopped, PrinterJoined, SaversStopped
<1>3. LockInv
  BY DEF LockInv, S!HoldsMutex
<1>4. FeedInv
  <2>1. <<0>> \in Seq(Nat) /\ Len(<<0>>) = 1 /\ <<0>>[1] = 0
    OBVIOUS
  <2>2. pTasks = <<>> /\ fed = <<>> /\ lines = <<>> /\ chunk_start = 0
    OBVIOUS
  <2>3. Len(<<>>) = 0
    OBVIOUS
  <2>4. pPc[Processor] # "running"
    OBVIOUS
  <2> DEFINE b == <<0>>
  <2>5. /\ b \in Seq(Nat) /\ Len(b) = Len(pTasks) + 1 /\ b[Len(b)] = Len(fed)
        /\ \A i \in 1..Len(b) : b[i] <= Len(fed)
        /\ 1..Len(pTasks) = {} /\ 1..Len(lines) = {}
        /\ chunk_start <= Len(lines) /\ Len(lines) <= b[1]
        /\ b[1] = Len(lines) /\ chunk_start = Len(lines)
    BY <2>1, <2>2, <2>3
  <2> QED
    BY <2>4, <2>5 DEF FeedInv, CutAt
<1>5. PrintInv
  <2>1. ToPrint = <<>>
    BY DEF ToPrint, AtHand
  <2> QED
    BY <2>1 DEF PrintInv
<1>6. SaveInv
  BY DEF SaveInv, TakenBySavers
<1> QED
  BY <1>1, <1>2, <1>3, <1>4, <1>5, <1>6 DEF PipeInv

-----------------------------------------------------------------------------
(* The types. *)
LEMMA PipeTypeStep ==
    ASSUME PipeTypeOK, LockInv, [ANext]_allVars
    PROVE  PipeTypeOK'
<1> USE DEF P!vars, R!vars, S!vars, pVars, rVars, sVars, seenVars, feedVars, outVars
<1>1. CASE UNCHANGED allVars
  BY <1>1 DEF allVars, PipeTypeOK, P!TypeOKFor, R!TypeOKFor, S!TypeOKFor
<1>2. CASE AddTask
  <2>1. PICK chunk \in Chunks : P!Push(chunk) /\ fed' = fed \o chunk
    BY <1>2 DEF AddTask
  <2>2. chunk \in Lines
    BY ChunksAssumption DEF Lines
  <2>3. fed' \in Lines /\ pTasks' \in Seq(Lines)
    BY <2>1, <2>2 DEF PipeTypeOK, P!TypeOKFor, P!Push, Lines
  <2>4. pPc' \in [{Processor} -> P!Places] /\ UNCHANGED <<pStopped, pTask>>
    BY <2>1, ProcessorNotified DEF PipeTypeOK, P!TypeOKFor, P!Push
  <2> QED
    BY <1>2, <2>3, <2>4 DEF AddTask, PipeTypeOK, P!TypeOKFor, R!TypeOKFor, S!TypeOKFor
<1>3. CASE ProcessorLoop
  <2>1. P!TypeOKFor(Lines)'
    BY <1>3, ProcessorTurn DEF ProcessorLoop
  <2> QED
    BY <1>3, <2>1 DEF ProcessorLoop, PipeTypeOK, R!TypeOKFor, S!TypeOKFor
<1>4. CASE RunCmdsLine
  BY <1>4 DEF RunCmdsLine, PipeTypeOK, P!TypeOKFor, R!TypeOKFor, S!TypeOKFor
<1>5. CASE RunCmdsReturns
  <2>1. P!TypeOKFor(Lines)'
    BY <1>5 DEF RunCmdsReturns, PipeTypeOK, P!TypeOKFor, P!Finish, P!Places
  <2> QED
    BY <1>5, <2>1 DEF RunCmdsReturns, PipeTypeOK, R!TypeOKFor, S!TypeOKFor
<1>6. CASE UpdatePrinter
  <2>1. rSeen' \in Nat
    BY <1>6 DEF UpdatePrinter, PipeTypeOK
  <2>2. R!TypeOKFor(Nat)'
    <3>1. CASE UNCHANGED rVars
      BY <3>1 DEF PipeTypeOK, R!TypeOKFor
    <3>2. CASE R!Push(rSeen')
      BY <2>1, <3>2, PrinterNotified DEF PipeTypeOK, R!TypeOKFor, R!Push
    <3> QED
      BY <1>6, <3>1, <3>2 DEF UpdatePrinter
  <2> QED
    BY <1>6, <2>1, <2>2 DEF UpdatePrinter, PipeTypeOK, P!TypeOKFor, S!TypeOKFor
<1>7. CASE UpdateSaver
  <2>1. sSeen' \in Nat
    BY <1>7 DEF UpdateSaver, PipeTypeOK
  <2>2. S!TypeOKFor(Nat)'
    BY <1>7, <2>1, SaversNotified DEF UpdateSaver, PipeTypeOK, S!TypeOKFor, S!Push
  <2> QED
    BY <1>7, <2>1, <2>2 DEF UpdateSaver, PipeTypeOK, P!TypeOKFor, R!TypeOKFor
<1>8. CASE PrinterLoop
  <2>1. R!TypeOKFor(Nat)'
    BY <1>8, PrinterTurn DEF PrinterLoop
  <2> QED
    BY <1>8, <2>1 DEF PrinterLoop, PipeTypeOK, P!TypeOKFor, S!TypeOKFor
<1>9. CASE PrintTask
  <2>1. R!TypeOKFor(Nat)'
    BY <1>9 DEF PrintTask, PipeTypeOK, R!TypeOKFor, R!Finish, R!Places
  <2>2. printed' \in Seq(Nat)
    BY <1>9 DEF PrintTask, R!Finish, LockInv, PipeTypeOK
  <2> QED
    BY <1>9, <2>1, <2>2 DEF PrintTask, PipeTypeOK, P!TypeOKFor, S!TypeOKFor
<1>10. ASSUME NEW w \in Savers, SaverLoop(w) PROVE PipeTypeOK'
  <2>1. S!TypeOKFor(Nat)'
    BY <1>10, SaverTurn DEF SaverLoop
  <2> QED
    BY <1>10, <2>1 DEF SaverLoop, PipeTypeOK, P!TypeOKFor, R!TypeOKFor
<1>11. ASSUME NEW w \in Savers, SaveBlock(w) PROVE PipeTypeOK'
  <2>1. S!TypeOKFor(Nat)'
    BY <1>11 DEF SaveBlock, PipeTypeOK, S!TypeOKFor, S!Finish, S!Places
  <2>2. saved' \in Seq(Nat)
    BY <1>11 DEF SaveBlock, S!Finish, LockInv, PipeTypeOK
  <2> QED
    BY <1>11, <2>1, <2>2 DEF SaveBlock, PipeTypeOK, P!TypeOKFor, R!TypeOKFor
<1>12. CASE Disconnect
  <2>1. stage' \in Stages
    BY <1>12 DEF Disconnect, StopProcessor, StopProcessorJoins, StopPrinter, StopSavers,
                 At, Stages, Flushed
  <2>2. CASE StopProcessor /\ UNCHANGED <<rVars, sVars>>
    <3>1. P!TypeOKFor(Lines)'
      BY <2>2, ProcessorNotified
      DEF StopProcessor, P!RaiseStopped, P!StopNotify, PipeTypeOK, P!TypeOKFor
    <3> QED
      BY <1>12, <2>1, <2>2, <3>1 DEF Disconnect, PipeTypeOK, R!TypeOKFor, S!TypeOKFor
  <2>3. CASE StopProcessorJoins /\ UNCHANGED <<rVars, sVars>>
    BY <1>12, <2>1, <2>3
    DEF StopProcessorJoins, Disconnect, PipeTypeOK, P!TypeOKFor, R!TypeOKFor, S!TypeOKFor
  <2>4. CASE StopPrinter /\ UNCHANGED <<pVars, sVars>>
    <3>1. R!TypeOKFor(Nat)'
      BY <2>4, PrinterNotified
      DEF StopPrinter, R!RaiseStopped, R!StopNotify, PipeTypeOK, R!TypeOKFor
    <3> QED
      BY <1>12, <2>1, <2>4, <3>1 DEF Disconnect, PipeTypeOK, P!TypeOKFor, S!TypeOKFor
  <2>5. CASE StopSavers /\ UNCHANGED <<pVars, rVars>>
    <3>1. S!TypeOKFor(Nat)'
      BY <2>5, SaversNotified
      DEF StopSavers, S!RaiseStopped, S!StopNotify, PipeTypeOK, S!TypeOKFor
    <3> QED
      BY <1>12, <2>1, <2>5, <3>1 DEF Disconnect, PipeTypeOK, P!TypeOKFor, R!TypeOKFor
  <2> QED
    BY <1>12, <2>2, <2>3, <2>4, <2>5 DEF Disconnect
<1> QED
  BY <1>1, <1>2, <1>3, <1>4, <1>5, <1>6, <1>7, <1>8, <1>9, <1>10, <1>11, <1>12
  DEF ANext, Worker, Notify, Observers

-----------------------------------------------------------------------------
(* Adding to a queue leaves it nonempty. *)
LEMMA AppendedNonempty ==
    ASSUME NEW T, NEW q \in Seq(T), NEW t \in T
    PROVE  Append(q, t) # <<>>
BY AppendProperties

(* The mutexes and the hands of the workers. *)
LEMMA LockStep ==
    ASSUME PipeTypeOK, LockInv, [ANext]_allVars
    PROVE  LockInv'
<1> USE DEF P!vars, R!vars, S!vars, pVars, rVars, sVars, seenVars, feedVars, outVars
<1>0. /\ pPc \in [{Processor} -> P!Places] /\ rPc \in [{Printer} -> R!Places]
      /\ sPc \in [Savers -> S!Places]
      /\ pTasks \in Seq(Lines) /\ rTasks \in Seq(Nat) /\ sTasks \in Seq(Nat)
      /\ rSeen \in Nat /\ sSeen \in Nat
  BY DEF PipeTypeOK, P!TypeOKFor, R!TypeOKFor, S!TypeOKFor
<1>1. CASE UNCHANGED allVars
  BY <1>1 DEF allVars, LockInv, S!HoldsMutex
<1>2. CASE AddTask
  <2>1. PICK chunk \in Chunks : P!Push(chunk)
    BY <1>2 DEF AddTask
  <2>2. chunk \in Lines
    BY ChunksAssumption DEF Lines
  <2>3. pTasks' # <<>> /\ UNCHANGED pTask
    BY <1>0, <2>1, <2>2, AppendedNonempty DEF P!Push
  <2>4. pPc'[Processor] = pPc[Processor] \/ pPc'[Processor] = "ready"
    BY <1>0, <2>1, ProcessorNotified DEF P!Push
  <2> QED
    BY <1>2, <2>3, <2>4 DEF AddTask, LockInv, S!HoldsMutex
<1>3. CASE ProcessorLoop
  <2>1. pPc'[Processor] = "running" => pTask'[Processor] \in Lines
    BY <1>3, ProcessorTurn DEF ProcessorLoop, PipeTypeOK, P!TypeOKFor
  <2>2. pPc'[Processor] = "holding" => pStopped' \/ pTasks' # <<>>
    BY <1>3, ProcessorTurn DEF ProcessorLoop
  <2> QED
    BY <1>3, <2>1, <2>2 DEF ProcessorLoop, LockInv, S!HoldsMutex
<1>4. CASE RunCmdsLine
  BY <1>4 DEF RunCmdsLine, LockInv, S!HoldsMutex
<1>5. CASE RunCmdsReturns
  <2>1. pPc'[Processor] = "ready"
    BY <1>0, <1>5 DEF RunCmdsReturns, P!Finish
  <2> QED
    BY <1>5, <2>1 DEF RunCmdsReturns, LockInv, S!HoldsMutex
<1>6. CASE UpdatePrinter
  <2>1. CASE UNCHANGED rVars
    BY <1>6, <2>1 DEF UpdatePrinter, LockInv, S!HoldsMutex
  <2>2. CASE R!Push(rSeen')
    <3>1. rTasks' # <<>> /\ UNCHANGED rTask
      <4>1. rSeen' \in Nat
        BY <1>0, <1>6 DEF UpdatePrinter
      <4> QED
        BY <1>0, <2>2, <4>1, AppendedNonempty DEF R!Push
    <3>2. rPc'[Printer] = rPc[Printer] \/ rPc'[Printer] = "ready"
      BY <1>0, <2>2, PrinterNotified DEF R!Push
    <3> QED
      BY <1>6, <3>1, <3>2 DEF UpdatePrinter, LockInv, S!HoldsMutex
  <2> QED
    BY <1>6, <2>1, <2>2 DEF UpdatePrinter
<1>7. CASE UpdateSaver
  <2>1. sTasks' # <<>> /\ UNCHANGED sTask
    <3>1. sSeen' \in Nat
      BY <1>0, <1>7 DEF UpdateSaver
    <3> QED
      BY <1>0, <1>7, <3>1, AppendedNonempty DEF UpdateSaver, S!Push
  <2>2. \A w \in Savers : sPc'[w] = sPc[w] \/ sPc'[w] = "ready"
    BY <1>0, <1>7, SaversNotified DEF UpdateSaver, S!Push
  <2> QED
    BY <1>7, <2>1, <2>2 DEF UpdateSaver, LockInv, S!HoldsMutex
<1>8. CASE PrinterLoop
  <2>1. rPc'[Printer] = "running" => rTask'[Printer] \in Nat
    BY <1>8, PrinterTurn DEF PrinterLoop, PipeTypeOK, R!TypeOKFor
  <2>2. rPc'[Printer] = "holding" => rStopped' \/ rTasks' # <<>>
    BY <1>8, PrinterTurn DEF PrinterLoop
  <2> QED
    BY <1>8, <2>1, <2>2 DEF PrinterLoop, LockInv, S!HoldsMutex
<1>9. CASE PrintTask
  <2>1. rPc'[Printer] = "ready"
    BY <1>0, <1>9 DEF PrintTask, R!Finish
  <2> QED
    BY <1>9, <2>1 DEF PrintTask, LockInv, S!HoldsMutex
<1>10. ASSUME NEW w \in Savers, SaverLoop(w) PROVE LockInv'
  <2>1. /\ \A v \in Savers \ {w} : sPc'[v] = sPc[v]
        /\ S!HoldsMutex(w) \/ ~S!HoldsMutex(w)' \/ \A v \in Savers : ~S!HoldsMutex(v)
        /\ UNCHANGED sStopped
    BY <1>10, SaverTurn DEF SaverLoop
  <2>2. \A u, v \in Savers : S!HoldsMutex(u)' /\ S!HoldsMutex(v)' => u = v
    BY <2>1 DEF LockInv, S!HoldsMutex
  <2>3. CASE UNCHANGED <<sTasks, sTask>>
    <3>1. /\ sPc'[w] # "running"
          /\ sPc'[w] = "holding" => sStopped \/ sTasks # <<>>
      BY <1>10, <2>3, SaverTurn DEF SaverLoop, PipeTypeOK, S!TypeOKFor
    <3> QED
      BY <1>10, <2>1, <2>2, <2>3, <3>1 DEF SaverLoop, LockInv
  <2>4. CASE /\ sPc[w] = "holding" /\ Head(sTasks) \in Nat
             /\ sTask' = [sTask EXCEPT ![w] = Head(sTasks)]
             /\ sPc'[w] = "running"
    <3>1. \A v \in Savers \ {w} : sPc'[v] # "holding" /\ sTask'[v] = sTask[v]
      BY <2>1, <2>4 DEF LockInv, S!HoldsMutex, PipeTypeOK, S!TypeOKFor
    <3>2. sTask'[w] \in Nat
      BY <2>4 DEF PipeTypeOK, S!TypeOKFor
    <3> QED
      BY <1>10, <2>1, <2>2, <2>4, <3>1, <3>2 DEF SaverLoop, LockInv
  <2> QED
    BY <1>10, <2>3, <2>4, SaverTurn DEF SaverLoop
<1>11. ASSUME NEW w \in Savers, SaveBlock(w) PROVE LockInv'
  <2>1. /\ sPc'[w] = "ready" /\ UNCHANGED <<sTasks, sStopped>>
        /\ \A v \in Savers \ {w} : sPc'[v] = sPc[v] /\ sTask'[v] = sTask[v]
    BY <1>0, <1>11 DEF SaveBlock, S!Finish, PipeTypeOK, S!TypeOKFor
  <2> QED
    BY <1>11, <2>1 DEF SaveBlock, LockInv, S!HoldsMutex
<1>12. CASE Disconnect
  <2>1. /\ pPc'[Processor] = pPc[Processor] \/ pPc'[Processor] = "ready"
        /\ UNCHANGED <<pTasks, pTask>> /\ (pStopped => pStopped')
    BY <1>0, <1>12, ProcessorNotified
    DEF Disconnect, StopProcessor, StopProcessorJoins, P!RaiseStopped, P!StopNotify
  <2>2. /\ rPc'[Printer] = rPc[Printer] \/ rPc'[Printer] = "ready"
        /\ UNCHANGED <<rTasks, rTask>> /\ (rStopped => rStopped')
    BY <1>0, <1>12, PrinterNotified DEF Disconnect, StopPrinter, R!RaiseStopped, R!StopNotify
  <2>3. /\ \A w \in Savers : sPc'[w] = sPc[w] \/ sPc'[w] = "ready"
        /\ UNCHANGED <<sTasks, sTask>> /\ (sStopped => sStopped')
    BY <1>0, <1>12, SaversNotified DEF Disconnect, StopSavers, S!RaiseStopped, S!StopNotify
  <2> QED
    BY <2>1, <2>2, <2>3 DEF LockInv, S!HoldsMutex
<1> QED
  BY <1>1, <1>2, <1>3, <1>4, <1>5, <1>6, <1>7, <1>8, <1>9, <1>10, <1>11, <1>12
  DEF ANext, Worker, Notify, Observers

-----------------------------------------------------------------------------
(* No observer is behind: what AllNotified says survives a step that sends *)
(* no event and calls no update.                                           *)
LEMMA AllNotifiedKept ==
    ASSUME AllNotified, UNCHANGED <<events, rSeen, sSeen>>
    PROVE  AllNotified'
BY DEF AllNotified

(* A flushed parser sends nothing more. *)
LEMMA FlushedQuiet ==
    ASSUME StageInv, stage \in Flushed, [Next]_vars
    PROVE  UNCHANGED <<events, stopped>>
BY DEF StageInv, Next, RunLine, OpenBlock, CloseOuter, CloseNested, CloseOutOfRange,
       CloseBlock, Command, Getline, NextChunk, FlushOnStop, vars

(* Only Stop stops the parser. *)
LEMMA RunLineGoesOn == ASSUME RunLine PROVE UNCHANGED <<stopped, chunk_start>>
BY DEF RunLine, OpenBlock, CloseOuter, CloseNested, CloseOutOfRange, CloseBlock,
       Command, Getline

(* The order of the client's steps. *)
LEMMA StageStep ==
    ASSUME PipeTypeOK, LockInv, StageInv, PrintInv, SaveInv, [ANext]_allVars
    PROVE  StageInv'
<1> USE DEF P!vars, R!vars, S!vars, pVars, rVars, sVars, seenVars, feedVars, outVars
<1> USE DEF Flushed, PrinterStopped, PrinterJoined, SaversStopped
<1>0. /\ pPc \in [{Processor} -> P!Places] /\ rPc \in [{Printer} -> R!Places]
      /\ sPc \in [Savers -> S!Places]
      /\ rSeen \in Nat /\ sSeen \in Nat
  BY DEF PipeTypeOK, P!TypeOKFor, R!TypeOKFor, S!TypeOKFor
<1>1. CASE UNCHANGED allVars
  BY <1>1 DEF allVars, vars, StageInv, AllNotified
<1>2. CASE AddTask
  <2>1. pPc'[Processor] = pPc[Processor] \/ pPc'[Processor] = "ready"
    BY <1>0, <1>2, ProcessorNotified DEF AddTask, P!Push
  <2>2. pPc[Processor] # "exited"
    BY <1>2 DEF AddTask, StageInv
  <2> QED
    BY <1>2, <2>1, <2>2 DEF AddTask, P!Push, vars, StageInv, AllNotified
<1>3. CASE ProcessorLoop
  <2>1. /\ pPc[Processor] # "exited" /\ UNCHANGED pStopped
        /\ pPc'[Processor] = "exited" => pStopped /\ pTasks' = <<>>
    BY <1>3, ProcessorTurn DEF ProcessorLoop
  <2> QED
    BY <1>3, <2>1 DEF ProcessorLoop, vars, StageInv, AllNotified
<1>4. CASE RunCmdsLine
  <2>1. pPc[Processor] = "running"
    BY <1>4 DEF RunCmdsLine
  <2>2. stage \notin Flushed
    BY <2>1 DEF StageInv
  <2> QED
    BY <1>4, <2>2, RunLineGoesOn DEF RunCmdsLine, StageInv
<1>5. CASE RunCmdsReturns
  <2>1. pPc[Processor] = "running" /\ pPc'[Processor] = "ready"
    BY <1>0, <1>5 DEF RunCmdsReturns, P!Finish
  <2>2. stage \notin Flushed
    BY <2>1 DEF StageInv
  <2> QED
    BY <1>5, <2>1, <2>2 DEF RunCmdsReturns, P!Finish, NextChunk, StageInv
<1>6. CASE UpdatePrinter
  <2>1. stage \notin PrinterStopped
    BY <1>0, <1>6 DEF UpdatePrinter, StageInv, AllNotified
  <2>2. rPc[Printer] # "exited"
    BY <2>1 DEF StageInv
  <2>3. rPc'[Printer] = rPc[Printer] \/ rPc'[Printer] = "ready"
    BY <1>0, <1>6, PrinterNotified DEF UpdatePrinter, R!Push
  <2>4. UNCHANGED rStopped
    BY <1>6 DEF UpdatePrinter, R!Push
  <2> QED
    BY <1>6, <2>1, <2>2, <2>3, <2>4 DEF UpdatePrinter, vars, StageInv
<1>7. CASE UpdateSaver
  <2>1. stage \notin PrinterStopped
    BY <1>0, <1>7 DEF UpdateSaver, StageInv, AllNotified
  <2>2. \A w \in Savers : sPc[w] # "exited"
    BY <2>1 DEF StageInv
  <2>3. \A w \in Savers : sPc'[w] = sPc[w] \/ sPc'[w] = "ready"
    BY <1>0, <1>7, SaversNotified DEF UpdateSaver, S!Push
  <2>4. UNCHANGED sStopped
    BY <1>7 DEF UpdateSaver, S!Push
  <2> QED
    BY <1>7, <2>1, <2>2, <2>3, <2>4 DEF UpdateSaver, vars, StageInv
<1>8. CASE PrinterLoop
  <2>1. /\ rPc[Printer] # "exited" /\ UNCHANGED rStopped
        /\ rPc'[Printer] = "exited" => rStopped /\ rTasks' = <<>>
    BY <1>8, PrinterTurn DEF PrinterLoop
  <2> QED
    BY <1>8, <2>1 DEF PrinterLoop, vars, StageInv, AllNotified
<1>9. CASE PrintTask
  <2>1. rPc[Printer] = "running" /\ rPc'[Printer] = "ready"
    BY <1>0, <1>9 DEF PrintTask, R!Finish
  <2> QED
    BY <1>9, <2>1 DEF PrintTask, R!Finish, vars, StageInv, AllNotified
<1>10. ASSUME NEW w \in Savers, SaverLoop(w) PROVE StageInv'
  <2>1. /\ sPc[w] # "exited" /\ UNCHANGED sStopped
        /\ \A v \in Savers \ {w} : sPc'[v] = sPc[v]
        /\ sPc'[w] = "exited" => sStopped /\ sTasks' = <<>>
        /\ sTasks' = sTasks \/ sTasks # <<>>
    BY <1>10, SaverTurn DEF SaverLoop
  <2> QED
    BY <1>10, <2>1 DEF SaverLoop, vars, StageInv, AllNotified
<1>11. ASSUME NEW w \in Savers, SaveBlock(w) PROVE StageInv'
  <2>1. /\ sPc[w] = "running" /\ sPc'[w] = "ready" /\ UNCHANGED <<sTasks, sStopped>>
        /\ \A v \in Savers \ {w} : sPc'[v] = sPc[v]
    BY <1>0, <1>11 DEF SaveBlock, S!Finish
  <2> QED
    BY <1>11, <2>1 DEF SaveBlock, vars, StageInv, AllNotified
<1>12. CASE Disconnect
  <2>1. CASE StopProcessor /\ UNCHANGED <<rVars, sVars>>
    <3>1. /\ UNCHANGED <<pTasks, stopped, events>>
          /\ pPc'[Processor] = pPc[Processor]
               \/ (pPc[Processor] = "waiting" /\ pPc'[Processor] = "ready")
      BY <1>0, <2>1, ProcessorNotified
      DEF StopProcessor, P!RaiseStopped, P!StopNotify, vars
    <3>2. \/ stage = "feeding" /\ stage' = "pRaised" /\ pStopped'
          \/ stage = "pRaised" /\ stage' = "pJoining" /\ UNCHANGED pStopped
      BY <2>1 DEF StopProcessor, At, P!RaiseStopped, P!StopNotify
    <3> QED
      BY <1>12, <2>1, <3>1, <3>2 DEF Disconnect, StageInv
  <2>2. CASE StopProcessorJoins /\ UNCHANGED <<rVars, sVars>>
    <3>1. pPc[Processor] = "exited"
      BY <2>2 DEF StopProcessorJoins, P!Joinable
    <3> QED
      BY <1>12, <2>2, <3>1 DEF StopProcessorJoins, FlushOnStop, At, Disconnect, StageInv
  <2>3. CASE StopPrinter /\ UNCHANGED <<vars, pVars, sVars>>
    <3>1. /\ UNCHANGED rTasks
          /\ rPc'[Printer] = rPc[Printer]
               \/ (rPc[Printer] = "waiting" /\ rPc'[Printer] = "ready")
      BY <1>0, <2>3, PrinterNotified
      DEF StopPrinter, R!RaiseStopped, R!StopNotify
    <3>2. \/ stage = "flushing" /\ stage' = "rRaised" /\ rStopped' /\ AllNotified
          \/ stage = "rRaised" /\ stage' = "rJoining" /\ UNCHANGED rStopped
          \/ /\ stage = "rJoining" /\ stage' = "sStop" /\ UNCHANGED rVars
             /\ rPc[Printer] = "exited"
      BY <2>3 DEF StopPrinter, At, R!RaiseStopped, R!StopNotify, R!Joinable
    <3> QED
      BY <1>12, <2>3, <3>1, <3>2, AllNotifiedKept DEF Disconnect, StageInv, vars
  <2>4. CASE StopSavers /\ UNCHANGED <<vars, pVars, rVars>>
    <3>1. /\ UNCHANGED sTasks
          /\ \A w \in Savers : \/ sPc'[w] = sPc[w]
                               \/ sPc[w] = "waiting" /\ sPc'[w] = "ready"
      BY <1>0, <2>4, SaversNotified
      DEF StopSavers, S!RaiseStopped, S!StopNotify
    <3>2. \/ stage = "sStop" /\ stage' = "sRaised" /\ sStopped'
          \/ stage = "sRaised" /\ stage' = "sJoining" /\ UNCHANGED sStopped
          \/ /\ stage = "sJoining" /\ stage' = "done" /\ UNCHANGED sVars
             /\ \A w \in Savers : sPc[w] = "exited"
      BY <2>4 DEF StopSavers, At, S!RaiseStopped, S!StopNotify, S!Joinable
    <3> QED
      BY <1>12, <2>4, <3>1, <3>2, AllNotifiedKept DEF Disconnect, StageInv, vars
  <2> QED
    BY <1>12, <2>1, <2>2, <2>3, <2>4 DEF Disconnect
<1> QED
  BY <1>1, <1>2, <1>3, <1>4, <1>5, <1>6, <1>7, <1>8, <1>9, <1>10, <1>11, <1>12
  DEF ANext, Worker, Notify, Observers

-----------------------------------------------------------------------------
(* The savers' blocks stay where they are while no saver has a turn and    *)
(* the parser's blocks do not reach them.                                  *)
LEMMA SaveKept ==
    ASSUME PipeTypeOK, SaveInv, UNCHANGED <<sTasks, sTask, sSeen, saved>>,
           rSeen' \in Nat, rSeen <= rSeen',
           \A w \in Savers : sPc'[w] = "running" <=> sPc[w] = "running"
    PROVE  SaveInv'
<1>1. sSeen \in Nat /\ rSeen \in Nat
  BY DEF PipeTypeOK
<1>2. /\ sTasks' = sTasks /\ sTask' = sTask /\ sSeen' = sSeen /\ saved' = saved
      /\ TakenBySavers' = TakenBySavers
  BY DEF TakenBySavers
<1>3. sSeen' <= rSeen'
  BY <1>1, <1>2 DEF SaveInv
<1> QED
  BY <1>2, <1>3 DEF SaveInv

(* update queues the next block. *)
LEMMA UpdateSaverSave == ASSUME PipeTypeOK, SaveInv, UpdateSaver PROVE SaveInv'
<1>1. /\ sTasks \in Seq(Nat) /\ sSeen \in Nat /\ rSeen \in Nat
      /\ sPc \in [Savers -> S!Places] /\ Len(sTasks) \in Nat
  BY DEF PipeTypeOK, S!TypeOKFor
<1>2. /\ sSeen' = sSeen + 1 /\ sSeen < rSeen /\ rSeen' = rSeen
      /\ sTasks' = Append(sTasks, sSeen + 1) /\ UNCHANGED <<sTask, saved>>
  BY DEF UpdateSaver, S!Push, outVars
<1>3. /\ Len(sTasks') = Len(sTasks) + 1
      /\ \A i \in 1..Len(sTasks) : sTasks'[i] = sTasks[i]
      /\ sTasks'[Len(sTasks) + 1] = sSeen + 1
  BY <1>1, <1>2, AppendProperties
<1>4. TakenBySavers' = TakenBySavers
  BY <1>1, <1>2, <1>3 DEF TakenBySavers
<1>5. \A i \in 1..Len(sTasks') : sTasks'[i] = TakenBySavers' + i
  <2> SUFFICES ASSUME NEW i \in 1..Len(sTasks') PROVE sTasks'[i] = TakenBySavers + i
    BY <1>4
  <2>1. CASE i \in 1..Len(sTasks)
    BY <1>3, <2>1 DEF SaveInv
  <2>2. CASE i = Len(sTasks) + 1
    BY <1>1, <1>3, <2>2 DEF TakenBySavers
  <2> QED
    BY <1>1, <1>3, <2>1, <2>2
<1>6. \A w \in Savers : sPc'[w] = "running" <=> sPc[w] = "running"
  BY <1>1, SaversNotified DEF UpdateSaver, S!Push
<1> QED
  BY <1>1, <1>2, <1>3, <1>4, <1>5, <1>6 DEF SaveInv

(* A saver's turn: it may take the first block of the queue. *)
LEMMA SaverLoopSave ==
    ASSUME PipeTypeOK, LockInv, SaveInv, NEW w \in Savers, SaverLoop(w)
    PROVE  SaveInv'
<1>1. /\ sTasks \in Seq(Nat) /\ sSeen \in Nat /\ Len(sTasks) \in Nat
      /\ sTask \in [Savers -> Nat \union {NoTask}]
  BY DEF PipeTypeOK, S!TypeOKFor
<1>2. /\ UNCHANGED <<sSeen, rSeen, saved>>
      /\ \A v \in Savers \ {w} : sPc'[v] = sPc[v]
      /\ sPc[w] # "running"
  BY SaverTurn DEF SaverLoop, seenVars, outVars
<1>3. CASE UNCHANGED <<sTasks, sTask>> /\ sPc'[w] # "running"
  <2>1. \A v \in Savers : sPc'[v] = "running" <=> sPc[v] = "running"
    BY <1>2, <1>3
  <2>2. rSeen' \in Nat /\ rSeen <= rSeen'
    BY <1>2 DEF PipeTypeOK
  <2> QED
    BY <1>2, <1>3, <2>1, <2>2, SaveKept
<1>4. CASE /\ sTasks # <<>> /\ sTasks' = Tail(sTasks)
           /\ sTask' = [sTask EXCEPT ![w] = Head(sTasks)]
           /\ sPc'[w] = "running"
  <2>1. /\ Len(sTasks) > 0 /\ Len(sTasks') = Len(sTasks) - 1
        /\ \A i \in 1..Len(sTasks') : sTasks'[i] = sTasks[i + 1]
    BY <1>1, <1>4, HeadTailProperties
  <2>2. TakenBySavers' = TakenBySavers + 1 /\ TakenBySavers \in Nat /\ TakenBySavers' \in Nat
    BY <1>1, <1>2, <2>1 DEF TakenBySavers, SaveInv
  <2>3. Head(sTasks) = TakenBySavers + 1
    BY <1>1, <1>4, <2>1 DEF SaveInv
  <2>4. /\ sTask'[w] = TakenBySavers + 1
        /\ \A v \in Savers \ {w} : sTask'[v] = sTask[v]
    BY <1>1, <1>4, <2>3
  <2>5. \A i \in 1..Len(sTasks') : sTasks'[i] = TakenBySavers' + i
    BY <1>1, <2>1, <2>2 DEF SaveInv
  <2>6. \A i \in 1..Len(saved) : saved[i] \in 1..TakenBySavers
    BY DEF SaveInv
  <2>7. /\ sTask'[w] \in 1..TakenBySavers' /\ TakenBySavers + 1 \notin 1..TakenBySavers
        /\ \A k \in 1..TakenBySavers : k \in 1..TakenBySavers'
        /\ \A k \in 1..TakenBySavers' : k \in 1..TakenBySavers \/ k = TakenBySavers + 1
    BY <2>2, <2>4
  <2>8. \A v \in Savers : sPc'[v] = "running" =>
            /\ sTask'[v] \in 1..TakenBySavers'
            /\ \A i \in 1..Len(saved) : saved[i] # sTask'[v]
    BY <1>2, <2>4, <2>6, <2>7 DEF SaveInv
  <2>9. \A u, v \in Savers :
            sPc'[u] = "running" /\ sPc'[v] = "running" /\ sTask'[u] = sTask'[v] => u = v
    BY <1>2, <2>4, <2>7 DEF SaveInv
  <2>10. \A k \in 1..TakenBySavers' :
            \/ \E i \in 1..Len(saved) : saved[i] = k
            \/ \E v \in Savers : sPc'[v] = "running" /\ sTask'[v] = k
    <3> SUFFICES ASSUME NEW k \in 1..TakenBySavers',
                        ~ \E i \in 1..Len(saved) : saved[i] = k
                 PROVE  \E v \in Savers : sPc'[v] = "running" /\ sTask'[v] = k
      OBVIOUS
    <3>1. CASE k = TakenBySavers + 1
      BY <1>4, <2>4, <3>1
    <3>2. CASE k \in 1..TakenBySavers
      <4>1. PICK v \in Savers : sPc[v] = "running" /\ sTask[v] = k
        BY <3>2 DEF SaveInv
      <4>2. v # w
        BY <1>2, <4>1
      <4> QED
        BY <1>2, <2>4, <4>1, <4>2
    <3> QED
      BY <2>7, <3>1, <3>2
  <2>11. sSeen' <= rSeen' /\ Len(sTasks') <= sSeen'
    BY <1>1, <1>2, <2>1 DEF SaveInv
  <2>12. \A i \in 1..Len(saved') : saved'[i] \in 1..TakenBySavers'
    BY <1>2, <2>6, <2>7
  <2> QED
    BY <1>2, <2>5, <2>8, <2>9, <2>10, <2>11, <2>12 DEF SaveInv
<1> QED
  BY <1>3, <1>4, SaverTurn DEF SaverLoop

(* save_block done: the block at hand joins the saved ones. *)
LEMMA SaveBlockSave ==
    ASSUME PipeTypeOK, LockInv, SaveInv, NEW w \in Savers, SaveBlock(w)
    PROVE  SaveInv'
<1>1. /\ saved \in Seq(Nat) /\ Len(saved) \in Nat /\ sPc[w] = "running" /\ sTask[w] \in Nat
      /\ sPc \in [Savers -> S!Places] /\ sTask \in [Savers -> Nat \union {NoTask}]
  BY DEF PipeTypeOK, S!TypeOKFor, SaveBlock, S!Finish, LockInv
<1>2. /\ UNCHANGED <<sTasks, sSeen, rSeen>> /\ TakenBySavers' = TakenBySavers
      /\ saved' = Append(saved, sTask[w])
  BY DEF SaveBlock, S!Finish, seenVars, TakenBySavers
<1>3. /\ sPc'[w] # "running"
      /\ \A v \in Savers \ {w} : sPc'[v] = sPc[v] /\ sTask'[v] = sTask[v]
  BY <1>1 DEF SaveBlock, S!Finish
<1>4. /\ Len(saved') = Len(saved) + 1
      /\ \A i \in 1..Len(saved) : saved'[i] = saved[i]
      /\ saved'[Len(saved) + 1] = sTask[w]
  BY <1>1, <1>2, AppendProperties
<1>5. /\ sTask[w] \in 1..TakenBySavers
      /\ \A i \in 1..Len(saved) : saved[i] # sTask[w]
  BY <1>1 DEF SaveInv
<1>6. \A i \in 1..Len(saved') : i \in 1..Len(saved) \/ i = Len(saved) + 1
  BY <1>1, <1>4
<1>7. \A i \in 1..Len(saved) : i \in 1..Len(saved') /\ i # Len(saved) + 1
  BY <1>1, <1>4
<1>8. \A i \in 1..Len(saved') : saved'[i] \in 1..TakenBySavers
  BY <1>4, <1>5, <1>6 DEF SaveInv
<1>9. \A i, j \in 1..Len(saved') : i # j => saved'[i] # saved'[j]
  BY <1>4, <1>5, <1>6 DEF SaveInv
<1>10. \A v \in Savers : sPc'[v] = "running" =>
            /\ sTask'[v] \in 1..TakenBySavers
            /\ \A i \in 1..Len(saved') : saved'[i] # sTask'[v]
  <2> SUFFICES ASSUME NEW v \in Savers, sPc'[v] = "running"
               PROVE  /\ sTask'[v] \in 1..TakenBySavers
                      /\ \A i \in 1..Len(saved') : saved'[i] # sTask'[v]
    OBVIOUS
  <2>1. v # w /\ sPc[v] = "running" /\ sTask'[v] = sTask[v]
    BY <1>3
  <2>2. sTask[v] # sTask[w]
    BY <1>1, <2>1 DEF SaveInv
  <2> QED
    BY <1>4, <1>6, <2>1, <2>2 DEF SaveInv
<1>11. \A u, v \in Savers :
            sPc'[u] = "running" /\ sPc'[v] = "running" /\ sTask'[u] = sTask'[v] => u = v
  BY <1>3 DEF SaveInv
<1>12. \A k \in 1..TakenBySavers :
            \/ \E i \in 1..Len(saved') : saved'[i] = k
            \/ \E v \in Savers : sPc'[v] = "running" /\ sTask'[v] = k
  <2> SUFFICES ASSUME NEW k \in 1..TakenBySavers,
                      ~ \E i \in 1..Len(saved') : saved'[i] = k
               PROVE  \E v \in Savers : sPc'[v] = "running" /\ sTask'[v] = k
    OBVIOUS
  <2>1. Len(saved) + 1 \in 1..Len(saved')
    BY <1>1, <1>4
  <2>2. k # sTask[w]
    BY <1>4, <2>1
  <2>3. ~ \E i \in 1..Len(saved) : saved[i] = k
    BY <1>4, <1>7
  <2>4. PICK v \in Savers : sPc[v] = "running" /\ sTask[v] = k
    BY <2>3 DEF SaveInv
  <2> QED
    BY <1>3, <2>2, <2>4
<1> QED
  BY <1>2, <1>8, <1>9, <1>10, <1>11, <1>12 DEF SaveInv

-----------------------------------------------------------------------------
(* The printer's blocks stay where they are while it has no turn and gets  *)
(* no block, whatever the parser adds to events.                           *)
LEMMA PrintKept ==
    ASSUME TypeOK, PipeTypeOK, PrintInv, [Next]_vars,
           UNCHANGED rSeen, ToPrint' = ToPrint
    PROVE  PrintInv'
<1>1. rSeen \in Nat /\ rSeen <= Len(events) /\ Len(events) \in Nat
  BY EventsGrow DEF PipeTypeOK, PrintInv
<1>2. Len(events') >= Len(events) /\ Len(events') \in Nat
  BY <1>1, EventsGrow
<1>3. \A k \in 1..rSeen : events'[k] = events[k]
  BY <1>1, EventsGrow
<1>4. rSeen' = rSeen /\ rSeen' <= Len(events')
  BY <1>1, <1>2
<1> QED
  BY <1>3, <1>4 DEF PrintInv

(* The printer's sequences. *)
LEMMA ToPrintType ==
    ASSUME PipeTypeOK, LockInv
    PROVE  /\ AtHand \in Seq(Nat) /\ rTasks \in Seq(Nat) /\ printed \in Seq(Nat)
           /\ printed \o AtHand \in Seq(Nat) /\ ToPrint \in Seq(Nat)
<1>1. rTasks \in Seq(Nat) /\ printed \in Seq(Nat)
  BY DEF PipeTypeOK, R!TypeOKFor
<1>2. AtHand \in Seq(Nat)
  BY DEF AtHand, LockInv
<1>3. printed \o AtHand \in Seq(Nat)
  BY <1>1, <1>2, ConcatProperties
<1>4. ToPrint \in Seq(Nat)
  BY <1>1, <1>3, ConcatProperties DEF ToPrint
<1> QED
  BY <1>1, <1>2, <1>3, <1>4

(* update gives it the next block, unless it is a nested one. *)
LEMMA UpdatePrinterAdds ==
    ASSUME TypeOK, PipeTypeOK, LockInv, UpdatePrinter
    PROVE  /\ rSeen \in Nat /\ rSeen < Len(events) /\ rSeen' = rSeen + 1
           /\ UNCHANGED <<events, printed>>
           /\ ToPrint' = IF events[rSeen + 1].event = "event_print_save"
                         THEN Append(ToPrint, rSeen + 1) ELSE ToPrint
<1>1. /\ rSeen \in Nat /\ rSeen < Len(events) /\ rSeen' = rSeen + 1
      /\ UNCHANGED <<events, printed>> /\ Len(events) \in Nat
      /\ rPc \in [{Printer} -> R!Places]
  BY DEF UpdatePrinter, PipeTypeOK, R!TypeOKFor, TypeOK, vars, outVars
<1>2. events[rSeen + 1].event \in EventKinds
  <2>1. events \in Seq(Event) /\ rSeen + 1 \in 1..Len(events)
    BY <1>1 DEF TypeOK
  <2>2. events[rSeen + 1] \in Event
    BY <2>1, ElementOfSeq
  <2> QED
    BY <2>2 DEF Event
<1>3. CASE events[rSeen + 1].event = "event_save" /\ UNCHANGED rVars
  <2>1. ToPrint' = ToPrint
    BY <1>1, <1>3 DEF ToPrint, AtHand, rVars
  <2> QED
    BY <1>1, <1>3, <2>1
<1>4. CASE events[rSeen + 1].event # "event_save" /\ R!Push(rSeen')
  <2>1. events[rSeen + 1].event = "event_print_save"
    BY <1>2, <1>4 DEF EventKinds
  <2>2. rTasks' = Append(rTasks, rSeen + 1) /\ AtHand' = AtHand
    BY <1>1, <1>4, PrinterNotified DEF R!Push, AtHand
  <2>3. ToPrint' = Append(ToPrint, rSeen + 1)
    <3> DEFINE done == printed \o AtHand
    <3>1. done \in Seq(Nat) /\ rTasks \in Seq(Nat) /\ <<rSeen + 1>> \in Seq(Nat)
          /\ rSeen + 1 \in Nat /\ ToPrint \in Seq(Nat)
      BY <1>1, ToPrintType
    <3> HIDE DEF done
    <3>2. Append(rTasks, rSeen + 1) = rTasks \o <<rSeen + 1>>
      BY <3>1, AppendIsConcat
    <3>3. done \o (rTasks \o <<rSeen + 1>>) = (done \o rTasks) \o <<rSeen + 1>>
      BY <3>1, ConcatAssociative
    <3>4. ToPrint = done \o rTasks
      BY DEF ToPrint, done
    <3>5. Append(ToPrint, rSeen + 1) = ToPrint \o <<rSeen + 1>>
      BY <3>1, AppendIsConcat
    <3>6. ToPrint' = done \o Append(rTasks, rSeen + 1)
      BY <1>1, <2>2 DEF ToPrint, done
    <3> QED
      BY <3>2, <3>3, <3>4, <3>5, <3>6
  <2> QED
    BY <1>1, <2>1, <2>3
<1> QED
  BY <1>1, <1>3, <1>4 DEF UpdatePrinter

(* So its blocks are in order. *)
LEMMA UpdatePrinterPrint ==
    ASSUME TypeOK, PipeTypeOK, LockInv, PrintInv, UpdatePrinter
    PROVE  PrintInv'
<1>1. /\ rSeen \in Nat /\ rSeen < Len(events) /\ rSeen' = rSeen + 1
      /\ UNCHANGED <<events, printed>> /\ Len(events) \in Nat
  BY UpdatePrinterAdds DEF TypeOK
<1>2. rSeen' <= Len(events')
  BY <1>1
<1>3. CASE events[rSeen + 1].event # "event_print_save"
  <2>1. ToPrint' = ToPrint
    BY <1>3, UpdatePrinterAdds
  <2>2. \A k \in Nat : (k \in 1..rSeen' /\ events[k].event = "event_print_save")
                        <=> (k \in 1..rSeen /\ events[k].event = "event_print_save")
    BY <1>1, <1>3
  <2> QED
    BY <1>1, <1>2, <2>1, <2>2 DEF PrintInv
<1>4. CASE events[rSeen + 1].event = "event_print_save"
  <2>1. ToPrint' = Append(ToPrint, rSeen + 1)
    BY <1>4, UpdatePrinterAdds
  <2>2. /\ Len(ToPrint) \in Nat /\ Len(ToPrint') = Len(ToPrint) + 1
        /\ \A i \in 1..Len(ToPrint) : ToPrint'[i] = ToPrint[i] /\ ToPrint[i] \in Nat
        /\ ToPrint'[Len(ToPrint) + 1] = rSeen + 1
    BY <1>1, <2>1, ToPrintType, AppendProperties
  <2>3. \A i \in 1..Len(ToPrint) : ToPrint[i] \in 1..rSeen
    BY <2>2 DEF PrintInv
  <2>4. \A i, j \in 1..Len(ToPrint') : i < j => ToPrint'[i] < ToPrint'[j]
    <3> SUFFICES ASSUME NEW i \in 1..Len(ToPrint'), NEW j \in 1..Len(ToPrint'), i < j
                 PROVE  ToPrint'[i] < ToPrint'[j]
      OBVIOUS
    <3>1. i \in 1..Len(ToPrint)
      BY <2>2
    <3>2. CASE j \in 1..Len(ToPrint)
      BY <2>2, <3>1, <3>2 DEF PrintInv
    <3>3. CASE j = Len(ToPrint) + 1
      BY <1>1, <2>2, <2>3, <3>1, <3>3
    <3> QED
      BY <2>2, <3>2, <3>3
  <2>5. \A k \in Nat :
        (\E i \in 1..Len(ToPrint') : ToPrint'[i] = k)
            <=> k \in 1..rSeen' /\ events'[k].event = "event_print_save"
    <3> SUFFICES ASSUME NEW k \in Nat
                 PROVE  (\E i \in 1..Len(ToPrint') : ToPrint'[i] = k)
                         <=> k \in 1..rSeen' /\ events'[k].event = "event_print_save"
      OBVIOUS
    <3>1. CASE k = rSeen + 1
      <4>1. Len(ToPrint) + 1 \in 1..Len(ToPrint')
        BY <2>2
      <4> QED
        BY <1>1, <1>4, <2>2, <3>1, <4>1
    <3>2. CASE k # rSeen + 1
      <4>1. k \in 1..rSeen' <=> k \in 1..rSeen
        BY <1>1, <3>2
      <4>2. (\E i \in 1..Len(ToPrint') : ToPrint'[i] = k)
             <=> (\E i \in 1..Len(ToPrint) : ToPrint[i] = k)
        BY <2>2, <3>2
      <4> QED
        BY <1>1, <4>1, <4>2 DEF PrintInv
    <3> QED
      BY <3>1, <3>2
  <2> QED
    BY <1>2, <2>4, <2>5 DEF PrintInv
<1> QED
  BY <1>3, <1>4

(* The printer takes the first block of its queue, ... *)
LEMMA PrinterLoopSame ==
    ASSUME PipeTypeOK, LockInv, PrinterLoop
    PROVE  ToPrint' = ToPrint
<1>1. /\ UNCHANGED printed /\ rPc[Printer] # "running"
      /\ rTask \in [{Printer} -> Nat \union {NoTask}]
  BY PrinterTurn DEF PrinterLoop, outVars, PipeTypeOK, R!TypeOKFor
<1>2. CASE UNCHANGED <<rTasks, rTask>> /\ rPc'[Printer] # "running"
  BY <1>1, <1>2 DEF ToPrint, AtHand
<1>3. CASE /\ rTasks # <<>> /\ Head(rTasks) \in Nat /\ rTasks' = Tail(rTasks)
           /\ rTask' = [rTask EXCEPT ![Printer] = Head(rTasks)]
           /\ rPc'[Printer] = "running"
  <2>1. AtHand = <<>> /\ AtHand' = <<Head(rTasks)>>
    BY <1>1, <1>3 DEF AtHand
  <2>2. /\ printed \in Seq(Nat) /\ rTasks \in Seq(Nat) /\ <<Head(rTasks)>> \in Seq(Nat)
        /\ Tail(rTasks) \in Seq(Nat)
    BY <1>3, ToPrintType, HeadTailProperties
  <2>3. <<Head(rTasks)>> \o Tail(rTasks) = rTasks
    BY <1>3, <2>2
  <2>4. (printed \o <<Head(rTasks)>>) \o Tail(rTasks) = printed \o (<<Head(rTasks)>> \o Tail(rTasks))
    BY <2>2, ConcatAssociative, SMTT(30)
  <2>5. printed \o <<>> = printed
    BY <2>2, ConcatEmptySeq
  <2> QED
    BY <1>1, <1>3, <2>1, <2>3, <2>4, <2>5 DEF ToPrint
<1> QED
  BY <1>2, <1>3, PrinterTurn DEF PrinterLoop

(* ... and writes it. *)
LEMMA PrintTaskSame ==
    ASSUME PipeTypeOK, LockInv, PrintTask
    PROVE  ToPrint' = ToPrint
<1>1. /\ UNCHANGED rTasks /\ rPc[Printer] = "running" /\ rPc'[Printer] = "ready"
      /\ printed' = Append(printed, rTask[Printer]) /\ rTask[Printer] \in Nat
  BY DEF PrintTask, R!Finish, LockInv, PipeTypeOK, R!TypeOKFor
<1>2. AtHand = <<rTask[Printer]>> /\ AtHand' = <<>>
  BY <1>1 DEF AtHand
<1>3. printed \in Seq(Nat) /\ Append(printed, rTask[Printer]) = printed \o <<rTask[Printer]>>
  BY <1>1, ToPrintType, AppendIsConcat
<1>4. printed \o <<rTask[Printer]>> \in Seq(Nat)
  BY <1>2, ToPrintType
<1>5. (printed \o <<rTask[Printer]>>) \o <<>> = printed \o <<rTask[Printer]>>
  BY <1>4, ConcatEmptySeq
<1> QED
  BY <1>1, <1>2, <1>3, <1>5 DEF ToPrint

-----------------------------------------------------------------------------
(* The text stays cut as it is while the client feeds nothing and the      *)
(* processor's worker has no turn.                                         *)
LEMMA FeedKept ==
    ASSUME FeedInv, UNCHANGED <<pTasks, pTask, fed, lines, chunk_start>>,
           pPc'[Processor] = "running" <=> pPc[Processor] = "running"
    PROVE  FeedInv'
BY DEF FeedInv, CutAt

(* What the cut says of the numbers and texts in it. *)
LEMMA CutTypes ==
    ASSUME TypeOK, PipeTypeOK, LockInv, NEW b \in Seq(Nat), CutAt(b)
    PROVE  /\ pTasks \in Seq(Lines) /\ Len(pTasks) \in Nat /\ Len(b) = Len(pTasks) + 1
           /\ fed \in Seq(Kinds) /\ Len(fed) \in Nat
           /\ lines \in Seq(Kinds) /\ Len(lines) \in Nat /\ chunk_start \in Nat
           /\ \A i \in 1..Len(b) : b[i] \in Nat /\ b[i] <= Len(fed)
           /\ b[1] \in Nat /\ Len(lines) <= b[1] /\ b[1] <= Len(fed)
           /\ \A i \in 1..Len(pTasks) :
                /\ pTasks[i] \in Lines /\ Len(pTasks[i]) \in Nat
                /\ i \in 1..Len(b) /\ i + 1 \in 1..Len(b)
                /\ \A j \in 1..Len(pTasks[i]) : b[i] + j \in 1..Len(fed)
           /\ pPc[Processor] = "running" =>
                /\ Len(pTask[Processor]) \in Nat
                /\ \A j \in 1..Len(pTask[Processor]) : chunk_start + j \in 1..Len(fed)
<1>1. /\ pTasks \in Seq(Lines) /\ Len(pTasks) \in Nat
      /\ fed \in Seq(Kinds) /\ Len(fed) \in Nat
  BY DEF PipeTypeOK, P!TypeOKFor, Lines
<1>2. lines \in Seq(Kinds) /\ Len(lines) \in Nat /\ chunk_start \in Nat
  BY DEF TypeOK
<1>3. \A q \in Lines : Len(q) \in Nat
  BY DEF Lines
<1>4. Len(b) = Len(pTasks) + 1 /\ Len(lines) <= b[1]
  BY DEF CutAt
<1>5. \A i \in 1..Len(b) : b[i] \in Nat /\ b[i] <= Len(fed)
  BY ElementOfSeq DEF CutAt
<1>6. 1 \in 1..Len(b)
  BY <1>1, <1>4
<1>7. ASSUME NEW i \in 1..Len(pTasks)
      PROVE  /\ pTasks[i] \in Lines /\ Len(pTasks[i]) \in Nat
             /\ i \in 1..Len(b) /\ i + 1 \in 1..Len(b)
             /\ \A j \in 1..Len(pTasks[i]) : b[i] + j \in 1..Len(fed)
  <2>1. pTasks[i] \in Lines /\ Len(pTasks[i]) \in Nat
    BY <1>1, <1>3, ElementOfSeq
  <2>2. i \in 1..Len(b) /\ i + 1 \in 1..Len(b)
    BY <1>1, <1>4
  <2>3. b[i + 1] = b[i] + Len(pTasks[i])
    BY DEF CutAt
  <2>4. b[i] \in Nat /\ b[i + 1] \in Nat /\ b[i + 1] <= Len(fed)
    BY <1>5, <2>2
  <2>5. b[i] + Len(pTasks[i]) <= Len(fed)
    BY <2>3, <2>4
  <2>6. \A j \in 1..Len(pTasks[i]) : b[i] + j \in 1..Len(fed)
    BY <1>1, <2>1, <2>4, <2>5, SMTT(30)
  <2> QED
    BY <2>1, <2>2, <2>6
<1>8. ASSUME pPc[Processor] = "running"
      PROVE  /\ Len(pTask[Processor]) \in Nat
             /\ \A j \in 1..Len(pTask[Processor]) : chunk_start + j \in 1..Len(fed)
  <2>1. Len(pTask[Processor]) \in Nat
    BY <1>3, <1>8 DEF LockInv
  <2>2. b[1] = chunk_start + Len(pTask[Processor])
    BY <1>8 DEF CutAt
  <2>3. chunk_start + Len(pTask[Processor]) <= Len(fed)
    BY <1>5, <1>6, <2>2
  <2> QED
    BY <1>1, <1>2, <2>1, <2>3
<1> QED
  BY <1>1, <1>2, <1>4, <1>5, <1>6, <1>7, <1>8

(* receive: one more chunk at the end of the text and of the queue. *)
LEMMA AddTaskFeed ==
    ASSUME TypeOK, PipeTypeOK, LockInv, FeedInv, AddTask
    PROVE  FeedInv'
<1>1. PICK chunk \in Chunks : P!Push(chunk) /\ fed' = fed \o chunk
  BY DEF AddTask
<1>2. chunk \in Seq(Kinds) /\ chunk \in Lines /\ Len(chunk) \in Nat
  BY ChunksAssumption DEF Lines
<1>3. PICK b \in Seq(Nat) : CutAt(b)
  BY DEF FeedInv
<1>4. /\ pTasks' = Append(pTasks, chunk) /\ UNCHANGED <<pTask, lines, chunk_start>>
      /\ pPc'[Processor] = "running" <=> pPc[Processor] = "running"
  BY <1>1, ProcessorNotified DEF AddTask, P!Push, vars, PipeTypeOK, P!TypeOKFor
<1>5. /\ Len(pTasks') = Len(pTasks) + 1
      /\ \A i \in 1..Len(pTasks) : pTasks'[i] = pTasks[i]
      /\ pTasks'[Len(pTasks) + 1] = chunk
  BY <1>2, <1>3, <1>4, CutTypes, AppendProperties
<1>6. /\ Len(fed') = Len(fed) + Len(chunk) /\ Len(fed') \in Nat
      /\ \A i \in 1..Len(fed) : fed'[i] = fed[i]
      /\ \A j \in 1..Len(chunk) : fed'[Len(fed) + j] = chunk[j]
  <2>1. fed \in Seq(Kinds) /\ Len(fed) \in Nat
    BY <1>3, CutTypes
  <2>2. /\ Len(fed') = Len(fed) + Len(chunk)
        /\ \A i \in 1..(Len(fed) + Len(chunk)) :
                fed'[i] = IF i <= Len(fed) THEN fed[i] ELSE chunk[i - Len(fed)]
    BY <1>1, <1>2, <2>1, ConcatProperties
  <2>3. ASSUME NEW j \in 1..Len(chunk) PROVE fed'[Len(fed) + j] = chunk[j]
    <3>1. /\ Len(fed) + j \in 1..(Len(fed) + Len(chunk)) /\ ~(Len(fed) + j <= Len(fed))
          /\ (Len(fed) + j) - Len(fed) = j
      BY <1>2, <2>1
    <3> QED
      BY <2>2, <3>1
  <2>4. \A i \in 1..Len(fed) : i \in 1..(Len(fed) + Len(chunk)) /\ i <= Len(fed)
    BY <1>2, <2>1
  <2> QED
    BY <1>2, <2>1, <2>2, <2>3, <2>4
<1>7. PICK c \in Seq(Nat) :
        /\ Len(c) = Len(b) + 1 /\ c[Len(b) + 1] = Len(fed')
        /\ \A i \in 1..Len(b) : c[i] = b[i]
  <2> DEFINE d == Append(b, Len(fed'))
  <2>1. d \in Seq(Nat) /\ Len(d) = Len(b) + 1 /\ d[Len(b) + 1] = Len(fed')
    BY <1>6, AppendProperties
  <2>2. \A i \in 1..Len(b) : d[i] = b[i]
    BY <1>6, AppendProperties
  <2> HIDE DEF d
  <2> QED
    BY <2>1, <2>2
<1>8. Len(c) = Len(pTasks') + 1 /\ c[Len(c)] = Len(fed') /\ c[1] = b[1]
  <2>1. 1 \in 1..Len(b) /\ Len(b) = Len(pTasks) + 1
    BY <1>3, CutTypes
  <2> QED
    BY <1>5, <1>7, <2>1
<1>9. \A i \in 1..Len(c) : c[i] <= Len(fed')
  <2> SUFFICES ASSUME NEW i \in 1..Len(c) PROVE c[i] <= Len(fed')
    OBVIOUS
  <2>1. Len(fed) \in Nat /\ Len(b) \in Nat
    BY <1>3, CutTypes
  <2>2. CASE i \in 1..Len(b)
    <3>1. c[i] = b[i] /\ b[i] \in Nat /\ b[i] <= Len(fed)
      BY <1>3, <1>7, <2>2, CutTypes
    <3> QED
      BY <1>2, <1>6, <2>1, <3>1
  <2>3. CASE i = Len(b) + 1
    BY <1>6, <1>7, <2>3
  <2> QED
    BY <1>7, <2>1, <2>2, <2>3
<1>10. ASSUME NEW i \in 1..Len(pTasks')
       PROVE  /\ c[i + 1] = c[i] + Len(pTasks'[i])
              /\ \A j \in 1..Len(pTasks'[i]) : pTasks'[i][j] = fed'[c[i] + j]
  <2>1. CASE i \in 1..Len(pTasks)
    <3>1. /\ b[i + 1] = b[i] + Len(pTasks[i])
          /\ \A j \in 1..Len(pTasks[i]) : pTasks[i][j] = fed[b[i] + j]
      BY <1>3, <2>1 DEF CutAt
    <3>2. /\ i \in 1..Len(b) /\ i + 1 \in 1..Len(b)
          /\ \A j \in 1..Len(pTasks[i]) : b[i] + j \in 1..Len(fed)
      BY <1>3, <2>1, CutTypes
    <3>3. pTasks'[i] = pTasks[i] /\ c[i] = b[i] /\ c[i + 1] = b[i + 1]
      BY <1>5, <1>7, <2>1, <3>2
    <3> QED
      BY <1>6, <3>1, <3>2, <3>3
  <2>2. CASE i = Len(pTasks) + 1
    <3>1. Len(b) = i /\ i \in 1..Len(b) /\ b[Len(b)] = Len(fed)
      BY <1>3, <2>2, CutTypes DEF CutAt
    <3>2. c[i] = Len(fed) /\ c[i + 1] = Len(fed') /\ pTasks'[i] = chunk
      BY <1>5, <1>7, <2>2, <3>1
    <3> QED
      BY <1>6, <3>2
  <2>3. Len(pTasks) \in Nat
    BY <1>3, CutTypes
  <2> QED
    BY <1>5, <2>1, <2>2, <2>3
<1>11. \A i \in 1..Len(lines) : lines[i] = fed'[i]
  <2>1. Len(lines) \in Nat /\ b[1] \in Nat /\ Len(fed) \in Nat /\ Len(lines) <= b[1] /\ b[1] <= Len(fed)
    BY <1>3, CutTypes
  <2>2. \A i \in 1..Len(lines) : i \in 1..Len(fed)
    BY <2>1
  <2> QED
    BY <1>3, <1>6, <2>2 DEF CutAt
<1>12. chunk_start <= Len(lines) /\ Len(lines) <= c[1]
  BY <1>3, <1>8 DEF CutAt
<1>13. IF pPc[Processor] = "running"
       THEN /\ c[1] = chunk_start + Len(pTask[Processor])
            /\ \A j \in 1..Len(pTask[Processor]) :
                    pTask[Processor][j] = fed'[chunk_start + j]
       ELSE c[1] = Len(lines) /\ chunk_start = Len(lines)
  BY <1>3, <1>6, <1>8, CutTypes DEF CutAt
<1>14. CutAt(c)'
  BY <1>4, <1>8, <1>9, <1>10, <1>11, <1>12, <1>13 DEF CutAt
<1> QED
  BY <1>7, <1>14 DEF FeedInv

(* The worker's turn: it may take the first chunk of the queue. *)
LEMMA ProcessorLoopFeed ==
    ASSUME TypeOK, PipeTypeOK, LockInv, FeedInv, ProcessorLoop
    PROVE  FeedInv'
<1>1. /\ UNCHANGED <<fed, lines, chunk_start>> /\ pPc[Processor] # "running"
      /\ pTask \in [{Processor} -> Lines \union {NoTask}]
  BY ProcessorTurn DEF ProcessorLoop, feedVars, vars, PipeTypeOK, P!TypeOKFor
<1>2. CASE UNCHANGED <<pTasks, pTask>> /\ pPc'[Processor] # "running"
  BY <1>1, <1>2, FeedKept
<1>3. CASE /\ pTasks # <<>> /\ pTasks' = Tail(pTasks)
           /\ pTask' = [pTask EXCEPT ![Processor] = Head(pTasks)]
           /\ pPc'[Processor] = "running"
  <2>1. PICK b \in Seq(Nat) : CutAt(b)
    BY DEF FeedInv
  <2>2. b[1] = Len(lines) /\ chunk_start = Len(lines)
    BY <1>1, <2>1 DEF CutAt
  <2>3. /\ Len(pTasks) > 0 /\ Len(pTasks') = Len(pTasks) - 1
        /\ \A i \in 1..Len(pTasks') : pTasks'[i] = pTasks[i + 1]
        /\ pTask'[Processor] = pTasks[1]
    BY <1>1, <1>3, <2>1, CutTypes, HeadTailProperties
  <2>4. PICK c \in Seq(Nat) :
            /\ Len(c) = Len(b) - 1
            /\ \A i \in 1..Len(c) : c[i] = b[i + 1]
    <3>1. Len(b) = Len(pTasks) + 1 /\ Len(pTasks) \in Nat
      BY <2>1, CutTypes
    <3>2. b # <<>>
      BY <3>1
    <3> QED
      BY <3>1, <3>2, HeadTailProperties, ZenonT(30)
  <2>5. /\ Len(b) = Len(pTasks) + 1 /\ Len(pTasks) \in Nat /\ Len(pTasks) >= 1
        /\ 1 \in 1..Len(pTasks) /\ 1 \in 1..Len(c)
        /\ Len(c) = Len(pTasks) /\ Len(pTasks') \in Nat
    BY <2>1, <2>3, <2>4, CutTypes
  <2>6. /\ b[2] = b[1] + Len(pTasks[1]) /\ Len(pTasks[1]) \in Nat
        /\ \A j \in 1..Len(pTasks[1]) : pTasks[1][j] = fed[b[1] + j]
    <3>1. 1 + 1 = 2
      OBVIOUS
    <3> QED
      BY <2>1, <2>5, <3>1, CutTypes DEF CutAt
  <2>7. c[1] = b[2]
    BY <2>4, <2>5
  <2>8. Len(c) = Len(pTasks') + 1 /\ c[Len(c)] = Len(fed)
    <3>1. Len(c) \in 1..Len(c) /\ Len(c) + 1 = Len(b) /\ Len(c) = Len(pTasks') + 1
      BY <2>3, <2>5
    <3>2. c[Len(c)] = b[Len(b)]
      BY <2>4, <3>1
    <3> QED
      BY <2>1, <3>1, <3>2 DEF CutAt
  <2>9. \A i \in 1..Len(c) : c[i] <= Len(fed)
    <3>1. \A i \in 1..Len(c) : i + 1 \in 1..Len(b)
      BY <2>5
    <3> QED
      BY <2>1, <2>4, <3>1, CutTypes
  <2>10. ASSUME NEW i \in 1..Len(pTasks')
         PROVE  /\ c[i + 1] = c[i] + Len(pTasks'[i])
                /\ \A j \in 1..Len(pTasks'[i]) : pTasks'[i][j] = fed[c[i] + j]
    <3>1. i + 1 \in 1..Len(pTasks) /\ i \in 1..Len(c) /\ i + 1 \in 1..Len(c)
      BY <2>3, <2>5
    <3>2. /\ b[(i + 1) + 1] = b[i + 1] + Len(pTasks[i + 1])
          /\ \A j \in 1..Len(pTasks[i + 1]) : pTasks[i + 1][j] = fed[b[i + 1] + j]
      BY <2>1, <3>1 DEF CutAt
    <3> QED
      BY <2>3, <2>4, <3>1, <3>2
  <2>11. /\ Len(lines) \in Nat /\ chunk_start <= Len(lines) /\ Len(lines) <= c[1]
         /\ \A i \in 1..Len(lines) : lines[i] = fed[i]
    <3>1. Len(lines) \in Nat
      BY <2>1, CutTypes
    <3>2. Len(lines) <= c[1] /\ chunk_start <= Len(lines)
      BY <2>2, <2>6, <2>7, <3>1
    <3> QED
      BY <2>1, <3>1, <3>2 DEF CutAt
  <2>12. /\ c[1] = chunk_start + Len(pTask'[Processor])
         /\ \A j \in 1..Len(pTask'[Processor]) :
                pTask'[Processor][j] = fed[chunk_start + j]
    BY <2>2, <2>3, <2>6, <2>7
  <2>13. CutAt(c)'
    BY <1>1, <1>3, <2>8, <2>9, <2>10, <2>11, <2>12 DEF CutAt
  <2> QED
    BY <2>13 DEF FeedInv
<1> QED
  BY <1>2, <1>3, ProcessorTurn DEF ProcessorLoop

(* One turn of RunCmds reads the next line of the chunk, ... *)
LEMMA RunCmdsLineFeed ==
    ASSUME TypeOK, TypeOK', PipeTypeOK, LockInv, FeedInv, RunCmdsLine
    PROVE  FeedInv'
<1>1. /\ UNCHANGED <<fed, pTasks, pTask, pPc, chunk_start>>
      /\ pPc[Processor] = "running"
      /\ AtLine <= Len(pTask[Processor])
      /\ lines'[Len(lines')] = pTask[Processor][AtLine]
  BY RunLineGoesOn DEF RunCmdsLine, feedVars, pVars
<1>2. PICK b \in Seq(Nat) : CutAt(b)
  BY DEF FeedInv
<1>3. /\ b[1] = chunk_start + Len(pTask[Processor])
      /\ \A j \in 1..Len(pTask[Processor]) :
            pTask[Processor][j] = fed[chunk_start + j]
      /\ chunk_start <= Len(lines)
  BY <1>1, <1>2 DEF CutAt
<1>4. /\ Len(lines) \in Nat /\ chunk_start \in Nat /\ Len(pTask[Processor]) \in Nat
      /\ lines \in Seq(Kinds)
  BY <1>1, <1>2, CutTypes
<1>5. PICK kind \in Kinds : lines' = Append(lines, kind)
  BY DEF RunCmdsLine, RunLine, OpenBlock, CloseOuter, CloseNested, CloseOutOfRange,
         CloseBlock, Command, Getline, Kinds
<1>6. /\ Len(lines') = Len(lines) + 1
      /\ \A i \in 1..Len(lines) : lines'[i] = lines[i]
  BY <1>4, <1>5, AppendProperties
<1>7. /\ AtLine \in 1..Len(pTask[Processor])
      /\ chunk_start + AtLine = Len(lines) + 1
      /\ Len(lines) + 1 <= b[1]
  <2> DEFINE n == Len(lines)  m == Len(pTask[Processor])  a == AtLine
  <2>1. a = n - chunk_start + 1
    BY DEF AtLine
  <2>2. n \in Nat /\ m \in Nat /\ chunk_start \in Nat /\ chunk_start <= n /\ a <= m
        /\ b[1] = chunk_start + m
    BY <1>1, <1>3, <1>4
  <2> HIDE DEF n, m, a
  <2>3. a \in 1..m /\ chunk_start + a = n + 1 /\ n + 1 <= b[1]
    BY <2>1, <2>2
  <2> QED
    BY <2>3 DEF n, m, a
<1>8. lines'[Len(lines) + 1] = fed[Len(lines) + 1]
  BY <1>1, <1>3, <1>6, <1>7
<1>9. \A i \in 1..Len(lines') : lines'[i] = fed[i]
  <2> SUFFICES ASSUME NEW i \in 1..Len(lines') PROVE lines'[i] = fed[i]
    OBVIOUS
  <2>1. CASE i \in 1..Len(lines)
    BY <1>2, <1>6, <2>1 DEF CutAt
  <2>2. CASE i = Len(lines) + 1
    BY <1>8, <2>2
  <2> QED
    BY <1>4, <1>6, <2>1, <2>2
<1>10. chunk_start <= Len(lines') /\ Len(lines') <= b[1]
  BY <1>3, <1>4, <1>6, <1>7
<1>11. CutAt(b)'
  BY <1>1, <1>2, <1>9, <1>10 DEF CutAt
<1> QED
  BY <1>11 DEF FeedInv

(* ... and returns when it has read them all. *)
LEMMA RunCmdsReturnsFeed ==
    ASSUME TypeOK, PipeTypeOK, LockInv, FeedInv, RunCmdsReturns
    PROVE  FeedInv'
<1>1. /\ UNCHANGED <<fed, pTasks, lines>> /\ chunk_start' = Len(lines)
      /\ pPc[Processor] = "running" /\ pPc'[Processor] = "ready"
      /\ AtLine > Len(pTask[Processor])
  BY DEF RunCmdsReturns, P!Finish, NextChunk, feedVars, PipeTypeOK, P!TypeOKFor
<1>2. PICK b \in Seq(Nat) : CutAt(b)
  BY DEF FeedInv
<1>3. b[1] = chunk_start + Len(pTask[Processor]) /\ Len(lines) <= b[1]
  BY <1>1, <1>2 DEF CutAt
<1>4. Len(lines) \in Nat /\ chunk_start \in Nat /\ Len(pTask[Processor]) \in Nat
  BY <1>1, <1>2, CutTypes
<1>5. b[1] = Len(lines)
  BY <1>1, <1>3, <1>4 DEF AtLine
<1>6. CutAt(b)'
  BY <1>1, <1>2, <1>4, <1>5 DEF CutAt
<1> QED
  BY <1>6 DEF FeedInv

-----------------------------------------------------------------------------
(* The savers' part, step by step: ... *)
LEMMA SaveStep ==
    ASSUME PipeTypeOK, LockInv, SaveInv, [ANext]_allVars
    PROVE  SaveInv'
<1> USE DEF seenVars, outVars, sVars
<1>0. rSeen \in Nat /\ sPc \in [Savers -> S!Places]
  BY DEF PipeTypeOK, S!TypeOKFor
<1>1. CASE \/ UNCHANGED allVars \/ AddTask \/ ProcessorLoop \/ RunCmdsLine
           \/ RunCmdsReturns \/ PrinterLoop \/ PrintTask
  <2>1. UNCHANGED <<sTasks, sTask, sPc, sSeen, saved, rSeen>>
    BY <1>1 DEF allVars, AddTask, ProcessorLoop, RunCmdsLine, RunCmdsReturns,
                PrinterLoop, PrintTask
  <2> QED
    BY <1>0, <2>1, SaveKept
<1>2. CASE UpdatePrinter
  <2>1. UNCHANGED <<sTasks, sTask, sPc, sSeen, saved>> /\ rSeen' = rSeen + 1
    BY <1>2 DEF UpdatePrinter
  <2>2. rSeen' \in Nat /\ rSeen <= rSeen'
    BY <1>0, <2>1
  <2> QED
    BY <2>1, <2>2, SaveKept
<1>3. CASE Disconnect
  <2>1. UNCHANGED <<sTasks, sTask, sSeen, saved, rSeen>>
    BY <1>3 DEF Disconnect, StopSavers, S!RaiseStopped, S!StopNotify
  <2>2. \A w \in Savers : sPc'[w] = "running" <=> sPc[w] = "running"
    BY <1>0, <1>3, SaversNotified DEF Disconnect, StopSavers, S!RaiseStopped, S!StopNotify
  <2> QED
    BY <1>0, <2>1, <2>2, SaveKept
<1> QED
  BY <1>1, <1>2, <1>3, UpdateSaverSave, SaverLoopSave, SaveBlockSave
  DEF ANext, Worker, Notify, Observers

(* Only update gives the printer a block; it prints those it has in order. *)
LEMMA ToPrintStep ==
    ASSUME PipeTypeOK, LockInv, [ANext]_allVars
    PROVE  \/ UpdatePrinter
           \/ UNCHANGED rSeen /\ ToPrint' = ToPrint
<1> USE DEF seenVars, outVars, rVars, ToPrint, AtHand
<1>0. rPc \in [{Printer} -> R!Places]
  BY DEF PipeTypeOK, R!TypeOKFor
<1>1. CASE \/ UNCHANGED allVars \/ AddTask \/ ProcessorLoop \/ RunCmdsLine
           \/ RunCmdsReturns \/ UpdateSaver
           \/ \E w \in Savers : SaverLoop(w) \/ SaveBlock(w)
  <2>1. UNCHANGED <<rTasks, rTask, rPc, rSeen, printed>>
    BY <1>1 DEF allVars, AddTask, ProcessorLoop, RunCmdsLine, RunCmdsReturns, UpdateSaver,
                SaverLoop, SaveBlock
  <2> QED
    BY <2>1
<1>2. CASE PrinterLoop \/ PrintTask
  <2>1. ToPrint' = ToPrint
    BY <1>2, PrinterLoopSame, PrintTaskSame
  <2>2. UNCHANGED rSeen
    BY <1>2 DEF PrinterLoop, PrintTask
  <2> QED
    BY <2>1, <2>2
<1>3. CASE Disconnect
  <2>1. UNCHANGED <<rTasks, rTask, rSeen, printed>>
    BY <1>3 DEF Disconnect, StopPrinter, R!RaiseStopped, R!StopNotify
  <2>2. rPc'[Printer] = "running" <=> rPc[Printer] = "running"
    BY <1>0, <1>3, PrinterNotified DEF Disconnect, StopPrinter, R!RaiseStopped, R!StopNotify
  <2> QED
    BY <2>1, <2>2
<1> QED
  BY <1>1, <1>2, <1>3 DEF ANext, Worker, Notify, Observers

(* ... the printer's ... *)
LEMMA PrintStep ==
    ASSUME TypeOK, PipeTypeOK, LockInv, PrintInv, [ANext]_allVars
    PROVE  PrintInv'
BY ParserStep, ToPrintStep, UpdatePrinterPrint, PrintKept

(* ... and the text's. *)
LEMMA FeedStep ==
    ASSUME TypeOK, TypeOK', PipeTypeOK, LockInv, FeedInv, [ANext]_allVars
    PROVE  FeedInv'
<1> USE DEF feedVars, pVars
<1>0. pPc \in [{Processor} -> P!Places]
  BY DEF PipeTypeOK, P!TypeOKFor
<1>1. CASE UNCHANGED allVars \/ Notify \/ Observers
  <2>1. UNCHANGED <<pTasks, pTask, pPc, fed, lines, chunk_start>>
    BY <1>1 DEF allVars, Notify, UpdatePrinter, UpdateSaver, Observers, PrinterLoop,
                PrintTask, SaverLoop, SaveBlock, vars
  <2> QED
    BY <2>1, FeedKept
<1>2. CASE Disconnect
  <2>1. UNCHANGED <<pTasks, pTask, fed, lines, chunk_start>>
    BY <1>2 DEF Disconnect, StopProcessor, StopProcessorJoins, FlushOnStop, P!RaiseStopped,
                P!StopNotify, vars
  <2>2. pPc'[Processor] = "running" <=> pPc[Processor] = "running"
    BY <1>0, <1>2, ProcessorNotified
    DEF Disconnect, StopProcessor, StopProcessorJoins, P!RaiseStopped, P!StopNotify
  <2> QED
    BY <2>1, <2>2, FeedKept
<1> QED
  BY <1>1, <1>2, AddTaskFeed, ProcessorLoopFeed, RunCmdsLineFeed, RunCmdsReturnsFeed
  DEF ANext, Worker

(* The inductive invariant of the pipeline; that of its parser goes along. *)
LEMMA PipeInductive == ASpec => []PipeInv
<1>1. PipeInv /\ IInv /\ IInv' /\ [ANext]_allVars => PipeInv'
  <2> SUFFICES ASSUME PipeInv, TypeOK, TypeOK', [ANext]_allVars PROVE PipeInv'
    BY DEF IInv
  <2>1. PipeTypeOK /\ StageInv /\ LockInv /\ FeedInv /\ PrintInv /\ SaveInv
    BY DEF PipeInv
  <2> QED
    BY <2>1, PipeTypeStep, StageStep, LockStep, FeedStep, PrintStep, SaveStep DEF PipeInv
<1> QED
  BY PipeInit, ParserInv, <1>1, PTL DEF ASpec

(* The types of the three queues and of what flows between them. *)
THEOREM PipelineTypes == ASpec => []PipeTypeOK
<1>1. PipeInv => PipeTypeOK
  BY DEF PipeInv
<1> QED
  BY PipeInductive, <1>1, PTL

(* async::disconnect: when it returns, the text was read to its end, every *)
(* block to print is in the stream, once and in order, and no command is   *)
(* missing but those of a dynamic block left open.                         *)
THEOREM NothingLostAtDisconnect == ASpec => []DisconnectFlushes
<1>1. IInv /\ PipeInv => DisconnectFlushes
  <2> SUFFICES ASSUME IInv, PipeInv, stage = "done" PROVE DisconnectFlushes
    BY DEF DisconnectFlushes
  <2>1. TypeOK /\ StopDropsOnlyOpenBlock
    BY DEF IInv
  <2>2. PipeTypeOK /\ StageInv /\ LockInv /\ FeedInv /\ PrintInv
    BY DEF PipeInv
  <2>3. /\ stopped /\ AllNotified
        /\ pPc[Processor] = "exited" /\ pTasks = <<>>
        /\ rPc[Printer] = "exited" /\ rTasks = <<>>
    BY <2>2 DEF StageInv, Flushed, PrinterStopped, PrinterJoined, SaversStopped
  <2>4. lines = fed
    <3>1. PICK b \in Seq(Nat) : CutAt(b)
      BY <2>2 DEF FeedInv
    <3>2. Len(b) = 1
      BY <2>3, <3>1 DEF CutAt
    <3>3. Len(lines) = Len(fed) /\ \A i \in 1..Len(lines) : lines[i] = fed[i]
      BY <2>3, <3>1, <3>2 DEF CutAt
    <3>4. lines \in Seq(Kinds) /\ fed \in Seq(Kinds)
      BY <2>1, <2>2, <3>1, CutTypes
    <3> QED
      BY <3>3, <3>4, SeqEqual
  <2>5. ToPrint = printed
    <3>1. printed \in Seq(Nat) /\ AtHand = <<>>
      BY <2>2, <2>3 DEF PipeTypeOK, AtHand
    <3>2. printed \o <<>> = printed
      BY <3>1, ConcatEmptySeq
    <3> QED
      BY <2>3, <3>1, <3>2 DEF ToPrint
  <2>6. DOMAIN printed = 1..Len(printed) /\ \A i \in 1..Len(printed) : printed[i] \in Nat
    BY <2>2 DEF PipeTypeOK
  <2>7. DOMAIN events = 1..Len(events) /\ rSeen = Len(events) /\ rSeen \in Nat
    BY <2>1, <2>2, <2>3 DEF TypeOK, AllNotified, PipeTypeOK
  <2>8. \A i, j \in DOMAIN printed : i < j => printed[i] < printed[j]
    BY <2>2, <2>5, <2>6 DEF PrintInv
  <2>9. Printed = PrintBlocks
    <3>1. \A k \in Nat : k \in Printed <=> k \in PrintBlocks
      BY <2>2, <2>5, <2>6, <2>7 DEF PrintInv, Printed, PrintBlocks
    <3>2. Printed \subseteq Nat /\ PrintBlocks \subseteq Nat
      BY <2>6, <2>7 DEF Printed, PrintBlocks
    <3> QED
      BY <3>1, <3>2
  <2> QED
    BY <2>1, <2>3, <2>4, <2>8, <2>9 DEF DisconnectFlushes, StopDropsOnlyOpenBlock
<1> QED
  BY ParserInv, PipeInductive, <1>1, PTL

(* The savers: no block is written to two files, whatever thread takes it, *)
(* and when they have been stopped every block, the nested ones too, is in *)
(* one.                                                                    *)
THEOREM EveryBlockSavedOnce == ASpec => []SavedOnce
<1>1. IInv /\ PipeInv => SavedOnce
  <2> SUFFICES ASSUME IInv, PipeInv PROVE SavedOnce
    OBVIOUS
  <2>1. PipeTypeOK /\ StageInv /\ SaveInv /\ TypeOK
    BY DEF PipeInv, IInv
  <2>2. DOMAIN saved = 1..Len(saved) /\ Len(saved) \in Nat
    BY <2>1 DEF PipeTypeOK
  <2>3. \A i, j \in DOMAIN saved : i # j => saved[i] # saved[j]
    BY <2>1, <2>2 DEF SaveInv
  <2>4. ASSUME stage = "done", Savers # {} PROVE Saved = DOMAIN events
    <3>1. /\ AllNotified /\ sTasks = <<>>
          /\ \A w \in Savers : sPc[w] # "running"
      BY <2>1, <2>4 DEF StageInv, PrinterStopped, Flushed
    <3>2. sSeen = Len(events) /\ sSeen \in Nat /\ DOMAIN events = 1..Len(events)
      BY <2>1, <2>4, <3>1 DEF AllNotified, PipeTypeOK, TypeOK
    <3>3. TakenBySavers = Len(events)
      BY <3>1, <3>2 DEF TakenBySavers
    <3>4. \A k \in DOMAIN events : \E i \in 1..Len(saved) : saved[i] = k
      BY <2>1, <3>1, <3>2, <3>3 DEF SaveInv
    <3>5. \A i \in 1..Len(saved) : saved[i] \in DOMAIN events
      BY <2>1, <3>2, <3>3 DEF SaveInv
    <3> QED
      BY <2>2, <3>4, <3>5 DEF Saved
  <2> QED
    BY <2>3, <2>4 DEF SavedOnce
<1> QED
  BY ParserInv, PipeInductive, <1>1, PTL

-----------------------------------------------------------------------------
(* The stream is a TaskService to the parser. *)

(* The blocks to print among the first n events. *)
BlocksUpTo(e, f) ==
    f = [n \in 0..Len(e) |->
           IF n = 0 THEN <<>>
           ELSE IF e[n].event = "event_print_save" THEN Append(f[n - 1], n)
           ELSE f[n - 1]]

(* They are sequences of numbers, the later ones longer than the earlier.  *)
BlocksGrow(e, f) ==
    /\ BlocksUpTo(e, f)
    /\ \A n \in 0..Len(e) :
        /\ f[n] \in Seq(Nat)
        /\ Len(f[n]) <= Len(f[Len(e)])
        /\ \A i \in 1..Len(f[n]) : f[Len(e)][i] = f[n][i]

(* What has gone to the printer are the blocks to print among the first    *)
(* rSeen events.                                                           *)
ServiceInv == \E f : BlocksGrow(events, f) /\ ToPrint = f[rSeen]

(* A line sends one event at most, and so does Stop. *)
EventsInv == Len(events) <= Len(lines) + (IF stopped THEN 1 ELSE 0)

(* The element of a sequence of blocks. *)
LEMMA BlocksAt ==
    ASSUME NEW e, NEW f, Len(e) \in Nat, BlocksUpTo(e, f)
    PROVE  /\ f[0] = <<>>
           /\ \A n \in 1..Len(e) :
                f[n] = IF e[n].event = "event_print_save" THEN Append(f[n - 1], n) ELSE f[n - 1]
<1> DEFINE b(n) == IF n = 0 THEN <<>>
                   ELSE IF e[n].event = "event_print_save" THEN Append(f[n - 1], n)
                   ELSE f[n - 1]
<1>1. f = [n \in 0..Len(e) |-> b(n)]
  BY DEF BlocksUpTo
<1>2. \A n \in 0..Len(e) : f[n] = b(n)
  <2> HIDE DEF b
  <2> QED
    BY <1>1
<1>3. 0 \in 0..Len(e) /\ \A n \in 1..Len(e) : n \in 0..Len(e) /\ n # 0
  OBVIOUS
<1> QED
  BY <1>2, <1>3

(* There are no two such functions, ... *)
LEMMA BlocksUnique ==
    ASSUME NEW e, NEW f, NEW g, Len(e) \in Nat, BlocksUpTo(e, f), BlocksUpTo(e, g)
    PROVE  f[Len(e)] = g[Len(e)]
<1> DEFINE T == {n \in 0..Len(e) : f[n] # g[n]}
<1>1. CASE T # {}
  <2>1. T \in SUBSET Nat
    OBVIOUS
  <2>2. PICK n \in T : \A m \in T : n <= m
    BY <1>1, <2>1, LeastOne
  <2>3. n \in 1..Len(e)
    BY BlocksAt
  <2>4. n - 1 \in 0..Len(e) /\ n - 1 \notin T
    BY <2>2, <2>3
  <2>5. f[n - 1] = g[n - 1]
    BY <2>4
  <2>6. f[n] = g[n]
    BY <2>3, <2>5, BlocksAt
  <2> QED
    BY <2>6
<1>2. CASE T = {}
  BY <1>2
<1> QED
  BY <1>1, <1>2

(* ... and with one more event there is one again. *)
LEMMA BlocksOneMore ==
    ASSUME NEW e, NEW d, NEW f, Len(e) \in Nat, BlocksGrow(e, f),
           Len(d) = Len(e) + 1, \A i \in 1..Len(e) : d[i] = e[i]
    PROVE  \E g : /\ BlocksGrow(d, g)
                  /\ \A n \in 0..Len(e) : g[n] = f[n]
<1> DEFINE k == Len(d)
           last == f[Len(e)]
           new == IF d[k].event = "event_print_save" THEN Append(last, k) ELSE last
           g == [n \in 0..k |-> IF n = k THEN new ELSE f[n]]
<1>1. /\ k \in Nat /\ k = Len(e) + 1 /\ k \in 0..k /\ k # 0 /\ k - 1 = Len(e)
      /\ \A n \in 0..Len(e) : n \in 0..k /\ n # k
      /\ \A n \in 0..k : n # k => n \in 0..Len(e)
      /\ \A n \in 0..k : n # 0 /\ n # k => n - 1 \in 0..k /\ n - 1 # k /\ n \in 1..Len(e)
      /\ Len(e) \in 0..Len(e) /\ Len(e) \in 0..k /\ Len(e) # k
  OBVIOUS
<1>2. last \in Seq(Nat)
  BY <1>1 DEF BlocksGrow
<1>3. /\ new \in Seq(Nat) /\ Len(last) <= Len(new)
      /\ \A i \in 1..Len(last) : new[i] = last[i]
  <2>1. k \in Nat
    BY <1>1
  <2> HIDE DEF last, k
  <2>2. /\ Append(last, k) \in Seq(Nat) /\ Len(Append(last, k)) = Len(last) + 1
        /\ \A i \in 1..Len(last) : Append(last, k)[i] = last[i]
    BY <1>2, <2>1, AppendProperties
  <2>3. Len(last) \in Nat
    BY <1>2
  <2> QED
    BY <1>2, <2>2, <2>3
<1> HIDE DEF new, last, k
<1>4. g[k] = new /\ \A n \in 0..Len(e) : g[n] = f[n]
  BY <1>1
<1>5. \A n \in 0..k : g[n] = IF n = 0 THEN <<>>
                             ELSE IF d[n].event = "event_print_save" THEN Append(g[n - 1], n)
                             ELSE g[n - 1]
  <2> TAKE n \in 0..k
  <2>1. CASE n = 0
    BY <1>1, <1>4, <2>1, BlocksAt DEF BlocksGrow
  <2>2. CASE n = k
    BY <1>1, <1>4, <2>2 DEF new, last
  <2>3. CASE n # 0 /\ n # k
    <3>1. n \in 1..Len(e) /\ n \in 0..Len(e) /\ n - 1 \in 0..Len(e) /\ d[n] = e[n]
      BY <1>1, <2>3
    <3>2. g[n] = f[n] /\ g[n - 1] = f[n - 1]
      BY <1>4, <3>1
    <3>3. f[n] = IF e[n].event = "event_print_save" THEN Append(f[n - 1], n) ELSE f[n - 1]
      BY <3>1, BlocksAt DEF BlocksGrow
    <3> QED
      BY <2>3, <3>1, <3>2, <3>3
  <2> QED
    BY <2>1, <2>2, <2>3
<1>6. BlocksUpTo(d, g)
  <2> DEFINE b(n) == IF n = 0 THEN <<>>
                     ELSE IF d[n].event = "event_print_save" THEN Append(g[n - 1], n)
                     ELSE g[n - 1]
  <2>1. g = [n \in 0..k |-> g[n]]
    OBVIOUS
  <2>2. \A n \in 0..k : g[n] = b(n)
    BY <1>5
  <2> HIDE DEF g, b
  <2>3. g = [n \in 0..k |-> b(n)]
    BY <2>1, <2>2
  <2> QED
    BY <2>3 DEF BlocksUpTo, b, k
<1>7. ASSUME NEW n \in 0..k
      PROVE  /\ g[n] \in Seq(Nat) /\ Len(g[n]) <= Len(g[k])
             /\ \A i \in 1..Len(g[n]) : g[k][i] = g[n][i]
  <2> HIDE DEF g
  <2>1. CASE n = k
    BY <1>3, <1>4, <2>1
  <2>2. CASE n # k
    <3>1. n \in 0..Len(e) /\ g[n] = f[n]
      BY <1>1, <1>4, <2>2
    <3>2. /\ f[n] \in Seq(Nat) /\ Len(f[n]) <= Len(last)
          /\ \A i \in 1..Len(f[n]) : last[i] = f[n][i]
      BY <3>1 DEF BlocksGrow, last
    <3>3. Len(f[n]) \in Nat /\ Len(last) \in Nat /\ Len(new) \in Nat
      BY <1>2, <1>3, <3>2
    <3>4. \A i \in 1..Len(f[n]) : i \in 1..Len(last)
      BY <3>2, <3>3
    <3> QED
      BY <1>3, <1>4, <3>1, <3>2, <3>3, <3>4
  <2> QED
    BY <2>1, <2>2
<1>8. BlocksGrow(d, g)
  <2> HIDE DEF g
  <2> QED
    BY <1>6, <1>7 DEF BlocksGrow, k
<1> QED
  BY <1>4, <1>8

(* PrintEvents are these blocks. *)
LEMMA PrintEventsAre ==
    ASSUME NEW f, Len(events) \in Nat, BlocksUpTo(events, f)
    PROVE  PrintEvents = f[Len(events)]
<1>1. \A g : BlocksUpTo(events, g) <=>
          g = [n \in 0..Len(events) |->
                 IF n = 0 THEN <<>>
                 ELSE IF events[n].event = "event_print_save" THEN Append(g[n - 1], n)
                 ELSE g[n - 1]]
  BY DEF BlocksUpTo
<1>2. \E g : BlocksUpTo(events, g) /\ PrintEvents = g[Len(events)]
  BY <1>1 DEF PrintEvents
<1> QED
  BY <1>2, BlocksUnique

-----------------------------------------------------------------------------
(* At first there are no events. *)
LEMMA ServiceInit == AInit => ServiceInv /\ EventsInv
<1> SUFFICES ASSUME AInit PROVE ServiceInv /\ EventsInv
  OBVIOUS
<1> DEFINE f == [n \in 0..Len(events) |-> <<>>]
<1>1. /\ events = <<>> /\ Len(events) = 0 /\ rSeen = 0 /\ ToPrint = <<>>
      /\ lines = <<>> /\ Len(lines) = 0
  BY DEF AInit, Init, R!Init, ToPrint, AtHand
<1>2. 0..Len(events) = {0}
  BY <1>1
<1>3. BlocksUpTo(events, f)
  BY <1>2 DEF BlocksUpTo
<1>4. f[0] = <<>> /\ <<>> \in Seq(Nat)
  BY <1>2
<1>5. BlocksGrow(events, f) /\ ToPrint = f[rSeen]
  <2> HIDE DEF f
  <2>1. \A n \in 0..Len(events) : n = 0
    BY <1>2
  <2>2. f[Len(events)] = <<>> /\ f[rSeen] = <<>> /\ Len(<<>>) = 0
    BY <1>1, <1>4
  <2>3. ASSUME NEW n \in 0..Len(events)
        PROVE  /\ f[n] \in Seq(Nat) /\ Len(f[n]) <= Len(f[Len(events)])
               /\ \A i \in 1..Len(f[n]) : f[Len(events)][i] = f[n][i]
    <3>1. f[n] = <<>>
      BY <1>4, <2>1
    <3> QED
      BY <1>4, <2>2, <3>1
  <2> QED
    BY <1>1, <1>3, <2>2, <2>3 DEF BlocksGrow
<1>6. EventsInv
  BY <1>1 DEF EventsInv
<1> QED
  BY <1>5, <1>6 DEF ServiceInv

(* A line is read for each event but the one of Stop. *)
LEMMA EventsStep ==
    ASSUME TypeOK, EventsInv, [Next]_vars
    PROVE  EventsInv'
<1>1. /\ Len(events) \in Nat /\ Len(lines) \in Nat
      /\ events' = events \/ (~stopped /\ Len(events') = Len(events) + 1)
  BY EventsGrow DEF TypeOK
<1>2. CASE UNCHANGED vars
  BY <1>2 DEF vars, EventsInv
<1>3. CASE RunLine
  <2>1. PICK kind \in Kinds : lines' = Append(lines, kind)
    BY <1>3 DEF RunLine, OpenBlock, CloseOuter, CloseNested, CloseOutOfRange,
           CloseBlock, Command, Getline, Kinds
  <2>2. Len(lines') = Len(lines) + 1
    BY <2>1, AppendProperties DEF TypeOK
  <2> QED
    BY <1>1, <1>3, <2>2, RunLineGoesOn DEF EventsInv
<1>4. CASE NextChunk
  BY <1>4 DEF NextChunk, EventsInv
<1>5. CASE FlushOnStop
  <2>1. ~stopped /\ stopped' /\ UNCHANGED lines
    BY <1>5 DEF FlushOnStop
  <2> QED
    BY <1>1, <2>1 DEF EventsInv
<1> QED
  BY <1>2, <1>3, <1>4, <1>5 DEF Next

(* So what has gone to the printer stays what it should be. *)
LEMMA ServiceStep ==
    ASSUME TypeOK, PipeTypeOK, LockInv, PrintInv, ServiceInv, [ANext]_allVars
    PROVE  ServiceInv'
<1>1. PICK f : BlocksGrow(events, f) /\ ToPrint = f[rSeen]
  BY DEF ServiceInv
<1>2. /\ Len(events) \in Nat /\ rSeen \in 0..Len(events)
      /\ \/ events' = events
         \/ /\ Len(events') = Len(events) + 1
            /\ \A i \in 1..Len(events) : events'[i] = events[i]
  BY ParserStep, EventsGrow, SMTT(30) DEF PipeTypeOK, PrintInv
<1>3. CASE UpdatePrinter
  <2>1. /\ events' = events /\ rSeen' = rSeen + 1 /\ rSeen + 1 \in 1..Len(events)
        /\ ToPrint' = IF events[rSeen + 1].event = "event_print_save"
                      THEN Append(ToPrint, rSeen + 1) ELSE ToPrint
    BY <1>2, <1>3, UpdatePrinterAdds
  <2>2. f[rSeen + 1] = IF events[rSeen + 1].event = "event_print_save"
                       THEN Append(f[rSeen], rSeen + 1) ELSE f[rSeen]
    <3>1. (rSeen + 1) - 1 = rSeen
      BY <1>2
    <3> QED
      BY <1>1, <1>2, <2>1, <3>1, BlocksAt DEF BlocksGrow
  <2>3. BlocksGrow(events', f) /\ ToPrint' = f[rSeen']
    BY <1>1, <2>1, <2>2
  <2> QED
    BY <2>3 DEF ServiceInv
<1>4. CASE UNCHANGED rSeen /\ ToPrint' = ToPrint
  <2>1. PICK g : BlocksGrow(events', g) /\ g[rSeen] = f[rSeen]
    <3>1. CASE events' = events
      BY <1>1, <3>1
    <3>2. CASE /\ Len(events') = Len(events) + 1
               /\ \A i \in 1..Len(events) : events'[i] = events[i]
      BY <1>1, <1>2, <3>2, BlocksOneMore
    <3> QED
      BY <1>2, <3>1, <3>2
  <2> QED
    BY <1>1, <1>4, <2>1 DEF ServiceInv
<1> QED
  BY <1>3, <1>4, ToPrintStep

(* A block that is finished is accepted, one that is written performed,    *)
(* and every other step a stutter.                                         *)
LEMMA StepServes ==
    ASSUME TypeOK, TypeOK', PipeTypeOK, LockInv, PrintInv, ServiceInv, EventsInv', [ANext]_allVars
    PROVE  [PrinterService!Next]_(PrinterService!vars)
<1> USE DEF PrinterService!vars
<1>1. PICK f : BlocksGrow(events, f) /\ ToPrint = f[rSeen]
  BY DEF ServiceInv
<1>2. /\ Len(events) \in Nat /\ rSeen \in 0..Len(events)
      /\ \/ events' = events
         \/ /\ Len(events') = Len(events) + 1
            /\ \A i \in 1..Len(events) : events'[i] = events[i]
  BY ParserStep, EventsGrow DEF PipeTypeOK, PrintInv
<1>3. PrintEvents = f[Len(events)]
  BY <1>1, <1>2, PrintEventsAre DEF BlocksGrow
<1>4. CASE events' = events /\ UNCHANGED printed
  <2>1. PrintEvents' = PrintEvents
    BY <1>4 DEF PrintEvents
  <2> QED
    BY <1>4, <2>1
<1>5. CASE /\ UNCHANGED printed
           /\ Len(events') = Len(events) + 1
           /\ \A i \in 1..Len(events) : events'[i] = events[i]
  <2>1. PICK g : BlocksGrow(events', g) /\ \A n \in 0..Len(events) : g[n] = f[n]
    BY <1>1, <1>2, <1>5, BlocksOneMore
  <2>2. PICK k \in Nat : k = Len(events')
    BY <1>2, <1>5
  <2>3. PrintEvents' = g[k]
    <3>1. \A h : BlocksUpTo(events', h) <=>
              h = [n \in 0..Len(events') |->
                     IF n = 0 THEN <<>>
                     ELSE IF events'[n].event = "event_print_save" THEN Append(h[n - 1], n)
                     ELSE h[n - 1]]
      BY DEF BlocksUpTo
    <3>2. PICK h : BlocksUpTo(events', h) /\ PrintEvents' = h[Len(events')]
      BY <2>1, <3>1 DEF PrintEvents, BlocksGrow
    <3> QED
      BY <2>1, <2>2, <3>2, BlocksUnique DEF BlocksGrow
  <2>4. k \in 1..Len(events') /\ k - 1 = Len(events) /\ k - 1 \in 0..Len(events)
    BY <1>2, <1>5, <2>2
  <2>5. g[k] = IF events'[k].event = "event_print_save" THEN Append(g[k - 1], k) ELSE g[k - 1]
    BY <2>1, <2>2, <2>4, BlocksAt DEF BlocksGrow
  <2>6. g[k - 1] = PrintEvents
    BY <1>3, <2>1, <2>4
  <2>7. k \in 1..(MaxLines + 1)
    BY <2>2, <2>4, MaxLinesAssumption DEF EventsInv, TypeOK
  <2> QED
    BY <1>5, <2>3, <2>5, <2>6, <2>7 DEF PrinterService!Next, PrinterService!Accept
<1>6. CASE PrintTask
  <2>1. /\ events' = events /\ rPc[Printer] = "running" /\ rTask[Printer] \in Nat
        /\ printed' = Append(printed, rTask[Printer])
    BY <1>6 DEF PrintTask, R!Finish, LockInv, vars
  <2>2. PrintEvents' = PrintEvents
    BY <2>1 DEF PrintEvents
  <2>3. PICK n \in Nat : n = Len(printed) + 1
    BY ToPrintType
  <2>4. n \in 1..Len(ToPrint) /\ ToPrint[n] = rTask[Printer]
    <3>1. AtHand = <<rTask[Printer]>>
      BY <2>1 DEF AtHand
    <3> QED
      BY <2>3, <3>1, ToPrintType DEF ToPrint
  <2>5. Len(ToPrint) <= Len(PrintEvents) /\ PrintEvents[n] = ToPrint[n]
    BY <1>1, <1>2, <1>3, <2>4 DEF BlocksGrow
  <2>6. Len(printed) < Len(PrintEvents)
    <3>1. PrintEvents \in Seq(Nat)
      BY <1>1, <1>2, <1>3 DEF BlocksGrow
    <3>2. Len(PrintEvents) \in Nat /\ Len(printed) \in Nat /\ Len(ToPrint) \in Nat
      BY <3>1, ToPrintType
    <3> QED
      BY <2>3, <2>4, <2>5, <3>2
  <2> QED
    BY <2>1, <2>2, <2>3, <2>4, <2>5, <2>6 DEF PrinterService!Next, PrinterService!Perform
<1>7. PrintTask \/ UNCHANGED printed
  BY DEF ANext, Worker, Notify, Observers, AddTask, ProcessorLoop, RunCmdsLine, RunCmdsReturns,
         UpdatePrinter, UpdateSaver, PrinterLoop, SaverLoop, SaveBlock, Disconnect, outVars, allVars
<1> QED
  BY <1>2, <1>4, <1>5, <1>6, <1>7

(* BlockPrinter is a service to the parser, whatever the observers' queues *)
(* and the savers do: the stream gets the finished blocks in their order,  *)
(* each once, and none that was not finished.                              *)
THEOREM PrinterServes == ASpec => PrinterService!Spec
<1>1. AInit => PrinterService!Init
  <2> SUFFICES ASSUME AInit PROVE PrinterService!Init
    OBVIOUS
  <2>1. events = <<>> /\ printed = <<>> /\ Len(events) \in Nat
    BY DEF AInit, Init
  <2>2. PICK f : BlocksGrow(events, f) /\ ToPrint = f[rSeen]
    BY ServiceInit DEF ServiceInv
  <2>3. PrintEvents = f[Len(events)]
    BY <2>1, <2>2, PrintEventsAre DEF BlocksGrow
  <2>4. f[0] = <<>> /\ Len(events) = 0
    BY <2>1, <2>2, BlocksAt DEF BlocksGrow
  <2> QED
    BY <2>1, <2>3, <2>4 DEF PrinterService!Init
<1>2. IInv /\ PipeInv /\ ServiceInv /\ EventsInv /\ [ANext]_allVars => ServiceInv' /\ EventsInv'
  BY ServiceStep, EventsStep, ParserStep DEF IInv, PipeInv
<1>3. IInv /\ IInv' /\ PipeInv /\ ServiceInv /\ EventsInv' /\ [ANext]_allVars
        => [PrinterService!Next]_(PrinterService!vars)
  BY StepServes DEF IInv, PipeInv
<1>4. ASpec => [](ServiceInv /\ EventsInv)
  BY ServiceInit, ParserInv, PipeInductive, <1>2, PTL DEF ASpec
<1> QED
  BY ParserInv, PipeInductive, <1>1, <1>3, <1>4, PTL DEF ASpec, PrinterService!Spec
=============================================================================
