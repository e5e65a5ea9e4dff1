----------------------------- MODULE MapReduce ------------------------------
(***************************************************************************)
(* The MapReduce framework of 13_BigData and calc_min_prefix, the client   *)
(* that runs it with longer and longer prefixes until none is duplicated.  *)
(*                                                                         *)
(* split_file computes the mappers' blocks, but the mappers read one       *)
(* stream, from wherever the last reader left it: a block only says when   *)
(* its mapper has had enough.  A mapper calls getline and then tellg, and  *)
(* any other mapper may do so in between.  The stream has no lock: two     *)
(* mappers in a call of it at once are undefined behaviour, and the model  *)
(* stops there, as it does at the top of an empty queue.                   *)
(*                                                                         *)
(* A line is a sequence of letters and white space, a datum what Data      *)
(* holds, and a mapped line is its number in the input.  Data are written  *)
(* with << and read back word by word with >>.                             *)
(***************************************************************************)
EXTENDS Integers, Sequences, FiniteSets, SequencesExt

CONSTANTS
    Inputs,      \* the files: [lines, ended], ended by a newline or not
    Mappers,     \* mappers_count
    Reducers,    \* reducers_count
    Wrap         \* where size_t wraps around

ASSUME CountsAssumption == Mappers \in Nat \ {0} /\ Reducers \in Nat \ {0}
(* White space; every other number is a letter, none of them a digit. *)
Blank == 0

(* A last line that has no newline is not empty.  Bound: one line at most  *)
(* is empty or begins with white space; the counts behind its prefix would *)
(* be read as the prefix and the counts of another.                        *)
ASSUME InputsAssumption ==
    \A f \in Inputs :
        /\ f.lines \in Seq(Seq(Nat))
        /\ f.ended \/ (f.lines # <<>> /\ Last(f.lines) # <<>>)
        /\ \A i, j \in DOMAIN f.lines :
              (\A k \in {i, j} : f.lines[k] = <<>> \/ f.lines[k][1] = Blank) => i = j

(* How many bytes a file has is a size_t. *)

(* The bytes of the first i lines, each its line and its place in it: the  *)
(* letters, and behind them the newline.                                   *)
BytesTo(lines, i) == UNION {{l} \X (1..Len(lines[l]) + 1) : l \in 1..i}

ASSUME SizeAssumption ==
    Wrap \in Nat \ {0} /\ \A f \in Inputs : Cardinality(BytesTo(f.lines, Len(f.lines))) <= Wrap

VARIABLES
    input,       \* the file
    prefix_size,
    phase,       \* "map", "distribute", "reduce", "decide" or "done"
    next,        \* where the stream is: the line that getline gets next
    eof,         \* the stream has met the end of the file
    pc,          \* each mapper: "free", "reading" in getline, it "got" a line, is
                 \* "telling" in tellg, or it "wrote" its file
    svec,        \* the lines each mapper read
    order,       \* the data as the merge wrote them
    out,         \* the results of the reducers
    corrupted    \* two mappers were in the stream at once, or an empty queue had a top

vars == <<input, prefix_size, phase, next, eof, pc, svec, order, out, corrupted>>

M == 1..Mappers
Lines == DOMAIN input.lines

-----------------------------------------------------------------------------
(* split_file *)

(* The position after line i, its newline included if it has one. *)
EndOf(i) ==
    Cardinality(BytesTo(input.lines, i))
    - IF i = Len(input.lines) /\ ~input.ended THEN 1 ELSE 0

Newlines == {EndOf(i) - 1 : i \in IF input.ended THEN Lines ELSE Lines \ {Len(input.lines)}}

(* Mutant of To: the share of the block before. *)
ToShareBefore(i) == ((EndOf(Len(input.lines)) \div Mappers) * (i - 1)) % Wrap

(* Where block i ends: at the first newline from its share of the bytes,   *)
(* or at the end of the file.  A file with fewer bytes than blocks has     *)
(* blocks of size 0, and 0 - 1 is the largest size_t.                      *)
To(i) ==
    LET size == EndOf(Len(input.lines))
        pos == ((size \div Mappers) * i - 1) % Wrap
        ahead == {n \in Newlines : n >= pos}
    IN  IF pos >= size THEN pos ELSE IF ahead = {} THEN size ELSE Min(ahead)

-----------------------------------------------------------------------------
(* map *)

Start(size) ==
    /\ prefix_size' = size
    /\ phase' = "map" /\ next' = 1 /\ eof' = FALSE
    /\ pc' = [m \in M |-> "free"] /\ svec' = [m \in M |-> <<>>]
    /\ order' = <<>> /\ out' = {}

Init ==
    /\ input \in Inputs
    /\ prefix_size = 1 /\ phase = "map" /\ next = 1 /\ eof = FALSE
    /\ pc = [m \in M |-> "free"] /\ svec = [m \in M |-> <<>>]
    /\ order = <<>> /\ out = {} /\ corrupted = FALSE

(* A call of the stream begins. *)
Enter(m, call) ==
    /\ pc' = [pc EXCEPT ![m] = call]
    /\ corrupted' = (\E o \in M : pc[o] \in {"reading", "telling"})
    /\ UNCHANGED <<input, prefix_size, phase, next, eof, svec, order, out>>

GetLine(m) == phase = "map" /\ pc[m] = "free" /\ Enter(m, "reading")

(* getline had a line: keep it.  A last line without a newline ends where  *)
(* the file does ...                                                       *)
GotLine(m) ==
    /\ pc[m] = "reading" /\ next \in Lines
    /\ svec' = [svec EXCEPT ![m] = Append(@, next)]
    /\ next' = next + 1
    /\ eof' = (eof \/ (next = Len(input.lines) /\ ~input.ended))
    /\ pc' = [pc EXCEPT ![m] = "got"]
    /\ UNCHANGED <<input, prefix_size, phase, order, out, corrupted>>

(* ... or there was none: sort and write the file. *)
GotNone(m) ==
    /\ pc[m] = "reading" /\ next \notin Lines
    /\ eof' = TRUE
    /\ pc' = [pc EXCEPT ![m] = "wrote"]
    /\ UNCHANGED <<input, prefix_size, phase, next, svec, order, out, corrupted>>

TellG(m) == pc[m] = "got" /\ Enter(m, "telling")

(* tellg fails at the end of the file, and is compared with the block's    *)
(* end otherwise; what it tells is where the stream is now, behind the     *)
(* line of this mapper or the lines of others.                             *)
HadEnough(m) == eof \/ EndOf(next - 1) > To(m)

TellGReturns(m) ==
    /\ pc[m] = "telling"
    /\ pc' = [pc EXCEPT ![m] = IF HadEnough(m) THEN "wrote" ELSE "free"]
    /\ UNCHANGED <<input, prefix_size, phase, next, eof, svec, order, out, corrupted>>

MapReturns ==
    /\ phase = "map" /\ \A m \in M : pc[m] = "wrote"
    /\ phase' = "distribute"
    /\ UNCHANGED <<input, prefix_size, next, eof, pc, svec, order, out, corrupted>>

-----------------------------------------------------------------------------
(* distribute *)

Prefix(i, size) == SubSeq(input.lines[i], 1, Min({size, Len(input.lines[i])}))

(* A prefix as it is read back: one word, if it has no white space between *)
(* its letters.                                                            *)
Letters(s) == {k \in DOMAIN s : s[k] # Blank}

OneWord(s) ==
    \E first, last \in DOMAIN s : first <= last /\ Letters(s) = first..last

Word(s) == SubSeq(s, Min(Letters(s)), Max(Letters(s)))

Key(i) == Word(Prefix(i, prefix_size))

(* The mapper of calc_min_prefix. *)
Mapper(i) == [line |-> Key(i), duplicates |-> 1, max_length |-> Len(input.lines[i])]

(* operator<= of strings. *)
AtMost(s, t) ==
    \/ IsPrefix(s, t)
    \/ \E k \in DOMAIN s \cap DOMAIN t : s[k] < t[k] /\ \A j \in 1..k-1 : s[j] = t[j]

Sorted(i, j) == AtMost(Prefix(i, prefix_size), Prefix(j, prefix_size))

(* What is read of a mapper's sorted file: what is before the first prefix *)
(* that is not one word, whose rest is not the number that is read next.   *)
Data(m) == {svec[m][k] : k \in DOMAIN svec[m]}

Mapped == UNION {Data(m) : m \in M}

ReadBack(m) ==
    {i \in Data(m) : \A j \in Data(m) : Sorted(j, i) => OneWord(Prefix(j, prefix_size))}

Together(i, j) == \E m \in M : {i, j} \subseteq Data(m)

(* The merge of the files: each in its order, and the first datum of none  *)
(* of them less than the one that is taken.                                *)
Merges(o) ==
    \A i, j \in DOMAIN o :
        i < j =>
            /\ Together(o[i], o[j]) => Sorted(o[i], o[j])
            /\ (\A k \in i..j-1 : ~Together(o[k], o[j])) => AtMost(Key(o[i]), Key(o[j]))

(* If nothing is read back, an empty queue is asked for its top. *)
Distribute ==
    /\ phase = "distribute"
    /\ LET read == UNION {ReadBack(m) : m \in M}
       IN  \/ /\ read = {}
              /\ corrupted' = TRUE
              /\ UNCHANGED <<phase, order>>
           \/ /\ read # {}
              /\ phase' = "reduce"
              /\ order' \in {o \in SetToSeqs(read) : Merges(o)}
              /\ UNCHANGED corrupted
    /\ UNCHANGED <<input, prefix_size, next, eof, pc, svec, out>>

(* index: the reducers take turns with the keys. *)
FileOf(k) == Cardinality({j \in 2..k : Key(order[j]) # Key(order[j - 1])}) % Reducers

Indices(r) == {k \in DOMAIN order : FileOf(k) = r}

-----------------------------------------------------------------------------
(* reduce, and the end of the client's loop *)

(* Mutant of Reducer: the last key is kept, duplicated or not. *)
ReducerForgets(res, cur) ==
    IF res.line = cur.line THEN [res EXCEPT !.duplicates = @ + 1] ELSE cur

(* The reducer of calc_min_prefix keeps the first key it finds twice. *)
Reducer(res, cur) ==
    IF res.line = cur.line THEN [res EXCEPT !.duplicates = @ + 1]
    ELSE IF res.duplicates > 1 THEN res ELSE cur

(* std::accumulate over the file of reducer r, in its order, from T(). *)
NoData == [line |-> <<>>, duplicates |-> 0, max_length |-> 0]

Accumulated(r) ==
    LET after[k \in 0..Len(order)] ==
            IF k = 0 THEN NoData
            ELSE IF k \in Indices(r) THEN Reducer(after[k - 1], Mapper(order[k])) ELSE after[k - 1]
    IN  after[Len(order)]

Reduce ==
    /\ phase = "reduce"
    /\ phase' = "decide"
    /\ out' = {Accumulated(r) : r \in {q \in 0..Reducers-1 : Indices(q) # {}}}
    /\ UNCHANGED <<input, prefix_size, next, eof, pc, svec, order, corrupted>>

Short(f) == f.max_length <= prefix_size

(* The results are read in the order of the directory until one decides:   *)
(* a short line ends the search, a duplicate goes on with it.              *)
Decide ==
    /\ phase = "decide"
    /\ LET deciding == {f \in out : Short(f) \/ f.duplicates > 1}
       IN  \/ /\ deciding = {} \/ \E f \in deciding : Short(f)
              /\ phase' = "done"
              /\ UNCHANGED <<prefix_size, next, eof, pc, svec, order, out>>
           \/ /\ \E f \in deciding : ~Short(f)
              /\ Start(prefix_size + 1)
    /\ UNCHANGED <<input, corrupted>>

Next ==
    /\ ~corrupted
    /\ \/ \E m \in M : GetLine(m) \/ GotLine(m) \/ GotNone(m) \/ TellG(m) \/ TellGReturns(m)
       \/ MapReturns \/ Distribute \/ Reduce \/ Decide

Spec == Init /\ [][Next]_vars

-----------------------------------------------------------------------------
(* Although the mappers fight for one stream, every line reaches exactly   *)
(* one of them, whichever reads it.  Only what equal shares leave over, a  *)
(* line in the last Mappers - 1 bytes, may be lost.                        *)
MappedOnce ==
    phase = "distribute" =>
        /\ \A m, o \in M : \A k \in DOMAIN svec[m], l \in DOMAIN svec[o] :
              svec[m][k] = svec[o][l] => m = o /\ k = l
        /\ \A i \in Lines \ Mapped : EndOf(Len(input.lines)) - EndOf(i - 1) < Mappers

Distinct(size) == \A i, j \in Lines : i # j => Prefix(i, size) # Prefix(j, size)

(* Two lines are the same when they are read back. *)
Doubled(size) ==
    \E i, j \in Lines :
        /\ i # j /\ OneWord(Prefix(i, size)) /\ OneWord(Prefix(j, size))
        /\ Word(Prefix(i, size)) = Word(Prefix(j, size))

NoBlanks == \A i \in Lines : Letters(Prefix(i, prefix_size)) = DOMAIN Prefix(i, prefix_size)

(* The answer is never too long: at each shorter size the prefixes of two  *)
(* lines were read back as the same word; without white space they were    *)
(* the same prefix.  And it does tell the lines apart if no line was lost, *)
(* every line is longer than it and no prefix has white space; that the    *)
(* reducers keep one datum each, and that the search looks at their        *)
(* results in any order, then loses no duplicate.                          *)
AnswerIsMinimal ==
    phase = "done" =>
        /\ \A size \in 1..prefix_size - 1 : Doubled(size)
        /\ Mapped = Lines /\ NoBlanks /\ (\A i \in Lines : Len(input.lines[i]) > prefix_size)
              => Distinct(prefix_size)

(* The client's comment promises a prefix that identifies every line.  Not *)
(* so when a reducer kept a short line and another one has a duplicate,    *)
(* even if no line is a prefix of another.                                 *)
AnswerIdentifies ==
    phase = "done" /\ (\A i, j \in Lines : i # j => ~IsPrefix(input.lines[i], input.lines[j]))
        => Distinct(prefix_size)
=============================================================================
