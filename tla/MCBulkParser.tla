---------------------------- MODULE MCBulkParser ----------------------------
(***************************************************************************)
(* BulkParser for TLC: a definition of the blocks of a text that does not  *)
(* follow RunCmds line by line, to compare its output with.  A text is a   *)
(* sequence of kinds of lines.                                             *)
(***************************************************************************)
EXTENDS BulkParser, FiniteSets, FiniteSetsExt, SequencesExt

Braces(text, i, kind) == Cardinality({j \in 1..i : text[j] = kind})
Depth(text, i) == Braces(text, i, "open") - Braces(text, i, "close")
CommandLines(text) == {p \in DOMAIN text : text[p] = "cmd"}

(* The block a command belongs to: the outermost brace around it, or, for  *)
(* a command outside braces, its group of BulkSize since the last brace.   *)
Outermost(text, p) == Max({q \in 1..p : Depth(text, q - 1) = 0})
LastBrace(text, p) == Max({q \in 1..p : text[q] # "cmd"} \union {0})
Group(text, p) ==
    Cardinality({q \in CommandLines(text) : LastBrace(text, p) < q /\ q < p}) \div BulkSize
BlockOf(text, p) ==
    IF Depth(text, p) > 0 THEN <<"dynamic", Outermost(text, p), 0>>
                          ELSE <<"static", LastBrace(text, p), Group(text, p)>>

Members(text, p) == {q \in CommandLines(text) : BlockOf(text, q) = BlockOf(text, p)}

(* A dynamic block is finished by its closing brace; a static one by its   *)
(* last command, by the next brace, or by the end of the text.             *)
Finished(text, atEnd, p) ==
    IF Depth(text, p) > 0 THEN \E r \in p..Len(text) : Depth(text, r) = 0
    ELSE \/ Cardinality(Members(text, p)) = BulkSize
         \/ \E r \in p..Len(text) : text[r] # "cmd"
         \/ atEnd

Blocks(text, atEnd) ==
    {Members(text, p) : p \in {q \in CommandLines(text) : Finished(text, atEnd, q)}}

(* Every "}" so far has closed a block. *)
Matched(text) == \A i \in DOMAIN text : Depth(text, i) >= 0

(* The blocks printed, each the set of its commands. *)
PrintedBlocks ==
    {ToSet(events[i].cmds) : i \in {j \in DOMAIN events : events[j].event = "event_print_save"}}

(* In a text whose braces match, the blocks RunCmds and Stop print are the *)
(* finished blocks of the text, each of them whole and alone: a command    *)
(* never shares a block with another across an outermost brace or a full   *)
(* static block.                                                           *)
BlocksAsDefined == Matched(lines) => PrintedBlocks \ {{}} = Blocks(lines, stopped)

(* The opening brace that the "}" of line p closes. *)
Matching(text, p) == Max({q \in 1..p : text[q] = "open" /\ Depth(text, q - 1) = Depth(text, p)})

(* What event_save hands the savers at the end of a nested block is that   *)
(* block, when it holds no block of its own and came in one chunk: the one *)
(* index that RunCmds keeps, and forgets between chunks, is then enough.   *)
NestedSaveIsBlock ==
    \A i \in DOMAIN events :
        LET p == events[i].at
            q == Matching(lines, p)
            inside == {r \in CommandLines(lines) : q < r /\ r < p}
        IN  (/\ Matched(lines) /\ events[i].event = "event_save"
             /\ events[i].chunk < q
             /\ \A r \in (q + 1)..(p - 1) : lines[r] = "cmd")
            => ToSet(events[i].cmds) = inside

(* The worker dies of an out-of-range slice only in a text with a "}" that *)
(* closes nothing.                                                         *)
CrashNeedsUnmatched == crashed => ~Matched(lines)
=============================================================================
