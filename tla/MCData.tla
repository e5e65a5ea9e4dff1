------------------------------- MODULE MCData --------------------------------
(***************************************************************************)
(* The programs about data, one at a time: calc_min_prefix, the files of   *)
(* the savers, the sparse matrix, the vector and its allocator, the        *)
(* duplicate finder and the pure algorithms.  `program` says which, and    *)
(* never changes.                                                          *)
(***************************************************************************)
EXTENDS MCMapReduce

CONSTANTS
    Threads, Blocks, NoBlock, Second, MaxTime,      \* the savers
    RowNums, ColNums, Items, def_val, Handles,      \* the matrix
    _block_size, Elems, MaxSize,                    \* the vector
    m_block_size, Searches, Tails,                  \* the finder
    Byte, LongLong, MaxInt, Bad                     \* the algorithms

(* A second is made of ticks. *)
ASSUME ClockAssumption == Second \in Nat \ {0} /\ MaxTime \in Nat
ASSUME VectorAssumption == _block_size \in Nat /\ MaxSize \in Nat
(* Rows and columns have numbers; there are finitely many of them. *)
ASSUME MatrixAssumption ==
    /\ RowNums \subseteq Nat /\ IsFiniteSet(RowNums)
    /\ ColNums \subseteq Nat /\ IsFiniteSet(ColNums)

VARIABLES
    program,
    now, todo, saver_pc, block, wake, name, files, crashed, closed,
    rows, cur_size, handle, asserted, cells,
    mode, heap, count, free, active, given, memory, data, sz, cp, contents, fate,
    m_files, listed, list, left, block_num, file_read, content, behind, tree, node, scan,
    job, done, result

saveVars == <<now, todo, saver_pc, block, wake, name, files, crashed, closed>>
matrixVars == <<rows, cur_size, handle, asserted, cells>>
vectorVars == <<mode, heap, count, free, active, given, memory, data, sz, cp, contents, fate>>
finderVars == <<m_files, listed, list, left, block_num, file_read, content, behind, tree, node, scan>>
jobVars == <<job, done, result>>
dataVars == <<program, vars, saveVars, matrixVars, vectorVars, finderVars, jobVars>>

-----------------------------------------------------------------------------
(* What is searched for duplicates: every two files of 3 or 4 bytes with   *)
(* some third one, and a few files in every way to list them.              *)
Entries == [top |-> <<"p", "sub", "q">>, sub |-> <<"r">>]
All == [m_directories |-> <<"top">>, m_directories_exclusion |-> {}, m_txt_regex |-> {"p", "q", "r"},
        recursively |-> TRUE, m_min_file_size |-> 1]
Bytes(n) == [1..n -> {0, 1}]
MCSearches ==
    [entries : {Entries}, options : {All},
     content : UNION {[p : Bytes(n), q : Bytes(n), r : {<<1>>, <<0, 1, 0, 1>>, <<0, 1, 1>>}] : n \in 3..4}]
    \union
    [entries : {Entries},
     options : {[All EXCEPT !.m_directories = <<"top", "sub">>], [All EXCEPT !.m_directories_exclusion = {"sub"}],
                [All EXCEPT !.m_txt_regex = {}], [All EXCEPT !.recursively = FALSE],
                [All EXCEPT !.m_min_file_size = 0]},
     content : {[p |-> <<1, 0, 2>>, q |-> <<1, 0, 2>>, r |-> <<1, 0, 2>>], [p |-> <<>>, q |-> <<>>, r |-> <<2>>]}]
MCTails == {<<>>, <<9>>}

(* The inputs of the algorithms. *)
SeqsUpTo(S, n) == UNION {[1..k -> S] : k \in 0..n}
Lines4 == {<<1, 2, 3, 4>>, <<46, 70, 0, 1>>, <<46, 70, 0, 2>>, <<2, 1, 46, 46, 5>>}
ShortLines == {<<1, 46>>, <<1, Bad, 3, 4>>, <<>>}
Number(n) ==
    LET values == Byte^n.size IN
    IF n.signed THEN n.val \in -(values \div 2)..(values \div 2) - 1 ELSE n.val \in 0..values - 1
MCJobs ==
    [program : {"split"}, of : SeqsUpTo({".", "1"}, 5)]
    \union [program : {"ip_filter"}, of : SeqsUpTo(Lines4 \union ShortLines, 2) \union SeqsUpTo(Lines4, 3)]
    \union [program : {"print_ip"},
            of : {n \in [val : -9..64, size : 1..LongLong, signed : BOOLEAN] : Number(n)}]
    \union [program : {"big data"}, of : SeqsUpTo(1..3, 4)]
    \union [program : {"unique"}, of : SeqsUpTo(-MaxInt..MaxInt, 3)]

Saver == INSTANCE SaveFiles WITH pc <- saver_pc
Matrix == INSTANCE SparseMatrix
Vec == INSTANCE Vector
Finder == INSTANCE Duplicates
(* A block has bytes, as a file has; files that are there are listed; some *)
(* bytes are behind the buffer.                                            *)
ASSUME FinderAssumption ==
    /\ m_block_size \in Nat \ {0} /\ Tails \subseteq Seq(Nat) /\ Tails # {}
    /\ \A s \in Searches :
         /\ s.content \in [DOMAIN s.content -> Seq(Nat)]
         /\ Finder!ListFiles(s.entries, s.content, s.options) \in Seq(DOMAIN s.content)
Algorithm == INSTANCE Algorithms WITH Jobs <- MCJobs, Separator <- ".", Garbage <- {0, 46}

-----------------------------------------------------------------------------
(* The programs that do not run have one initial state. *)
Idle(p, init) == program # p => init

DataInit ==
    /\ program \in {"calc_min_prefix", "savers", "matrix", "vector", "finder", "algorithms"}
    /\ Init /\ Idle("calc_min_prefix", input = CHOOSE f \in Inputs : TRUE)
    /\ Saver!Init
    /\ Matrix!MatrixInit
    /\ Vec!VectorInit /\ Idle("vector", mode = [allowAllocks |-> FALSE, free_on_deallocate_ |-> FALSE])
    /\ IF program = "finder" THEN Finder!FinderInit
       ELSE /\ m_files = {} /\ listed = <<>> /\ list = {} /\ left = {} /\ block_num = 0 /\ file_read = FALSE
            /\ content = <<>> /\ behind = <<>> /\ tree = <<>> /\ node = <<>> /\ scan = "done"
    /\ IF program = "algorithms" THEN Algorithm!JobInit
       ELSE job = [program |-> "none"] /\ done = FALSE /\ result = <<>>

DataNext ==
    /\ UNCHANGED program
    /\ \/ /\ program = "calc_min_prefix" /\ Next
          /\ UNCHANGED <<saveVars, matrixVars, vectorVars, finderVars, jobVars>>
       \/ /\ program = "savers" /\ Saver!Next
          /\ UNCHANGED <<vars, matrixVars, vectorVars, finderVars, jobVars>>
       \/ /\ program = "matrix" /\ Matrix!MatrixNext
          /\ UNCHANGED <<vars, saveVars, vectorVars, finderVars, jobVars>>
       \/ /\ program = "vector" /\ Vec!VectorNext
          /\ UNCHANGED <<vars, saveVars, matrixVars, finderVars, jobVars>>
       \/ /\ program = "finder" /\ Finder!FinderNext
          /\ UNCHANGED <<vars, saveVars, matrixVars, vectorVars, jobVars>>
       \/ /\ program = "algorithms" /\ Algorithm!Compute
          /\ UNCHANGED <<vars, saveVars, matrixVars, vectorVars, finderVars>>

DataSpec == DataInit /\ [][DataNext]_dataVars

-----------------------------------------------------------------------------
(* The properties are those of the modules. *)

(* No saved file is opened again for another block. *)
SavedBlocksStay == Saver!SavedBlocksStay

(* The matrix is the function its callers assigned. *)
CellsAgree == Matrix!CellsAgree

(* The vector holds what was put into it. *)
ContentsKept == Vec!ContentsKept

(* Files that gave the same strings are reported, unless the last repeats. *)
DuplicatesFound == program = "finder" => Finder!DuplicatesFound

(* The algorithms agree with their references. *)
AgreesWithReference == Algorithm!AgreesWithReference
=============================================================================
