------------------------------ MODULE Duplicates -----------------------------
(***************************************************************************)
(* The duplicate finder of 09_Boost.  FileSystem lists the files by size;  *)
(* FileScanner reads the files of one size block by block, and each block  *)
(* moves its file down a tree of hashes; a node with two files is reported *)
(* as duplicates.                                                          *)
(*                                                                         *)
(* A file is a sequence of bytes, 0 the one that ends a C string; a hash   *)
(* is the string that was hashed.  The buffer has no room for a 0 of its   *)
(* own, so the string of a full block without one goes on with whatever is *)
(* behind the buffer when that block is read, one of Tails.  A node is the *)
(* path of keys from the root; it has a file once at most, for who adds it *)
(* takes it from where it was.  Every file can be read to its end, and a   *)
(* block has bytes.                                                        *)
(***************************************************************************)
EXTENDS Naturals, Sequences, FiniteSets, FiniteSetsExt, SequencesExt

CONSTANTS
    Searches,    \* what is searched: [entries, content, options], the entries
                 \* of each directory and the bytes of each file
    m_block_size,
    Tails

VARIABLES
    listed,      \* every file, as often and in the order in which it was listed
    m_files,     \* the lists of files of one size still to be read: their places
    list, left,  \* the list that is read, and what of it the block is not read of
    block_num, file_read,
    content,     \* of the files
    behind,      \* what is behind the buffer when the string of a block runs on
    tree,        \* the files of each node
    node,        \* m_path_to_node
    scan         \* "erase", "next", "read" or "done"

finderVars == <<m_files, listed, list, left, block_num, file_read, content, behind, tree, node, scan>>

Nothing == <<>>

(* ListFiles: the files in the input directories, and, recursively, in the *)
(* directories there but for the excluded ones.  A directory that is an    *)
(* input and in another one is listed twice; without a mask nothing is.    *)
ListFiles(entries, bytes, o) ==
    LET Fits(f) == Len(bytes[f]) >= o.m_min_file_size /\ f \in o.m_txt_regex
        In[depth \in 0..Cardinality(DOMAIN entries)] == [dir \in DOMAIN entries |->
            FoldLeft(LAMBDA all, entry :
                         IF entry \notin DOMAIN entries
                         THEN IF Fits(entry) THEN Append(all, entry) ELSE all
                         ELSE IF o.recursively /\ entry \notin o.m_directories_exclusion
                              THEN all \o In[depth - 1][entry] ELSE all,
                     <<>>, entries[dir])]
    IN  FlattenSeq([k \in DOMAIN o.m_directories |-> In[Cardinality(DOMAIN entries)][o.m_directories[k]]])

Size(k) == Len(content[listed[k]])

BlockAt(f, b) ==
    SubSeq(content[f], b * m_block_size + 1, Min({(b + 1) * m_block_size, Len(content[f])}))

(* A full block without a 0. *)
RunsOn(k, b) ==
    LET block == BlockAt(listed[k], b)
    IN  Len(block) = m_block_size /\ \A i \in DOMAIN block : block[i] # 0

(* std::string(buffer.data()), for block b of the file listed at k. *)
Hashed(k, b) ==
    LET block == BlockAt(listed[k], b)
        zeros == {i \in DOMAIN block : block[i] = 0}
    IN  IF RunsOn(k, b) THEN block \o behind[<<k, b>>]
        ELSE IF zeros # {} THEN SubSeq(block, 1, Min(zeros) - 1) ELSE block

FinderInit ==
    /\ \E s \in Searches : content = s.content /\ listed = ListFiles(s.entries, s.content, s.options)
    /\ behind \in [{at \in UNION {{k} \X (0..Size(k)) : k \in DOMAIN listed} : RunsOn(at[1], at[2])} -> Tails]
    /\ m_files = {{k \in DOMAIN listed : Size(k) = Size(j)} : j \in DOMAIN listed}
    /\ list = {} /\ left = {} /\ block_num = 0 /\ file_read = FALSE
    /\ tree = [n \in {} |-> {}] /\ node = [f \in {} |-> Nothing]
    /\ scan = "erase"

(* Scan: lists of one file are dropped, ... *)
Erase ==
    /\ scan = "erase"
    /\ m_files' = {l \in m_files : Cardinality(l) # 1}
    /\ scan' = "next"
    /\ UNCHANGED <<listed, list, left, block_num, file_read, content, behind, tree, node>>

(* ... the others are read in the order of the hash table. *)
NextList ==
    /\ scan = "next"
    /\ IF m_files = {} THEN scan' = "done" /\ UNCHANGED <<m_files, list, left>>
       ELSE scan' = "read" /\ \E l \in m_files : list' = l /\ left' = l /\ m_files' = m_files \ {l}
    /\ block_num' = 0 /\ file_read' = FALSE
    /\ UNCHANGED <<listed, content, behind, tree, node>>

(* The node Add finds or makes: the node it starts from, if the key is its *)
(* own, or a child of it.  It starts from the root, made of the first key  *)
(* of all, for a file that has no node yet.                                *)
Reached(from, key) ==
    IF from = Nothing /\ DOMAIN tree = {} THEN <<key>>
    ELSE LET start == IF from # Nothing THEN from ELSE CHOOSE n \in DOMAIN tree : Len(n) = 1
         IN  IF Last(start) = key THEN start ELSE Append(start, key)

(* Mutant of Moved: the file stays where it was, too. *)
MovedNotRemoved(f, from, to) ==
    [n \in DOMAIN tree \union {to} |->
        (IF n \in DOMAIN tree THEN tree[n] ELSE {}) \union IF n = to THEN {f} ELSE {}]

(* Add, and, for a file that was elsewhere, Remove: of every mention of    *)
(* it there, the new one included if Add found the same node.              *)
Moved(f, from, to) ==
    LET Value(n) == (IF n \in DOMAIN tree THEN tree[n] ELSE {}) \union IF n = to THEN {f} ELSE {}
    IN  [n \in DOMAIN tree \union {to} |-> IF n = from THEN Value(n) \ {f} ELSE Value(n)]

(* ReadBlock, the next file of it. *)
ReadFile ==
    /\ scan = "read"
    /\ \E k \in left :
          /\ \A j \in left : k <= j
          /\ left' = left \ {k}
          /\ LET f == listed[k]
                 block == BlockAt(f, block_num)
                 from == IF f \in DOMAIN node THEN node[f] ELSE Nothing
                 to == Reached(from, Hashed(k, block_num))
             IN  IF block = <<>>
                 THEN UNCHANGED <<file_read, tree, node>>
                 ELSE /\ tree' = Moved(f, from, to)
                      /\ node' = [g \in DOMAIN node \union {f} |-> IF g = f THEN to ELSE node[g]]
                      /\ file_read' = (file_read \/ Len(block) = m_block_size)
    /\ UNCHANGED <<m_files, listed, list, block_num, content, behind, scan>>

(* The end of ReadBlock: on with the next block if a file may have one. *)
BlockRead ==
    /\ scan = "read" /\ left = {}
    /\ scan' = IF file_read THEN "read" ELSE "next"
    /\ left' = list /\ block_num' = block_num + 1 /\ file_read' = FALSE
    /\ UNCHANGED <<m_files, listed, list, content, behind, tree, node>>

FinderNext == Erase \/ NextList \/ ReadFile \/ BlockRead

-----------------------------------------------------------------------------
(* The groups TraverseTree prints. *)
Reported == {tree[n] : n \in {m \in DOMAIN tree : Cardinality(tree[m]) >= 2}}

Once(k) == \A j \in DOMAIN listed : listed[j] = listed[k] => j = k

LastBlock(k) == (Size(k) - 1) \div m_block_size

SameStrings(j, k) == \A b \in 0..LastBlock(k) : Hashed(j, b) = Hashed(k, b)

LastBlockMoves(k) == LastBlock(k) = 0 \/ Hashed(k, LastBlock(k)) # Hashed(k, LastBlock(k) - 1)

(* Duplicates are found, whatever the order of the hash table and whatever *)
(* other files are in the tree: two files of one size, listed once each,   *)
(* not empty, whose blocks gave the same strings, are in one node and      *)
(* reported together ... unless their last two blocks are the same string, *)
(* for then Remove undoes what Add just did, and both vanish.  Equal files *)
(* give the same strings if each full block has a 0 or the same bytes were *)
(* behind the buffer; if not, as may be with any text of a block or more,  *)
(* equal files may be missed.  And different files may give the same ones. *)
DuplicatesFound ==
    scan = "done" => \A j, k \in DOMAIN listed :
        (j # k /\ Once(j) /\ Once(k) /\ Size(j) = Size(k) /\ Size(k) # 0 /\ SameStrings(j, k)) =>
            /\ node[listed[j]] = node[listed[k]]
            /\ \A r \in Reported : listed[j] \in r <=> listed[k] \in r
            /\ (\E r \in Reported : listed[k] \in r) <=> LastBlockMoves(k)
=============================================================================
