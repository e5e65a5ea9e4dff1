----------------------------- MODULE SparseMatrix ----------------------------
(***************************************************************************)
(* The sparse Matrix of 06_Matrix: a list of rows, sorted by number, of    *)
(* lists of elements, sorted by column.  matrix[r] is a handle on a row,   *)
(* with a pointer to it if the row was there then; a caller may keep it.   *)
(* Rows are never removed, so the pointer stays good, but a handle made    *)
(* before its row was added has none.                                      *)
(***************************************************************************)
EXTENDS Naturals, Sequences, FiniteSets, FiniteSetsExt, SequencesExt

CONSTANTS
    RowNums, ColNums,
    Items,       \* the values assigned, def_val among them
    def_val,
    Handles      \* the handles that callers keep

VARIABLES
    rows,        \* each [row_num_, elems], an element [col_num, item]
    cur_size,
    handle,      \* each [row_num_, found], found: row_ptr_ is not null
    asserted,    \* assert(0)
    cells        \* history: what was assigned to each cell last

matrixVars == <<rows, cur_size, handle, asserted, cells>>

RowOf(r) == {k \in DOMAIN rows : rows[k].row_num_ = r}

(* Where the first of a sorted list is that is not before n. *)
Place(list, NumOf(_), n) == Min({k \in DOMAIN list : NumOf(list[k]) >= n} \union {Len(list) + 1})

MatrixInit ==
    /\ rows = <<>> /\ cur_size = 0
    /\ handle = [h \in Handles |-> [row_num_ |-> 0, found |-> FALSE]]
    /\ asserted = FALSE
    /\ cells = [c \in RowNums \X ColNums |-> def_val]

(* operator[] *)
Row(h, r) ==
    /\ handle' = [handle EXCEPT ![h] = [row_num_ |-> r, found |-> RowOf(r) # {}]]
    /\ UNCHANGED <<rows, cur_size, asserted, cells>>

(* Mutant of AddRow: at the end of the list. *)
AddRowLast(r, elem) == Append(rows, [row_num_ |-> r, elems |-> <<elem>>])

(* The row is inserted before the first one with a greater number. *)
AddRow(r, elem) ==
    InsertAt(rows, Place(rows, LAMBDA row : row.row_num_, r), [row_num_ |-> r, elems |-> <<elem>>])

(* An assignment through a handle without a row: a default value needs     *)
(* none, another one adds it, and asserts that nobody else has.            *)
AssignNewRow(h, c, item) ==
    LET r == handle[h].row_num_ IN
    /\ r \in RowNums /\ ~handle[h].found /\ item # def_val
    /\ IF RowOf(r) # {}
       THEN asserted' = TRUE /\ UNCHANGED <<rows, cur_size, handle, cells>>
       ELSE /\ rows' = AddRow(r, [col_num |-> c, item |-> item])
            /\ cur_size' = cur_size + 1
            /\ handle' = [handle EXCEPT ![h].found = TRUE]
            /\ cells' = [cells EXCEPT ![<<r, c>>] = item]
            /\ UNCHANGED asserted

(* ... and through a handle on a row: the element of the column is         *)
(* overwritten, erased or inserted.                                        *)
AssignInRow(h, c, item) ==
    LET r == handle[h].row_num_
        k == CHOOSE k \in DOMAIN rows : rows[k].row_num_ = r
        elems == rows[k].elems
        p == Place(elems, LAMBDA e : e.col_num, c)
        there == p \in DOMAIN elems /\ elems[p].col_num = c
        elem == [col_num |-> c, item |-> item]
    IN  /\ handle[h].found
        /\ rows' = [rows EXCEPT ![k].elems =
               IF there THEN IF item = def_val THEN RemoveAt(elems, p) ELSE ReplaceAt(elems, p, elem)
               ELSE IF item = def_val THEN elems ELSE InsertAt(elems, p, elem)]
        /\ cur_size' = IF there /\ item = def_val THEN cur_size - 1
                       ELSE IF ~there /\ item # def_val THEN cur_size + 1 ELSE cur_size
        /\ cells' = [cells EXCEPT ![<<r, c>>] = item]
        /\ UNCHANGED <<handle, asserted>>

MatrixNext ==
    /\ ~asserted
    /\ \E h \in Handles :
        \/ \E r \in RowNums : Row(h, r)
        \/ \E c \in ColNums, item \in Items : AssignNewRow(h, c, item) \/ AssignInRow(h, c, item)

-----------------------------------------------------------------------------
(* A read: matrix[r][c]. *)
Read(r, c) ==
    LET found == {e \in UNION {ToSet(rows[k].elems) : k \in RowOf(r)} : e.col_num = c}
    IN  IF found = {} THEN def_val ELSE (CHOOSE e \in found : TRUE).item

(* The iterator: the row and the place of the element in it. *)
Begin == <<1, 1>>
Advanced(it) == IF it[2] < Len(rows[it[1]].elems) THEN <<it[1], it[2] + 1>> ELSE <<it[1] + 1, 1>>
At(it) ==
    LET row == rows[it[1]] IN <<row.row_num_, row.elems[it[2]].col_num, row.elems[it[2]].item>>

Ended(it) == it[1] > Len(rows)

(* What a loop over the matrix visits before it is at the end. *)
Visited ==
    LET Bound == Cardinality(RowNums \X ColNums)
        after[n \in 0..Bound] ==
            IF n = 0 THEN Begin ELSE IF Ended(after[n - 1]) THEN after[n - 1] ELSE Advanced(after[n - 1])
        steps == Cardinality({n \in 0..Bound : ~Ended(after[n])})
    IN  [n \in 1..steps |-> At(after[n - 1])]

NoRowEmptied == \A k \in DOMAIN rows : rows[k].elems # <<>>

Before(x, y) == x[1] < y[1] \/ (x[1] = y[1] /\ x[2] < y[2])

(* However callers mix handles, kept ones and new ones, the matrix is the  *)
(* function it stands for: reads, size, and a loop, which visits every     *)
(* cell that is set, once, row by row.  (A loop over a matrix with a row   *)
(* whose elements were all erased dereferences the end of its list; that   *)
(* is the caller's to avoid, and nothing tells him.)                       *)
CellsAgree ==
    LET taken == {c \in RowNums \X ColNums : cells[c] # def_val} IN
    /\ \A r \in RowNums, c \in ColNums : Read(r, c) = cells[<<r, c>>]
    /\ cur_size = Cardinality(taken)
    /\ NoRowEmptied =>
        /\ ToSet(Visited) = {<<c[1], c[2], cells[c]>> : c \in taken}
        /\ \A i \in 1..Len(Visited) - 1 : Before(Visited[i], Visited[i + 1])
=============================================================================
