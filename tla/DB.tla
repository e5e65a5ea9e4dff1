--------------------------------- MODULE DB ---------------------------------
(***************************************************************************)
(* The join server's database: what Exec makes of a command, which is what *)
(* one read returned, whole statements and pieces of one.  A database has  *)
(* one table, or none, of rows that have a NULL in them or not.  Texts are *)
(* as long as the pieces they are of: a statement, a line of an answer.    *)
(***************************************************************************)
EXTENDS Naturals, Sequences, SequencesExt

(* A select of two columns, and a piece whose error message quotes it.     *)
Long == {"select two", "long piece"}
Statements == {"create", "insert", "insert NULL", "select", "piece"} \union Long

NewDb == [table |-> FALSE, rows |-> <<>>]

(* sqlite: does the statement fail, and what does it leave? *)
StatementFails(db, s) == s \in {"piece", "long piece"} \/ (IF s = "create" THEN db.table ELSE ~db.table)

After(db, s) ==
    CASE s = "create" -> [db EXCEPT !.table = TRUE]
      [] s \in {"insert", "insert NULL"} -> [db EXCEPT !.rows = Append(@, s)]
      [] OTHER -> db

(* A row is told by its number, and 0 is none. *)
OK(row, long) == [ok |-> TRUE, row |-> row, long |-> long]
ERR(long) == [ok |-> FALSE, row |-> 0, long |-> long]

(* A line for the result, and one for each column or of what is quoted. *)
AsString(answer) ==
    LET first == [ok |-> answer.ok, row |-> 0]
        line == [ok |-> answer.ok, row |-> answer.row]
    IN  IF answer.long THEN <<first, line, line>>
        ELSE IF answer.row = 0 THEN <<first>> ELSE <<first, line>>

(* print_results is called for every row, and keeps the last one.  A NULL  *)
(* it prints, but making a std::string of it is undefined.                 *)
Statement(state, s) ==
    LET rows == IF s \in {"select", "select two"} THEN state.db.rows ELSE <<>>
    IN  IF ~state.answer.ok THEN state
        ELSE IF StatementFails(state.db, s) THEN [state EXCEPT !.answer = ERR(s \in Long)]
        ELSE [db |-> After(state.db, s),
              answer |-> IF rows = <<>> THEN state.answer ELSE OK(Len(rows), s \in Long),
              undefined |-> state.undefined \/ Contains(rows, "insert NULL")]

(* sqlite3_exec runs the statements until one fails. *)
exec_internal(db, cmd) ==
    FoldLeft(Statement, [db |-> db, answer |-> OK(0, FALSE), undefined |-> FALSE], cmd)

Exec(db, cmd) ==
    LET state == exec_internal(db, cmd)
    IN  [db |-> state.db, answer |-> AsString(state.answer), undefined |-> state.undefined]

(* The echo server has no database. *)
Echo(db, chunk) == [db |-> db, answer |-> chunk, undefined |-> FALSE]
=============================================================================
