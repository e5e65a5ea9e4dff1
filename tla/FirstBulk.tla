------------------------------ MODULE FirstBulk ------------------------------
(***************************************************************************)
(* The first versions of the bulk program, 08_Cmd and 10_Async_Cmd, beside *)
(* the later ones: the same branches for a line, but one call of RunCmds   *)
(* reads the whole text and flushes at its end, and the observers are      *)
(* called by main itself.  A slice out of range, which throws later on, is *)
(* undefined behaviour in 08_Cmd: `crashed` as well.                       *)
(***************************************************************************)
EXTENDS MCBulkParser

VARIABLE version     \* "first" or "later"; it never changes

versionVars == <<vars, version>>

VersionsInit == Init /\ version \in {"first", "later"}

(* The end of the text: what is collected is printed outside braces, also  *)
(* if it is nothing.  cmds_ is not cleared.                                *)
EndOfText ==
    /\ ~crashed /\ ~stopped
    /\ stopped' = TRUE
    /\ UNCHANGED <<parser, crashed, lines, received, chunk_start>>
    /\ IF block_level = 0
       THEN notify("event_print_save", cmds_)
       ELSE UNCHANGED <<events, out>>

RunCmds == RunLine \/ EndOfText

VersionsNext ==
    \/ version = "first" /\ RunCmds /\ UNCHANGED version
    \/ version = "later" /\ Next /\ UNCHANGED version

VersionsSpec == VersionsInit /\ [][VersionsNext]_versionVars
=============================================================================
