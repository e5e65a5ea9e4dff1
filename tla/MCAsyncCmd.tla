----------------------------- MODULE MCAsyncCmd -----------------------------
(***************************************************************************)
(* AsyncCmd for TLC: the texts that may come in a chunk.                   *)
(***************************************************************************)
EXTENDS AsyncCmd

(* Full static blocks, a nested block whose end comes in another chunk,    *)
(* and, by the order of the chunks, a "}" that closes nothing.             *)
SafeChunks ==
    { <<"cmd", "cmd", "cmd">>, <<"open", "cmd", "open">>, <<"close", "close", "cmd">> }
=============================================================================
