----------------------------- MODULE MCNetwork ------------------------------
(***************************************************************************)
(* The network programs, one at a time, each with variables of its own:    *)
(* `program` says which, and never changes.                                *)
(***************************************************************************)
EXTENDS Integers, Sequences, SequencesExt, TLC

CONSTANTS Clients, MaxRecent, MaxMsgs, max_length, max_body_length, Wrap, MaxLines,
          Connections, MaxRequests

(* A header has four digits, and size_t holds more than a message.         *)
ASSUME ChatAssumption == MaxRecent \in Nat /\ MaxMsgs \in Nat
ASSUME ClientAssumption ==
    /\ max_body_length \in Nat /\ max_body_length < 10000
    /\ Wrap \in Nat /\ Wrap > max_body_length + 1

VARIABLES
    program,
    participants_, recent_msgs_, write_msgs_, reading, writing, delivered, heard, joined,
    main, lines, posted, running, socket, ops, write_msgs, body_length, incoming, sent, headers, shown,
    up, session, data_, db, got, chunks, ended,
    asked, eof, place, req, unread, answered, accepting

Database == INSTANCE DB
MCMaxSent == [c \in Clients |-> IF c = 1 THEN 3 ELSE 1]
MCStatements == [c \in Clients |-> IF c = 1 THEN Database!Statements ELSE {"create"}]
Chat == INSTANCE ChatServer
Client == INSTANCE ChatClient WITH Headers <- {max_body_length, -1}
EchoServer == INSTANCE AsioSession WITH
    MaxSent <- MCMaxSent, Messages <- [c \in Clients |-> {"x", "y"}], NewDb <- Database!NewDb, Exec <- Database!Echo
JoinServer == INSTANCE AsioSession WITH
    MaxSent <- MCMaxSent, Messages <- MCStatements, NewDb <- Database!NewDb, Exec <- Database!Exec

Root == <<"root", "/">>
Targets == {<<>>, <<"page">>, <<"/">>, <<"/", "page", ".txt">>, <<"/", "none">>, <<"/", "secret">>,
            <<"/", "dir">>, <<"/", "..", "/", "page">>}
Tree == ( <<"root", "/", "index", ".html">> :> "file" @@ <<"root", "/", "page", ".txt">> :> "file"
          @@ <<"root", "/", "secret">> :> "locked" @@ <<"root", "/", "dir">> :> "directory" )
Http == INSTANCE HttpServer WITH
    Requests <- [method : {"get", "head"}, target : Targets, keep_alive : {TRUE}]
                \union [method : {"get", "post"}, target : {<<"/">>}, keep_alive : {FALSE}],
    doc_root <- Root, Files <- Tree

chatVars == <<participants_, recent_msgs_, write_msgs_, reading, writing, delivered, heard, joined>>
clientVars == <<main, lines, posted, running, socket, ops, write_msgs, body_length, incoming, sent, headers, shown>>
sessionVars == <<up, session, data_, db, got, chunks, ended>>
httpVars == <<asked, eof, place, req, unread, answered, accepting>>
vars == <<program, chatVars, clientVars, sessionVars, httpVars>>

Init ==
    /\ program \in {"chat server", "chat client", "echo server", "join server", "http server"}
    /\ Chat!Init /\ Client!Init /\ EchoServer!Init /\ Http!Init

ChatStep(A) == program = "chat server" /\ A /\ UNCHANGED <<program, clientVars, sessionVars, httpVars>>
ClientStep(A) == program = "chat client" /\ A /\ UNCHANGED <<program, chatVars, sessionVars, httpVars>>
SessionStep(p, A) == program = p /\ A /\ UNCHANGED <<program, chatVars, clientVars, httpVars>>
HttpStep(A) == program = "http server" /\ A /\ UNCHANGED <<program, chatVars, clientVars, sessionVars>>

Next ==
    \/ ChatStep(Chat!Next)
    \/ ClientStep(Client!Next)
    \/ SessionStep("echo server", EchoServer!Next)
    \/ SessionStep("join server", JoinServer!Next)
    \/ HttpStep(Http!Next)

Spec == Init /\ [][Next]_vars

(* The network completes an outstanding write of the chat server, well or  *)
(* not, and whatever is outstanding on a closed socket.  The threads of    *)
(* the chat client run what they can.                                      *)
FairSpec ==
    /\ Spec
    /\ \A c \in Clients : WF_vars(ChatStep(Chat!Written(c) \/ Chat!WriteFails(c)))
    /\ \A o \in Client!Operations :
          /\ WF_vars(ClientStep(socket = "closed" /\ Client!Complete(o)))
          /\ WF_vars(ClientStep(Client!Failed(o)))
    /\ WF_vars(ClientStep(Client!Close)) /\ WF_vars(ClientStep(Client!JoinThread))
    /\ WF_vars(ClientStep(Client!WritePosted)) /\ WF_vars(ClientStep(Client!ClosePosted))
    /\ WF_vars(ClientStep(Client!Connected)) /\ WF_vars(ClientStep(Client!ReadHeader))
    /\ WF_vars(ClientStep(Client!ReadBody)) /\ WF_vars(ClientStep(Client!Written))
    /\ WF_vars(ClientStep(Client!RunReturns))

-----------------------------------------------------------------------------
(* The chat's room, as ChatServer has it. *)
HearsAStretch == Chat!HearsAStretch
Heard == Chat!Heard

(* The chat's client, as ChatClient has it. *)
LinesInOrder == Client!LinesInOrder
ClientReturns == Client!ClientReturns

(* Whoever asks a server in one connection gets the answers in the order   *)
(* of the questions, whatever is under way in other connections: of the    *)
(* echo server, the join server and the HTTP server.                       *)
AnswersInOrder ==
    /\ program = "echo server" => EchoServer!AnswersInOrder
    /\ program = "join server" => JoinServer!AnswersInOrder
    /\ Http!RequestsInOrder
=============================================================================
