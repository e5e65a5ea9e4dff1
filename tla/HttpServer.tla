----------------------------- MODULE HttpServer -----------------------------
(***************************************************************************)
(* beast_sync_server.cpp: a thread for each connection, which answers one  *)
(* request after the other with the files below doc_root.                  *)
(*                                                                         *)
(* A path is a sequence of "/", names and extensions.                      *)
(***************************************************************************)
EXTENDS Naturals, Sequences, SequencesExt

CONSTANTS
    Connections,
    Requests,    \* [method, target, keep_alive]
    MaxRequests, \* bound: requests of a connection
    doc_root,
    Files        \* a function from paths to "file", "directory" or "locked"

VARIABLES
    asked,       \* what each client has sent, and when it ends the stream
    eof,
    place,       \* each do_session: "none", "read", "send", "shutdown", "closed", "failed"
    req,         \* the request it answers
    unread,      \* how many of the client's requests it has not read
    answered,    \* what it has sent
    accepting    \* main's loop

vars == <<asked, eof, place, req, unread, answered, accepting>>

-----------------------------------------------------------------------------
MimeTypes == [
    html |-> {".htm", ".html", ".php"}, css |-> {".css"}, plain |-> {".txt"},
    javascript |-> {".js"}, json |-> {".json"}, xml |-> {".xml"}, flash |-> {".swf"},
    flv |-> {".flv"}, png |-> {".png"}, jpeg |-> {".jpe", ".jpeg", ".jpg"}, gif |-> {".gif"},
    bmp |-> {".bmp"}, icon |-> {".ico"}, tiff |-> {".tiff", ".tif"}, svg |-> {".svg", ".svgz"}]

(* What follows the last dot decides, if it is one of these. *)
mime_type(path) ==
    LET types == {t \in DOMAIN MimeTypes : Last(path) \in MimeTypes[t]}
    IN  IF types = {} THEN "text" ELSE CHOOSE t \in types : TRUE

path_cat(base, path) ==
    (IF base # <<>> /\ Last(base) = "/" THEN Front(base) ELSE base) \o path

Answer(r, status, type, body) ==
    [status |-> status, type |-> type, body |-> body, keep_alive |-> r.keep_alive]

Illegal(target) == target = <<>> \/ target[1] # "/" \/ Contains(target, "..")

PathOf(target) ==
    path_cat(doc_root, target) \o IF Last(target) = "/" THEN <<"index", ".html">> ELSE <<>>

(* A directory is opened as well, and fails when it is read. *)
handle_request(r) ==
    LET path == PathOf(r.target)
        file == IF path \in DOMAIN Files THEN Files[path] ELSE "none"
    IN  IF r.method \notin {"get", "head"} \/ Illegal(r.target) THEN Answer(r, 400, "html", "why")
        ELSE IF file = "none" THEN Answer(r, 404, "html", "was not found")
        ELSE IF file = "locked" THEN Answer(r, 500, "html", "an error occurred")
        ELSE Answer(r, 200, mime_type(path), IF r.method = "head" THEN "" ELSE file)

-----------------------------------------------------------------------------
Init ==
    /\ asked = [c \in Connections |-> <<>>] /\ eof = [c \in Connections |-> FALSE]
    /\ place = [c \in Connections |-> "none"]
    /\ req = [c \in Connections |-> [method |-> "", target |-> <<>>, keep_alive |-> TRUE]]
    /\ unread = [c \in Connections |-> 0]
    /\ answered = [c \in Connections |-> <<>>]
    /\ accepting = TRUE

Goto(c, from, to) == place[c] = from /\ place' = [place EXCEPT ![c] = to]

Ask(c) ==
    /\ ~eof[c]
    /\ \/ /\ Len(asked[c]) < MaxRequests
          /\ \E r \in Requests : asked' = [asked EXCEPT ![c] = Append(@, r)]
          /\ unread' = [unread EXCEPT ![c] = @ + 1]
          /\ UNCHANGED eof
       \/ eof' = [eof EXCEPT ![c] = TRUE] /\ UNCHANGED <<asked, unread>>
    /\ UNCHANGED <<place, req, answered, accepting>>

Accept(c) ==
    /\ accepting
    /\ Goto(c, "none", "read")
    /\ UNCHANGED <<asked, eof, req, unread, answered, accepting>>

(* accept throws: main returns, and the detached threads end with it. *)
AcceptThrows ==
    /\ accepting
    /\ accepting' = FALSE
    /\ place' = [c \in Connections |-> "failed"]
    /\ UNCHANGED <<asked, eof, req, unread, answered>>

(* The buffer keeps what came behind the request. *)
Read(c) ==
    /\ Goto(c, "read", "send")
    /\ unread[c] > 0
    /\ req' = [req EXCEPT ![c] = asked[c][Len(asked[c]) - unread[c] + 1]]
    /\ unread' = [unread EXCEPT ![c] = @ - 1]
    /\ UNCHANGED <<asked, eof, answered, accepting>>

EndOfStream(c) ==
    /\ Goto(c, "read", "shutdown")
    /\ unread[c] = 0 /\ eof[c]
    /\ UNCHANGED <<asked, eof, req, unread, answered, accepting>>

(* return fail(ec, ...): of a read or a write, without a shutdown. *)
Fail(c) ==
    /\ \E from \in {"read", "send"} : Goto(c, from, "failed")
    /\ UNCHANGED <<asked, eof, req, unread, answered, accepting>>

(* send_lambda: every answer has a length, so that keep_alive decides.     *)
Send(c) ==
    LET answer == handle_request(req[c])
    IN  /\ answer.body # "directory"
        /\ Goto(c, "send", IF answer.keep_alive THEN "read" ELSE "shutdown")
        /\ answered' = [answered EXCEPT ![c] = Append(@, answer)]
        /\ UNCHANGED <<asked, eof, req, unread, accepting>>

Shutdown(c) ==
    /\ Goto(c, "shutdown", "closed")
    /\ UNCHANGED <<asked, eof, req, unread, answered, accepting>>

Next ==
    \/ AcceptThrows
    \/ \E c \in Connections :
          Ask(c) \/ Accept(c) \/ Read(c) \/ EndOfStream(c) \/ Fail(c) \/ Send(c) \/ Shutdown(c)

-----------------------------------------------------------------------------
(* The answers of a connection are those to its requests, in their order,  *)
(* also when more were sent before the first was answered; one that says   *)
(* the connection closes is the last; and a connection that was shut down  *)
(* has none to answer but those behind that one.  What HEAD tells of a     *)
(* file is what GET would.                                                 *)
RequestsInOrder ==
    \A c \in Connections :
        LET n == Len(answered[c])
        IN  /\ answered[c] = [i \in 1..n |-> handle_request(asked[c][i])]
            /\ \A i \in 1..n - 1 : answered[c][i].keep_alive
            /\ place[c] = "closed" => n = Len(asked[c]) \/ (n > 0 /\ ~answered[c][n].keep_alive)
            /\ \A i \in 1..n : asked[c][i].method = "head" =>
                  LET get == handle_request([asked[c][i] EXCEPT !.method = "get"])
                  IN  answered[c][i].status = get.status /\ answered[c][i].type = get.type
=============================================================================
