----------------------------- MODULE ChatClient -----------------------------
(***************************************************************************)
(* chat_client.cpp and the messages of chat_message.hpp: main reads lines  *)
(* and posts them to the io_service, which another thread runs; a line is  *)
(* sent behind a header that says its length.                              *)
(*                                                                         *)
(* An operation is "pending" until the network completes it, "ok" or       *)
(* "failed", and its handler has yet to run; on a closed socket it fails.  *)
(* The server is any that sends well-formed headers, and others.           *)
(***************************************************************************)
EXTENDS Integers, Sequences, SequencesExt

CONSTANTS
    max_body_length,
    Wrap,        \* where size_t wraps around
    MaxLines,    \* bound: lines entered, messages from the server
    Headers      \* what the headers of the server's messages say

Operations == {"connect", "header", "body", "write"}

VARIABLES
    main,        \* "input", "close", "join" or "returned"
    lines,       \* the lengths of the lines entered
    posted,      \* the handlers posted: a message, or "close" as <<>>
    running,     \* run has not returned
    socket,      \* "connecting", "connected", "none" or "closed"
    ops,         \* each operation: "none", "pending", "ok", "failed"
    write_msgs,
    body_length, \* of read_msg_
    incoming,    \* what the server has sent and the client not read: bodies by number
    sent,        \* history: the lengths of the messages written
    headers,     \* history: what the server's headers said
    shown        \* history: <<number, length>> of the bodies shown

vars == <<main, lines, posted, running, socket, ops, write_msgs, body_length, incoming, sent, headers, shown>>

-----------------------------------------------------------------------------
(* chat_message *)

(* A negative length is a large one: atoi, and then size_t. *)
decode_header(h) == h % Wrap <= max_body_length

(* The setter of body_length_. *)
clipped(length) == IF length > max_body_length THEN max_body_length ELSE length

(* encode_header has four characters, the first four of a longer number,   *)
(* which atoi reads back.                                                  *)
encode_header(length) == IF length < 10000 THEN length ELSE length \div 10

Init ==
    /\ main = "input" /\ lines = <<>> /\ posted = <<>>
    /\ running = TRUE /\ socket = "connecting"
    /\ ops = [o \in Operations |-> IF o = "connect" THEN "pending" ELSE "none"]
    /\ write_msgs = <<>> /\ body_length = 0 /\ incoming = 0
    /\ sent = <<>> /\ headers = <<>> /\ shown = <<>>

mainVars == <<main, lines>>
history == <<sent, headers, shown>>

-----------------------------------------------------------------------------
(* main *)

(* A line that is too long, and the end of the input, end the loop. *)
GetLine ==
    /\ main = "input"
    /\ \/ /\ Len(lines) < MaxLines
          /\ \E n \in 0..max_body_length :
                /\ lines' = Append(lines, n)
                /\ posted' = Append(posted, <<encode_header(clipped(n))>>)
          /\ UNCHANGED main
       \/ main' = "close" /\ UNCHANGED <<lines, posted>>
    /\ UNCHANGED <<running, socket, ops, write_msgs, body_length, incoming, history>>

Close ==
    /\ main = "close" /\ main' = "join"
    /\ posted' = Append(posted, <<>>)
    /\ UNCHANGED <<lines, running, socket, ops, write_msgs, body_length, incoming, history>>

JoinThread ==
    /\ main = "join" /\ ~running
    /\ main' = "returned"
    /\ UNCHANGED <<lines, posted, running, socket, ops, write_msgs, body_length, incoming, history>>

-----------------------------------------------------------------------------
(* The network *)

Serve ==
    /\ Len(headers) < MaxLines
    /\ \E h \in Headers : headers' = Append(headers, h)
    /\ incoming' = incoming + 1
    /\ UNCHANGED <<mainVars, posted, running, socket, ops, write_msgs, body_length, sent, shown>>

Complete(o) ==
    /\ ops[o] = "pending"
    /\ \/ /\ socket = IF o = "connect" THEN "connecting" ELSE "connected"
          /\ o \in {"header", "body"} => incoming > 0
          /\ ops' = [ops EXCEPT ![o] = "ok"]
          /\ socket' = "connected"
       \/ /\ ops' = [ops EXCEPT ![o] = "failed"]
          /\ socket' = IF o = "connect" /\ socket = "connecting" THEN "none" ELSE socket
    /\ UNCHANGED <<mainVars, posted, running, write_msgs, body_length, incoming, history>>

-----------------------------------------------------------------------------
(* The handlers, which the thread runs one by one *)

(* Operation o is done, and those in next are started. *)
Then(o, next) ==
    ops' = [p \in Operations |-> IF p \in next THEN "pending" ELSE IF p = o THEN "none" ELSE ops[p]]

WritePosted ==
    /\ running /\ posted # <<>> /\ Head(posted) # <<>>
    /\ posted' = Tail(posted)
    /\ write_msgs' = Append(write_msgs, Head(posted)[1])
    /\ Then("none", IF write_msgs = <<>> THEN {"write"} ELSE {})
    /\ UNCHANGED <<mainVars, running, socket, body_length, incoming, history>>

ClosePosted ==
    /\ running /\ posted # <<>> /\ Head(posted) = <<>>
    /\ posted' = Tail(posted)
    /\ socket' = "closed"
    /\ UNCHANGED <<mainVars, running, ops, write_msgs, body_length, incoming, history>>

(* An error closes the socket, but for the one of do_connect. *)
Failed(o) ==
    /\ running /\ ops[o] = "failed"
    /\ Then(o, {})
    /\ socket' = IF o = "connect" THEN socket ELSE "closed"
    /\ UNCHANGED <<mainVars, posted, running, write_msgs, body_length, incoming, history>>

Connected ==
    /\ running /\ ops["connect"] = "ok"
    /\ Then("connect", {"header"})
    /\ UNCHANGED <<mainVars, posted, running, socket, write_msgs, body_length, incoming, history>>

(* The number of the message whose header or body is being read. *)
Reading == Len(headers) - incoming + 1

ReadHeader ==
    /\ running /\ ops["header"] = "ok"
    /\ LET h == headers[Reading]
       IN  \/ /\ decode_header(h)
              /\ body_length' = h
              /\ Then("header", {"body"}) /\ UNCHANGED socket
           \/ /\ ~decode_header(h)
              /\ body_length' = 0
              /\ Then("header", {}) /\ socket' = "closed"
    /\ UNCHANGED <<mainVars, posted, running, write_msgs, incoming, history>>

(* Mutant of ReadBody: the next body is read at once. *)
ReadBodyAgain ==
    /\ running /\ ops["body"] = "ok"
    /\ shown' = Append(shown, <<Reading, body_length>>)
    /\ incoming' = incoming - 1
    /\ Then("body", {"body"})
    /\ UNCHANGED <<mainVars, posted, running, socket, write_msgs, body_length, sent, headers>>

ReadBody ==
    /\ running /\ ops["body"] = "ok"
    /\ shown' = Append(shown, <<Reading, body_length>>)
    /\ incoming' = incoming - 1
    /\ Then("body", {"header"})
    /\ UNCHANGED <<mainVars, posted, running, socket, write_msgs, body_length, sent, headers>>

Written ==
    /\ running /\ ops["write"] = "ok"
    /\ sent' = Append(sent, Head(write_msgs))
    /\ write_msgs' = Tail(write_msgs)
    /\ Then("write", IF Len(write_msgs) > 1 THEN {"write"} ELSE {})
    /\ UNCHANGED <<mainVars, posted, running, socket, body_length, incoming, headers, shown>>

(* Mutant of RunReturns: main's work is waited for as well. *)
RunReturnsClosed ==
    /\ running /\ posted = <<>> /\ socket = "closed" /\ write_msgs = <<>>
    /\ running' = FALSE
    /\ UNCHANGED <<mainVars, posted, socket, ops, write_msgs, body_length, incoming, history>>

(* run returns when there is no handler and no operation left.  What main  *)
(* posts from then on is never run.                                        *)
RunReturns ==
    /\ running /\ posted = <<>> /\ \A o \in Operations : ops[o] = "none"
    /\ running' = FALSE
    /\ UNCHANGED <<mainVars, posted, socket, ops, write_msgs, body_length, incoming, history>>

Handlers ==
    \/ WritePosted \/ ClosePosted \/ Connected \/ ReadHeader \/ ReadBody \/ Written \/ RunReturns
    \/ \E o \in Operations : Failed(o)

Next ==
    \/ GetLine \/ Close \/ JoinThread \/ Serve \/ Handlers
    \/ \E o \in Operations : Complete(o)

-----------------------------------------------------------------------------
(* What goes over the wire is what was entered, line by line, in order and *)
(* once, whatever was posted while a write was under way; and what is      *)
(* shown is the server's messages in order with their lengths, up to one   *)
(* that is not well-formed.                                                *)
LinesInOrder ==
    /\ IsPrefix(sent, lines)
    /\ shown = [i \in 1..Len(shown) |-> <<i, headers[i]>>]
    /\ \A i \in DOMAIN shown : headers[i] \in 0..max_body_length
    /\ main = "input" /\ running /\ socket # "closed" => Len(sent) + Len(write_msgs) + Len(posted) = Len(lines)

(* main returns after the end of the input, whatever operations were under *)
(* way when the socket was closed, and also when run had returned before.  *)
ClientReturns == main = "close" ~> main = "returned"
=============================================================================
