---------------------------- MODULE AsyncServer ----------------------------
(***************************************************************************)
(* The bulk server of 11_Async_Cmd_network: clients connect and send text, *)
(* one io_context thread accepts them, reads each socket in a session and  *)
(* hands what it read to the one BlockProcessor all sessions share.        *)
(*                                                                         *)
(* Two programs are built on it.  ServerMain.cpp runs the io_context in    *)
(* main and destroys, when run() returns, the objects of main in the       *)
(* reverse order of their declaration.  tests.cpp runs it in a thread and  *)
(* stops the processor from main while the sockets are still served.       *)
(*                                                                         *)
(* A client's text is the units 1..TextLen; a chunk is a range of them.    *)
(* The processor is only its queue, its flag and whether its worker runs:  *)
(* TaskQueue and BulkParser have the rest.                                 *)
(***************************************************************************)
EXTENDS Naturals, Sequences, FiniteSets

CONSTANTS
    Clients,
    NoClient,
    TextLen,      \* bound: units a client sends
    MaxLength     \* max_length, the size of data_

ASSUME TextAssumption == TextLen \in Nat /\ MaxLength \in Nat \ {0}
ASSUME NoClientAssumption == NoClient \notin Clients

VARIABLES
    \* chosen at the start
    program,     \* "tests" or "ServerMain"
    mayFail,     \* may accept and read fail other than at the end of the text?
    conn,        \* "new", "backlog", "served", "ended"
    sent,        \* units each client has written
    closed,      \* clients that have closed their socket
    taken,       \* units the kernel has handed to async_read_some
    data_,       \* each session's buffer: the chunk in it
    read,        \* each session's read: "none", "armed", "done", "failed"
    accepting,   \* async_accept is outstanding
    io,          \* "running", "stopped", "returned", or "thrown" out of run()
    adding,      \* the session whose AddTask is past the test of m_stopped
    tasks, m_stopped, working,   \* the processor
    main,        \* where main is
    alive,       \* the observers not destroyed
    \* history
    accepted,    \* an accept error has not happened
    parsed,      \* the chunks parsed, in order
    dangling     \* a destroyed observer was notified: undefined behaviour

netVars == <<conn, sent, closed, taken>>
ioVars == <<data_, read, accepting, io, adding, accepted>>
bpVars == <<tasks, m_stopped, working, parsed, dangling>>
mainVars == <<main, alive>>
vars == <<netVars, ioVars, bpVars, mainVars>>
choice == <<program, mayFail>>

Empty == [client |-> NoClient, from |-> 0, to |-> 0]
Observers == {"printer", "saver"}

Init ==
    /\ program \in {"tests", "ServerMain"} /\ mayFail \in BOOLEAN
    /\ conn = [c \in Clients |-> "new"]
    /\ sent = [c \in Clients |-> 0] /\ taken = [c \in Clients |-> 0]
    /\ closed = {}
    /\ data_ = [c \in Clients |-> Empty]
    /\ read = [c \in Clients |-> "none"]
    /\ accepting = TRUE /\ accepted = TRUE
    /\ io = "running" /\ adding = NoClient
    /\ tasks = <<>> /\ parsed = <<>> /\ m_stopped = FALSE /\ working = TRUE
    /\ main = "up" /\ alive = Observers /\ dangling = FALSE

-----------------------------------------------------------------------------
(* The clients and the network (AsyncClient). *)

Connect(c) ==
    /\ conn[c] = "new"
    /\ conn' = [conn EXCEPT ![c] = "backlog"]
    /\ UNCHANGED <<sent, closed, taken, ioVars, bpVars, mainVars>>

(* connectHandler writes the strings one after the other, then closes. *)
Send(c) ==
    /\ conn[c] \in {"backlog", "served"} /\ c \notin closed
    /\ sent[c] < TextLen
    /\ sent' = [sent EXCEPT ![c] = @ + 1]
    /\ UNCHANGED <<conn, closed, taken, ioVars, bpVars, mainVars>>

Close(c) ==
    /\ conn[c] # "new" /\ c \notin closed /\ sent[c] = TextLen
    /\ closed' = closed \union {c}
    /\ UNCHANGED <<conn, sent, taken, ioVars, bpVars, mainVars>>

(* An armed read is completed, with what has come and fits into data_, ... *)
ReadCompletes(c) ==
    /\ read[c] = "armed"
    /\ \E n \in 1..MaxLength :
        /\ taken[c] + n <= sent[c]
        /\ taken' = [taken EXCEPT ![c] = @ + n]
        /\ data_' = [data_ EXCEPT ![c] =
                        [client |-> c, from |-> taken[c] + 1, to |-> taken[c] + n]]
    /\ read' = [read EXCEPT ![c] = "done"]
    /\ UNCHANGED <<conn, sent, closed, accepting, io, adding, accepted, bpVars, mainVars>>

(* ... or with an error, at the end of the text or when the network fails. *)
ReadFails(c) ==
    /\ read[c] = "armed"
    /\ mayFail \/ (c \in closed /\ taken[c] = sent[c])
    /\ read' = [read EXCEPT ![c] = "failed"]
    /\ UNCHANGED <<netVars, data_, accepting, io, adding, accepted, bpVars, mainVars>>

-----------------------------------------------------------------------------
(* The io_context thread: one handler at a time. *)

IoFree == io = "running" /\ adding = NoClient

(* do_accept: a session for the socket, then the next accept. *)
Accept(c) ==
    /\ IoFree /\ accepting /\ conn[c] = "backlog"
    /\ conn' = [conn EXCEPT ![c] = "served"]
    /\ read' = [read EXCEPT ![c] = "armed"]
    /\ UNCHANGED <<sent, closed, taken, data_, accepting, io, adding, accepted, bpVars, mainVars>>

(* ... remote_endpoint throws out of io_context::run, if the connection is *)
(* already broken, ... *)
AcceptThrows ==
    /\ IoFree /\ accepting /\ mayFail
    /\ \E c \in Clients : conn[c] = "backlog"
    /\ accepting' = FALSE /\ io' = "thrown"
    /\ UNCHANGED <<netVars, data_, read, adding, accepted, bpVars, mainVars>>

(* ... an error ends the accept loop for good. *)
AcceptError ==
    /\ IoFree /\ accepting /\ mayFail
    /\ accepting' = FALSE /\ accepted' = FALSE
    /\ UNCHANGED <<netVars, data_, read, io, adding, bpVars, mainVars>>

(* Mutant of OnRead: the next read is armed before data_ is copied. *)
OnReadRearmed(c) ==
    /\ IoFree /\ read[c] = "done"
    /\ IF m_stopped THEN io' = "thrown" /\ UNCHANGED <<adding, read>>
                    ELSE /\ adding' = c /\ UNCHANGED io
                         /\ read' = [read EXCEPT ![c] = "armed"]
    /\ UNCHANGED <<netVars, data_, accepting, accepted, bpVars, mainVars>>

(* do_read's handler calls AddTask: the test of m_stopped, which throws    *)
(* out of the handler and of io_context::run, ...                          *)
OnRead(c) ==
    /\ IoFree /\ read[c] = "done"
    /\ IF m_stopped THEN io' = "thrown" /\ UNCHANGED adding
                    ELSE adding' = c /\ UNCHANGED io
    /\ UNCHANGED <<netVars, data_, read, accepting, accepted, bpVars, mainVars>>

(* Mutant of AddTask: the read is not armed again. *)
AddTaskOnce(c) ==
    /\ adding = c
    /\ tasks' = Append(tasks, data_[c])
    /\ adding' = NoClient
    /\ read' = [read EXCEPT ![c] = "none"]
    /\ UNCHANGED <<netVars, data_, accepting, io, accepted, m_stopped, working, parsed, dangling, mainVars>>

(* ... the push of a copy of data_, and the next read. *)
AddTask(c) ==
    /\ adding = c
    /\ tasks' = Append(tasks, data_[c])
    /\ adding' = NoClient
    /\ read' = [read EXCEPT ![c] = "armed"]
    /\ UNCHANGED <<netVars, data_, accepting, io, accepted, m_stopped, working, parsed, dangling, mainVars>>

(* A failed read ends the session. *)
OnReadError(c) ==
    /\ IoFree /\ read[c] = "failed"
    /\ read' = [read EXCEPT ![c] = "none"]
    /\ conn' = [conn EXCEPT ![c] = "ended"]
    /\ UNCHANGED <<sent, closed, taken, data_, accepting, io, adding, accepted, bpVars, mainVars>>

(* run() returns when nothing is outstanding, or after io_context.stop().  *)
RunReturns ==
    /\ adding = NoClient
    /\ \/ io = "stopped"
       \/ io = "running" /\ ~accepting /\ \A c \in Clients : read[c] = "none"
    /\ io' = "returned"
    /\ UNCHANGED <<netVars, data_, read, accepting, adding, accepted, bpVars, mainVars>>

-----------------------------------------------------------------------------
(* The processor's worker. *)

(* Notifying the observers, if the chunk finishes a block. *)
Notifies == \E block \in BOOLEAN : dangling' = (dangling \/ (block /\ alive # Observers))

Parse ==
    /\ working /\ tasks # <<>>
    /\ tasks' = Tail(tasks)
    /\ parsed' = Append(parsed, Head(tasks))
    /\ Notifies
    /\ UNCHANGED <<netVars, ioVars, m_stopped, working, mainVars>>

WorkerExits ==
    /\ working /\ m_stopped /\ tasks = <<>>
    /\ working' = FALSE
    /\ UNCHANGED <<netVars, ioVars, tasks, m_stopped, parsed, dangling, mainVars>>

-----------------------------------------------------------------------------
(* main.  BlockProcessor::Stop raises the flag, joins, and flushes. *)

Goto(from, to) == main = from /\ main' = to

BpStop ==
    /\ Goto("up", "bpStop") /\ program = "tests"
    /\ m_stopped' = TRUE
    /\ UNCHANGED <<netVars, ioVars, tasks, working, parsed, dangling, alive>>

BpStopped ==
    /\ Goto("bpStop", "ioStop")
    /\ ~working /\ Notifies
    /\ UNCHANGED <<netVars, ioVars, tasks, m_stopped, working, parsed, alive>>

IoStop ==
    /\ Goto("ioStop", "ioJoin")
    /\ io' = IF io = "running" THEN "stopped" ELSE io
    /\ UNCHANGED <<netVars, data_, read, accepting, adding, accepted, bpVars, alive>>

(* Mutant of IoJoin: the observers go before the processor has stopped. *)
ScopeEnds ==
    /\ main = "up" /\ main' = "bsDtor"
    /\ UNCHANGED <<netVars, ioVars, bpVars, alive>>

(* tests.cpp: io_thread.join().  ServerMain.cpp: run() has returned.  Then *)
(* the destructors: the server and the io_context, which drop all pending  *)
(* handlers, ...                                                           *)
IoJoin ==
    /\ io = "returned"
    /\ IF program = "tests" THEN Goto("ioJoin", "bsDtor") ELSE Goto("up", "bsDtor")
    /\ UNCHANGED <<netVars, ioVars, bpVars, alive>>

(* ... bs, bpr ... *)
ObserverDies(o, from, to) ==
    /\ Goto(from, to)
    /\ alive' = alive \ {o}
    /\ UNCHANGED <<netVars, ioVars, bpVars>>

(* ... and bp, whose destructor stops it if nobody has. *)
BpDtorStop ==
    /\ main = "bpDtor" /\ ~m_stopped
    /\ m_stopped' = TRUE
    /\ UNCHANGED <<netVars, ioVars, tasks, working, parsed, dangling, mainVars>>

BpDtor ==
    /\ Goto("bpDtor", "end")
    /\ ~working
    /\ IF program = "tests" THEN UNCHANGED dangling ELSE Notifies
    /\ UNCHANGED <<netVars, ioVars, tasks, m_stopped, working, parsed, alive>>

Main ==
    \/ BpStop \/ BpStopped \/ IoStop \/ IoJoin
    \/ ObserverDies("saver", "bsDtor", "bprDtor") \/ ObserverDies("printer", "bprDtor", "bpDtor")
    \/ BpDtorStop \/ BpDtor

(* An exception out of run() ends the process, as does main. *)
Up == io # "thrown" /\ main # "end"

Io == RunReturns \/ AcceptError \/ AcceptThrows \/ \E c \in Clients : Accept(c) \/ OnRead(c) \/ AddTask(c) \/ OnReadError(c)

Next ==
    /\ Up /\ UNCHANGED choice
    /\ \/ \E c \in Clients : Connect(c) \/ Send(c) \/ Close(c) \/ ReadCompletes(c) \/ ReadFails(c)
       \/ Io \/ Parse \/ WorkerExits \/ Main

Spec == Init /\ [][Next]_<<vars, choice>>

(* The io thread runs the handlers that are ready, completed reads become  *)
(* ready, the worker parses.                                               *)
Fairness ==
    /\ \A c \in Clients :
        /\ WF_vars(Up /\ Accept(c)) /\ WF_vars(Up /\ ReadCompletes(c))
        /\ WF_vars(Up /\ OnRead(c)) /\ WF_vars(Up /\ AddTask(c))
    /\ WF_vars(Up /\ Parse)

FairSpec == Spec /\ Fairness

-----------------------------------------------------------------------------
(* The chunks as they went through the processor, and where in there those *)
(* of one client are.                                                      *)
Pushed == parsed \o tasks
Of(c) == {i \in DOMAIN Pushed : Pushed[i].client = c}

(* How much of its text the session has handed to AddTask: all that was    *)
(* read, but for a chunk whose handler has not come that far.              *)
Handed(c) == IF read[c] = "done" THEN data_[c].from - 1 ELSE taken[c]

(* A session loses and repeats nothing: its chunks follow each other, and  *)
(* all but the one in data_ have been pushed (do_read re-arms the read     *)
(* after AddTask has copied data_).  What was pushed before the tests call *)
(* Stop has been parsed when it returns; one chunk, whose AddTask had      *)
(* passed the test of the flag by then, may be left in the queue.          *)
SessionInOrder ==
    /\ \A c \in Clients :
        /\ \A i \in Of(c) : Pushed[i].from <= Pushed[i].to
        /\ \A i, j \in Of(c) : i < j => Pushed[i].to < Pushed[j].from
        /\ \A n \in 1..TextLen :
              n <= Handed(c) <=> \E i \in Of(c) : n \in Pushed[i].from..Pushed[i].to
        /\ read[c] = "done" => data_[c].to = taken[c]
    /\ program = "tests" /\ main \notin {"up", "bpStop"} => Len(tasks) <= 1

(* ServerMain destroys the observers before the processor, and a processor *)
(* that is still at work then notifies what was destroyed.  That needs an  *)
(* accept error: nothing else makes run() return, a handler that throws    *)
(* ends the process, and in the order of the tests the processor has       *)
(* stopped by then.                                                        *)
NoDanglingObserver == dangling => program = "ServerMain" /\ ~accepted

(* Whatever a client of ServerMain sends is parsed, if nothing fails: the  *)
(* accept loop and the read loops keep themselves going.                   *)
EverythingParsed ==
    \A c \in Clients : \A n \in 1..TextLen :
        (program = "ServerMain" /\ ~mayFail /\ sent[c] >= n) ~> (\E i \in 1..Len(parsed) : parsed[i].client = c /\ parsed[i].to >= n)
=============================================================================
