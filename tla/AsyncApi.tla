------------------------------ MODULE AsyncApi ------------------------------
(***************************************************************************)
(* The library interface of 10_Async_Cmd_2 (async.cpp): connect, receive   *)
(* and disconnect over the global list proc_list, which no lock guards.    *)
(* Threads open connections, each with a stream of its own, send text and  *)
(* disconnect.  A node of the list is named by the stream it was made for. *)
(*                                                                         *)
(* Each operation on the list is one step here.  In the code two threads   *)
(* inside push_back or erase at once are a data race besides.              *)
(***************************************************************************)
EXTENDS Naturals, Sequences, SequencesExt

CONSTANTS
    Streams,      \* the connections, by their streams
    Thread,       \* the thread that opens each of them
    NoNode,       \* the handle of a connection not yet open
    MaxSends      \* bound: receive calls on one connection

ASSUME MaxSendsAssumption == MaxSends \in Nat
ASSUME NoNodeAssumption == NoNode \notin Streams

VARIABLES
    proc_list,    \* the nodes, oldest first
    conn,         \* "new", "pushed", "open", "stopped", "closed"
    handle,       \* what connect returned
    running,      \* nodes whose BlockProcessor has not been stopped
    text,         \* what AddTask gave each node's processor: who sent it
    os,           \* what each stream holds
    broken,       \* an erased node was used: undefined behaviour
    sent          \* history: how often each connection's thread called receive

vars == <<proc_list, conn, handle, running, text, os, broken, sent>>

Init ==
    /\ proc_list = <<>>
    /\ conn = [o \in Streams |-> "new"]
    /\ handle = [o \in Streams |-> NoNode]
    /\ running = {}
    /\ text = [o \in Streams |-> <<>>]
    /\ os = [o \in Streams |-> <<>>]
    /\ broken = FALSE
    /\ sent = [o \in Streams |-> 0]

Nodes == ToSet(proc_list)

(* A thread is inside one call at a time. *)
Free(o) == \A p \in Streams \ {o} :
              Thread[p] = Thread[o] => conn[p] \notin {"pushed", "stopped"}

(* connect: a new processor and printer, and a node for them. *)
ConnectPush(o) ==
    /\ conn[o] = "new" /\ Free(o)
    /\ proc_list' = Append(proc_list, o)
    /\ running' = running \union {o}
    /\ conn' = [conn EXCEPT ![o] = "pushed"]
    /\ UNCHANGED <<handle, text, os, broken, sent>>

(* Mutant of ConnectPrev: the handle is the first node. *)
ConnectBegin(o) ==
    /\ conn[o] = "pushed"
    /\ handle' = [handle EXCEPT ![o] = Head(proc_list)]
    /\ conn' = [conn EXCEPT ![o] = "open"]
    /\ UNCHANGED <<proc_list, running, text, os, broken, sent>>

(* ... and the handle: the last node, std::prev(proc_list.end()), as the   *)
(* list is now.                                                            *)
ConnectPrev(o) ==
    /\ conn[o] = "pushed"
    /\ IF proc_list = <<>>
       THEN broken' = TRUE /\ UNCHANGED handle
       ELSE handle' = [handle EXCEPT ![o] = Last(proc_list)] /\ UNCHANGED broken
    /\ conn' = [conn EXCEPT ![o] = "open"]
    /\ UNCHANGED <<proc_list, running, text, os, sent>>

(* receive: AddTask on the node's processor.  A processor that was stopped *)
(* takes the task too, and never runs it.                                  *)
receive(o) ==
    /\ conn[o] = "open" /\ Free(o)
    /\ sent[o] < MaxSends
    /\ sent' = [sent EXCEPT ![o] = @ + 1]
    /\ broken' = (broken \/ handle[o] \notin Nodes)
    /\ text' = IF handle[o] \in Nodes \intersect running
               THEN [text EXCEPT ![handle[o]] = Append(@, o)] ELSE text
    /\ UNCHANGED <<proc_list, conn, handle, running, os>>

(* disconnect: Stop runs what is queued and flushes; the printer writes it *)
(* before the node's printer is destroyed.                                 *)
DisconnectStop(o) ==
    /\ conn[o] = "open" /\ Free(o)
    /\ conn' = [conn EXCEPT ![o] = "stopped"]
    /\ broken' = (broken \/ handle[o] \notin Nodes)
    /\ running' = running \ {handle[o]}
    /\ os' = IF handle[o] \in Nodes \intersect running
             THEN [os EXCEPT ![handle[o]] = text[handle[o]]] ELSE os
    /\ UNCHANGED <<proc_list, handle, text, sent>>

(* Mutant of DisconnectErase: the last node goes. *)
DisconnectErasesLast(o) ==
    /\ conn[o] = "stopped"
    /\ conn' = [conn EXCEPT ![o] = "closed"]
    /\ proc_list' = Front(proc_list)
    /\ UNCHANGED <<handle, running, text, os, broken, sent>>

(* ... and proc_list.erase(handle). *)
DisconnectErase(o) ==
    /\ conn[o] = "stopped"
    /\ conn' = [conn EXCEPT ![o] = "closed"]
    /\ IF handle[o] \in Nodes
       THEN /\ \E i \in DOMAIN proc_list :
                  proc_list[i] = handle[o] /\ proc_list' = RemoveAt(proc_list, i)
            /\ UNCHANGED broken
       ELSE broken' = TRUE /\ UNCHANGED proc_list
    /\ UNCHANGED <<handle, running, text, os, sent>>

Next ==
    /\ ~broken
    /\ \E o \in Streams :
        ConnectPush(o) \/ ConnectPrev(o) \/ receive(o) \/ DisconnectStop(o) \/ DisconnectErase(o)

Spec == Init /\ [][Next]_vars

-----------------------------------------------------------------------------
(* When a connection is closed its stream holds what was sent over it, all *)
(* of it and nothing else.  Every test of async states it; Test9 does with *)
(* two threads, where connect hands both of them the same node.            *)
StreamIsOwn ==
    \A o \in Streams :
        conn[o] = "closed" => os[o] = [i \in 1..sent[o] |-> o]

(* No call uses a node after it was erased, whatever the order in which    *)
(* one thread opens and closes its connections.                            *)
NoDanglingHandle == ~broken
=============================================================================
