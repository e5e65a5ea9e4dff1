----------------------------- MODULE ChatServer -----------------------------
(***************************************************************************)
(* The chat of BoostASIO: a room that keeps its last messages, one session *)
(* per client with a queue of messages to write, and the io_service that   *)
(* runs one handler at a time.  A message is its number in the order in    *)
(* which the room delivered it.                                            *)
(*                                                                         *)
(* An operation on a socket is completed with an error when the client has *)
(* gone, and may be at any time.                                           *)
(***************************************************************************)
EXTENDS Naturals, Sequences, SequencesExt

CONSTANTS
    Clients,
    MaxRecent,   \* max_recent_msgs
    MaxMsgs      \* bound: messages delivered

VARIABLES
    participants_, recent_msgs_,   \* the room
    write_msgs_,   \* each session's queue
    reading,       \* each session's read: "none" outstanding, "header", "body"
    writing,       \* sessions with an outstanding write
    \* history
    delivered,     \* messages the room has delivered
    heard,         \* the messages each client has received
    joined         \* delivered, at the time each client joined

vars == <<participants_, recent_msgs_, write_msgs_, reading, writing, delivered, heard, joined>>

NotYet == MaxMsgs + 1

Init ==
    /\ participants_ = {} /\ recent_msgs_ = <<>>
    /\ write_msgs_ = [c \in Clients |-> <<>>]
    /\ reading = [c \in Clients |-> "none"] /\ writing = {}
    /\ delivered = 0
    /\ heard = [c \in Clients |-> <<>>]
    /\ joined = [c \in Clients |-> NotYet]

(* Mutant of Deliver: an idle session is not started. *)
DeliverQueueOnly(who, msgs) ==
    /\ write_msgs_' = [c \in Clients |-> IF c \in who THEN write_msgs_[c] \o msgs ELSE write_msgs_[c]]
    /\ UNCHANGED writing

(* chat_session::deliver: queue, and write unless a write is outstanding.  *)
(* (write_in_progress is told by the queue, which an outstanding write     *)
(* keeps nonempty: its message is popped when the write is completed.)     *)
Deliver(who, msgs) ==
    /\ write_msgs_' = [c \in Clients |-> IF c \in who THEN write_msgs_[c] \o msgs ELSE write_msgs_[c]]
    /\ writing' = writing \union {c \in who : write_msgs_[c] = <<>> /\ msgs # <<>>}

(* do_accept and start: join the room, hear its recent messages, read. *)
Join(c) ==
    /\ joined[c] = NotYet
    /\ participants_' = participants_ \union {c}
    /\ Deliver({c}, recent_msgs_)
    /\ reading' = [reading EXCEPT ![c] = "header"]
    /\ joined' = [joined EXCEPT ![c] = delivered]
    /\ UNCHANGED <<recent_msgs_, delivered, heard>>

ReadHeader(c) ==
    /\ reading[c] = "header"
    /\ reading' = [reading EXCEPT ![c] = "body"]
    /\ UNCHANGED <<participants_, recent_msgs_, write_msgs_, writing, delivered, heard, joined>>

(* Mutant of Newest: nothing is forgotten. *)
NewestAll(msgs) == msgs

Newest(msgs) == IF Len(msgs) > MaxRecent THEN Tail(msgs) ELSE msgs

(* The body has come: chat_room::deliver, then the next header. *)
ReadBody(c) ==
    /\ reading[c] = "body"
    /\ delivered < MaxMsgs
    /\ delivered' = delivered + 1
    /\ recent_msgs_' = Newest(Append(recent_msgs_, delivered'))
    /\ Deliver(participants_, <<delivered'>>)
    /\ reading' = [reading EXCEPT ![c] = "header"]
    /\ UNCHANGED <<participants_, heard, joined>>

(* A read fails, or the header is no length: leave, and read no more. *)
ReadFails(c) ==
    /\ reading[c] # "none"
    /\ participants_' = participants_ \ {c}
    /\ reading' = [reading EXCEPT ![c] = "none"]
    /\ UNCHANGED <<recent_msgs_, write_msgs_, writing, delivered, heard, joined>>

(* do_write's handler: the front has been written; go on with the rest. *)
Written(c) ==
    /\ c \in writing
    /\ heard' = [heard EXCEPT ![c] = Append(@, Head(write_msgs_[c]))]
    /\ write_msgs_' = [write_msgs_ EXCEPT ![c] = Tail(@)]
    /\ writing' = IF Len(write_msgs_[c]) > 1 THEN writing ELSE writing \ {c}
    /\ UNCHANGED <<participants_, recent_msgs_, reading, delivered, joined>>

(* A write fails: leave; the queue stays as it is. *)
WriteFails(c) ==
    /\ c \in writing
    /\ participants_' = participants_ \ {c}
    /\ writing' = writing \ {c}
    /\ UNCHANGED <<recent_msgs_, write_msgs_, reading, delivered, heard, joined>>

Next == \E c \in Clients :
    Join(c) \/ ReadHeader(c) \/ ReadBody(c) \/ ReadFails(c) \/ Written(c) \/ WriteFails(c)

Spec == Init /\ [][Next]_vars

(* The network completes an outstanding write, well or not. *)
FairSpec == Spec /\ \A c \in Clients : WF_vars(Written(c) \/ WriteFails(c))

-----------------------------------------------------------------------------
(* What a client has heard and still has in its queue is one stretch of    *)
(* the room's messages, none left out, doubled or moved: it starts with    *)
(* the recent ones at its join and, for one that is in the room, ends with *)
(* the last delivered.                                                     *)
HearsAStretch ==
    \A c \in Clients :
        LET got == heard[c] \o write_msgs_[c]
            first == IF joined[c] > MaxRecent THEN joined[c] - MaxRecent + 1 ELSE 1
        IN  /\ got = [i \in 1..Len(got) |-> first + i - 1]
            /\ c \in participants_ => first + Len(got) - 1 = delivered

(* Everything the room delivers while a client is in it reaches the        *)
(* client, unless the client leaves: a queue that holds something always   *)
(* has a write under way, started by deliver or by the write before.       *)
Heard ==
    \A c \in Clients : \A n \in 1..MaxMsgs :
        (c \in participants_ /\ joined[c] < n /\ delivered >= n)
            ~> (Contains(heard[c], n) \/ c \notin participants_)
=============================================================================
