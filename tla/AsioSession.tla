----------------------------- MODULE AsioSession ----------------------------
(***************************************************************************)
(* The sessions of two servers of the same shape: the echo server          *)
(* (asio_async_server.cpp), and the join server, whose session gives what  *)
(* it reads to a database of its own.  A session reads what is there,      *)
(* writes the answer, and reads again; one thread runs all handlers.       *)
(***************************************************************************)
EXTENDS Naturals, Sequences, SequencesExt

CONSTANTS
    Clients,
    Messages,    \* what each client sends at once: bytes, or a statement
    MaxSent,     \* bound: messages of each client
    max_length,  \* the size of data_: a read brings no more
    NewDb,       \* the database of a session when it starts
    Exec(_, _)   \* a database and a chunk: [db, answer, undefined]

VARIABLES
    up,          \* what each client has sent and its session not read
    session,     \* "none", "reading", "writing" or "gone"
    data_,       \* each session's buffer
    db,          \* each session's database
    got,         \* what each client has received
    chunks,      \* history: what each session's reads returned
    ended        \* an exception left a handler, or undefined behaviour

vars == <<up, session, data_, db, got, chunks, ended>>

Init ==
    /\ up = [c \in Clients |-> <<>>]
    /\ session = [c \in Clients |-> "none"]
    /\ data_ = [c \in Clients |-> <<>>]
    /\ db = [c \in Clients |-> NewDb]
    /\ got = [c \in Clients |-> <<>>] /\ chunks = [c \in Clients |-> <<>>]
    /\ ended = FALSE

Send(c) ==
    /\ Len(FlattenSeq(chunks[c])) + Len(up[c]) < MaxSent[c]
    /\ \E m \in Messages[c] : up' = [up EXCEPT ![c] = Append(@, m)]
    /\ UNCHANGED <<session, data_, db, got, chunks, ended>>

(* Mutant of Accept: the sessions share one database. *)
AcceptShared(c) ==
    /\ session[c] = "none"
    /\ session' = [session EXCEPT ![c] = "reading"]
    /\ db' = [db EXCEPT ![c] = IF \E o \in Clients : session[o] # "none"
                               THEN db[CHOOSE o \in Clients : session[o] # "none"] ELSE NewDb]
    /\ UNCHANGED <<up, data_, got, chunks, ended>>

(* do_accept and start.  An error changes nothing: accept again. *)
Accept(c) ==
    /\ session[c] = "none"
    /\ session' = [session EXCEPT ![c] = "reading"]
    /\ db' = [db EXCEPT ![c] = NewDb]
    /\ UNCHANGED <<up, data_, got, chunks, ended>>

(* The database does not open, which throws out of io_context.run. *)
StartThrows(c) ==
    /\ session[c] = "none"
    /\ ended' = TRUE
    /\ UNCHANGED <<up, session, data_, db, got, chunks>>

(* do_read's handler: the answer goes where the chunk was.  The copy has   *)
(* no bound: an answer longer than data_ runs over its end, which is       *)
(* undefined, as is what the write would read from there.                  *)
Read(c) ==
    /\ session[c] = "reading"
    /\ \E n \in 1..max_length :
          LET chunk == SubSeq(up[c], 1, n)
              result == Exec(db[c], chunk)
          IN  /\ n <= Len(up[c])
              /\ up' = [up EXCEPT ![c] = SubSeq(@, n + 1, Len(@))]
              /\ chunks' = [chunks EXCEPT ![c] = Append(@, chunk)]
              /\ IF result.undefined \/ Len(result.answer) > max_length
                 THEN ended' = TRUE /\ UNCHANGED <<session, data_, db>>
                 ELSE /\ data_' = [data_ EXCEPT ![c] = result.answer]
                      /\ db' = [db EXCEPT ![c] = result.db]
                      /\ session' = [session EXCEPT ![c] = "writing"]
                      /\ UNCHANGED ended
    /\ UNCHANGED got

(* do_write's handler, when all of it was written ... *)
Written(c) ==
    /\ session[c] = "writing"
    /\ got' = [got EXCEPT ![c] = @ \o data_[c]]
    /\ session' = [session EXCEPT ![c] = "reading"]
    /\ UNCHANGED <<up, data_, db, chunks, ended>>

(* ... or with an error, after some of it was; or a read's error: nothing  *)
(* refers to the session any more.                                         *)
Fails(c) ==
    /\ session[c] \in {"reading", "writing"}
    /\ session' = [session EXCEPT ![c] = "gone"]
    /\ \E n \in 0..Len(data_[c]) :
          /\ session[c] = "reading" => n = 0
          /\ got' = [got EXCEPT ![c] = @ \o SubSeq(data_[c], 1, n)]
    /\ UNCHANGED <<up, data_, db, chunks, ended>>

Next ==
    /\ ~ended
    /\ \E c \in Clients : Send(c) \/ Accept(c) \/ StartThrows(c) \/ Read(c) \/ Written(c) \/ Fails(c)

-----------------------------------------------------------------------------
(* The answers a session of its own gives to these chunks, one by one. *)
Answers(reads) ==
    LET after[n \in 0..Len(reads)] ==
            IF n = 0 THEN [db |-> NewDb, out |-> <<>>]
            ELSE LET result == Exec(after[n - 1].db, reads[n])
                 IN  [db |-> result.db, out |-> after[n - 1].out \o result.answer]
    IN  after[Len(reads)].out

(* What a client receives is the answers to what it sent, in that order,   *)
(* none left out or mixed up, although one buffer is read into, answered   *)
(* from and written, and whatever other clients do in their databases.     *)
(* It is said up to the first undefined step: a row with a NULL, or an     *)
(* answer of the database that does not fit the buffer, ends all sessions. *)
AnswersInOrder ==
    \A c \in Clients :
        /\ IsPrefix(got[c], Answers(chunks[c]))
        /\ session[c] = "reading" /\ ~ended => got[c] = Answers(chunks[c])
=============================================================================
