------------------------------ MODULE NetDemos ------------------------------
(***************************************************************************)
(* The small programs of BoostASIO: timers and who runs their handlers,    *)
(* the asynchronous client, ping and pong over sockets, hello world over   *)
(* ZeroMQ.  Programs that talk to each other are threads of one model, and *)
(* thread Network is whatever completes their operations.                  *)
(***************************************************************************)
EXTENDS StdThread

CONSTANTS
    Network,     \* the thread that is none
    Tests,       \* asio_timer.cpp's: [timers, posted, runners]
    PingLength,  \* the length of "ping" and "pong": 4
    Requests     \* how many requests a client of hello world makes: 10

(* The threads that call run are threads of the program. *)
ASSUME TestsAssumption == \A test \in Tests : test.runners \subseteq Threads

(* A step of the network changes no thread's place. *)
Happens(m) == mem' = m /\ UNCHANGED <<pc, held, waiting>>

-----------------------------------------------------------------------------
(* asio_timer.cpp.  A handler is "waiting" for its timer, "ready" in the   *)
(* io_context's queue, "running" or "done"; `ran` says in which thread.    *)

TimersInit ==
    \E test \in Tests :
        ThreadInit([test |-> test, handler |-> [h \in {} |-> "waiting"], ran |-> {}])

(* async_wait of the timers; post, and dispatch outside of run. *)
Register ==
    [h \in mem.test.timers \union mem.test.posted |-> IF h \in mem.test.timers THEN "waiting" ELSE "ready"]

Expire ==
    \E h \in DOMAIN mem.handler :
        mem.handler[h] = "waiting" /\ Happens([mem EXCEPT !.handler[h] = "ready"])

(* run returns when there is no work left, waiting or running elsewhere. *)
RunReturns(t) == When(t, "run", \A h \in DOMAIN mem.handler : mem.handler[h] = "done", "end")

(* io_context.run *)
RunContext(t) ==
    \/ \E h \in DOMAIN mem.handler :
          /\ mem.handler[h] = "ready"
          /\ Do(t, "run", [mem EXCEPT !.handler[h] = "running", !.ran = @ \union {<<h, t>>}], "handler")
    \/ \E h \in DOMAIN mem.handler :
          /\ mem.handler[h] = "running" /\ <<h, t>> \in mem.ran
          /\ Do(t, "handler", [mem EXCEPT !.handler[h] = "done"], "run")
    \/ RunReturns(t)

TimersMain ==
    \/ Do(0, "begin", [mem EXCEPT !.handler = Register], "start")
    \/ 0 \in mem.test.runners /\ When(0, "start", TRUE, "run")
    \/ 0 \notin mem.test.runners /\ Spawn(0, "start", mem.test.runners, "join")
    \/ RunContext(0)
    \/ Join(0, "join", mem.test.runners, "end")

TimersThread(t) == When(t, "begin", TRUE, "run") \/ RunContext(t)

(* test_timer_sync: both waits end with the timer. *)
SyncInit == ThreadInit([handler |-> [h \in {"timer"} |-> "waiting"]])

SyncMain ==
    \/ When(0, "begin", mem.handler["timer"] = "ready", "again")
    \/ When(0, "again", mem.handler["timer"] = "ready", "end")

-----------------------------------------------------------------------------
(* asio_async_client.cpp: each handler starts the next operation, and is   *)
(* run by main once get has returned.  The server sends `left` pieces more.*)

ClientInit == ThreadInit([op |-> "none", result |-> "pending", left |-> 2, threw |-> FALSE])

Started(op) == [mem EXCEPT !.op = op, !.result = "pending"]

Completed ==
    /\ mem.op # "none" /\ mem.result = "pending"
    /\ \/ mem.op = "read" /\ mem.left > 0 /\ Happens([mem EXCEPT !.result = "ok", !.left = @ - 1])
       \/ mem.op # "read" /\ Happens([mem EXCEPT !.result = "ok"])
       \/ Happens([mem EXCEPT !.result = "failed"])

readHandler ==
    \/ mem.op = "read" /\ mem.result = "ok" /\ Do(0, "run", Started("read"), "run")
    \/ mem.op = "read" /\ mem.result = "failed" /\ Do(0, "run", Started("none"), "run")

resolveHandler ==
    \/ mem.op = "resolve" /\ mem.result = "ok" /\ Do(0, "run", Started("connect"), "run")
    \/ mem.op = "resolve" /\ mem.result # "pending" /\ Do(0, "run", Started("none"), "run")

(* The request is written at once; that throws out of run if it fails. *)
connectHandler ==
    \/ mem.op = "connect" /\ mem.result = "ok" /\ Do(0, "run", Started("read"), "run")
    \/ mem.op = "connect" /\ mem.result = "ok" /\ Do(0, "run", [mem EXCEPT !.threw = TRUE], "end")
    \/ mem.op = "connect" /\ mem.result = "failed" /\ Do(0, "run", Started("none"), "run")

AsyncClient ==
    \/ Do(0, "begin", Started("resolve"), "get") \/ When(0, "get", TRUE, "run")
    \/ resolveHandler \/ connectHandler \/ readHandler
    \/ When(0, "run", mem.op = "none", "end")

-----------------------------------------------------------------------------
(* asio_server.cpp and asio_client.cpp: main accepts, clients 1 and 2 send *)
(* "ping" once, and the session of client c is thread c + 2.               *)

Peers == {1, 2}
PingInit == ThreadInit([backlog |-> {}, closed |-> {}, up |-> [c \in Peers |-> 0],
                        down |-> [c \in Peers |-> 0], got |-> [c \in Peers |-> 0], broken |-> {}])

PingMain ==
    \/ Spawn(0, "begin", Peers, "accept")
    \/ \E c \in mem.backlog :
          /\ pc[0] = "accept" /\ pc' = [pc EXCEPT ![c + 2] = "begin"]
          /\ mem' = [mem EXCEPT !.backlog = @ \ {c}]
          /\ UNCHANGED <<held, waiting>>

(* read_some gives what there is, as much as "ping" at most. *)
client_session(t) ==
    LET c == t - 2
    IN  \/ \E n \in 1..PingLength : n <= mem.up[c] /\ Do(t, "begin", [mem EXCEPT !.up[c] = @ - n], "pong")
        \/ c \notin mem.closed /\ Do(t, "pong", [mem EXCEPT !.down[c] = @ + PingLength], "begin")
        \/ When(t, "begin", mem.up[c] = 0 /\ c \in mem.closed, "end")
        \/ When(t, "pong", c \in mem.closed, "end")
        \/ c \in mem.broken /\ When(t, "begin", TRUE, "end")

(* The connection may break while the client waits. *)
PingClient(c) ==
    \/ Do(c, "begin", [mem EXCEPT !.backlog = @ \union {c}], "write")
    \/ Do(c, "write", [mem EXCEPT !.up[c] = PingLength], "read")
    \/ \E n \in 1..PingLength : n <= mem.down[c] /\
          Do(c, "read", [mem EXCEPT !.got[c] = n, !.closed = @ \union {c}], "end")
    \/ Do(c, "read", [mem EXCEPT !.broken = @ \union {c}, !.closed = @ \union {c}], "end")

PingThread(t) == IF t \in Peers THEN PingClient(t) ELSE t - 2 \in Peers /\ client_session(t)

-----------------------------------------------------------------------------
(* zeromq_server.cpp (main) and zeromq_client.cpp (1 and 2). *)

HelloWorldInit ==
    ThreadInit([queue |-> <<>>, from |-> 0, sent |-> [c \in Peers |-> 0], got |-> [c \in Peers |-> 0],
                replies |-> [c \in Peers |-> 0]])

(* A REP socket answers the one whose request it received last. *)
Reply(m) == m.from

HelloWorldServer ==
    \/ Spawn(0, "begin", Peers, "recv")
    \/ /\ mem.queue # <<>>
       /\ Do(0, "recv", [mem EXCEPT !.from = Head(mem.queue), !.queue = Tail(@)], "send")
    \/ Do(0, "send", [mem EXCEPT !.replies[Reply(mem)] = @ + 1], "recv")

HelloWorldClient(c) ==
    \/ /\ mem.got[c] < Requests
       /\ Do(c, "begin", [mem EXCEPT !.queue = Append(@, c), !.sent[c] = @ + 1], "recv")
    \/ mem.replies[c] > 0 /\ Do(c, "recv", [mem EXCEPT !.replies[c] = @ - 1, !.got[c] = @ + 1], "begin")
    \/ When(c, "begin", mem.got[c] = Requests, "end")
=============================================================================
