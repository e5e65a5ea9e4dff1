------------------------------ MODULE Cashier -------------------------------
(***************************************************************************)
(* The other programs of webinar_25: the two cashiers, the event loop and  *)
(* the threads demonstration.                                              *)
(***************************************************************************)
EXTENDS StdThread

CONSTANTS
    totalPages,  \* m_totalPages, and pageCount of the reader
    buyerCount,  \* the reader's buyers
    Calls,       \* what main does with its Cashier: "buyer", "read", "stop"
    Sent,        \* sequences of events sent to the event loop
    Handlers     \* the event loop's handlers, each the set of events it takes

ASSUME CashierAssumption ==
    totalPages \in Nat /\ buyerCount \in Nat /\ Calls \in Seq({"buyer", "read", "stop"})
ASSUME EventsAssumption == Sent \subseteq Seq(STRING) /\ Handlers \in Seq(SUBSET STRING)

-----------------------------------------------------------------------------
(* cashier_events.cpp.  `unset`: the worker's event has no value yet.      *)
(* `failed`: assert(!m_buyers.empty()) failed.                             *)

CashierInit == ThreadInit([m_events |-> <<>>, m_buyers |-> 0, m_currentPage |-> 0, call |-> 1,
                           event |-> "unset", served |-> 0, failed |-> FALSE, early |-> FALSE])

(* Mutant of Post: the event, and the buyer when the mutex is free again.  *)
PostApart(from, event, to) ==
    \/ Lock(0, from, "m_mutex", "push")
    \/ Do(0, "push", [mem EXCEPT !.m_events = Append(@, event)], "unlock")
    \/ Unlock(0, "unlock", "m_mutex", "then")
    \/ Do(0, "then", [mem EXCEPT !.m_buyers = IF event = "buyer" THEN @ + 1 ELSE @, !.call = @ + 1], to)

(* read, buyer and stop *)
Post(from, event, to) ==
    \/ Lock(0, from, "m_mutex", "push")
    \/ Do(0, "push", [mem EXCEPT !.m_events = Append(@, event),
                                 !.m_buyers = IF event = "buyer" THEN @ + 1 ELSE @,
                                 !.call = @ + 1], "unlock")
    \/ Unlock(0, "unlock", "m_mutex", to)

(* main, and the destructor's stop and join at its end. *)
CashierMain ==
    \/ Spawn(0, "begin", {1}, "call")
    \/ Post("call", IF mem.call <= Len(Calls) THEN Calls[mem.call] ELSE "stop", "more")
    \/ When(0, "more", mem.call <= Len(Calls) + 1, "call")
    \/ When(0, "more", mem.call > Len(Calls) + 1, "join") \/ Join(0, "join", {1}, "end")

(* continue goes to the test of the loop, where event may have no value:   *)
(* the worker may then stop or go on.                                      *)
CashierWorker(t) ==
    \/ Lock(t, "begin", "m_mutex", "look")
    \/ mem.m_events = <<>> /\ Unlock(t, "look", "m_mutex", "while")
    \/ When(t, "while", mem.event # "stop", "begin") \/ When(t, "while", mem.event = "stop", "end")
    \/ mem.event = "unset" /\ Do(t, "while", [mem EXCEPT !.early = TRUE], "end")
    \/ /\ mem.m_events # <<>>
       /\ Do(t, "look", [mem EXCEPT !.event = Head(mem.m_events), !.m_events = Tail(@)], "popped")
    \/ Unlock(t, "popped", "m_mutex", "switch")
    \/ /\ mem.event = "read"
       /\ Do(t, "switch", [mem EXCEPT !.m_currentPage = IF @ < totalPages THEN @ + 1 ELSE @], "while")
    \/ mem.event = "buyer" /\ Lock(t, "switch", "m_mutex", "buyer")
    \/ Do(t, "buyer", [mem EXCEPT !.failed = @ \/ mem.m_buyers = 0, !.m_buyers = @ - 1, !.served = @ + 1], "sell")
    \/ Unlock(t, "sell", "m_mutex", "while")
    \/ When(t, "switch", mem.event = "stop", "while")

-----------------------------------------------------------------------------
(* cashier_reader.cpp *)

ReaderInit == ThreadInit([buyers |-> 0, pushed |-> 0, page |-> 0, served |-> 0])

ReaderMain ==
    \/ Spawn(0, "begin", {1}, "for")
    \/ mem.pushed < buyerCount /\ Lock(0, "for", "mutex", "push")
    \/ Do(0, "push", [mem EXCEPT !.buyers = @ + 1, !.pushed = @ + 1], "unlock")
    \/ Unlock(0, "unlock", "mutex", "for")
    \/ When(0, "for", mem.pushed = buyerCount, "join") \/ Join(0, "join", {1}, "end")

cashier(t) ==
    \/ mem.page < totalPages /\ Lock(t, "begin", "mutex", "serve")
    \/ Do(t, "serve", [mem EXCEPT !.page = @ + 1,
                                  !.buyers = IF @ > 0 THEN @ - 1 ELSE @,
                                  !.served = IF mem.buyers > 0 THEN @ + 1 ELSE @], "unlock")
    \/ Unlock(t, "unlock", "mutex", "begin")
    \/ When(t, "begin", mem.page = totalPages, "end")

-----------------------------------------------------------------------------
(* events.cpp, in one thread: the events are sent, then the loop runs.     *)
(* `handled`: which handler took which event.                              *)

LoopInit == \E s \in Sent : ThreadInit([m_event_queue |-> s, sent |-> s, m_quit |-> FALSE, handled |-> <<>>])

(* The first handler that returns true ends the loop over the handlers.    *)
Taker(event) == {h \in DOMAIN Handlers : event \in Handlers[h] /\ \A g \in 1..h-1 : event \notin Handlers[g]}

exec ==
    LET event == Head(mem.m_event_queue)
        rest == Tail(mem.m_event_queue)
    IN  \/ /\ ~mem.m_quit /\ mem.m_event_queue # <<>>
           /\ Do(0, "begin", IF event = "quit" THEN [mem EXCEPT !.m_event_queue = rest, !.m_quit = TRUE]
                             ELSE [mem EXCEPT !.m_event_queue = rest,
                                              !.handled = Append(@, <<event, Taker(event)>>)], "begin")
        \/ When(0, "begin", mem.m_quit, "end")

-----------------------------------------------------------------------------
(* threads.cpp: alone, beside a thread that is joined, in parallel with    *)
(* two, and with two async calls, whose futures' destructors wait.         *)

ThreadsInit == ThreadInit([done |-> {}])

Task(t, from, to) == Do(t, from, [mem EXCEPT !.done = @ \union {<<t, from>>}], to)

ThreadsMain ==
    \/ Task(0, "begin", "multy1")
    \/ Spawn(0, "multy1", {1}, "join1") \/ Join(0, "join1", {1}, "multy2")
    \/ Spawn(0, "multy2", {2, 3}, "self") \/ Task(0, "self", "join2") \/ Join(0, "join2", {2, 3}, "async")
    \/ Spawn(0, "async", {4, 5}, "destroy") \/ Join(0, "destroy", {4, 5}, "return")
    \/ ExitProcess(0, "return")

ThreadsWorker(t) == Task(t, "begin", "end")
=============================================================================
