----------------------------- MODULE MCAsyncApi -----------------------------
(* AsyncApi for TLC: who opens the connections. *)
EXTENDS AsyncApi

OneThread == [o \in Streams |-> "main"]   \* as Test7 and Test8
ThreadEach == [o \in Streams |-> o]       \* as Test9 and main.cpp
=============================================================================
