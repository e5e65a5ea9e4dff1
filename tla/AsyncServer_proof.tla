------------------------- MODULE AsyncServer_proof --------------------------
(***************************************************************************)
(* Proofs about AsyncServer, for any number of clients and any length of   *)
(* their texts and of the buffer, in both programs and with and without    *)
(* failures.                                                               *)
(***************************************************************************)
EXTENDS AsyncServer, SequenceTheorems, TLAPS

Chunk == [client : Clients \union {NoClient}, from : Nat, to : Nat]

TypeOK ==
    /\ program \in {"tests", "ServerMain"} /\ mayFail \in BOOLEAN
    /\ conn \in [Clients -> {"new", "backlog", "served", "ended"}]
    /\ sent \in [Clients -> 0..TextLen] /\ taken \in [Clients -> 0..TextLen]
    /\ closed \in SUBSET Clients
    /\ data_ \in [Clients -> Chunk]
    /\ read \in [Clients -> {"none", "armed", "done", "failed"}]
    /\ accepting \in BOOLEAN /\ accepted \in BOOLEAN
    /\ io \in {"running", "stopped", "returned", "thrown"}
    /\ adding \in Clients \union {NoClient}
    /\ tasks \in Seq(Chunk) /\ parsed \in Seq(Chunk)
    /\ m_stopped \in BOOLEAN /\ working \in BOOLEAN /\ dangling \in BOOLEAN
    /\ main \in {"up", "bpStop", "ioStop", "ioJoin", "bsDtor", "bprDtor", "bpDtor", "end"}
    /\ alive \in SUBSET Observers

(* A read is armed when the socket is served.  Completed, its chunk is the *)
(* newest part of what was taken, and stays in data_ until AddTask has     *)
(* copied it.                                                              *)
ReadInv ==
    \A c \in Clients :
        /\ conn[c] \in {"new", "backlog"} => read[c] = "none"
        /\ read[c] = "done" => /\ data_[c].client = c
                               /\ data_[c].from \in 1..data_[c].to
                               /\ data_[c].to = taken[c]
        /\ adding = c => read[c] = "done"

(* A client's chunks cover what was handed on, one after the other. *)
ChunkInv ==
    \A c \in Clients :
        /\ \A i \in 1..Len(Pushed) : Pushed[i].client = c =>
              Pushed[i].from \in 1..Pushed[i].to /\ Pushed[i].to <= Handed(c)
        /\ \A i, j \in 1..Len(Pushed) :
              Pushed[i].client = c /\ Pushed[j].client = c /\ i < j => Pushed[i].to < Pushed[j].from
        /\ \A n \in 1..Handed(c) : \E i \in 1..Len(Pushed) :
              Pushed[i].client = c /\ n \in Pushed[i].from..Pushed[i].to

(* When the worker has left, the flag is up, and of the sessions only one  *)
(* that is between the test of the flag and the push can add to the queue. *)
WorkerInv ==
    ~working => m_stopped /\ Len(tasks) + (IF adding = NoClient THEN 0 ELSE 1) <= 1

(* The observers live until the destructors, which the tests reach after   *)
(* the worker has left, and ServerMain only by an accept error.            *)
MainInv ==
    /\ io # "thrown" /\ ~accepting => ~accepted
    /\ program = "tests" /\ main \notin {"up", "bpStop"} => ~working
    /\ main \notin {"bprDtor", "bpDtor", "end"} => alive = Observers
    /\ program = "ServerMain" =>
          /\ main \notin {"bpStop", "ioStop", "ioJoin"} /\ io # "stopped"
          /\ io = "returned" \/ main # "up" => ~accepted
    /\ NoDanglingObserver

IInv == TypeOK /\ ReadInv /\ ChunkInv /\ WorkerInv /\ MainInv

-----------------------------------------------------------------------------
(* The chunks pushed, in the queue or parsed, are chunks. *)
LEMMA PushedType ==
    ASSUME TypeOK
    PROVE  /\ Pushed \in Seq(Chunk)
           /\ \A i \in 1..Len(Pushed) : Pushed[i].from \in Nat /\ Pushed[i].to \in Nat
<1>1. Pushed \in Seq(Chunk)
  BY DEF TypeOK, Pushed
<1>2. \A i \in 1..Len(Pushed) : Pushed[i] \in Chunk
  BY <1>1
<1> QED
  BY <1>1, <1>2 DEF Chunk

(* What a session has handed to AddTask is what it has read, or has read   *)
(* up to the chunk in its buffer.                                          *)
LEMMA HandedType ==
    ASSUME TypeOK, ReadInv, NEW c \in Clients
    PROVE  Handed(c) \in Nat /\ Handed(c) <= taken[c] /\ taken[c] \in 0..TextLen /\ TextLen \in Nat
<1>1. taken[c] \in 0..TextLen /\ TextLen \in Nat
  BY TextAssumption DEF TypeOK
<1>2. data_[c].from \in Nat /\ data_[c].to \in Nat
  BY DEF TypeOK, Chunk
<1> QED
  BY <1>1, <1>2 DEF ReadInv, Handed

(* The worker moves a chunk within Pushed. *)
LEMMA MoveHead ==
    ASSUME NEW S, NEW s \in Seq(S), NEW t \in Seq(S), t # <<>>
    PROVE  Append(s, Head(t)) \o Tail(t) = s \o t
<1>1. Head(t) \in S /\ Tail(t) \in Seq(S) /\ t = <<Head(t)>> \o Tail(t)
  BY SeqEqual
<1>2. Append(s, Head(t)) = s \o <<Head(t)>> /\ <<Head(t)>> \in Seq(S)
  BY <1>1, AppendIsConcat
<1>3. (s \o <<Head(t)>>) \o Tail(t) = s \o (<<Head(t)>> \o Tail(t))
  BY <1>1, <1>2, ConcatAssociative
<1> QED
  BY <1>1, <1>2, <1>3

(* AddTask appends one to it. *)
LEMMA AppendRight ==
    ASSUME NEW S, NEW s \in Seq(S), NEW t \in Seq(S), NEW x \in S
    PROVE  s \o Append(t, x) = Append(s \o t, x)
<1>1. Append(t, x) = t \o <<x>> /\ Append(s \o t, x) = (s \o t) \o <<x>> /\ <<x>> \in Seq(S)
  BY AppendIsConcat
<1> QED
  BY <1>1, ConcatAssociative

(* A step that moves no chunk into or out of a session. *)
LEMMA SessionsKept ==
    ASSUME IInv, UNCHANGED <<read, data_, taken>>, adding' \in {adding, NoClient},
           Pushed' = Pushed,
           \A c \in Clients : conn'[c] \in {"new", "backlog"} => conn[c] \in {"new", "backlog"}
    PROVE  ReadInv' /\ ChunkInv'
<1>1. ReadInv'
  BY NoClientAssumption DEF IInv, ReadInv
<1>2. ChunkInv'
  BY DEF IInv, ChunkInv, Handed
<1> QED
  BY <1>1, <1>2

(* At first nobody is accepted and nothing is sent. *)
LEMMA InitInv == Init => IInv
<1> SUFFICES ASSUME Init PROVE IInv
  OBVIOUS
<1> USE DEF Init
<1>1. TypeOK
  <2>1. 0 \in 0..TextLen
    BY TextAssumption
  <2>2. sent \in [Clients -> 0..TextLen] /\ taken \in [Clients -> 0..TextLen]
    BY <2>1
  <2>3. Empty \in Chunk
    BY DEF Empty, Chunk
  <2>4. data_ \in [Clients -> Chunk]
    BY <2>3
  <2>5. tasks \in Seq(Chunk) /\ parsed \in Seq(Chunk)
    OBVIOUS
  <2>6. /\ conn \in [Clients -> {"new", "backlog", "served", "ended"}]
        /\ read \in [Clients -> {"none", "armed", "done", "failed"}]
    OBVIOUS
  <2> QED
    BY <2>2, <2>4, <2>5, <2>6 DEF TypeOK
<1>2. ReadInv
  BY NoClientAssumption DEF ReadInv
<1>3. ChunkInv
  <2>1. Len(Pushed) = 0
    BY DEF Pushed
  <2>2. \A c \in Clients : Handed(c) = 0
    BY DEF Handed
  <2> QED
    BY <2>1, <2>2 DEF ChunkInv
<1>4. WorkerInv
  BY DEF WorkerInv
<1>5. MainInv
  BY DEF MainInv, NoDanglingObserver
<1> QED
  BY <1>1, <1>2, <1>3, <1>4, <1>5 DEF IInv

-----------------------------------------------------------------------------
(* The clients. *)
LEMMA ClientInv ==
    ASSUME IInv, UNCHANGED choice, NEW c \in Clients, Connect(c) \/ Send(c) \/ Close(c)
    PROVE  IInv'
<1>0. /\ conn \in [Clients -> {"new", "backlog", "served", "ended"}]
      /\ sent \in [Clients -> 0..TextLen] /\ TextLen \in Nat
  BY TextAssumption DEF IInv, TypeOK
<1>1. UNCHANGED <<program, mayFail, taken, data_, read, accepting, io, adding, accepted,
                  tasks, m_stopped, working, parsed, dangling, main, alive>>
  BY DEF choice, Connect, Send, Close, ioVars, bpVars, mainVars
<1>2. /\ conn' \in [Clients -> {"new", "backlog", "served", "ended"}]
      /\ \A d \in Clients : conn'[d] \in {"new", "backlog"} => conn[d] \in {"new", "backlog"}
  BY <1>0 DEF Connect, Send, Close
<1>3. sent' \in [Clients -> 0..TextLen]
  <2>1. CASE Send(c)
    <3>1. sent[c] + 1 \in 0..TextLen
      BY <1>0, <2>1 DEF Send
    <3> QED
      BY <1>0, <2>1, <3>1 DEF Send
  <2>2. CASE Connect(c) \/ Close(c)
    BY <1>0, <2>2 DEF Connect, Close
  <2> QED
    BY <2>1, <2>2
<1>4. closed' \in SUBSET Clients
  BY DEF IInv, TypeOK, Connect, Send, Close
<1>5. TypeOK'
  BY <1>1, <1>2, <1>3, <1>4 DEF IInv, TypeOK
<1>6. ReadInv' /\ ChunkInv'
  BY <1>1, <1>2, SessionsKept DEF Pushed
<1>7. WorkerInv' /\ MainInv'
  BY <1>1 DEF IInv, WorkerInv, MainInv, NoDanglingObserver
<1> QED
  BY <1>5, <1>6, <1>7 DEF IInv

(* Who has pushed and handed on nothing has its chunks as they were. *)
LEMMA ChunksKept ==
    ASSUME ChunkInv, Pushed' = Pushed, \A c \in Clients : Handed(c)' = Handed(c)
    PROVE  ChunkInv'
<1> DEFINE Whole(p, h, c) ==
        /\ \A i \in 1..Len(p) : p[i].client = c => p[i].from \in 1..p[i].to /\ p[i].to <= h
        /\ \A i, j \in 1..Len(p) : p[i].client = c /\ p[j].client = c /\ i < j => p[i].to < p[j].from
        /\ \A n \in 1..h : \E i \in 1..Len(p) : p[i].client = c /\ n \in p[i].from..p[i].to
<1>1. \A c \in Clients : Whole(Pushed, Handed(c), c)
  BY DEF ChunkInv
<1>2. ChunkInv' <=> \A c \in Clients : Whole(Pushed', Handed(c)', c)
  BY Zenon DEF ChunkInv
<1> HIDE DEF Whole
<1> QED
  BY <1>1, <1>2

(* A read completes: what is handed on stays the same, the new chunk is    *)
(* the rest.                                                               *)
LEMMA ReadCompletesInv ==
    ASSUME IInv, UNCHANGED choice, NEW c \in Clients, ReadCompletes(c)
    PROVE  IInv'
<1>0. /\ TypeOK /\ ReadInv /\ ChunkInv
      /\ sent[c] \in 0..TextLen /\ taken \in [Clients -> 0..TextLen] /\ TextLen \in Nat
      /\ data_ \in [Clients -> Chunk]
      /\ read \in [Clients -> {"none", "armed", "done", "failed"}]
      /\ MaxLength \in Nat
  BY TextAssumption DEF IInv, TypeOK
<1>1. PICK n \in 1..MaxLength :
        /\ taken[c] + n <= sent[c]
        /\ taken' = [taken EXCEPT ![c] = taken[c] + n]
        /\ data_' = [data_ EXCEPT ![c] =
                        [client |-> c, from |-> taken[c] + 1, to |-> taken[c] + n]]
  BY DEF ReadCompletes
<1>2. /\ read[c] = "armed"
      /\ read' = [read EXCEPT ![c] = "done"]
      /\ UNCHANGED <<program, mayFail, conn, sent, closed, accepting, io, adding, accepted,
                     tasks, m_stopped, working, parsed, dangling, main, alive>>
  BY DEF ReadCompletes, choice, bpVars, mainVars
<1>3. taken[c] \in Nat /\ n \in Nat \ {0} /\ taken[c] + n \in 0..TextLen
  BY <1>0, <1>1
<1>4. [client |-> c, from |-> taken[c] + 1, to |-> taken[c] + n] \in Chunk
  BY <1>3 DEF Chunk
<1>5. /\ taken'[c] = taken[c] + n /\ read'[c] = "done"
      /\ data_'[c].client = c /\ data_'[c].from = taken[c] + 1 /\ data_'[c].to = taken[c] + n
      /\ \A d \in Clients : d # c => taken'[d] = taken[d] /\ read'[d] = read[d] /\ data_'[d] = data_[d]
  BY <1>0, <1>1, <1>2
<1>6. TypeOK'
  <2>1. /\ taken' \in [Clients -> 0..TextLen] /\ data_' \in [Clients -> Chunk]
        /\ read' \in [Clients -> {"none", "armed", "done", "failed"}]
    BY <1>0, <1>1, <1>2, <1>3, <1>4
  <2> QED
    BY <1>0, <1>2, <2>1 DEF TypeOK
<1>7. ReadInv'
  BY <1>0, <1>2, <1>3, <1>5 DEF ReadInv
<1>8. ChunkInv'
  <2>1. \A d \in Clients : Handed(d)' = Handed(d)
    BY <1>2, <1>3, <1>5 DEF Handed
  <2>2. Pushed' = Pushed
    BY <1>2 DEF Pushed
  <2> QED
    BY <1>0, <2>1, <2>2, ChunksKept
<1>9. WorkerInv' /\ MainInv'
  BY <1>2 DEF IInv, WorkerInv, MainInv, NoDanglingObserver
<1> QED
  BY <1>6, <1>7, <1>8, <1>9 DEF IInv

(* A read fails, is armed for a new session, or its failure is handled. *)
LEMMA NoChunkInv ==
    ASSUME IInv, UNCHANGED choice, NEW c \in Clients, ReadFails(c) \/ Accept(c) \/ OnReadError(c)
    PROVE  IInv'
<1>0. /\ TypeOK /\ ReadInv /\ ChunkInv
      /\ conn \in [Clients -> {"new", "backlog", "served", "ended"}]
      /\ read \in [Clients -> {"none", "armed", "done", "failed"}]
  BY DEF IInv, TypeOK
<1>1. UNCHANGED <<program, mayFail, sent, closed, taken, data_, accepting, io, adding, accepted,
                  tasks, m_stopped, working, parsed, dangling, main, alive>>
  BY DEF ReadFails, Accept, OnReadError, choice, netVars, bpVars, mainVars
<1>2. /\ read[c] # "done"
      /\ \E p \in {"none", "armed", "failed"} : read' = [read EXCEPT ![c] = p]
      /\ conn' = conn \/ \E p \in {"served", "ended"} : conn' = [conn EXCEPT ![c] = p]
      /\ conn'[c] \notin {"new", "backlog"}
  <2>1. CASE ReadFails(c)
    BY <1>0, <2>1 DEF ReadFails, netVars, ReadInv
  <2>2. CASE Accept(c)
    BY <1>0, <2>2 DEF Accept, ReadInv
  <2>3. CASE OnReadError(c)
    BY <1>0, <2>3 DEF OnReadError
  <2> QED
    BY <2>1, <2>2, <2>3
<1>3. /\ conn' \in [Clients -> {"new", "backlog", "served", "ended"}]
      /\ read' \in [Clients -> {"none", "armed", "done", "failed"}]
  BY <1>0, <1>2
<1>4. /\ read'[c] # "done"
      /\ \A d \in Clients : d # c => read'[d] = read[d] /\ conn'[d] = conn[d]
  BY <1>0, <1>2
<1>5. TypeOK'
  BY <1>0, <1>1, <1>3 DEF TypeOK
<1>6. ReadInv'
  BY <1>0, <1>1, <1>2, <1>4 DEF ReadInv
<1>7. ChunkInv'
  <2>1. \A d \in Clients : Handed(d)' = Handed(d)
    BY <1>1, <1>2, <1>4 DEF Handed
  <2>2. Pushed' = Pushed
    BY <1>1 DEF Pushed
  <2> QED
    BY <1>0, <2>1, <2>2, ChunksKept
<1>8. WorkerInv' /\ MainInv'
  BY <1>1 DEF IInv, WorkerInv, MainInv, NoDanglingObserver
<1> QED
  BY <1>5, <1>6, <1>7, <1>8 DEF IInv

-----------------------------------------------------------------------------
(* The handler of a read gets past the test of the flag, or throws. *)
LEMMA OnReadInv ==
    ASSUME IInv, UNCHANGED choice, NEW c \in Clients, OnRead(c)
    PROVE  IInv'
<1>1. /\ adding = NoClient /\ read[c] = "done"
      /\ UNCHANGED <<program, mayFail, conn, sent, closed, taken, data_, read, accepting, accepted,
                     tasks, m_stopped, working, parsed, dangling, main, alive>>
      /\ \/ m_stopped /\ io' = "thrown" /\ adding' = adding
         \/ ~m_stopped /\ adding' = c /\ io' = io
  BY DEF OnRead, IoFree, choice, netVars, bpVars, mainVars
<1>2. TypeOK'
  BY <1>1 DEF IInv, TypeOK
<1>3. ReadInv'
  BY <1>1 DEF IInv, ReadInv
<1>4. ChunkInv'
  BY <1>1 DEF IInv, ChunkInv, Handed, Pushed
<1>5. WorkerInv'
  BY <1>1 DEF IInv, WorkerInv
<1>6. MainInv'
  BY <1>1 DEF IInv, MainInv, NoDanglingObserver
<1> QED
  BY <1>2, <1>3, <1>4, <1>5, <1>6 DEF IInv

(* AddTask pushes the chunk in data_, and only then is the read re-armed. *)
LEMMA AddTaskInv ==
    ASSUME IInv, UNCHANGED choice, NEW c \in Clients, AddTask(c)
    PROVE  IInv'
<1>0. /\ TypeOK /\ ReadInv /\ ChunkInv
      /\ tasks \in Seq(Chunk) /\ parsed \in Seq(Chunk) /\ data_[c] \in Chunk
      /\ read \in [Clients -> {"none", "armed", "done", "failed"}]
      /\ Len(tasks) \in Nat
  BY DEF IInv, TypeOK
<1>1. /\ adding = c /\ adding' = NoClient
      /\ tasks' = Append(tasks, data_[c])
      /\ read' = [read EXCEPT ![c] = "armed"]
      /\ UNCHANGED <<program, mayFail, conn, sent, closed, taken, data_, accepting, io, accepted,
                     m_stopped, working, parsed, dangling, main, alive>>
  BY DEF AddTask, choice, netVars, mainVars
<1>2. /\ read[c] = "done" /\ data_[c].client = c
      /\ data_[c].from \in 1..data_[c].to /\ data_[c].to = taken[c]
      /\ conn[c] \notin {"new", "backlog"}
      /\ data_[c].from \in Nat /\ taken[c] \in Nat
  <2>1. data_[c].from \in Nat /\ taken[c] \in Nat
    BY <1>0, TextAssumption DEF TypeOK, Chunk
  <2> QED
    BY <1>0, <1>1, <2>1 DEF ReadInv
<1>3. /\ tasks' \in Seq(Chunk) /\ Len(tasks') = Len(tasks) + 1
  BY <1>0, <1>1
<1>4. read'[c] = "armed" /\ \A d \in Clients : d # c => read'[d] = read[d]
  BY <1>0, <1>1
<1>5. TypeOK'
  <2>1. read' \in [Clients -> {"none", "armed", "done", "failed"}]
    BY <1>0, <1>1
  <2> QED
    BY <1>0, <1>1, <1>3, <2>1 DEF TypeOK
<1>6. ReadInv'
  BY <1>0, <1>1, <1>2, <1>4, NoClientAssumption DEF ReadInv
<1>7. ChunkInv'
  <2> DEFINE last == Len(Pushed) + 1
  <2>1. /\ Pushed \in Seq(Chunk) /\ Len(Pushed) \in Nat
        /\ \A i \in 1..Len(Pushed) : Pushed[i].from \in Nat /\ Pushed[i].to \in Nat
    BY <1>0, PushedType
  <2>2. Pushed' = Append(Pushed, data_[c])
    BY <1>0, <1>1, AppendRight DEF Pushed
  <2>3. /\ Len(Pushed') = last
        /\ \A i \in 1..Len(Pushed) : Pushed'[i] = Pushed[i]
        /\ Pushed'[last] = data_[c]
        /\ \A i \in 1..last : i \in 1..Len(Pushed) \/ i = last
    BY <1>0, <2>1, <2>2
  <2>4. Handed(c) = data_[c].from - 1 /\ Handed(c)' = data_[c].to /\ Handed(c) <= Handed(c)'
    BY <1>1, <1>2, <1>4 DEF Handed
  <2>5. \A d \in Clients : d # c => Handed(d)' = Handed(d)
    BY <1>1, <1>4 DEF Handed
  <2> HIDE DEF last
  <2>6. ASSUME NEW d \in Clients, NEW i \in 1..Len(Pushed'), Pushed'[i].client = d
        PROVE  Pushed'[i].from \in 1..Pushed'[i].to /\ Pushed'[i].to <= Handed(d)'
    <3>1. CASE i = last
      BY <1>2, <2>3, <2>4, <2>6, <3>1
    <3>2. CASE i \in 1..Len(Pushed)
      <4>1. Pushed[i].from \in 1..Pushed[i].to /\ Pushed[i].to <= Handed(d)
        BY <1>0, <2>3, <2>6, <3>2 DEF ChunkInv
      <4>2. Pushed[i].to \in Nat
        BY <2>1, <3>2
      <4>3. CASE d = c
        BY <1>2, <2>3, <2>4, <3>2, <4>1, <4>2, <4>3, SMTT(30)
      <4>4. CASE d # c
        BY <2>3, <2>5, <3>2, <4>1, <4>4
      <4> QED
        BY <4>3, <4>4
    <3> QED
      BY <2>3, <3>1, <3>2
  <2>7. ASSUME NEW d \in Clients, NEW i \in 1..Len(Pushed'), NEW j \in 1..Len(Pushed'),
               Pushed'[i].client = d, Pushed'[j].client = d, i < j
        PROVE  Pushed'[i].to < Pushed'[j].from
    <3>1. i \in 1..Len(Pushed)
      BY <2>1, <2>3, <2>7 DEF last
    <3>2. CASE j \in 1..Len(Pushed)
      BY <1>0, <2>3, <2>7, <3>1, <3>2 DEF ChunkInv
    <3>3. CASE j = last
      <4>1. d = c
        BY <1>2, <2>3, <2>7, <3>3
      <4>2. Pushed[i].to <= Handed(c) /\ Pushed[i].to \in Nat
        BY <1>0, <2>1, <2>3, <2>7, <3>1, <4>1 DEF ChunkInv
      <4> QED
        BY <1>2, <2>3, <2>4, <3>1, <3>3, <4>2
    <3> QED
      BY <2>3, <3>2, <3>3
  <2>8. ASSUME NEW d \in Clients, NEW n \in 1..Handed(d)'
        PROVE  \E i \in 1..Len(Pushed') : Pushed'[i].client = d /\ n \in Pushed'[i].from..Pushed'[i].to
    <3>1. CASE n \in 1..Handed(d)
      <4>1. PICK i \in 1..Len(Pushed) : Pushed[i].client = d /\ n \in Pushed[i].from..Pushed[i].to
        BY <1>0, <3>1 DEF ChunkInv
      <4>2. i \in 1..Len(Pushed') /\ Pushed'[i] = Pushed[i]
        BY <2>1, <2>3, <4>1 DEF last
      <4> QED
        BY <4>1, <4>2
    <3>2. CASE d = c /\ n \notin 1..Handed(d)
      <4>1. n \in data_[c].from..data_[c].to
        BY <1>2, <2>4, <2>8, <3>2
      <4>2. last \in 1..Len(Pushed')
        BY <2>1, <2>3 DEF last
      <4> QED
        BY <1>2, <2>3, <3>2, <4>1, <4>2
    <3> QED
      BY <2>5, <2>8, <3>1, <3>2
  <2> QED
    BY <2>6, <2>7, <2>8 DEF ChunkInv
<1>8. WorkerInv'
  BY <1>0, <1>1, <1>3, NoClientAssumption DEF IInv, WorkerInv
<1>9. MainInv'
  BY <1>1 DEF IInv, MainInv, NoDanglingObserver
<1> QED
  BY <1>5, <1>6, <1>7, <1>8, <1>9 DEF IInv

(* The accept loop ends by an error, and run() returns or throws. *)
LEMMA IoEndsInv == ASSUME IInv, UNCHANGED choice, AcceptError \/ AcceptThrows \/ RunReturns PROVE IInv'
<1>1. UNCHANGED <<program, mayFail, conn, sent, closed, taken, data_, read, adding,
                  tasks, m_stopped, working, parsed, dangling, main, alive>>
  BY DEF AcceptError, AcceptThrows, RunReturns, choice, netVars, bpVars, mainVars
<1>2. \/ accepting' = FALSE /\ accepted' = FALSE /\ io' = io
      \/ accepting' = FALSE /\ accepted' = accepted /\ io' = "thrown"
      \/ io' = "returned" /\ UNCHANGED <<accepting, accepted>>
         /\ (io = "stopped" \/ (io = "running" /\ ~accepting))
  BY DEF AcceptError, AcceptThrows, RunReturns
<1>3. TypeOK'
  <2>1. /\ accepting' \in BOOLEAN /\ accepted' \in BOOLEAN
        /\ io' \in {"running", "stopped", "returned", "thrown"}
    BY <1>2 DEF IInv, TypeOK
  <2> QED
    BY <1>1, <2>1 DEF IInv, TypeOK
<1>4. ReadInv' /\ ChunkInv'
  BY <1>1, SessionsKept DEF Pushed
<1>5. WorkerInv'
  BY <1>1 DEF IInv, WorkerInv
<1>6. MainInv'
  BY <1>1, <1>2 DEF IInv, MainInv, NoDanglingObserver
<1> QED
  BY <1>3, <1>4, <1>5, <1>6 DEF IInv

-----------------------------------------------------------------------------
(* The worker parses a chunk and may notify. *)
LEMMA ParseInv == ASSUME IInv, UNCHANGED choice, Parse PROVE IInv'
<1>0. tasks \in Seq(Chunk) /\ parsed \in Seq(Chunk) /\ Len(tasks) \in Nat
  BY DEF IInv, TypeOK
<1>1. /\ working /\ tasks # <<>>
      /\ tasks' = Tail(tasks) /\ parsed' = Append(parsed, Head(tasks))
      /\ UNCHANGED <<program, mayFail, conn, sent, closed, taken, data_, read, accepting, io,
                     adding, accepted, m_stopped, working, main, alive>>
      /\ dangling' = dangling \/ (dangling' = TRUE /\ alive # Observers)
      /\ dangling' \in BOOLEAN
  BY DEF Parse, Notifies, choice, netVars, ioVars, mainVars, IInv, TypeOK
<1>2. tasks' \in Seq(Chunk) /\ parsed' \in Seq(Chunk)
  BY <1>0, <1>1
<1>3. Pushed' = Pushed
  BY <1>0, <1>1, MoveHead DEF Pushed
<1>4. TypeOK'
  BY <1>1, <1>2 DEF IInv, TypeOK
<1>5. ReadInv' /\ ChunkInv'
  BY <1>1, <1>3, SessionsKept
<1>6. WorkerInv'
  BY <1>1 DEF WorkerInv
<1>7. MainInv'
  BY <1>1 DEF IInv, TypeOK, MainInv, NoDanglingObserver
<1> QED
  BY <1>4, <1>5, <1>6, <1>7 DEF IInv

(* The worker leaves, and main takes its way to the end. *)
LEMMA EndInv == ASSUME IInv, UNCHANGED choice, WorkerExits \/ Main PROVE IInv'
<1>1. UNCHANGED <<program, mayFail, conn, sent, closed, taken, data_, read, accepting, adding,
                  accepted, tasks, parsed>>
  BY DEF WorkerExits, Main, BpStop, BpStopped, IoStop, IoJoin, ObserverDies, BpDtorStop, BpDtor,
         choice, netVars, ioVars, bpVars
<1>2. ReadInv' /\ ChunkInv'
  BY <1>1, SessionsKept DEF Pushed
<1>3. CASE WorkerExits
  <2>1. /\ m_stopped /\ tasks = <<>> /\ working' = FALSE
        /\ UNCHANGED <<io, m_stopped, dangling, main, alive>>
    BY <1>3 DEF WorkerExits, ioVars, mainVars
  <2>2. TypeOK'
    BY <1>1, <2>1, ZenonT(30) DEF IInv, TypeOK
  <2>3. WorkerInv'
    BY <1>1, <2>1 DEF WorkerInv
  <2>4. MainInv'
    BY <1>1, <2>1 DEF IInv, MainInv, NoDanglingObserver
  <2> QED
    BY <1>2, <2>2, <2>3, <2>4 DEF IInv
<1>4. CASE Main
  <2>1. /\ working' = working
        /\ m_stopped' = m_stopped \/ m_stopped' = TRUE
        /\ io' = io \/ io' = "stopped"
        /\ alive' \in SUBSET alive
    <3>1. CASE IoStop
      BY <3>1 DEF IoStop, bpVars
    <3>2. CASE BpStop \/ BpDtorStop
      BY <3>2 DEF BpStop, BpDtorStop, ioVars, mainVars
    <3>3. CASE \E o \in Observers, from, to \in {"bsDtor", "bprDtor", "bpDtor"} : ObserverDies(o, from, to)
      BY <3>3 DEF ObserverDies, ioVars, bpVars
    <3>4. CASE BpStopped \/ IoJoin \/ BpDtor
      BY <3>4 DEF BpStopped, IoJoin, BpDtor, ioVars, bpVars
    <3> QED
      BY <1>4, <3>1, <3>2, <3>3, <3>4 DEF Main, Observers
  <2>2. m_stopped' \in BOOLEAN /\ (m_stopped => m_stopped') /\ working' \in BOOLEAN
    <3>1. m_stopped \in BOOLEAN /\ working \in BOOLEAN
      BY DEF IInv, TypeOK
    <3> QED
      BY <2>1, <3>1
  <2>3. WorkerInv'
    BY <1>1, <2>1, <2>2 DEF IInv, WorkerInv
  <2>4. main' \in {"up", "bpStop", "ioStop", "ioJoin", "bsDtor", "bprDtor", "bpDtor", "end"}
    BY <1>4 DEF Main, BpStop, BpStopped, IoStop, IoJoin, ObserverDies, BpDtorStop, BpDtor,
                Goto, mainVars, IInv, TypeOK
  <2>5. dangling' \in BOOLEAN
    BY <1>4 DEF Main, BpStop, BpStopped, IoStop, IoJoin, ObserverDies, BpDtorStop, BpDtor,
                Notifies, bpVars, IInv, TypeOK
  <2>6. io' \in {"running", "stopped", "returned", "thrown"} /\ alive' \in SUBSET Observers
    BY <2>1 DEF IInv, TypeOK
  <2>7. TypeOK'
    BY <1>1, <2>2, <2>4, <2>5, <2>6 DEF IInv, TypeOK
  <2>8. MainInv'
    <3>1. CASE BpStop
      BY <1>1, <3>1 DEF BpStop, Goto, ioVars, IInv, MainInv, NoDanglingObserver
    <3>2. CASE BpStopped
      BY <1>1, <3>2 DEF BpStopped, Notifies, Goto, ioVars, IInv, TypeOK, MainInv, NoDanglingObserver
    <3>3. CASE IoStop
      BY <1>1, <3>3 DEF IoStop, Goto, bpVars, IInv, TypeOK, MainInv, NoDanglingObserver
    <3>4. CASE IoJoin
      BY <1>1, <3>4 DEF IoJoin, Goto, ioVars, bpVars, IInv, TypeOK, MainInv, NoDanglingObserver
    <3>5. CASE ObserverDies("saver", "bsDtor", "bprDtor") \/ ObserverDies("printer", "bprDtor", "bpDtor")
      BY <1>1, <3>5 DEF ObserverDies, Goto, ioVars, bpVars, IInv, TypeOK, MainInv, NoDanglingObserver
    <3>6. CASE BpDtorStop
      BY <1>1, <3>6 DEF BpDtorStop, ioVars, mainVars, IInv, MainInv, NoDanglingObserver
    <3>7. CASE BpDtor
      BY <1>1, <3>7 DEF BpDtor, Notifies, Goto, ioVars, IInv, TypeOK, MainInv, NoDanglingObserver
    <3> QED
      BY <1>4, <3>1, <3>2, <3>3, <3>4, <3>5, <3>6, <3>7 DEF Main
  <2> QED
    BY <1>2, <2>3, <2>7, <2>8 DEF IInv
<1> QED
  BY <1>3, <1>4

-----------------------------------------------------------------------------
(* The inductive invariant of the server. *)
LEMMA Inductive == Spec => []IInv
<1>1. ASSUME IInv, [Next]_<<vars, choice>> PROVE IInv'
  <2>1. CASE Next
    <3>1. UNCHANGED choice
      BY <2>1 DEF Next
    <3>2. CASE \E c \in Clients : Connect(c) \/ Send(c) \/ Close(c) \/ ReadCompletes(c) \/ ReadFails(c)
      BY <1>1, <3>1, <3>2, ClientInv, ReadCompletesInv, NoChunkInv
    <3>3. CASE Io
      BY <1>1, <3>1, <3>3, IoEndsInv, NoChunkInv, OnReadInv, AddTaskInv DEF Io
    <3>4. CASE Parse \/ WorkerExits \/ Main
      BY <1>1, <3>1, <3>4, ParseInv, EndInv
    <3> QED
      BY <2>1, <3>2, <3>3, <3>4 DEF Next
  <2>2. CASE UNCHANGED <<vars, choice>>
    <3>1. UNCHANGED <<program, mayFail, conn, sent, closed, taken, data_, read, accepting, io, adding,
                      accepted, tasks, m_stopped, working, parsed, dangling, main, alive>>
      BY <2>2 DEF vars, choice, netVars, ioVars, bpVars, mainVars
    <3>2. ReadInv' /\ ChunkInv'
      BY <1>1, <3>1, SessionsKept DEF Pushed
    <3>3. TypeOK' /\ WorkerInv' /\ MainInv'
      BY <1>1, <3>1 DEF IInv, TypeOK, WorkerInv, MainInv, NoDanglingObserver
    <3> QED
      BY <3>2, <3>3 DEF IInv
  <2> QED
    BY <1>1, <2>1, <2>2
<1> QED
  BY InitInv, <1>1, PTL DEF Spec

(* The types of the sessions, the queue and the two threads. *)
THEOREM TypeCorrect == Spec => []TypeOK
<1>1. IInv => TypeOK
  BY DEF IInv
<1> QED
  BY Inductive, <1>1, PTL

(* A session hands on all it has read, in order and once, however the      *)
(* sessions and the worker interleave; and after Stop at most one chunk is *)
(* left in the queue of the tests.                                         *)
THEOREM SessionsInOrder == Spec => []SessionInOrder
<1>1. IInv => SessionInOrder
  <2> SUFFICES ASSUME IInv PROVE SessionInOrder
    OBVIOUS
  <2>1. Pushed \in Seq(Chunk) /\ DOMAIN Pushed = 1..Len(Pushed)
    BY PushedType DEF IInv
  <2>2. ASSUME NEW c \in Clients
        PROVE  /\ \A i \in Of(c) : Pushed[i].from <= Pushed[i].to
               /\ \A i, j \in Of(c) : i < j => Pushed[i].to < Pushed[j].from
               /\ \A n \in 1..TextLen :
                     n <= Handed(c) <=> \E i \in Of(c) : n \in Pushed[i].from..Pushed[i].to
               /\ read[c] = "done" => data_[c].to = taken[c]
    <3>1. Handed(c) \in Nat /\ TextLen \in Nat
      BY HandedType DEF IInv
    <3>2. \A i : i \in Of(c) <=> i \in 1..Len(Pushed) /\ Pushed[i].client = c
      BY <2>1 DEF Of
    <3>3. \A i \in Of(c) : Pushed[i].from \in Nat /\ Pushed[i].to \in Nat
      BY <3>2, PushedType DEF IInv
    <3>4. \A i \in Of(c) : Pushed[i].from <= Pushed[i].to /\ Pushed[i].to <= Handed(c)
      BY <3>2, <3>3 DEF IInv, ChunkInv
    <3>5. \A i, j \in Of(c) : i < j => Pushed[i].to < Pushed[j].from
      BY <3>2 DEF IInv, ChunkInv
    <3>6. \A n \in 1..Handed(c) : \E i \in Of(c) : n \in Pushed[i].from..Pushed[i].to
      BY <3>2 DEF IInv, ChunkInv
    <3>7. ASSUME NEW n \in 1..TextLen
          PROVE  n <= Handed(c) <=> \E i \in Of(c) : n \in Pushed[i].from..Pushed[i].to
      BY <3>1, <3>3, <3>4, <3>6
    <3>8. read[c] = "done" => data_[c].to = taken[c]
      BY DEF IInv, ReadInv
    <3> QED
      BY <3>4, <3>5, <3>7, <3>8
  <2>3. program = "tests" /\ main \notin {"up", "bpStop"} => Len(tasks) <= 1
    <3>1. Len(tasks) \in Nat
      BY DEF IInv, TypeOK
    <3> QED
      BY <3>1 DEF IInv, WorkerInv, MainInv
  <2> QED
    BY <2>2, <2>3 DEF SessionInOrder
<1> QED
  BY Inductive, <1>1, PTL

(* No destroyed observer is notified, but in ServerMain after an error of  *)
(* accept, in whatever order the sessions, the worker and main run.        *)
THEOREM ObserversLive == Spec => []NoDanglingObserver
<1>1. IInv => NoDanglingObserver
  BY DEF IInv, MainInv
<1> QED
  BY Inductive, <1>1, PTL
=============================================================================
