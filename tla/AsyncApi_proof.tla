--------------------------- MODULE AsyncApi_proof ---------------------------
(***************************************************************************)
(* Proofs about AsyncApi when one thread makes all the calls, for any      *)
(* number of connections and of receive calls, in any order.  (With two    *)
(* threads they do not hold: the run with ThreadEach shows how.)           *)
(***************************************************************************)
EXTENDS AsyncApi, SequenceTheorems, TLAPS

OneCaller == \A o, p \in Streams : Thread[o] = Thread[p]

Conns == {"new", "pushed", "open", "stopped", "closed"}

TypeOK ==
    /\ proc_list \in Seq(Streams)
    /\ conn \in [Streams -> Conns]
    /\ handle \in [Streams -> Streams \union {NoNode}]
    /\ running \in SUBSET Streams
    /\ text \in [Streams -> Seq(Streams)] /\ os \in [Streams -> Seq(Streams)]
    /\ broken \in BOOLEAN
    /\ sent \in [Streams -> 0..MaxSends]

(* The thread is inside one call at a time. *)
BusyInv ==
    \A o, p \in Streams :
        conn[o] \in {"pushed", "stopped"} /\ conn[p] \in {"pushed", "stopped"} => o = p

(* The list has one node for each connection begun and not closed.  The    *)
(* last one is that of the connect under way, if there is one.             *)
ListInv ==
    /\ \A i, j \in 1..Len(proc_list) : proc_list[i] = proc_list[j] => i = j
    /\ \A o \in Streams :
          conn[o] \in {"pushed", "open", "stopped"} <=> \E i \in 1..Len(proc_list) : proc_list[i] = o
    /\ \A o \in Streams : conn[o] = "pushed" => proc_list[Len(proc_list)] = o

(* Every handle is that of its own node, whose processor runs until        *)
(* disconnect stops it.                                                    *)
HandleInv ==
    /\ ~broken
    /\ \A o \in Streams : conn[o] \in {"open", "stopped", "closed"} => handle[o] = o
    /\ \A o \in Streams : o \in running <=> conn[o] \in {"pushed", "open"}

(* What connection o has sent: that many times its own text. *)
Own(o, n) == [i \in 1..n |-> o]

(* The text is in the processor until disconnect moves it to the stream. *)
TextInv ==
    \A o \in Streams :
        /\ conn[o] = "new" => sent[o] = 0
        /\ conn[o] \in {"new", "pushed", "open"} => text[o] = Own(o, sent[o])
        /\ conn[o] \in {"stopped", "closed"} => os[o] = Own(o, sent[o])

IInv == TypeOK /\ BusyInv /\ ListInv /\ HandleInv /\ TextInv

-----------------------------------------------------------------------------
(* What list::erase leaves. *)
LEMMA RemoveAtFacts ==
    ASSUME NEW S, NEW s \in Seq(S), NEW i \in 1..Len(s)
    PROVE  /\ RemoveAt(s, i) \in Seq(S)
           /\ Len(RemoveAt(s, i)) = Len(s) - 1
           /\ \A j \in 1..Len(s) - 1 : RemoveAt(s, i)[j] = s[IF j < i THEN j ELSE j + 1]
<1> DEFINE before == SubSeq(s, 1, i - 1)
           after == SubSeq(s, i + 1, Len(s))
<1>1. /\ before \in Seq(S) /\ Len(before) = i - 1
      /\ \A j \in 1..i - 1 : before[j] = s[j]
  OBVIOUS
<1>2. /\ after \in Seq(S) /\ Len(after) = Len(s) - i
      /\ \A j \in 1..Len(s) - i : after[j] = s[i + j]
  OBVIOUS
<1> HIDE DEF before, after
<1>3. RemoveAt(s, i) = before \o after
  BY DEF RemoveAt, before, after
<1>4. before \o after \in Seq(S) /\ Len(before \o after) = Len(s) - 1
  BY <1>1, <1>2
<1>5. ASSUME NEW j \in 1..Len(s) - 1
      PROVE  (before \o after)[j] = s[IF j < i THEN j ELSE j + 1]
  <2>1. CASE j < i
    BY <1>1, <1>2, <2>1
  <2>2. CASE ~(j < i)
    <3>1. (before \o after)[j] = after[j - (i - 1)] /\ j - (i - 1) \in 1..Len(s) - i
      BY <1>1, <1>2, <2>2
    <3> QED
      BY <1>2, <2>2, <3>1
  <2> QED
    BY <2>1, <2>2
<1> QED
  BY <1>3, <1>4, <1>5

(* One more receive. *)
LEMMA OwnAppend ==
    ASSUME NEW o, NEW n \in Nat
    PROVE  Append(Own(o, n), o) = Own(o, n + 1)
<1>1. Own(o, n) \in Seq({o}) /\ Len(Own(o, n)) = n
  BY DEF Own
<1> QED
  BY <1>1 DEF Own

(* A stream's own text is a text. *)
LEMMA OwnType == ASSUME NEW o \in Streams, NEW n \in Nat PROVE Own(o, n) \in Seq(Streams)
BY DEF Own

(* The nodes of proc_list are those at its positions. *)
LEMMA NodesAre ==
    ASSUME TypeOK
    PROVE  \A o : o \in Nodes <=> \E i \in 1..Len(proc_list) : proc_list[i] = o
<1>1. DOMAIN proc_list = 1..Len(proc_list)
  BY DEF TypeOK
<1> QED
  BY <1>1 DEF Nodes, ToSet

(* Before the first connect the list is empty. *)
LEMMA InitInv == Init => IInv
<1> SUFFICES ASSUME Init PROVE IInv
  OBVIOUS
<1> USE DEF Init
<1>1. TypeOK
  <2>1. proc_list \in Seq(Streams)
    OBVIOUS
  <2>2. running \in SUBSET Streams /\ broken \in BOOLEAN
    OBVIOUS
  <2>3. text \in [Streams -> Seq(Streams)] /\ os \in [Streams -> Seq(Streams)]
    OBVIOUS
  <2>4. conn \in [Streams -> Conns] /\ handle \in [Streams -> Streams \union {NoNode}]
    BY DEF Conns
  <2>5. sent \in [Streams -> 0..MaxSends]
    BY MaxSendsAssumption
  <2> QED
    BY <2>1, <2>2, <2>3, <2>4, <2>5 DEF TypeOK
<1>2. BusyInv
  BY DEF BusyInv
<1>3. ListInv
  BY DEF ListInv
<1>4. HandleInv
  BY DEF HandleInv
<1>5. TextInv
  <2>1. ASSUME NEW o \in Streams PROVE Own(o, 0) = <<>>
    BY DEF Own
  <2> QED
    BY <2>1 DEF TextInv
<1> QED
  BY <1>1, <1>2, <1>3, <1>4, <1>5 DEF IInv

-----------------------------------------------------------------------------
(* A call that begins finds no other one under way. *)
LEMMA NobodyBusy ==
    ASSUME OneCaller, NEW o \in Streams, Free(o), conn[o] \notin {"pushed", "stopped"}
    PROVE  \A p \in Streams : conn[p] \notin {"pushed", "stopped"}
BY DEF OneCaller, Free

(* connect pushes a processor, which nobody has a handle of yet. *)
LEMMA ConnectPushInv ==
    ASSUME IInv, OneCaller, NEW o \in Streams, ConnectPush(o)
    PROVE  IInv'
<1>0. /\ proc_list \in Seq(Streams) /\ Len(proc_list) \in Nat /\ conn \in [Streams -> Conns]
  BY DEF IInv, TypeOK
<1>1. /\ conn[o] = "new" /\ Free(o)
      /\ proc_list' = Append(proc_list, o)
      /\ running' = running \union {o}
      /\ conn' = [conn EXCEPT ![o] = "pushed"]
      /\ UNCHANGED <<handle, text, os, broken, sent>>
  BY DEF ConnectPush
<1>2. conn'[o] = "pushed" /\ \A p \in Streams : p # o => conn'[p] = conn[p]
  BY <1>0, <1>1
<1>3. \A p \in Streams : conn[p] \notin {"pushed", "stopped"}
  BY <1>1, NobodyBusy
<1>4. /\ proc_list' \in Seq(Streams) /\ Len(proc_list') = Len(proc_list) + 1
      /\ \A i \in 1..Len(proc_list) : proc_list'[i] = proc_list[i]
      /\ proc_list'[Len(proc_list) + 1] = o
  BY <1>0, <1>1
<1>5. \A i \in 1..Len(proc_list) : proc_list[i] # o
  BY <1>1 DEF IInv, ListInv
<1>6. TypeOK'
  <2>1. conn' \in [Streams -> Conns]
    BY <1>0, <1>1 DEF Conns
  <2> QED
    BY <1>1, <1>4, <2>1 DEF IInv, TypeOK
<1>7. BusyInv'
  BY <1>2, <1>3 DEF BusyInv
<1>8. ListInv'
  <2>1. \A i \in 1..Len(proc_list') : i \in 1..Len(proc_list) \/ i = Len(proc_list) + 1
    BY <1>0, <1>4
  <2>2. \A i, j \in 1..Len(proc_list') : proc_list'[i] = proc_list'[j] => i = j
    BY <1>4, <1>5, <2>1 DEF IInv, ListInv
  <2>3. ASSUME NEW p \in Streams
        PROVE  conn'[p] \in {"pushed", "open", "stopped"} <=>
                   \E i \in 1..Len(proc_list') : proc_list'[i] = p
    <3>1. CASE p = o
      BY <1>0, <1>2, <1>4, <3>1
    <3>2. CASE p # o
      <4>1. (\E i \in 1..Len(proc_list') : proc_list'[i] = p) <=>
                \E i \in 1..Len(proc_list) : proc_list[i] = p
        BY <1>0, <1>4, <2>1, <3>2
      <4> QED
        BY <1>2, <3>2, <4>1 DEF IInv, ListInv
    <3> QED
      BY <3>1, <3>2
  <2>4. \A p \in Streams : conn'[p] = "pushed" => proc_list'[Len(proc_list')] = p
    BY <1>2, <1>3, <1>4
  <2> QED
    BY <2>2, <2>3, <2>4 DEF ListInv
<1>9. HandleInv'
  BY <1>1, <1>2 DEF IInv, HandleInv
<1>10. TextInv'
  BY <1>1, <1>2 DEF IInv, TextInv
<1> QED
  BY <1>6, <1>7, <1>8, <1>9, <1>10 DEF IInv

(* connect returns: the last node is the one it pushed. *)
LEMMA ConnectPrevInv == ASSUME IInv, NEW o \in Streams, ConnectPrev(o) PROVE IInv'
<1>0. /\ proc_list \in Seq(Streams) /\ Len(proc_list) \in Nat /\ conn \in [Streams -> Conns]
      /\ handle \in [Streams -> Streams \union {NoNode}]
  BY DEF IInv, TypeOK
<1>1. /\ conn[o] = "pushed"
      /\ conn' = [conn EXCEPT ![o] = "open"]
      /\ UNCHANGED <<proc_list, running, text, os, sent>>
  BY DEF ConnectPrev
<1>2. proc_list # <<>> /\ Last(proc_list) = o
  BY <1>0, <1>1 DEF IInv, ListInv, Last
<1>3. handle' = [handle EXCEPT ![o] = o] /\ broken' = broken
  BY <1>2 DEF ConnectPrev
<1>4. /\ conn'[o] = "open" /\ handle'[o] = o
      /\ \A p \in Streams : p # o => conn'[p] = conn[p] /\ handle'[p] = handle[p]
  BY <1>0, <1>1, <1>3
<1>5. TypeOK'
  <2>1. conn' \in [Streams -> Conns] /\ handle' \in [Streams -> Streams \union {NoNode}]
    BY <1>0, <1>1, <1>3 DEF Conns
  <2> QED
    BY <1>1, <1>3, <2>1 DEF IInv, TypeOK
<1>6. BusyInv'
  BY <1>4 DEF IInv, BusyInv
<1>7. ListInv'
  BY <1>1, <1>4 DEF IInv, ListInv
<1>8. HandleInv'
  BY <1>1, <1>3, <1>4 DEF IInv, HandleInv
<1>9. TextInv'
  BY <1>1, <1>4 DEF IInv, TextInv
<1> QED
  BY <1>5, <1>6, <1>7, <1>8, <1>9 DEF IInv

(* receive: the text goes to the connection's own processor. *)
LEMMA receiveInv == ASSUME IInv, NEW o \in Streams, receive(o) PROVE IInv'
<1>0. /\ sent \in [Streams -> 0..MaxSends] /\ MaxSends \in Nat
      /\ text \in [Streams -> Seq(Streams)] /\ TypeOK
  BY MaxSendsAssumption DEF IInv, TypeOK
<1>1. /\ conn[o] = "open" /\ sent[o] < MaxSends
      /\ sent' = [sent EXCEPT ![o] = sent[o] + 1]
      /\ UNCHANGED <<proc_list, conn, handle, running, os>>
  BY DEF receive
<1>2. handle[o] = o /\ o \in Nodes /\ o \in running
  BY <1>0, <1>1, NodesAre DEF IInv, ListInv, HandleInv
<1>3. broken' = broken /\ text' = [text EXCEPT ![o] = Append(text[o], o)]
  BY <1>0, <1>2 DEF receive, TypeOK
<1>4. /\ sent'[o] = sent[o] + 1 /\ text'[o] = Append(text[o], o)
      /\ \A p \in Streams : p # o => sent'[p] = sent[p] /\ text'[p] = text[p]
  BY <1>0, <1>1, <1>3
<1>5. TypeOK'
  <2>1. sent' \in [Streams -> 0..MaxSends] /\ text' \in [Streams -> Seq(Streams)]
    BY <1>0, <1>1, <1>3
  <2> QED
    BY <1>0, <1>1, <1>3, <2>1 DEF TypeOK
<1>6. BusyInv'
  BY <1>1 DEF IInv, BusyInv
<1>7. ListInv'
  BY <1>1 DEF IInv, ListInv
<1>8. HandleInv'
  BY <1>1, <1>3 DEF IInv, HandleInv
<1>9. TextInv'
  <2>1. text'[o] = Own(o, sent'[o])
    <3>1. text[o] = Own(o, sent[o]) /\ sent[o] \in Nat
      BY <1>0, <1>1 DEF IInv, TextInv
    <3> QED
      BY <1>4, <3>1, OwnAppend
  <2> QED
    BY <1>1, <1>4, <2>1 DEF IInv, TextInv
<1> QED
  BY <1>5, <1>6, <1>7, <1>8, <1>9 DEF IInv

(* disconnect stops the connection's own processor, which writes it all. *)
LEMMA DisconnectStopInv ==
    ASSUME IInv, OneCaller, NEW o \in Streams, DisconnectStop(o)
    PROVE  IInv'
<1>0. /\ os \in [Streams -> Seq(Streams)] /\ text \in [Streams -> Seq(Streams)]
      /\ conn \in [Streams -> Conns] /\ TypeOK
  BY DEF IInv, TypeOK
<1>1. /\ conn[o] = "open" /\ Free(o)
      /\ conn' = [conn EXCEPT ![o] = "stopped"]
      /\ UNCHANGED <<proc_list, handle, text, sent>>
  BY DEF DisconnectStop
<1>2. handle[o] = o /\ o \in Nodes /\ o \in running
  BY <1>0, <1>1, NodesAre DEF IInv, ListInv, HandleInv
<1>3. /\ broken' = broken
      /\ running' = running \ {o}
      /\ os' = [os EXCEPT ![o] = text[o]]
  BY <1>0, <1>2 DEF DisconnectStop, TypeOK
<1>4. \A p \in Streams : conn[p] \notin {"pushed", "stopped"}
  BY <1>1, NobodyBusy
<1>5. /\ conn'[o] = "stopped" /\ os'[o] = text[o]
      /\ \A p \in Streams : p # o => conn'[p] = conn[p] /\ os'[p] = os[p]
  BY <1>0, <1>1, <1>3
<1>6. TypeOK'
  <2>1. conn' \in [Streams -> Conns] /\ os' \in [Streams -> Seq(Streams)]
    BY <1>0, <1>1, <1>3 DEF Conns
  <2> QED
    BY <1>0, <1>1, <1>3, <2>1 DEF TypeOK
<1>7. BusyInv'
  BY <1>4, <1>5 DEF BusyInv
<1>8. ListInv'
  BY <1>1, <1>5 DEF IInv, ListInv
<1>9. HandleInv'
  BY <1>1, <1>3, <1>5 DEF IInv, HandleInv
<1>10. TextInv'
  BY <1>1, <1>5 DEF IInv, TextInv
<1> QED
  BY <1>6, <1>7, <1>8, <1>9, <1>10 DEF IInv

(* disconnect erases the connection's own node. *)
LEMMA DisconnectEraseInv == ASSUME IInv, NEW o \in Streams, DisconnectErase(o) PROVE IInv'
<1>0. /\ proc_list \in Seq(Streams) /\ Len(proc_list) \in Nat
      /\ conn \in [Streams -> Conns] /\ TypeOK
  BY DEF IInv, TypeOK
<1>1. /\ conn[o] = "stopped"
      /\ conn' = [conn EXCEPT ![o] = "closed"]
      /\ UNCHANGED <<handle, running, text, os, sent>>
  BY DEF DisconnectErase
<1>2. handle[o] = o /\ o \in Nodes
  BY <1>0, <1>1, NodesAre DEF IInv, ListInv, HandleInv
<1>3. PICK i \in 1..Len(proc_list) :
          proc_list[i] = o /\ proc_list' = RemoveAt(proc_list, i) /\ broken' = broken
  BY <1>0, <1>2, SMTT(30) DEF DisconnectErase
<1>4. /\ proc_list' \in Seq(Streams) /\ Len(proc_list') = Len(proc_list) - 1
      /\ \A j \in 1..Len(proc_list') : proc_list'[j] = proc_list[IF j < i THEN j ELSE j + 1]
  BY <1>0, <1>3, RemoveAtFacts
<1>5. conn'[o] = "closed" /\ \A p \in Streams : p # o => conn'[p] = conn[p]
  BY <1>0, <1>1
<1>6. \A p \in Streams : conn'[p] # "pushed"
  BY <1>1, <1>5 DEF IInv, BusyInv
<1>7. TypeOK'
  <2>1. conn' \in [Streams -> Conns]
    BY <1>0, <1>1 DEF Conns
  <2> QED
    BY <1>0, <1>1, <1>3, <1>4, <2>1 DEF TypeOK
<1>8. BusyInv'
  BY <1>5 DEF IInv, BusyInv
<1>9. ListInv'
  <2>1. \A h, j \in 1..Len(proc_list) : proc_list[h] = proc_list[j] => h = j
    BY DEF IInv, ListInv
  <2>2. \A j \in 1..Len(proc_list') : (IF j < i THEN j ELSE j + 1) \in (1..Len(proc_list)) \ {i}
    BY <1>0, <1>4
  <2>3. ASSUME NEW h \in 1..Len(proc_list'), NEW j \in 1..Len(proc_list'),
               proc_list'[h] = proc_list'[j]
        PROVE  h = j
    <3>1. (IF h < i THEN h ELSE h + 1) = (IF j < i THEN j ELSE j + 1)
      BY <1>4, <2>1, <2>2, <2>3
    <3> QED
      BY <1>0, <1>4, <3>1
  <2>4. \A j \in 1..Len(proc_list') : proc_list'[j] # o
    BY <1>3, <1>4, <2>1, <2>2
  <2>5. ASSUME NEW p \in Streams, p # o
        PROVE  (\E j \in 1..Len(proc_list') : proc_list'[j] = p) <=>
                   \E j \in 1..Len(proc_list) : proc_list[j] = p
    <3>1. ASSUME NEW j \in 1..Len(proc_list), proc_list[j] = p
          PROVE  \E h \in 1..Len(proc_list') : proc_list'[h] = p
      <4>1. CASE j < i
        BY <1>0, <1>4, <3>1, <4>1
      <4>2. CASE j > i
        <5>1. j - 1 \in 1..Len(proc_list') /\ proc_list'[j - 1] = proc_list[j]
          BY <1>0, <1>4, <4>2
        <5> QED
          BY <3>1, <5>1
      <4> QED
        BY <1>3, <2>5, <3>1, <4>1, <4>2
    <3> QED
      BY <1>4, <2>2, <3>1
  <2>6. ASSUME NEW p \in Streams
        PROVE  conn'[p] \in {"pushed", "open", "stopped"} <=>
                   \E j \in 1..Len(proc_list') : proc_list'[j] = p
    <3>1. CASE p = o
      BY <1>5, <2>4, <3>1
    <3>2. CASE p # o
      BY <1>5, <2>5, <3>2 DEF IInv, ListInv
    <3> QED
      BY <3>1, <3>2
  <2> QED
    BY <1>6, <2>3, <2>6 DEF ListInv
<1>10. HandleInv'
  BY <1>1, <1>3, <1>5 DEF IInv, HandleInv
<1>11. TextInv'
  BY <1>1, <1>5 DEF IInv, TextInv
<1> QED
  BY <1>7, <1>8, <1>9, <1>10, <1>11 DEF IInv

-----------------------------------------------------------------------------
(* The inductive invariant of the list and its handles. *)
LEMMA Inductive == OneCaller => (Spec => []IInv)
<1> SUFFICES ASSUME OneCaller PROVE Spec => []IInv
  OBVIOUS
<1>1. ASSUME IInv, [Next]_vars PROVE IInv'
  <2>1. CASE Next
    BY <1>1, <2>1, ConnectPushInv, ConnectPrevInv, receiveInv, DisconnectStopInv,
       DisconnectEraseInv DEF Next
  <2>2. CASE UNCHANGED vars
    BY <1>1, <2>2 DEF vars, IInv, TypeOK, BusyInv, ListInv, HandleInv, TextInv
  <2> QED
    BY <1>1, <2>1, <2>2
<1> QED
  BY InitInv, <1>1, PTL DEF Spec

(* The types of the list, the connections and the streams. *)
THEOREM TypeCorrect ==
    ASSUME OneCaller
    PROVE  Spec => []TypeOK
<1>1. IInv => TypeOK
  BY DEF IInv
<1> QED
  BY Inductive, <1>1, PTL

(* With one thread no call uses a node that was erased, in whatever order  *)
(* it opens and closes its connections.                                    *)
THEOREM HandlesLive ==
    ASSUME OneCaller
    PROVE  Spec => []NoDanglingHandle
<1>1. IInv => NoDanglingHandle
  BY DEF IInv, HandleInv, NoDanglingHandle
<1> QED
  BY Inductive, <1>1, PTL

(* With one thread a closed connection's stream holds what was sent over   *)
(* this connection, all of it and nothing else.                            *)
THEOREM StreamsApart ==
    ASSUME OneCaller
    PROVE  Spec => []StreamIsOwn
<1>1. IInv => StreamIsOwn
  BY DEF IInv, TextInv, Own, StreamIsOwn
<1> QED
  BY Inductive, <1>1, PTL

(* The list does not leak: a connection that is closed has no node left.   *)
NodesAreConnections ==
    Nodes = {o \in Streams : conn[o] \in {"pushed", "open", "stopped"}}

(* The list of async.cpp does not leak: it holds the processors of the     *)
(* connections under way, and of no closed one.                            *)
THEOREM ListExact ==
    ASSUME OneCaller
    PROVE  Spec => []NodesAreConnections
<1>1. IInv => NodesAreConnections
  <2> SUFFICES ASSUME IInv PROVE NodesAreConnections
    OBVIOUS
  <2>1. \A o : o \in Nodes => o \in Streams
    BY NodesAre DEF IInv, TypeOK
  <2> QED
    BY <2>1, NodesAre DEF IInv, ListInv, NodesAreConnections
<1> QED
  BY Inductive, <1>1, PTL
=============================================================================
