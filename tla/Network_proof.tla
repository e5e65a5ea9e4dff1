---------------------------- MODULE Network_proof ----------------------------
(***************************************************************************)
(* Proofs about the network programs of MCNetwork: the room of the chat,   *)
(* for any number of clients, of messages and of recent messages; the      *)
(* chat's client, for any input; the servers that answer, for any number   *)
(* of connections and any division of what is sent into reads.             *)
(***************************************************************************)
EXTENDS MCNetwork, SequenceTheorems, WellFoundedInduction, TLAPS

(* One program runs; the variables of the others stay as they are. *)
LEMMA OneProgram ==
    ASSUME [Next]_vars
    PROVE  [Chat!Next]_chatVars /\ [Client!Next]_clientVars /\ [Http!Next]_httpVars
BY DEF Next, vars, ChatStep, ClientStep, SessionStep, HttpStep

(* A message moves from the front of one sequence to the end of another, ... *)
LEMMA FrontMoves ==
    ASSUME NEW s \in Seq(Nat), NEW m \in Nat, NEW t \in Seq(Nat)
    PROVE  Append(s, m) \o t = s \o (<<m>> \o t)
<1>1. <<m>> \in Seq(Nat)
  OBVIOUS
<1>2. Append(s, m) = s \o <<m>>
  BY AppendIsConcat
<1> QED
  BY <1>1, <1>2, ConcatAssociative

(* ... or comes to the end of the second of two. *)
LEMMA EndsSecond ==
    ASSUME NEW s \in Seq(Nat), NEW t \in Seq(Nat), NEW n \in Nat
    PROVE  s \o (t \o <<n>>) = Append(s \o t, n)
<1>1. <<n>> \in Seq(Nat) /\ s \o t \in Seq(Nat)
  BY ConcatProperties
<1>2. Append(s \o t, n) = (s \o t) \o <<n>>
  BY <1>1, AppendIsConcat
<1> QED
  BY <1>1, <1>2, ConcatAssociative, SMTT(30)

-----------------------------------------------------------------------------
(* The room: ChatServer.                                                   *)

RoomTypeOK ==
    /\ recent_msgs_ \in Seq(Nat)
    /\ write_msgs_ \in [Clients -> Seq(Nat)]
    /\ heard \in [Clients -> Seq(Nat)]
    /\ joined \in [Clients -> Nat]
    /\ delivered \in Nat

(* The room keeps the last messages it delivered. *)
RecentInv ==
    /\ delivered <= MaxMsgs
    /\ Len(recent_msgs_) = IF delivered > MaxRecent THEN MaxRecent ELSE delivered
    /\ \A i \in 1..Len(recent_msgs_) :
          recent_msgs_[i] = delivered - Len(recent_msgs_) + i

(* A write is under way only while its message is in the queue; a client   *)
(* that has not joined has nothing; what a client got is one stretch of    *)
(* the room's messages, up to the last while it is in the room.            *)
Got(c) == heard[c] \o write_msgs_[c]
First(c) == IF joined[c] > MaxRecent THEN joined[c] - MaxRecent + 1 ELSE 1
StretchInv ==
    \A c \in Clients :
        /\ c \in writing => write_msgs_[c] # <<>>
        /\ joined[c] = Chat!NotYet =>
            heard[c] = <<>> /\ write_msgs_[c] = <<>> /\ c \notin participants_
        /\ \A i \in 1..Len(Got(c)) : Got(c)[i] = First(c) + i - 1
        /\ c \in participants_ => First(c) + Len(Got(c)) - 1 = delivered

RoomInv == RoomTypeOK /\ RecentInv /\ StretchInv

(* At first the room is empty. *)
LEMMA RoomInit == Init => RoomInv
<1> SUFFICES ASSUME Chat!Init PROVE RoomInv
  BY DEF Init
<1> USE ChatAssumption DEF Chat!Init, Chat!NotYet
<1>1. RoomTypeOK
  <2>1. <<>> \in Seq(Nat)
    OBVIOUS
  <2> QED
    BY <2>1 DEF RoomTypeOK
<1>2. RecentInv
  BY DEF RecentInv
<1>3. \A c \in Clients : Got(c) = <<>>
  BY DEF Got
<1>4. StretchInv
  BY <1>3 DEF StretchInv
<1> QED
  BY <1>1, <1>2, <1>4 DEF RoomInv

(* What a client got is a sequence of numbers. *)
LEMMA GotType ==
    ASSUME RoomTypeOK, NEW c \in Clients
    PROVE  /\ heard[c] \in Seq(Nat) /\ write_msgs_[c] \in Seq(Nat)
           /\ Got(c) \in Seq(Nat) /\ Len(Got(c)) \in Nat /\ First(c) \in Nat
<1>1. heard[c] \in Seq(Nat) /\ write_msgs_[c] \in Seq(Nat) /\ joined[c] \in Nat
  BY DEF RoomTypeOK
<1>2. Got(c) \in Seq(Nat)
  BY <1>1, ConcatProperties DEF Got
<1>3. First(c) \in Nat
  BY <1>1, ChatAssumption DEF First
<1> QED
  BY <1>1, <1>2, <1>3

(* A client nothing happens to. *)
LEMMA ClientKept ==
    ASSUME StretchInv, NEW c \in Clients,
           heard'[c] = heard[c], write_msgs_'[c] = write_msgs_[c], joined'[c] = joined[c],
           c \in writing' => c \in writing,
           c \in participants_' => c \in participants_ /\ delivered' = delivered
    PROVE  /\ c \in writing' => write_msgs_'[c] # <<>>
           /\ joined'[c] = Chat!NotYet =>
                heard'[c] = <<>> /\ write_msgs_'[c] = <<>> /\ c \notin participants_'
           /\ \A i \in 1..Len(Got(c)') : Got(c)'[i] = First(c)' + i - 1
           /\ c \in participants_' => First(c)' + Len(Got(c)') - 1 = delivered'
<1>1. Got(c)' = Got(c) /\ First(c)' = First(c)
  BY DEF Got, First
<1> QED
  BY <1>1 DEF StretchInv

(* start: a client joins and is given the recent messages. *)
LEMMA JoinInv == ASSUME RoomInv, NEW c \in Clients, Chat!Join(c) PROVE RoomInv'
<1> USE ChatAssumption
<1>1. RoomTypeOK /\ RecentInv /\ StretchInv
  BY DEF RoomInv
<1>2. /\ joined[c] = Chat!NotYet /\ heard[c] = <<>> /\ write_msgs_[c] = <<>>
      /\ UNCHANGED <<recent_msgs_, delivered, heard>>
  BY <1>1 DEF Chat!Join, StretchInv
<1>3. /\ recent_msgs_ \in Seq(Nat) /\ delivered \in Nat
  BY <1>1 DEF RoomTypeOK
<1>4. /\ write_msgs_' = [d \in Clients |-> IF d = c THEN recent_msgs_ ELSE write_msgs_[d]]
      /\ joined' = [joined EXCEPT ![c] = delivered]
  <2>1. <<>> \o recent_msgs_ = recent_msgs_
    BY <1>3, ConcatEmptySeq
  <2> QED
    BY <1>2, <2>1 DEF Chat!Join, Chat!Deliver
<1>5. writing' = writing \union {d \in {c} : write_msgs_[d] = <<>> /\ recent_msgs_ # <<>>}
  BY DEF Chat!Join, Chat!Deliver
<1>6. participants_' = participants_ \union {c}
  BY DEF Chat!Join
<1>7. RoomTypeOK'
  BY <1>1, <1>2, <1>3, <1>4 DEF RoomTypeOK
<1>8. RecentInv'
  BY <1>1, <1>2 DEF RecentInv
<1>9. write_msgs_'[c] = recent_msgs_ /\ joined'[c] = delivered /\ heard'[c] = <<>>
  BY <1>1, <1>2, <1>4 DEF RoomTypeOK
<1>10. Got(c)' = recent_msgs_
  BY <1>3, <1>9, ConcatEmptySeq DEF Got
<1>11. First(c)' = IF delivered > MaxRecent THEN delivered - MaxRecent + 1 ELSE 1
  BY <1>9 DEF First
<1>12. /\ c \in writing' => write_msgs_'[c] # <<>>
       /\ joined'[c] # Chat!NotYet
       /\ \A i \in 1..Len(Got(c)') : Got(c)'[i] = First(c)' + i - 1
       /\ First(c)' + Len(Got(c)') - 1 = delivered'
  <2>1. c \in writing' => write_msgs_'[c] # <<>>
    BY <1>1, <1>2, <1>5, <1>9 DEF StretchInv
  <2>2. joined'[c] # Chat!NotYet
    BY <1>1, <1>3, <1>9 DEF RecentInv, Chat!NotYet
  <2>3. First(c)' + Len(recent_msgs_) - 1 = delivered
    BY <1>1, <1>3, <1>11 DEF RecentInv
  <2>4. Len(recent_msgs_) \in Nat /\ First(c)' \in Nat
    BY <1>3, <1>11
  <2>5. \A i \in 1..Len(recent_msgs_) : recent_msgs_[i] = First(c)' + i - 1
    <3>1. delivered - Len(recent_msgs_) = First(c)' - 1
      BY <1>3, <2>3, <2>4
    <3>2. \A i \in 1..Len(recent_msgs_) : recent_msgs_[i] = (delivered - Len(recent_msgs_)) + i
      BY <1>1 DEF RecentInv
    <3> QED
      BY <2>4, <3>1, <3>2
  <2> QED
    BY <1>2, <1>10, <2>1, <2>2, <2>3, <2>5
<1>13. \A d \in Clients \ {c} :
            /\ heard'[d] = heard[d] /\ write_msgs_'[d] = write_msgs_[d] /\ joined'[d] = joined[d]
            /\ d \in writing' => d \in writing
            /\ d \in participants_' => d \in participants_ /\ delivered' = delivered
  BY <1>1, <1>2, <1>4, <1>5, <1>6 DEF RoomTypeOK
<1>14. StretchInv'
  BY <1>1, <1>12, <1>13, ClientKept DEF StretchInv, Chat!NotYet
<1> QED
  BY <1>7, <1>8, <1>14 DEF RoomInv

(* A message at the end of a client's queue. *)
LEMMA GotAppend ==
    ASSUME RoomTypeOK, NEW c \in Clients, NEW n \in Nat,
           heard'[c] = heard[c], write_msgs_'[c] = write_msgs_[c] \o <<n>>
    PROVE  /\ write_msgs_'[c] # <<>> /\ write_msgs_'[c] \in Seq(Nat)
           /\ Len(Got(c)') = Len(Got(c)) + 1
           /\ \A i \in 1..Len(Got(c)) : Got(c)'[i] = Got(c)[i]
           /\ Got(c)'[Len(Got(c)) + 1] = n
<1>0. <<n>> \in Seq(Nat)
  OBVIOUS
<1>1. heard[c] \in Seq(Nat) /\ write_msgs_[c] \in Seq(Nat) /\ Got(c) \in Seq(Nat) /\ <<n>> \in Seq(Nat)
  BY <1>0, GotType
<1>2. Got(c)' = heard[c] \o (write_msgs_[c] \o <<n>>)
  BY DEF Got
<1>3. Got(c)' = Append(Got(c), n)
  BY <1>1, <1>2, EndsSecond DEF Got
<1>4. write_msgs_[c] \o <<n>> = Append(write_msgs_[c], n)
  BY <1>1, AppendIsConcat
<1>5. Append(write_msgs_[c], n) # <<>> /\ Append(write_msgs_[c], n) \in Seq(Nat)
  BY <1>1, AppendProperties
<1> QED
  BY <1>1, <1>3, <1>4, <1>5, AppendProperties

(* chat_room::deliver: the recent messages, and the queues of those in the *)
(* room.                                                                   *)
LEMMA ReadBodyInv == ASSUME RoomInv, NEW c \in Clients, Chat!ReadBody(c) PROVE RoomInv'
<1> USE ChatAssumption
<1> DEFINE n == delivered + 1
<1>1. RoomTypeOK /\ RecentInv /\ StretchInv
  BY DEF RoomInv
<1>2. /\ delivered \in Nat /\ n \in Nat /\ delivered' = n /\ n <= MaxMsgs
      /\ recent_msgs_ \in Seq(Nat) /\ Len(recent_msgs_) \in Nat
  BY <1>1 DEF Chat!ReadBody, RoomTypeOK
<1>3. /\ UNCHANGED <<participants_, heard, joined>>
      /\ recent_msgs_' = Chat!Newest(Append(recent_msgs_, n))
      /\ write_msgs_' = [d \in Clients |-> IF d \in participants_ THEN write_msgs_[d] \o <<n>>
                                           ELSE write_msgs_[d]]
      /\ writing' = writing \union {d \in participants_ : write_msgs_[d] = <<>> /\ <<n>> # <<>>}
  BY <1>2 DEF Chat!ReadBody, Chat!Deliver
<1> HIDE DEF n
<1>4. recent_msgs_' \in Seq(Nat) /\ RecentInv'
  <2> DEFINE msgs == Append(recent_msgs_, n)
  <2>1. /\ msgs \in Seq(Nat) /\ Len(msgs) = Len(recent_msgs_) + 1 /\ Len(msgs) \in Nat
        /\ \A i \in 1..Len(recent_msgs_) : msgs[i] = recent_msgs_[i]
        /\ msgs[Len(recent_msgs_) + 1] = n
    BY <1>2, AppendProperties
  <2> HIDE DEF msgs
  <2>2. \A i \in 1..Len(msgs) : msgs[i] = n - Len(msgs) + i
    <3> SUFFICES ASSUME NEW i \in 1..Len(msgs) PROVE msgs[i] = n - Len(msgs) + i
      OBVIOUS
    <3>1. CASE i \in 1..Len(recent_msgs_)
      BY <1>1, <1>2, <2>1, <3>1 DEF RecentInv, n
    <3>2. CASE i = Len(recent_msgs_) + 1
      BY <1>2, <2>1, <3>2
    <3> QED
      BY <1>2, <2>1, <3>1, <3>2
  <2>3. recent_msgs_' = IF Len(msgs) > MaxRecent THEN Tail(msgs) ELSE msgs
    BY <1>3 DEF msgs, Chat!Newest
  <2>4. CASE Len(msgs) > MaxRecent
    <3>1. /\ recent_msgs_' \in Seq(Nat) /\ Len(recent_msgs_') = Len(msgs) - 1
          /\ \A i \in 1..Len(recent_msgs_') : recent_msgs_'[i] = msgs[i + 1]
      <4>1. msgs # <<>>
        BY <1>2, <2>1
      <4> QED
        BY <2>1, <2>3, <2>4, <4>1, HeadTailProperties
    <3>2. Len(recent_msgs_) = MaxRecent /\ n > MaxRecent
      BY <1>1, <1>2, <2>1, <2>4 DEF RecentInv, n
    <3>3. \A i \in 1..Len(recent_msgs_') : i + 1 \in 1..Len(msgs)
      BY <2>1, <3>1
    <3>4. \A i \in 1..Len(recent_msgs_') : recent_msgs_'[i] = n - Len(recent_msgs_') + i
      BY <1>2, <2>1, <2>2, <3>1, <3>3
    <3> QED
      BY <1>2, <2>1, <3>1, <3>2, <3>4 DEF RecentInv
  <2>5. CASE ~(Len(msgs) > MaxRecent)
    <3>1. Len(recent_msgs_) = delivered /\ ~(n > MaxRecent) /\ Len(msgs) = n
      BY <1>1, <1>2, <2>1, <2>5 DEF RecentInv, n
    <3> QED
      BY <1>2, <2>1, <2>2, <2>3, <2>5, <3>1 DEF RecentInv
  <2> QED
    BY <2>4, <2>5
<1>5. ASSUME NEW d \in Clients, d \in participants_
      PROVE  /\ write_msgs_'[d] # <<>> /\ write_msgs_'[d] \in Seq(Nat)
             /\ joined'[d] # Chat!NotYet
             /\ \A i \in 1..Len(Got(d)') : Got(d)'[i] = First(d)' + i - 1
             /\ First(d)' + Len(Got(d)') - 1 = delivered'
  <2>1. heard'[d] = heard[d] /\ write_msgs_'[d] = write_msgs_[d] \o <<n>> /\ First(d)' = First(d)
    BY <1>3, <1>5 DEF First
  <2>2. joined[d] # Chat!NotYet
    BY <1>1, <1>5 DEF StretchInv
  <2>3. /\ Len(Got(d)) \in Nat /\ First(d) \in Nat /\ First(d) + Len(Got(d)) - 1 = delivered
        /\ \A i \in 1..Len(Got(d)) : Got(d)[i] = First(d) + i - 1
    BY <1>1, <1>5, GotType DEF StretchInv
  <2>4. /\ write_msgs_'[d] # <<>> /\ write_msgs_'[d] \in Seq(Nat)
        /\ Len(Got(d)') = Len(Got(d)) + 1
        /\ \A i \in 1..Len(Got(d)) : Got(d)'[i] = Got(d)[i]
        /\ Got(d)'[Len(Got(d)) + 1] = n
    BY <1>1, <1>2, <2>1, GotAppend
  <2>5. n = First(d) + Len(Got(d))
    BY <1>2, <2>3 DEF n
  <2>6. \A i \in 1..Len(Got(d)') : Got(d)'[i] = First(d) + i - 1
    <3> SUFFICES ASSUME NEW i \in 1..Len(Got(d)') PROVE Got(d)'[i] = First(d) + i - 1
      OBVIOUS
    <3>1. CASE i \in 1..Len(Got(d))
      BY <2>3, <2>4, <3>1
    <3>2. CASE i = Len(Got(d)) + 1
      BY <2>3, <2>4, <2>5, <3>2
    <3> QED
      BY <2>3, <2>4, <3>1, <3>2
  <2>7. First(d) + Len(Got(d)') - 1 = n
    BY <2>3, <2>4, <2>5
  <2> QED
    BY <1>2, <1>3, <2>1, <2>2, <2>4, <2>6, <2>7 DEF Chat!NotYet
<1>6. RoomTypeOK'
  <2>1. \A d \in Clients : write_msgs_'[d] \in Seq(Nat)
    BY <1>1, <1>3, <1>5 DEF RoomTypeOK
  <2>2. write_msgs_' \in [Clients -> Seq(Nat)]
    BY <1>3, <2>1
  <2> QED
    BY <1>1, <1>2, <1>3, <1>4, <2>2 DEF RoomTypeOK
<1>7. \A d \in Clients : d \notin participants_ =>
            /\ heard'[d] = heard[d] /\ write_msgs_'[d] = write_msgs_[d] /\ joined'[d] = joined[d]
            /\ d \in writing' => d \in writing
            /\ d \notin participants_'
  BY <1>3
<1>8. StretchInv'
  BY <1>1, <1>5, <1>7, ClientKept DEF StretchInv, Chat!NotYet
<1> QED
  BY <1>4, <1>6, <1>8 DEF RoomInv

(* do_write's handler: the front of the queue has been heard. *)
LEMMA WrittenInv == ASSUME RoomInv, NEW c \in Clients, Chat!Written(c) PROVE RoomInv'
<1>1. RoomTypeOK /\ RecentInv /\ StretchInv
  BY DEF RoomInv
<1> DEFINE q == write_msgs_[c]  m == Head(write_msgs_[c])
<1>2. /\ q \in Seq(Nat) /\ q # <<>> /\ heard[c] \in Seq(Nat)
      /\ m \in Nat /\ Tail(q) \in Seq(Nat) /\ Len(Tail(q)) = Len(q) - 1 /\ Len(q) \in Nat
  BY <1>1, GotType, HeadTailProperties DEF Chat!Written, StretchInv
<1>3. /\ UNCHANGED <<participants_, recent_msgs_, delivered, joined>>
      /\ heard' = [heard EXCEPT ![c] = Append(heard[c], m)]
      /\ write_msgs_' = [write_msgs_ EXCEPT ![c] = Tail(q)]
      /\ writing' = IF Len(q) > 1 THEN writing ELSE writing \ {c}
  BY DEF Chat!Written
<1>4. heard'[c] = Append(heard[c], m) /\ write_msgs_'[c] = Tail(q)
  BY <1>1, <1>3 DEF RoomTypeOK
<1>a. <<m>> \in Seq(Nat) /\ <<m>> \o Tail(q) = q
  BY <1>2
<1>b. Got(c) = heard[c] \o q
  BY DEF Got
<1> HIDE DEF q, m
<1>5. Got(c)' = Got(c)
  <2>1. Append(heard[c], m) \o Tail(q) = heard[c] \o (<<m>> \o Tail(q))
    BY <1>2, FrontMoves
  <2>2. Got(c)' = Append(heard[c], m) \o Tail(q)
    BY <1>4 DEF Got
  <2> QED
    BY <1>a, <1>b, <2>1, <2>2
<1>6. RoomTypeOK'
  <2>1. Append(heard[c], m) \in Seq(Nat)
    BY <1>2
  <2> QED
    BY <1>1, <1>2, <1>3, <2>1 DEF RoomTypeOK
<1>7. RecentInv'
  BY <1>1, <1>3 DEF RecentInv
<1>8. /\ c \in writing' => write_msgs_'[c] # <<>>
      /\ joined'[c] # Chat!NotYet
      /\ First(c)' = First(c)
  <2>1. c \in writing' => Len(Tail(q)) > 0
    BY <1>2, <1>3
  <2>2. joined[c] # Chat!NotYet
    BY <1>1, <1>2 DEF StretchInv, q
  <2>3. Tail(q) # <<>> \/ ~(Len(Tail(q)) > 0)
    <3>1. Len(<<>>) = 0 /\ ~(0 > 0)
      OBVIOUS
    <3> QED
      BY <3>1
  <2>4. First(c)' = First(c) /\ joined'[c] # Chat!NotYet
    BY <1>3, <2>2 DEF First
  <2> QED
    BY <1>4, <2>1, <2>3, <2>4
<1>9. \A d \in Clients \ {c} :
            /\ heard'[d] = heard[d] /\ write_msgs_'[d] = write_msgs_[d] /\ joined'[d] = joined[d]
            /\ d \in writing' => d \in writing
            /\ d \in participants_' => d \in participants_ /\ delivered' = delivered
  BY <1>1, <1>3 DEF RoomTypeOK
<1>10. StretchInv'
  BY <1>1, <1>3, <1>5, <1>8, <1>9, ClientKept DEF StretchInv, Chat!NotYet
<1> QED
  BY <1>6, <1>7, <1>10 DEF RoomInv

(* The inductive invariant of the room. *)
LEMMA RoomInductive == Spec => []RoomInv
<1>1. RoomInv /\ [Next]_vars => RoomInv'
  <2> SUFFICES ASSUME RoomInv, [Chat!Next]_chatVars PROVE RoomInv'
    BY OneProgram
  <2>1. ASSUME UNCHANGED <<recent_msgs_, write_msgs_, delivered, heard, joined>>,
               participants_' \subseteq participants_, writing' \subseteq writing
        PROVE  RoomInv'
    <3>1. RoomTypeOK' /\ RecentInv'
      BY <2>1 DEF RoomInv, RoomTypeOK, RecentInv
    <3>2. StretchInv'
      BY <2>1, ClientKept DEF RoomInv, StretchInv, Chat!NotYet
    <3> QED
      BY <3>1, <3>2 DEF RoomInv
  <2>2. CASE UNCHANGED chatVars
    BY <2>1, <2>2 DEF chatVars
  <2>3. ASSUME NEW c \in Clients,
               Chat!ReadHeader(c) \/ Chat!ReadFails(c) \/ Chat!WriteFails(c)
        PROVE  RoomInv'
    BY <2>1, <2>3 DEF Chat!ReadHeader, Chat!ReadFails, Chat!WriteFails
  <2> QED
    BY <2>2, <2>3, JoinInv, ReadBodyInv, WrittenInv DEF Chat!Next
<1> QED
  BY RoomInit, <1>1, PTL DEF Spec

(* The chat's room: what a client has heard and has yet to hear is one     *)
(* stretch of the room's messages, none left out, doubled or moved.        *)
THEOREM StretchesHeard == Spec => []HearsAStretch
<1>1. RoomInv => HearsAStretch
  <2> SUFFICES ASSUME RoomInv, NEW c \in Clients
               PROVE  /\ Got(c) = [i \in 1..Len(Got(c)) |-> First(c) + i - 1]
                      /\ c \in participants_ => First(c) + Len(Got(c)) - 1 = delivered
    BY DEF HearsAStretch, Chat!HearsAStretch, Got, First
  <2>1. Got(c) \in Seq(Nat)
    BY GotType DEF RoomInv
  <2>2. Got(c) = [i \in 1..Len(Got(c)) |-> Got(c)[i]]
    BY <2>1
  <2> QED
    BY <2>2 DEF RoomInv, StretchInv
<1> QED
  BY RoomInductive, <1>1, PTL

-----------------------------------------------------------------------------
(* The chat's client: ChatClient.                                          *)

OpStates == {"none", "pending", "ok", "failed"}

ClientTypeOK ==
    /\ lines \in Seq(Nat) /\ write_msgs \in Seq(Nat) /\ sent \in Seq(Nat)
    /\ posted \in Seq(Seq(Nat))
    /\ ops \in [Client!Operations -> OpStates]
    /\ headers \in Seq({max_body_length, -1}) /\ incoming \in Nat
    /\ shown \in Seq(Nat \X Int)

(* The lines are those sent, those in the queue and those posted, in this  *)
(* order; when main is `at' its end, the post of close may be the last.    *)
Closing == {"join", "returned"}

LinesAre(all, out, queue, post, at) ==
    /\ \A i \in 1..Len(out) : out[i] = all[i]
    /\ \A i \in 1..Len(queue) : queue[i] = all[Len(out) + i]
    /\ \A i \in 1..Len(post) :
        \/ post[i] = <<all[Len(out) + Len(queue) + i]>> /\ Len(out) + Len(queue) + i <= Len(all)
        \/ post[i] = <<>> /\ i = Len(post) /\ at \in Closing
    /\ Len(out) + Len(queue) <= Len(all)
    /\ at \notin Closing => Len(out) + Len(queue) + Len(post) = Len(all)

LinesInv ==
    /\ LinesAre(lines, sent, write_msgs, posted, main)
    /\ ops["write"] # "none" => write_msgs # <<>>

(* The socket is read by one operation at a time, which is for the first   *)
(* of the messages that are not shown.                                     *)
ShownInv ==
    /\ Len(shown) = Len(headers) - incoming
    /\ \A i \in 1..Len(shown) : shown[i] = <<i, headers[i]>> /\ headers[i] \in 0..max_body_length
    /\ ops["connect"] # "none" => ops["header"] = "none" /\ ops["body"] = "none"
    /\ ops["header"] # "none" => ops["body"] = "none"
    /\ ops["header"] = "ok" => incoming > 0
    /\ ops["body"] # "none" =>
        /\ incoming > 0
        /\ body_length = headers[Client!Reading] /\ body_length \in 0..max_body_length

ClientInv == ClientTypeOK /\ LinesInv /\ ShownInv

(* A line is entered, and posted. *)
LEMMA LineEntered ==
    ASSUME NEW l \in Seq(Nat), NEW s \in Seq(Nat), NEW w \in Seq(Nat), NEW p \in Seq(Seq(Nat)),
           NEW n \in Nat, NEW c, c \notin Closing, LinesAre(l, s, w, p, c)
    PROVE  LinesAre(Append(l, n), s, w, Append(p, <<n>>), c)
<1> DEFINE m == Append(l, n)
           q == Append(p, <<n>>)
<1>1. /\ Len(l) \in Nat /\ Len(s) \in Nat /\ Len(w) \in Nat /\ Len(p) \in Nat
      /\ <<n>> \in Seq(Nat)
  OBVIOUS
<1>2. /\ Len(m) = Len(l) + 1 /\ m[Len(l) + 1] = n
      /\ \A i \in 1..Len(l) : m[i] = l[i]
  BY AppendProperties
<1>3. /\ Len(q) = Len(p) + 1 /\ q[Len(p) + 1] = <<n>>
      /\ \A i \in 1..Len(p) : q[i] = p[i]
  BY <1>1, AppendProperties
<1>4. /\ \A i \in 1..Len(s) : s[i] = l[i]
      /\ \A i \in 1..Len(w) : w[i] = l[Len(s) + i]
      /\ \A i \in 1..Len(p) : p[i] = <<l[Len(s) + Len(w) + i]>> /\ Len(s) + Len(w) + i <= Len(l)
      /\ Len(s) + Len(w) + Len(p) = Len(l)
  BY DEF LinesAre
<1> HIDE DEF m, q
<1>5. \A i \in 1..Len(s) : s[i] = m[i]
  <2>1. \A i \in 1..Len(s) : i \in 1..Len(l)
    BY <1>1, <1>4
  <2> QED
    BY <1>2, <1>4, <2>1
<1>6. \A i \in 1..Len(w) : w[i] = m[Len(s) + i]
  <2>1. \A i \in 1..Len(w) : Len(s) + i \in 1..Len(l)
    BY <1>1, <1>4
  <2> QED
    BY <1>2, <1>4, <2>1
<1>7. ASSUME NEW i \in 1..Len(q)
      PROVE  q[i] = <<m[Len(s) + Len(w) + i]>> /\ Len(s) + Len(w) + i <= Len(m)
  <2>1. CASE i \in 1..Len(p)
    <3>1. Len(s) + Len(w) + i \in 1..Len(l)
      BY <1>1, <1>4, <2>1
    <3>2. q[i] = p[i] /\ m[Len(s) + Len(w) + i] = l[Len(s) + Len(w) + i]
      BY <1>2, <1>3, <2>1, <3>1
    <3>3. p[i] = <<l[Len(s) + Len(w) + i]>>
      BY <1>4, <2>1
    <3>4. Len(s) + Len(w) + i <= Len(m)
      BY <1>1, <1>2, <3>1
    <3> QED
      BY <3>2, <3>3, <3>4
  <2>2. CASE i = Len(p) + 1
    <3>1. Len(s) + Len(w) + i = Len(l) + 1
      <4>1. Len(s) + Len(w) + Len(p) = Len(l)
        BY <1>4
      <4> QED
        BY <1>1, <2>2, <4>1
    <3> QED
      BY <1>1, <1>2, <1>3, <2>2, <3>1
  <2>3. i \in 1..Len(p) \/ i = Len(p) + 1
    BY <1>1, <1>3
  <2> QED
    BY <2>1, <2>2, <2>3
<1>8. Len(s) + Len(w) <= Len(m) /\ Len(s) + Len(w) + Len(q) = Len(m)
  BY <1>1, <1>2, <1>3, <1>4
<1>9. LinesAre(m, s, w, q, c)
  BY <1>5, <1>6, <1>7, <1>8 DEF LinesAre
<1> QED
  BY <1>9 DEF m, q

(* The close is posted behind the lines. *)
LEMMA CloseBehind ==
    ASSUME NEW l \in Seq(Nat), NEW s \in Seq(Nat), NEW w \in Seq(Nat), NEW p \in Seq(Seq(Nat)),
           NEW c, NEW d, c \notin Closing, d \in Closing, LinesAre(l, s, w, p, c)
    PROVE  LinesAre(l, s, w, Append(p, <<>>), d)
<1> DEFINE q == Append(p, <<>>)
<1>1. /\ Len(l) \in Nat /\ Len(s) \in Nat /\ Len(w) \in Nat /\ Len(p) \in Nat
      /\ <<>> \in Seq(Nat)
  OBVIOUS
<1>2. /\ Len(q) = Len(p) + 1 /\ q[Len(p) + 1] = <<>>
      /\ \A i \in 1..Len(p) : q[i] = p[i]
  BY <1>1, AppendProperties
<1>3. /\ \A i \in 1..Len(s) : s[i] = l[i]
      /\ \A i \in 1..Len(w) : w[i] = l[Len(s) + i]
      /\ \A i \in 1..Len(p) : p[i] = <<l[Len(s) + Len(w) + i]>> /\ Len(s) + Len(w) + i <= Len(l)
      /\ Len(s) + Len(w) <= Len(l)
  BY DEF LinesAre
<1> HIDE DEF q
<1>4. ASSUME NEW i \in 1..Len(q)
      PROVE  \/ q[i] = <<l[Len(s) + Len(w) + i]>> /\ Len(s) + Len(w) + i <= Len(l)
             \/ q[i] = <<>> /\ i = Len(q)
  <2>1. CASE i \in 1..Len(p)
    <3>1. q[i] = p[i]
      BY <1>2, <2>1
    <3> QED
      BY <1>3, <2>1, <3>1
  <2>2. CASE i = Len(p) + 1
    BY <1>2, <2>2
  <2>3. i \in 1..Len(p) \/ i = Len(p) + 1
    BY <1>1, <1>2
  <2> QED
    BY <2>1, <2>2, <2>3
<1>5. LinesAre(l, s, w, q, d)
  BY <1>3, <1>4 DEF LinesAre
<1> QED
  BY <1>5 DEF q

(* The first line posted goes to the queue. *)
LEMMA PostTaken ==
    ASSUME NEW l \in Seq(Nat), NEW s \in Seq(Nat), NEW w \in Seq(Nat), NEW p \in Seq(Seq(Nat)),
           NEW c, LinesAre(l, s, w, p, c), p # <<>>, Head(p) # <<>>
    PROVE  Head(p)[1] \in Nat /\ LinesAre(l, s, Append(w, Head(p)[1]), Tail(p), c)
<1> DEFINE b == Len(s) + Len(w)
           v == Append(w, l[b + 1])
           q == Tail(p)
<1>1. /\ Len(l) \in Nat /\ Len(s) \in Nat /\ Len(w) \in Nat /\ Len(p) \in Nat /\ Len(p) >= 1
      /\ Head(p) = p[1]
  OBVIOUS
<1>2. p[1] = <<l[b + 1]>> /\ b + 1 <= Len(l)
  BY <1>1 DEF LinesAre
<1>3. Head(p)[1] = l[b + 1] /\ b + 1 \in 1..Len(l)
  BY <1>1, <1>2
<1>4. l[b + 1] \in Nat
  BY <1>3, ElementOfSeq
<1>5. /\ Len(v) = Len(w) + 1 /\ v[Len(w) + 1] = l[b + 1]
      /\ \A i \in 1..Len(w) : v[i] = w[i]
  BY <1>4, AppendProperties
<1>6. /\ Len(q) = Len(p) - 1
      /\ \A i \in 1..Len(q) : q[i] = p[i + 1]
  BY <1>1, HeadTailProperties
<1>7. /\ \A i \in 1..Len(s) : s[i] = l[i]
      /\ \A i \in 1..Len(w) : w[i] = l[Len(s) + i]
      /\ \A i \in 1..Len(p) : \/ p[i] = <<l[b + i]>> /\ b + i <= Len(l)
                              \/ p[i] = <<>> /\ i = Len(p) /\ c \in Closing
      /\ c \notin Closing => b + Len(p) = Len(l)
  BY DEF LinesAre
<1>8. Len(s) + Len(v) = b + 1
  BY <1>1, <1>5
<1> HIDE DEF v, q
<1>9. ASSUME NEW i \in 1..Len(v)
      PROVE  v[i] = l[Len(s) + i]
  <2>1. CASE i \in 1..Len(w)
    BY <1>5, <1>7, <2>1
  <2>2. CASE i = Len(w) + 1
    BY <1>1, <1>5, <2>2
  <2>3. i \in 1..Len(w) \/ i = Len(w) + 1
    <3> DEFINE n == Len(w)
    <3>1. n \in Nat /\ i \in 1..(n + 1)
      BY <1>1, <1>5
    <3> HIDE DEF n
    <3>2. i \in 1..n \/ i = n + 1
      BY <3>1
    <3> QED
      BY <3>2 DEF n
  <2> QED
    BY <2>1, <2>2, <2>3
<1>10. ASSUME NEW i \in 1..Len(q)
       PROVE  \/ q[i] = <<l[b + 1 + i]>> /\ b + 1 + i <= Len(l)
              \/ q[i] = <<>> /\ i = Len(q) /\ c \in Closing
  <2>1. i + 1 \in 1..Len(p) /\ b + (i + 1) = b + 1 + i /\ (i + 1 = Len(p) <=> i = Len(q))
    BY <1>1, <1>6
  <2>2. q[i] = p[i + 1]
    BY <1>6
  <2> HIDE DEF b
  <2> QED
    BY <1>7, <2>1, <2>2
<1>11. b + 1 <= Len(l) /\ (c \notin Closing => b + 1 + Len(q) = Len(l))
  <2>1. Len(q) = Len(p) - 1 /\ b + 1 <= Len(l)
    BY <1>2, <1>6
  <2>2. c \notin Closing => b + Len(p) = Len(l)
    BY <1>7
  <2>3. b + Len(p) = Len(l) => b + 1 + Len(q) = Len(l)
    <3> DEFINE n == Len(p)
               k == Len(q)
               m == Len(l)
    <3>1. b \in Nat /\ n \in Nat /\ m \in Nat /\ k = n - 1
      BY <1>1, <2>1
    <3> HIDE DEF b, n, k, m
    <3>2. b + n = m => b + 1 + k = m
      BY <3>1
    <3> QED
      BY <3>2 DEF n, k, m
  <2> HIDE DEF b
  <2> QED
    BY <2>1, <2>2, <2>3, Zenon
<1>12. LinesAre(l, s, v, q, c)
  <2> HIDE DEF b
  <2> QED
    BY <1>7, <1>8, <1>9, <1>10, <1>11 DEF LinesAre
<1> QED
  BY <1>3, <1>4, <1>12 DEF v, q

(* The close is taken, and there is nothing behind it. *)
LEMMA CloseTaken ==
    ASSUME NEW l \in Seq(Nat), NEW s \in Seq(Nat), NEW w \in Seq(Nat), NEW p \in Seq(Seq(Nat)),
           NEW c, LinesAre(l, s, w, p, c), p # <<>>, Head(p) = <<>>
    PROVE  LinesAre(l, s, w, Tail(p), c)
<1>1. /\ Len(p) \in Nat /\ Len(p) >= 1 /\ Head(p) = p[1]
      /\ Len(Tail(p)) = Len(p) - 1
  OBVIOUS
<1>2. p[1] = <<>> /\ 1 \in 1..Len(p)
  BY <1>1
<1>3. Len(p) = 1 /\ c \in Closing
  <2>1. p[1] # <<l[Len(s) + Len(w) + 1]>>
    BY <1>2
  <2> QED
    BY <1>2, <2>1 DEF LinesAre
<1>4. Len(Tail(p)) = 0
  BY <1>1, <1>3
<1>5. \A i \in 1..Len(Tail(p)) : FALSE
  <2>1. 1..0 = {}
    OBVIOUS
  <2> QED
    BY <1>4, <2>1
<1>6. /\ \A i \in 1..Len(s) : s[i] = l[i]
      /\ \A i \in 1..Len(w) : w[i] = l[Len(s) + i]
      /\ Len(s) + Len(w) <= Len(l)
  BY DEF LinesAre
<1> QED
  BY <1>3, <1>5, <1>6 DEF LinesAre

(* The first line of the queue is written. *)
LEMMA LineWritten ==
    ASSUME NEW l \in Seq(Nat), NEW s \in Seq(Nat), NEW w \in Seq(Nat), NEW p \in Seq(Seq(Nat)),
           NEW c, LinesAre(l, s, w, p, c), w # <<>>
    PROVE  LinesAre(l, Append(s, Head(w)), Tail(w), p, c)
<1> DEFINE t == Append(s, Head(w))
           v == Tail(w)
<1>1. /\ Len(l) \in Nat /\ Len(s) \in Nat /\ Len(w) \in Nat /\ Len(p) \in Nat /\ Len(w) >= 1
      /\ Head(w) = w[1] /\ Head(w) \in Nat
  OBVIOUS
<1>2. /\ Len(t) = Len(s) + 1 /\ t[Len(s) + 1] = w[1]
      /\ \A i \in 1..Len(s) : t[i] = s[i]
  BY <1>1, AppendProperties
<1>3. /\ Len(v) = Len(w) - 1
      /\ \A i \in 1..Len(v) : v[i] = w[i + 1]
  BY <1>1, HeadTailProperties
<1>4. /\ \A i \in 1..Len(s) : s[i] = l[i]
      /\ \A i \in 1..Len(w) : w[i] = l[Len(s) + i]
  BY DEF LinesAre
<1>5. Len(t) + Len(v) = Len(s) + Len(w)
  BY <1>1, <1>2, <1>3
<1> HIDE DEF t, v
<1>6. ASSUME NEW i \in 1..Len(t)
      PROVE  t[i] = l[i]
  <2>1. CASE i \in 1..Len(s)
    BY <1>2, <1>4, <2>1
  <2>2. CASE i = Len(s) + 1
    BY <1>1, <1>2, <1>4, <2>2
  <2> QED
    BY <1>1, <1>2, <2>1, <2>2
<1>7. ASSUME NEW i \in 1..Len(v)
      PROVE  v[i] = l[Len(t) + i]
  <2>1. i + 1 \in 1..Len(w) /\ Len(s) + (i + 1) = Len(t) + i
    BY <1>1, <1>2, <1>3
  <2>2. w[i + 1] = l[Len(s) + (i + 1)]
    BY <1>4, <2>1
  <2> QED
    BY <1>3, <2>1, <2>2
<1>8. LinesAre(l, t, v, p, c)
  BY <1>5, <1>6, <1>7 DEF LinesAre
<1> QED
  BY <1>8 DEF t, v

(* At first the client has read and sent nothing. *)
LEMMA ClientInit == Init => ClientInv
<1> SUFFICES ASSUME Client!Init PROVE ClientInv
  BY DEF Init
<1> USE DEF Client!Init, Client!Operations
<1>1. ClientTypeOK
  <2>1. <<>> \in Seq(Nat) /\ <<>> \in Seq({max_body_length, -1})
    OBVIOUS
  <2>2. <<>> \in Seq(Seq(Nat)) /\ <<>> \in Seq(Nat \X Int)
    OBVIOUS
  <2>3. ops \in [Client!Operations -> OpStates]
    BY DEF OpStates
  <2> QED
    BY <2>1, <2>2, <2>3 DEF ClientTypeOK
<1>2. LinesInv
  BY DEF LinesInv, LinesAre
<1>3. ShownInv
  BY DEF ShownInv
<1> QED
  BY <1>1, <1>2, <1>3 DEF ClientInv

(* What was read stays as it is. *)
LEMMA ShownKept ==
    ASSUME ShownInv, UNCHANGED <<shown, headers, incoming, body_length>>,
           \A o \in {"connect", "header", "body"} : ops'[o] = "none" \/ ops'[o] = ops[o]
    PROVE  ShownInv'
BY DEF ShownInv, Client!Reading

(* The lines stay where they are, and main is not before its close. *)
LEMMA LinesKept ==
    ASSUME LinesInv, UNCHANGED <<lines, posted, sent, write_msgs>>, main' \in Closing <=> main \in Closing,
           ops'["write"] = "none" \/ ops["write"] # "none"
    PROVE  LinesInv'
BY DEF LinesInv, LinesAre

(* getline and post: a line is its length, which its header can say. *)
LEMMA GetLineInv == ASSUME ClientInv, Client!GetLine PROVE ClientInv'
<1> USE ClientAssumption
<1>1. ClientTypeOK /\ LinesInv /\ ShownInv
  BY DEF ClientInv
<1>2. /\ main = "input" /\ main' \in {"input", "close"}
      /\ UNCHANGED <<running, socket, ops, write_msgs, body_length, incoming, sent, headers, shown>>
  BY DEF Client!GetLine, Client!history
<1>3. ShownInv'
  BY <1>1, <1>2, ShownKept
<1>4. main \notin Closing /\ main' \notin Closing
  BY <1>2 DEF Closing
<1>5. CASE UNCHANGED <<lines, posted>>
  <2>1. LinesInv'
    BY <1>1, <1>2, <1>4, <1>5, LinesKept
  <2> QED
    BY <1>1, <1>2, <1>3, <1>5, <2>1 DEF ClientInv, ClientTypeOK
<1>6. ASSUME NEW n \in 0..max_body_length,
             lines' = Append(lines, n),
             posted' = Append(posted, <<Client!encode_header(Client!clipped(n))>>)
      PROVE  ClientInv'
  <2>1. Client!encode_header(Client!clipped(n)) = n
    BY DEF Client!encode_header, Client!clipped
  <2>2. n \in Nat /\ <<n>> \in Seq(Nat) /\ posted' = Append(posted, <<n>>)
    BY <1>6, <2>1
  <2>3. lines' \in Seq(Nat) /\ posted' \in Seq(Seq(Nat))
    BY <1>1, <1>6, <2>2, AppendProperties DEF ClientTypeOK
  <2>4. LinesAre(lines', sent, write_msgs, posted', main)
    <3>1. LinesAre(lines, sent, write_msgs, posted, main)
      BY <1>1, <1>4 DEF LinesInv
    <3> QED
      BY <1>1, <1>4, <1>6, <2>2, <3>1, LineEntered DEF ClientTypeOK
  <2>5. LinesInv'
    BY <1>1, <1>2, <1>4, <2>4 DEF LinesInv, LinesAre
  <2> QED
    BY <1>1, <1>2, <1>3, <2>3, <2>5 DEF ClientInv, ClientTypeOK
<1> QED
  BY <1>5, <1>6 DEF Client!GetLine

(* close is posted behind the lines. *)
LEMMA CloseInv == ASSUME ClientInv, Client!Close PROVE ClientInv'
<1>1. ClientTypeOK /\ LinesInv /\ ShownInv
  BY DEF ClientInv
<1>2. /\ main = "close" /\ main' = "join" /\ posted' = Append(posted, <<>>)
      /\ UNCHANGED <<lines, running, socket, ops, write_msgs, body_length, incoming, sent, headers, shown>>
  BY DEF Client!Close, Client!history
<1>3. posted' \in Seq(Seq(Nat))
  <2>1. <<>> \in Seq(Nat)
    OBVIOUS
  <2> QED
    BY <1>1, <1>2, <2>1, AppendProperties DEF ClientTypeOK
<1>4. main \notin Closing /\ main' \in Closing
  BY <1>2 DEF Closing
<1>5. LinesInv'
  <2>1. LinesAre(lines, sent, write_msgs, posted, main)
    BY <1>1, <1>4 DEF LinesInv
  <2>2. LinesAre(lines, sent, write_msgs, Append(posted, <<>>), main')
    BY <1>1, <1>4, <2>1, CloseBehind DEF ClientTypeOK
  <2> QED
    BY <1>1, <1>2, <1>4, <2>2 DEF LinesInv
<1>6. ShownInv'
  BY <1>1, <1>2, ShownKept
<1> QED
  BY <1>1, <1>2, <1>3, <1>5, <1>6 DEF ClientInv, ClientTypeOK

(* The server sends a message behind those that are there. *)
LEMMA ServeInv == ASSUME ClientInv, Client!Serve PROVE ClientInv'
<1> USE ClientAssumption
<1>1. ClientTypeOK /\ LinesInv /\ ShownInv
  BY DEF ClientInv
<1>2. PICK h \in {max_body_length, -1} : headers' = Append(headers, h)
  BY DEF Client!Serve
<1>3. /\ incoming' = incoming + 1
      /\ UNCHANGED <<main, lines, posted, running, socket, ops, write_msgs, body_length, sent, shown>>
  BY DEF Client!Serve, Client!mainVars
<1>4. /\ Len(headers) \in Nat /\ incoming \in Nat /\ Len(shown) \in Nat
      /\ Len(shown) = Len(headers) - incoming
  BY <1>1 DEF ClientTypeOK, ShownInv
<1>5. /\ headers' \in Seq({max_body_length, -1}) /\ Len(headers') = Len(headers) + 1
      /\ \A i \in 1..Len(headers) : headers'[i] = headers[i]
  BY <1>1, <1>2, AppendProperties DEF ClientTypeOK
<1>6. ClientTypeOK'
  BY <1>1, <1>3, <1>4, <1>5 DEF ClientTypeOK
<1>7. LinesInv'
  BY <1>1, <1>3, LinesKept
<1>8. Client!Reading' = Client!Reading
  BY <1>3, <1>4, <1>5 DEF Client!Reading
<1>9. incoming > 0 => Client!Reading \in 1..Len(headers)
  BY <1>4 DEF Client!Reading
<1>10. \A i \in 1..Len(shown) : i \in 1..Len(headers)
  BY <1>4
<1>11. Len(shown) = Len(headers') - incoming' /\ (incoming > 0 => incoming' > 0)
  BY <1>3, <1>4, <1>5
<1>12. \A i \in 1..Len(shown) : shown[i] = <<i, headers'[i]>> /\ headers'[i] \in 0..max_body_length
  BY <1>1, <1>5, <1>10 DEF ShownInv
<1>13. ops["body"] # "none" => body_length = headers'[Client!Reading] /\ body_length \in 0..max_body_length
  BY <1>1, <1>5, <1>9 DEF ShownInv
<1>14. ShownInv'
  BY <1>1, <1>3, <1>8, <1>11, <1>12, <1>13 DEF ShownInv
<1> QED
  BY <1>6, <1>7, <1>14 DEF ClientInv

(* The network completes an operation, or fails it. *)
LEMMA CompleteInv ==
    ASSUME ClientInv, NEW o \in Client!Operations, Client!Complete(o)
    PROVE  ClientInv'
<1>1. ClientTypeOK /\ LinesInv /\ ShownInv
  BY DEF ClientInv
<1>2. UNCHANGED <<main, lines, posted, running, write_msgs, body_length, incoming, sent, headers, shown>>
  BY DEF Client!Complete, Client!mainVars, Client!history
<1>3. PICK r \in {"ok", "failed"} :
         /\ ops' = [ops EXCEPT ![o] = r]
         /\ r = "ok" /\ o \in {"header", "body"} => incoming > 0
  BY DEF Client!Complete
<1>4. ops[o] = "pending"
  BY DEF Client!Complete
<1>5. ops \in [Client!Operations -> OpStates]
  BY <1>1 DEF ClientTypeOK
<1>6. ops' \in [Client!Operations -> OpStates]
  BY <1>3, <1>5 DEF OpStates
<1>7. ASSUME NEW p \in Client!Operations
      PROVE  /\ ops'[p] = IF p = o THEN r ELSE ops[p]
             /\ (ops'[p] = "none" <=> ops[p] = "none")
  BY <1>3, <1>4, <1>5
<1>8. ClientTypeOK'
  BY <1>1, <1>2, <1>6 DEF ClientTypeOK
<1>9. LinesInv'
  BY <1>1, <1>2, <1>7, LinesKept DEF Client!Operations
<1>10. ops'["header"] = "ok" => incoming > 0
  BY <1>1, <1>3, <1>7 DEF ShownInv, Client!Operations
<1>11. ShownInv'
  BY <1>1, <1>2, <1>7, <1>10 DEF ShownInv, Client!Operations, Client!Reading
<1> QED
  BY <1>8, <1>9, <1>11 DEF ClientInv

(* An operation is done, and others are started. *)
LEMMA ThenType ==
    ASSUME ops \in [Client!Operations -> OpStates], NEW o, NEW next, Client!Then(o, next)
    PROVE  /\ ops' \in [Client!Operations -> OpStates]
           /\ \A p \in Client!Operations :
                ops'[p] = IF p \in next THEN "pending" ELSE IF p = o THEN "none" ELSE ops[p]
BY DEF Client!Then, OpStates

(* A handler that only ends operations, and leaves the lines. *)
LEMMA OnlyEnds ==
    ASSUME ClientInv, NEW o, Client!Then(o, {}), main' \in Closing <=> main \in Closing,
           UNCHANGED <<lines, posted, write_msgs, sent, shown, headers, incoming>>,
           ops["body"] = "none" \/ UNCHANGED body_length
    PROVE  ClientInv'
<1>1. ClientTypeOK /\ LinesInv /\ ShownInv
  BY DEF ClientInv
<1>2. /\ ops' \in [Client!Operations -> OpStates]
      /\ \A p \in Client!Operations : ops'[p] = IF p = o THEN "none" ELSE ops[p]
  BY <1>1, ThenType DEF ClientTypeOK
<1>3. ClientTypeOK'
  BY <1>1, <1>2 DEF ClientTypeOK
<1>4. LinesInv'
  BY <1>1, <1>2, LinesKept DEF Client!Operations
<1>5. CASE UNCHANGED body_length
  <2>1. ShownInv'
    BY <1>1, <1>2, <1>5, ShownKept DEF Client!Operations
  <2> QED
    BY <1>3, <1>4, <2>1 DEF ClientInv
<1>6. CASE ops["body"] = "none"
  <2>1. ops'["body"] = "none"
    BY <1>2, <1>6 DEF Client!Operations
  <2>2. ShownInv'
    BY <1>1, <1>2, <2>1 DEF ShownInv, Client!Operations
  <2> QED
    BY <1>3, <1>4, <2>2 DEF ClientInv
<1> QED
  BY <1>5, <1>6

(* The first post is a message. *)
LEMMA WritePostedInv == ASSUME ClientInv, Client!WritePosted PROVE ClientInv'
<1>1. ClientTypeOK /\ LinesInv /\ ShownInv
  BY DEF ClientInv
<1>2. /\ posted # <<>> /\ Head(posted) # <<>>
      /\ posted' = Tail(posted) /\ write_msgs' = Append(write_msgs, Head(posted)[1])
      /\ UNCHANGED <<main, lines, running, socket, body_length, incoming, sent, headers, shown>>
  BY DEF Client!WritePosted, Client!mainVars, Client!history
<1>3. Head(posted)[1] \in Nat /\ LinesAre(lines, sent, write_msgs', posted', main)
  BY <1>1, <1>2, PostTaken DEF ClientTypeOK, LinesInv
<1>4. PICK next \in SUBSET {"write"} : Client!Then("none", next)
  BY DEF Client!WritePosted
<1>5. /\ ops' \in [Client!Operations -> OpStates]
      /\ \A p \in {"connect", "header", "body"} : ops'[p] = ops[p]
  BY <1>1, <1>4, ThenType DEF ClientTypeOK, Client!Operations
<1>6. posted' \in Seq(Seq(Nat)) /\ write_msgs' \in Seq(Nat) /\ write_msgs' # <<>>
  <2>1. posted' \in Seq(Seq(Nat))
    BY <1>1, <1>2, HeadTailProperties DEF ClientTypeOK
  <2>2. write_msgs' \in Seq(Nat) /\ write_msgs' # <<>>
    BY <1>1, <1>2, <1>3, AppendProperties, SMTT(30) DEF ClientTypeOK
  <2> QED
    BY <2>1, <2>2
<1>7. ClientTypeOK'
  BY <1>1, <1>2, <1>5, <1>6 DEF ClientTypeOK
<1>8. LinesInv'
  BY <1>2, <1>3, <1>6 DEF LinesInv
<1>9. ShownInv'
  BY <1>1, <1>2, <1>5, ShownKept
<1> QED
  BY <1>7, <1>8, <1>9 DEF ClientInv

(* The first post is the close. *)
LEMMA ClosePostedInv == ASSUME ClientInv, Client!ClosePosted PROVE ClientInv'
<1>1. ClientTypeOK /\ LinesInv /\ ShownInv
  BY DEF ClientInv
<1>2. /\ posted # <<>> /\ Head(posted) = <<>> /\ posted' = Tail(posted)
      /\ UNCHANGED <<main, lines, running, ops, write_msgs, body_length, incoming, sent, headers, shown>>
  BY DEF Client!ClosePosted, Client!mainVars, Client!history
<1>3. LinesAre(lines, sent, write_msgs, posted', main)
  BY <1>1, <1>2, CloseTaken DEF ClientTypeOK, LinesInv
<1>4. posted' \in Seq(Seq(Nat))
  BY <1>1, <1>2, HeadTailProperties DEF ClientTypeOK
<1>5. ClientTypeOK'
  BY <1>1, <1>2, <1>4 DEF ClientTypeOK
<1>6. LinesInv'
  BY <1>1, <1>2, <1>3 DEF LinesInv
<1>7. ShownInv'
  BY <1>1, <1>2, ShownKept
<1> QED
  BY <1>5, <1>6, <1>7 DEF ClientInv

(* The socket is connected, and the first header is read. *)
LEMMA ConnectedInv == ASSUME ClientInv, Client!Connected PROVE ClientInv'
<1>1. ClientTypeOK /\ LinesInv /\ ShownInv
  BY DEF ClientInv
<1>2. /\ ops["connect"] = "ok" /\ Client!Then("connect", {"header"})
      /\ UNCHANGED <<main, lines, posted, running, socket, write_msgs, body_length, incoming, sent, headers, shown>>
  BY DEF Client!Connected, Client!mainVars, Client!history
<1>3. /\ ops' \in [Client!Operations -> OpStates]
      /\ ops'["connect"] = "none" /\ ops'["header"] = "pending"
      /\ ops'["body"] = ops["body"] /\ ops'["write"] = ops["write"]
  <2>1. /\ ops' \in [Client!Operations -> OpStates]
        /\ \A p \in Client!Operations :
             ops'[p] = IF p \in {"header"} THEN "pending" ELSE IF p = "connect" THEN "none" ELSE ops[p]
    BY <1>1, <1>2, ThenType DEF ClientTypeOK
  <2>2. {"connect", "header", "body", "write"} = Client!Operations
    BY DEF Client!Operations
  <2> QED
    BY <1>1, <1>2, <2>1, <2>2
<1>4. ClientTypeOK'
  BY <1>1, <1>2, <1>3 DEF ClientTypeOK
<1>5. LinesInv'
  BY <1>1, <1>2, <1>3, LinesKept
<1>6. ops["body"] = "none"
  BY <1>1, <1>2 DEF ShownInv
<1>7. ShownInv'
  BY <1>1, <1>2, <1>3, <1>6 DEF ShownInv
<1> QED
  BY <1>4, <1>5, <1>7 DEF ClientInv

(* A header is read: its body is next, or it is not well-formed. *)
LEMMA ReadHeaderInv == ASSUME ClientInv, Client!ReadHeader PROVE ClientInv'
<1> USE ClientAssumption
<1>1. ClientTypeOK /\ LinesInv /\ ShownInv
  BY DEF ClientInv
<1>2. /\ ops["header"] = "ok"
      /\ UNCHANGED <<main, lines, posted, running, write_msgs, incoming, sent, headers, shown>>
  BY DEF Client!ReadHeader, Client!mainVars, Client!history
<1>3. ops["connect"] = "none" /\ ops["body"] = "none" /\ incoming > 0
  BY <1>1, <1>2 DEF ShownInv
<1>4. CASE Client!Then("header", {})
  BY <1>2, <1>3, <1>4, OnlyEnds
<1>5. CASE /\ Client!Then("header", {"body"})
           /\ body_length' = headers[Client!Reading] /\ Client!decode_header(headers[Client!Reading])
  <2>1. /\ ops' \in [Client!Operations -> OpStates]
        /\ ops'["connect"] = "none" /\ ops'["header"] = "none"
        /\ ops'["body"] = "pending" /\ ops'["write"] = ops["write"]
    <3>1. /\ ops' \in [Client!Operations -> OpStates]
          /\ \A p \in Client!Operations :
               ops'[p] = IF p \in {"body"} THEN "pending" ELSE IF p = "header" THEN "none" ELSE ops[p]
      BY <1>1, <1>3, <1>5, ThenType DEF ClientTypeOK
    <3>2. {"connect", "header", "body", "write"} = Client!Operations
      BY DEF Client!Operations
    <3> QED
      BY <1>1, <1>3, <1>5, <3>1, <3>2
  <2>2. headers[Client!Reading] \in {max_body_length, -1}
    <3>1. Client!Reading \in 1..Len(headers)
      <4>1. Len(headers) \in Nat /\ incoming \in Nat /\ Len(shown) \in Nat /\ Len(shown) = Len(headers) - incoming
        BY <1>1 DEF ClientTypeOK, ShownInv
      <4> QED
        BY <1>3, <4>1 DEF Client!Reading
    <3> QED
      BY <1>1, <3>1, ElementOfSeq DEF ClientTypeOK
  <2>3. headers[Client!Reading] # -1
    <3>1. (-1) % Wrap = Wrap - 1
      OBVIOUS
    <3>2. ~((-1) % Wrap <= max_body_length)
      BY <3>1
    <3> QED
      BY <1>5, <3>2 DEF Client!decode_header
  <2>4. body_length' \in 0..max_body_length
    BY <1>5, <2>2, <2>3
  <2>5. Client!Reading' = Client!Reading
    BY <1>2 DEF Client!Reading
  <2>6. ClientTypeOK'
    BY <1>1, <1>2, <2>1 DEF ClientTypeOK
  <2>7. LinesInv'
    BY <1>1, <1>2, <2>1, LinesKept
  <2>8. ShownInv'
    BY <1>1, <1>2, <1>3, <1>5, <2>1, <2>4, <2>5 DEF ShownInv
  <2> QED
    BY <2>6, <2>7, <2>8 DEF ClientInv
<1> QED
  BY <1>4, <1>5 DEF Client!ReadHeader

(* A body is read and shown: it is the one behind those that were. *)
LEMMA ReadBodyShown == ASSUME ClientInv, Client!ReadBody PROVE ClientInv'
<1> USE ClientAssumption
<1>1. ClientTypeOK /\ LinesInv /\ ShownInv
  BY DEF ClientInv
<1>2. /\ ops["body"] = "ok" /\ Client!Then("body", {"header"})
      /\ shown' = Append(shown, <<Client!Reading, body_length>>)
      /\ incoming' = incoming - 1
      /\ UNCHANGED <<main, lines, posted, running, socket, write_msgs, body_length, sent, headers>>
  BY DEF Client!ReadBody, Client!mainVars
<1>3. /\ ops' \in [Client!Operations -> OpStates]
      /\ ops'["connect"] = ops["connect"] /\ ops'["header"] = "pending"
      /\ ops'["body"] = "none" /\ ops'["write"] = ops["write"]
  <2>1. /\ ops' \in [Client!Operations -> OpStates]
        /\ \A p \in Client!Operations :
             ops'[p] = IF p \in {"header"} THEN "pending" ELSE IF p = "body" THEN "none" ELSE ops[p]
    BY <1>1, <1>2, ThenType DEF ClientTypeOK
  <2>2. {"connect", "header", "body", "write"} = Client!Operations
    BY DEF Client!Operations
  <2> QED
    BY <1>1, <1>2, <2>1, <2>2
<1>4. /\ ops["connect"] = "none" /\ incoming > 0
      /\ body_length = headers[Client!Reading] /\ body_length \in 0..max_body_length
  BY <1>1, <1>2 DEF ShownInv
<1>5. /\ Len(headers) \in Nat /\ incoming \in Nat /\ Len(shown) \in Nat
      /\ Len(shown) = Len(headers) - incoming
      /\ Client!Reading = Len(shown) + 1
  BY <1>1 DEF ClientTypeOK, ShownInv, Client!Reading
<1>6. <<Client!Reading, body_length>> \in Nat \X Int
  BY <1>4, <1>5
<1>7. /\ shown' \in Seq(Nat \X Int) /\ Len(shown') = Len(shown) + 1
      /\ shown'[Len(shown) + 1] = <<Client!Reading, body_length>>
      /\ \A i \in 1..Len(shown) : shown'[i] = shown[i]
  BY <1>1, <1>2, <1>6, AppendProperties DEF ClientTypeOK
<1>8. incoming' \in Nat /\ Len(shown') = Len(headers) - incoming'
  BY <1>2, <1>4, <1>5, <1>7
<1>9. ASSUME NEW i \in 1..Len(shown')
      PROVE  shown'[i] = <<i, headers[i]>> /\ headers[i] \in 0..max_body_length
  <2>1. CASE i \in 1..Len(shown)
    BY <1>1, <1>7, <2>1, SMTT(30) DEF ShownInv
  <2>2. CASE i = Len(shown) + 1
    BY <1>4, <1>5, <1>7, <2>2
  <2>3. i \in 1..Len(shown) \/ i = Len(shown) + 1
    BY <1>5, <1>7
  <2> QED
    BY <2>1, <2>2, <2>3
<1>10. ClientTypeOK'
  BY <1>1, <1>2, <1>3, <1>7, <1>8 DEF ClientTypeOK
<1>11. LinesInv'
  BY <1>1, <1>2, <1>3, LinesKept
<1>12. ShownInv'
  BY <1>2, <1>3, <1>4, <1>8, <1>9 DEF ShownInv
<1> QED
  BY <1>10, <1>11, <1>12 DEF ClientInv

(* A line is written, and the next one started. *)
LEMMA LineWrittenInv == ASSUME ClientInv, Client!Written PROVE ClientInv'
<1>1. ClientTypeOK /\ LinesInv /\ ShownInv
  BY DEF ClientInv
<1>2. /\ ops["write"] = "ok"
      /\ sent' = Append(sent, Head(write_msgs)) /\ write_msgs' = Tail(write_msgs)
      /\ Client!Then("write", IF Len(write_msgs) > 1 THEN {"write"} ELSE {})
      /\ UNCHANGED <<main, lines, posted, running, socket, body_length, incoming, headers, shown>>
  BY DEF Client!Written, Client!mainVars
<1>3. write_msgs # <<>>
  BY <1>1, <1>2 DEF LinesInv
<1>4. LinesAre(lines, sent', write_msgs', posted, main)
  BY <1>1, <1>2, <1>3, LineWritten DEF ClientTypeOK, LinesInv
<1>5. /\ sent' \in Seq(Nat) /\ write_msgs' \in Seq(Nat)
      /\ Len(write_msgs) \in Nat /\ Len(write_msgs') = Len(write_msgs) - 1
  <2>1. Head(write_msgs) \in Nat /\ write_msgs' \in Seq(Nat) /\ Len(write_msgs') = Len(write_msgs) - 1
    BY <1>1, <1>2, <1>3, HeadTailProperties DEF ClientTypeOK
  <2> QED
    BY <1>1, <1>2, <2>1, AppendProperties DEF ClientTypeOK
<1>6. PICK next \in SUBSET {"write"} :
        Client!Then("write", next) /\ ("write" \in next => Len(write_msgs) > 1)
  BY <1>2
<1>7. /\ ops' \in [Client!Operations -> OpStates]
      /\ \A p \in {"connect", "header", "body"} : ops'[p] = ops[p]
      /\ ops'["write"] # "none" => Len(write_msgs) > 1
  BY <1>1, <1>6, ThenType DEF ClientTypeOK, Client!Operations
<1>8. ops'["write"] # "none" => write_msgs' # <<>>
  <2>1. Len(write_msgs) > 1 => Len(write_msgs') > 0
    BY <1>5
  <2>2. ~(Len(<<>>) > 0)
    OBVIOUS
  <2> QED
    BY <1>7, <2>1, <2>2
<1>9. ClientTypeOK'
  BY <1>1, <1>2, <1>5, <1>7 DEF ClientTypeOK
<1>10. LinesInv'
  BY <1>2, <1>4, <1>8 DEF LinesInv
<1>11. ShownInv'
  BY <1>1, <1>2, <1>7, ShownKept
<1> QED
  BY <1>9, <1>10, <1>11 DEF ClientInv

(* The inductive invariant of the client. *)
LEMMA ClientInductive == Spec => []ClientInv
<1>1. ClientInv /\ [Next]_vars => ClientInv'
  <2> SUFFICES ASSUME ClientInv, [Client!Next]_clientVars PROVE ClientInv'
    BY OneProgram
  <2>0. ClientTypeOK /\ LinesInv /\ ShownInv
    BY DEF ClientInv
  <2>1. ASSUME UNCHANGED <<lines, posted, ops, write_msgs, body_length, incoming, sent, headers, shown>>,
               main' \in Closing <=> main \in Closing
        PROVE  ClientInv'
    <3>1. ClientTypeOK'
      BY <2>0, <2>1 DEF ClientTypeOK
    <3>2. LinesInv' /\ ShownInv'
      BY <2>0, <2>1, LinesKept, ShownKept
    <3> QED
      BY <3>1, <3>2 DEF ClientInv
  <2>2. CASE UNCHANGED clientVars
    BY <2>1, <2>2 DEF clientVars
  <2>3. CASE Client!JoinThread \/ Client!RunReturns
    BY <2>1, <2>3 DEF Client!JoinThread, Client!RunReturns, Client!mainVars, Client!history, Closing
  <2>4. ASSUME NEW o \in Client!Operations, Client!Failed(o)
        PROVE  ClientInv'
    BY <2>4, OnlyEnds DEF Client!Failed, Client!mainVars, Client!history
  <2> QED
    BY <2>2, <2>3, <2>4, GetLineInv, CloseInv, ServeInv, CompleteInv, WritePostedInv, ClosePostedInv,
       ConnectedInv, ReadHeaderInv, ReadBodyShown, LineWrittenInv DEF Client!Next, Client!Handlers
<1> QED
  BY ClientInit, <1>1, PTL DEF Spec

(* The chat's client: what is written are the first of the lines, in their *)
(* order and once, and what is shown are the first of the server's         *)
(* messages with their lengths, whatever operations overlap.               *)
THEOREM LinesArriveInOrder == Spec => []LinesInOrder
<1>1. ClientInv => LinesInOrder
  <2> SUFFICES ASSUME ClientInv PROVE LinesInOrder
    OBVIOUS
  <2>1. ClientTypeOK /\ LinesInv /\ ShownInv
    BY DEF ClientInv
  <2>2. Client!IsPrefix(sent, lines)
    <3>1. Len(sent) \in Nat /\ Len(write_msgs) \in Nat /\ Len(lines) \in Nat
      BY <2>1 DEF ClientTypeOK
    <3>2. Len(sent) <= Len(lines) /\ \A i \in 1..Len(sent) : sent[i] = lines[i]
      BY <2>1, <3>1 DEF LinesInv, LinesAre
    <3>3. SubSeq(sent, 1, Len(sent)) = SubSeq(lines, 1, Len(sent))
      BY <2>1, <3>1, <3>2 DEF ClientTypeOK
    <3> QED
      BY <3>2, <3>3 DEF Client!IsPrefix
  <2>3. shown = [i \in 1..Len(shown) |-> <<i, headers[i]>>]
    <3>1. shown = [i \in 1..Len(shown) |-> shown[i]]
      BY <2>1 DEF ClientTypeOK
    <3> QED
      BY <2>1, <3>1 DEF ShownInv
  <2>4. \A i \in DOMAIN shown : headers[i] \in 0..max_body_length
    BY <2>1 DEF ShownInv, ClientTypeOK
  <2>5. main = "input" => Len(sent) + Len(write_msgs) + Len(posted) = Len(lines)
    BY <2>1 DEF LinesInv, LinesAre, Closing
  <2> QED
    BY <2>2, <2>3, <2>4, <2>5 DEF LinesInOrder, Client!LinesInOrder
<1> QED
  BY ClientInductive, <1>1, PTL

-----------------------------------------------------------------------------
(* The HTTP server: HttpServer.                                            *)

Requests ==
    [method : {"get", "head"}, target : Targets, keep_alive : {TRUE}]
    \union [method : {"get", "post"}, target : {<<"/">>}, keep_alive : {FALSE}]
NoRequest == [method |-> "", target |-> <<>>, keep_alive |-> TRUE]
Replies == {Http!handle_request(r) : r \in Requests}

HttpTypeOK ==
    /\ asked \in [Connections -> Seq(Requests)]
    /\ eof \in [Connections -> BOOLEAN]
    /\ place \in [Connections -> {"none", "read", "send", "shutdown", "closed", "failed"}]
    /\ req \in [Connections -> Requests \union {NoRequest}]
    /\ unread \in [Connections -> Nat]
    /\ answered \in [Connections -> Seq(Replies)]

(* Where a session is tells what it owes: one answer, to the request it    *)
(* has read, or none; and it goes on reading only after an answer that     *)
(* keeps the connection.                                                   *)
Kept(c, n) == \A i \in 1..n : answered[c][i].keep_alive
ReplyInv(c) ==
    LET n == Len(answered[c])
        taken == Len(asked[c]) - unread[c]
    IN  /\ n <= taken
        /\ \A i \in 1..n : answered[c][i] = Http!handle_request(asked[c][i])
        /\ place[c] \in {"none", "read"} => n = taken /\ Kept(c, n)
        /\ place[c] = "send" => n + 1 = taken /\ req[c] = asked[c][taken] /\ Kept(c, n)
        /\ place[c] \in {"shutdown", "closed"} =>
             (eof[c] /\ n = Len(asked[c])) \/ (n > 0 /\ ~answered[c][n].keep_alive)
        /\ Kept(c, n - 1)

HttpInv == HttpTypeOK /\ \A c \in Connections : ReplyInv(c)

(* At first nothing is asked. *)
LEMMA HttpInit == Init => HttpInv
<1> SUFFICES ASSUME Http!Init PROVE HttpInv
  BY DEF Init
<1>1. /\ asked = [c \in Connections |-> <<>>] /\ eof = [c \in Connections |-> FALSE]
      /\ place = [c \in Connections |-> "none"] /\ req = [c \in Connections |-> NoRequest]
      /\ unread = [c \in Connections |-> 0] /\ answered = [c \in Connections |-> <<>>]
  BY DEF Http!Init, NoRequest
<1> HIDE DEF Http!Init
<1>2. HttpTypeOK
  BY <1>1 DEF HttpTypeOK
<1>3. \A c \in Connections : ReplyInv(c)
  BY <1>1 DEF ReplyInv, Kept
<1> QED
  BY <1>2, <1>3 DEF HttpInv

(* A connection nothing happens to. *)
LEMMA ReplyKept ==
    ASSUME NEW c \in Connections, ReplyInv(c),
           asked'[c] = asked[c], eof'[c] = eof[c], req'[c] = req[c],
           unread'[c] = unread[c], answered'[c] = answered[c],
           place'[c] \in {place[c], "failed"}
    PROVE  ReplyInv(c)'
BY DEF ReplyInv, Kept

(* What a connection has. *)
LEMMA HttpHas ==
    ASSUME HttpInv, NEW c \in Connections
    PROVE  /\ asked[c] \in Seq(Requests) /\ Len(asked[c]) \in Nat
           /\ answered[c] \in Seq(Replies) /\ Len(answered[c]) \in Nat
           /\ unread[c] \in Nat /\ ReplyInv(c)
BY DEF HttpInv, HttpTypeOK

(* A client sends a request, or ends the stream. *)
LEMMA AskInv == ASSUME HttpInv, NEW c \in Connections, Http!Ask(c) PROVE HttpInv'
<1>1. /\ ~eof[c] /\ UNCHANGED <<place, req, answered>>
      /\ \A d \in Connections : ReplyInv(d)
      /\ asked[c] \in Seq(Requests) /\ Len(asked[c]) \in Nat /\ Len(answered[c]) \in Nat /\ unread[c] \in Nat
  BY HttpHas DEF HttpInv, Http!Ask
<1>2. ASSUME NEW r \in Requests, asked' = [asked EXCEPT ![c] = Append(@, r)],
             unread' = [unread EXCEPT ![c] = @ + 1], eof' = eof
      PROVE  HttpInv'
  <2> DEFINE l == Len(asked[c])
             s == Append(asked[c], r)
  <2>1. s \in Seq(Requests) /\ Len(s) = l + 1 /\ \A i \in 1..l : s[i] = asked[c][i]
    <3>1. s \in Seq(Requests) /\ Len(s) = l + 1 /\ \A i \in 1..l + 1 : s[i] = IF i <= l THEN asked[c][i] ELSE r
      BY <1>1, AppendProperties
    <3> HIDE DEF s, l
    <3>2. l \in Nat
      BY <1>1 DEF l
    <3> QED
      BY <3>1, <3>2
  <2> HIDE DEF s
  <2>2. /\ asked'[c] = s /\ unread'[c] = unread[c] + 1
        /\ \A d \in Connections \ {c} : asked'[d] = asked[d] /\ unread'[d] = unread[d]
        /\ asked' \in [Connections -> Seq(Requests)] /\ unread' \in [Connections -> Nat]
    BY <1>1, <1>2, <2>1 DEF HttpInv, HttpTypeOK, s
  <2>3. HttpTypeOK'
    BY <1>1, <1>2, <2>2 DEF HttpInv, HttpTypeOK, Replies, Http!handle_request
  <2>4. ReplyInv(c)'
    <3> DEFINE n == Len(answered[c])
               taken == l - unread[c]
    <3>1. /\ n <= taken
          /\ \A i \in 1..n : answered[c][i] = Http!handle_request(asked[c][i])
          /\ place[c] \in {"none", "read"} => n = taken /\ Kept(c, n)
          /\ place[c] = "send" => n + 1 = taken /\ req[c] = asked[c][taken] /\ Kept(c, n)
          /\ place[c] \in {"shutdown", "closed"} => n > 0 /\ ~answered[c][n].keep_alive
          /\ Kept(c, n - 1)
      BY <1>1 DEF ReplyInv, l
    <3>2. l \in Nat /\ unread[c] \in Nat /\ n \in Nat
      BY <1>1 DEF l
    <3> HIDE DEF l
    <3>3. Len(asked'[c]) - unread'[c] = taken /\ taken <= l
      BY <2>1, <2>2, <3>2
    <3>4. (\A i \in 1..n : i \in 1..l) /\ (n + 1 = taken => taken \in 1..l)
      BY <3>1, <3>2, <3>3
    <3>5. /\ \A i \in 1..n : asked'[c][i] = asked[c][i]
          /\ n + 1 = taken => asked'[c][taken] = asked[c][taken]
      BY <2>1, <2>2, <3>4
    <3> HIDE DEF n, taken
    <3>6. /\ answered'[c] = answered[c] /\ place'[c] = place[c] /\ req'[c] = req[c]
          /\ \A m : Kept(c, m)' <=> Kept(c, m)
      BY <1>1 DEF Kept
    <3>7. Len(answered'[c]) = n
      BY <3>6 DEF n
    <3> QED
      BY <3>1, <3>3, <3>5, <3>6, <3>7 DEF ReplyInv
  <2>5. \A d \in Connections \ {c} : ReplyInv(d)'
    BY <1>1, <1>2, <2>2, ReplyKept
  <2> QED
    BY <2>3, <2>4, <2>5 DEF HttpInv
<1>3. ASSUME eof' = [eof EXCEPT ![c] = TRUE], UNCHANGED <<asked, unread>>
      PROVE  HttpInv'
  <2>1. HttpTypeOK'
    BY <1>1, <1>3 DEF HttpInv, HttpTypeOK, Replies, Http!handle_request
  <2>2. \A d \in Connections : eof'[d] = eof[d] \/ eof'[d]
    BY <1>3 DEF HttpInv, HttpTypeOK
  <2>3. \A d \in Connections : ReplyInv(d)'
    BY <1>1, <1>3, <2>2, SMTT(30) DEF ReplyInv, Kept
  <2> QED
    BY <2>1, <2>3 DEF HttpInv
<1> QED
  BY <1>2, <1>3 DEF Http!Ask, Requests

(* A session goes from one place to the next and sends nothing. *)
LEMMA PlaceInv ==
    ASSUME HttpInv, NEW c \in Connections, NEW p, place' = [place EXCEPT ![c] = p],
           UNCHANGED <<asked, eof, req, unread, answered>>,
           <<place[c], p>> \in {<<"none", "read">>, <<"read", "shutdown">>, <<"shutdown", "closed">>,
                                <<"read", "failed">>, <<"send", "failed">>},
           p = "shutdown" => unread[c] = 0 /\ eof[c] = TRUE
    PROVE  HttpInv'
<1>1. HttpTypeOK /\ \A d \in Connections : ReplyInv(d)
  BY DEF HttpInv
<1>2. place'[c] = p /\ \A d \in Connections \ {c} : place'[d] = place[d]
  BY <1>1 DEF HttpTypeOK
<1>3. HttpTypeOK'
  BY <1>1 DEF HttpTypeOK, Replies, Http!handle_request
<1>4. ReplyInv(c)'
  <2>1. Len(asked[c]) \in Nat /\ Len(answered[c]) \in Nat /\ unread[c] \in Nat
    BY HttpHas
  <2> QED
    BY <1>1, <1>2, <2>1 DEF ReplyInv, Kept
<1>5. \A d \in Connections \ {c} : ReplyInv(d)'
  BY <1>1, <1>2, ReplyKept
<1> QED
  BY <1>3, <1>4, <1>5 DEF HttpInv

(* The next request is read. *)
LEMMA ReadInv == ASSUME HttpInv, NEW c \in Connections, Http!Read(c) PROVE HttpInv'
<1> DEFINE k == Len(asked[c]) - unread[c] + 1
           r == asked[c][k]
<1>1. HttpTypeOK /\ \A d \in Connections : ReplyInv(d)
  BY DEF HttpInv
<1>2. /\ place[c] = "read" /\ place' = [place EXCEPT ![c] = "send"] /\ unread[c] > 0
      /\ req' = [req EXCEPT ![c] = r] /\ unread' = [unread EXCEPT ![c] = @ - 1]
      /\ UNCHANGED <<asked, eof, answered>>
  BY DEF Http!Read, Http!Goto
<1>3. /\ asked[c] \in Seq(Requests) /\ Len(asked[c]) \in Nat /\ unread[c] \in Nat
      /\ Len(answered[c]) \in Nat /\ ReplyInv(c)
  BY HttpHas
<1>4. Len(answered[c]) = Len(asked[c]) - unread[c] /\ Kept(c, Len(answered[c])) /\ k \in 1..Len(asked[c])
  BY <1>2, <1>3 DEF ReplyInv
<1>5. r \in Requests /\ unread[c] - 1 \in Nat
  BY <1>2, <1>3, <1>4
<1> HIDE DEF r
<1>6. HttpTypeOK'
  <2>1. place' \in [Connections -> {"none", "read", "send", "shutdown", "closed", "failed"}]
    BY <1>1, <1>2 DEF HttpTypeOK
  <2>2. req' \in [Connections -> Requests \union {NoRequest}]
    BY <1>1, <1>2, <1>5 DEF HttpTypeOK
  <2>3. unread' \in [Connections -> Nat]
    BY <1>1, <1>2, <1>5 DEF HttpTypeOK
  <2> QED
    BY <1>1, <1>2, <2>1, <2>2, <2>3 DEF HttpTypeOK, Replies, Http!handle_request
<1>7. /\ place'[c] = "send" /\ req'[c] = r /\ unread'[c] = unread[c] - 1
      /\ \A d \in Connections \ {c} : place'[d] = place[d] /\ req'[d] = req[d] /\ unread'[d] = unread[d]
  BY <1>1, <1>2 DEF HttpTypeOK
<1>8. ReplyInv(c)'
  <2>1. Len(asked[c]) - unread'[c] = k /\ Len(answered[c]) + 1 = k
    BY <1>3, <1>4, <1>7
  <2> HIDE DEF k
  <2>2. Len(asked'[c]) - unread'[c] = k /\ Len(answered'[c]) + 1 = k /\ req'[c] = asked'[c][k] /\ k \in Nat
    BY <1>2, <1>4, <1>7, <2>1 DEF r
  <2>3. Kept(c, Len(answered[c]))' /\ Kept(c, Len(answered[c]) - 1)'
    BY <1>2, <1>3, <1>4 DEF Kept
  <2>4. \A i \in 1..Len(answered'[c]) : answered'[c][i] = Http!handle_request(asked'[c][i])
    BY <1>2, <1>3 DEF ReplyInv
  <2> QED
    BY <1>2, <1>3, <1>7, <2>2, <2>3, <2>4 DEF ReplyInv
<1>9. \A d \in Connections \ {c} : ReplyInv(d)'
  BY <1>1, <1>2, <1>7, ReplyKept
<1> QED
  BY <1>6, <1>8, <1>9 DEF HttpInv

(* It is answered. *)
LEMMA SendInv == ASSUME HttpInv, NEW c \in Connections, Http!Send(c) PROVE HttpInv'
<1> DEFINE a == Http!handle_request(req[c])
           s == answered[c]
           t == Append(answered[c], a)
           n == Len(answered[c])
<1>1. HttpTypeOK /\ \A d \in Connections : ReplyInv(d)
  BY DEF HttpInv
<1>2. /\ place[c] = "send"
      /\ place' = [place EXCEPT ![c] = IF a.keep_alive THEN "read" ELSE "shutdown"]
      /\ answered' = [answered EXCEPT ![c] = t]
      /\ UNCHANGED <<asked, eof, req, unread>>
  BY DEF Http!Send, Http!Goto
<1>3. /\ asked[c] \in Seq(Requests) /\ Len(asked[c]) \in Nat /\ unread[c] \in Nat
      /\ answered[c] \in Seq(Replies) /\ n \in Nat /\ ReplyInv(c)
  BY HttpHas
<1>4. /\ n + 1 = Len(asked[c]) - unread[c] /\ req[c] = asked[c][n + 1] /\ Kept(c, n)
      /\ n + 1 \in 1..Len(asked[c])
      /\ \A i \in 1..n : answered[c][i] = Http!handle_request(asked[c][i])
  BY <1>2, <1>3 DEF ReplyInv
<1>5. a \in Replies
  BY <1>3, <1>4 DEF Replies
<1> HIDE DEF a
<1>6. t \in Seq(Replies) /\ Len(t) = n + 1 /\ t[n + 1] = a /\ \A i \in 1..n : t[i] = s[i]
  <2>1. /\ t \in Seq(Replies) /\ Len(t) = n + 1
        /\ \A i \in 1..n + 1 : t[i] = IF i <= n THEN s[i] ELSE a
    BY <1>3, <1>5, AppendProperties
  <2> HIDE DEF t, s
  <2> QED
    BY <1>3, <2>1
<1> HIDE DEF t
<1>7. /\ answered'[c] = t /\ place'[c] = IF a.keep_alive THEN "read" ELSE "shutdown"
      /\ \A d \in Connections \ {c} : answered'[d] = answered[d] /\ place'[d] = place[d]
      /\ answered' \in [Connections -> Seq(Replies)]
      /\ place' \in [Connections -> {"none", "read", "send", "shutdown", "closed", "failed"}]
  BY <1>1, <1>2, <1>6 DEF HttpTypeOK
<1>8. HttpTypeOK'
  BY <1>1, <1>2, <1>7 DEF HttpTypeOK, Replies, Http!handle_request
<1>9. ReplyInv(c)'
  <2>1. a = Http!handle_request(asked[c][n + 1])
    BY <1>4 DEF a
  <2>2. PICK m \in Nat : m = n + 1
    BY <1>3
  <2>3. \A i \in 1..m : t[i] = Http!handle_request(asked[c][i])
    <3>1. \A i \in 1..n : t[i] = Http!handle_request(asked[c][i])
      BY <1>4, <1>6
    <3>2. t[m] = Http!handle_request(asked[c][m])
      BY <1>6, <2>1, <2>2
    <3>3. \A i \in 1..m : i \in 1..n \/ i = m
      BY <1>3, <2>2
    <3> QED
      BY <3>1, <3>2, <3>3
  <2>4. \A i \in 1..n : t[i].keep_alive
    BY <1>4, <1>6 DEF Kept
  <2>5. Len(t) = m /\ m > 0 /\ m - 1 = n /\ t[m] = a /\ m = Len(asked[c]) - unread[c]
    BY <1>3, <1>4, <1>6, <2>2
  <2>6. Kept(c, m - 1)'
    BY <1>7, <2>4, <2>5 DEF Kept
  <2>7. CASE a.keep_alive
    <3>1. \A i \in 1..m : t[i].keep_alive
      <4>1. \A i \in 1..m : i \in 1..n \/ i = m
        BY <1>3, <2>2
      <4> QED
        BY <2>4, <2>5, <2>7, <4>1
    <3>2. place'[c] = "read" /\ Kept(c, m)'
      BY <1>7, <2>7, <3>1 DEF Kept
    <3> QED
      BY <1>2, <1>7, <2>3, <2>5, <2>6, <3>2 DEF ReplyInv
  <2>8. CASE ~a.keep_alive
    <3>1. place'[c] = "shutdown"
      BY <1>7, <2>8
    <3> QED
      BY <1>2, <1>7, <2>3, <2>5, <2>6, <2>8, <3>1 DEF ReplyInv
  <2> QED
    BY <2>7, <2>8
<1>10. \A d \in Connections \ {c} : ReplyInv(d)'
  BY <1>1, <1>2, <1>7, ReplyKept
<1> QED
  BY <1>8, <1>9, <1>10 DEF HttpInv

(* The inductive invariant of the HTTP server. *)
LEMMA HttpInductive == Spec => []HttpInv
<1>1. HttpInv /\ [Next]_vars => HttpInv'
  <2> SUFFICES ASSUME HttpInv, [Http!Next]_httpVars PROVE HttpInv'
    BY OneProgram
  <2>1. HttpTypeOK /\ \A d \in Connections : ReplyInv(d)
    BY DEF HttpInv
  <2>2. ASSUME UNCHANGED <<asked, eof, req, unread, answered>>,
               place' = place \/ place' = [d \in Connections |-> "failed"]
        PROVE  HttpInv'
    <3>1. HttpTypeOK'
      BY <2>1, <2>2 DEF HttpTypeOK, Replies, Http!handle_request
    <3>2. \A d \in Connections : place'[d] \in {place[d], "failed"}
      BY <2>2
    <3>3. \A d \in Connections : ReplyInv(d)'
      BY <2>1, <2>2, <3>2, ReplyKept
    <3> QED
      BY <3>1, <3>3 DEF HttpInv
  <2>3. CASE UNCHANGED httpVars
    BY <2>2, <2>3 DEF httpVars
  <2>4. CASE Http!AcceptThrows
    BY <2>2, <2>4 DEF Http!AcceptThrows
  <2>5. ASSUME NEW c \in Connections, Http!Accept(c) PROVE HttpInv'
    <3>1. /\ place[c] = "none" /\ place' = [place EXCEPT ![c] = "read"]
          /\ UNCHANGED <<asked, eof, req, unread, answered>>
      BY <2>5, <2>1 DEF Http!Accept, Http!Goto, HttpTypeOK
    <3> QED
      BY <3>1, PlaceInv
  <2>6. ASSUME NEW c \in Connections, Http!EndOfStream(c) PROVE HttpInv'
    <3>1. /\ place[c] = "read" /\ place' = [place EXCEPT ![c] = "shutdown"]
          /\ UNCHANGED <<asked, eof, req, unread, answered>> /\ unread[c] = 0 /\ eof[c] = TRUE
      BY <2>6, <2>1 DEF Http!EndOfStream, Http!Goto, HttpTypeOK
    <3> QED
      BY <3>1, PlaceInv
  <2>7. ASSUME NEW c \in Connections, Http!Fail(c) PROVE HttpInv'
    <3>1. /\ place[c] \in {"read", "send"} /\ place' = [place EXCEPT ![c] = "failed"]
          /\ UNCHANGED <<asked, eof, req, unread, answered>>
      BY <2>7 DEF Http!Fail, Http!Goto
    <3> QED
      BY <3>1, PlaceInv
  <2>8. ASSUME NEW c \in Connections, Http!Shutdown(c) PROVE HttpInv'
    <3>1. /\ place[c] = "shutdown" /\ place' = [place EXCEPT ![c] = "closed"]
          /\ UNCHANGED <<asked, eof, req, unread, answered>>
      BY <2>8, <2>1 DEF Http!Shutdown, Http!Goto, HttpTypeOK
    <3> QED
      BY <3>1, PlaceInv
  <2>9. Http!Next => HttpInv'
    BY <2>4, <2>5, <2>6, <2>7, <2>8, AskInv, ReadInv, SendInv DEF Http!Next
  <2> QED
    BY <2>3, <2>9
<1> QED
  BY HttpInit, <1>1, PTL DEF Spec

(* What HEAD tells of a file is what GET would. *)
LEMMA HeadAsGet ==
    ASSUME NEW r \in Requests, r.method = "head"
    PROVE  LET get == Http!handle_request([r EXCEPT !.method = "get"])
           IN  Http!handle_request(r).status = get.status /\ Http!handle_request(r).type = get.type
<1> DEFINE g == [r EXCEPT !.method = "get"]
           path == Http!PathOf(r.target)
           file == IF path \in DOMAIN Tree THEN Tree[path] ELSE "none"
<1>1. g.method = "get" /\ g.target = r.target /\ g.keep_alive = r.keep_alive
  BY DEF Requests
<1> HIDE DEF g, path, file
<1>2. ASSUME NEW q, q.target = r.target, q.method \in {"get", "head"}
      PROVE  /\ Http!handle_request(q).status = IF Http!Illegal(r.target) THEN 400 ELSE IF file = "none" THEN 404
                                                ELSE IF file = "locked" THEN 500 ELSE 200
             /\ Http!handle_request(q).type = IF Http!Illegal(r.target) \/ file \in {"none", "locked"} THEN "html"
                                              ELSE Http!mime_type(path)
  <2> DEFINE h == Http!handle_request(q)
             bad == Http!Answer(q, 400, "html", "why")
             missing == Http!Answer(q, 404, "html", "was not found")
             locked == Http!Answer(q, 500, "html", "an error occurred")
             found == Http!Answer(q, 200, Http!mime_type(path), IF q.method = "head" THEN "" ELSE file)
  <2> HIDE DEF h, bad, missing, locked, found
  <2>1. h = IF Http!Illegal(r.target) THEN bad ELSE IF file = "none" THEN missing
            ELSE IF file = "locked" THEN locked ELSE found
    <3>1. h = IF q.method \notin {"get", "head"} \/ Http!Illegal(q.target) THEN bad
              ELSE IF file = "none" THEN missing ELSE IF file = "locked" THEN locked ELSE found
      <4>1. path = Http!PathOf(q.target)
        BY <1>2 DEF path
      <4>2. file = IF Http!PathOf(q.target) \in DOMAIN Tree THEN Tree[Http!PathOf(q.target)] ELSE "none"
        BY <1>2 DEF file, path
      <4> QED
        BY <4>1, <4>2 DEF Http!handle_request, h, bad, missing, locked, found
    <3> QED
      BY <1>2, <3>1
  <2>2. CASE Http!Illegal(r.target)
    <3>1. h = bad
      BY <2>1, <2>2
    <3>2. bad.status = 400 /\ bad.type = "html"
      BY DEF Http!Answer, bad
    <3> QED
      BY <2>2, <3>1, <3>2 DEF h
  <2>3. CASE ~Http!Illegal(r.target) /\ file = "none"
    <3>1. h = missing
      BY <2>1, <2>3
    <3>2. missing.status = 404 /\ missing.type = "html"
      BY DEF Http!Answer, missing
    <3> QED
      BY <2>3, <3>1, <3>2 DEF h
  <2>4. CASE ~Http!Illegal(r.target) /\ file = "locked"
    <3>1. h = locked
      BY <2>1, <2>4
    <3>2. locked.status = 500 /\ locked.type = "html"
      BY DEF Http!Answer, locked
    <3> QED
      BY <2>4, <3>1, <3>2 DEF h
  <2>5. CASE ~Http!Illegal(r.target) /\ file \notin {"none", "locked"}
    <3>1. h = found
      BY <2>1, <2>5
    <3>2. found.status = 200 /\ found.type = Http!mime_type(path)
      BY DEF Http!Answer, found
    <3> QED
      BY <2>5, <3>1, <3>2 DEF h
  <2> QED
    BY <2>2, <2>3, <2>4, <2>5
<1>3. Http!handle_request(r).status = Http!handle_request(g).status
  BY <1>1, <1>2
<1>4. Http!handle_request(r).type = Http!handle_request(g).type
  BY <1>1, <1>2
<1> QED
  BY <1>3, <1>4 DEF g

(* The answers of a connection are those to its requests. *)
LEMMA HttpInOrder == HttpInv => Http!RequestsInOrder
<1> SUFFICES ASSUME HttpInv, NEW c \in Connections
             PROVE  LET n == Len(answered[c])
                    IN  /\ answered[c] = [i \in 1..n |-> Http!handle_request(asked[c][i])]
                        /\ \A i \in 1..n - 1 : answered[c][i].keep_alive
                        /\ place[c] = "closed" => n = Len(asked[c]) \/ (n > 0 /\ ~answered[c][n].keep_alive)
                        /\ \A i \in 1..n : asked[c][i].method = "head" =>
                              LET get == Http!handle_request([asked[c][i] EXCEPT !.method = "get"])
                              IN  answered[c][i].status = get.status /\ answered[c][i].type = get.type
  BY DEF Http!RequestsInOrder
<1> DEFINE n == Len(answered[c])
<1>1. /\ asked[c] \in Seq(Requests) /\ Len(asked[c]) \in Nat
      /\ answered[c] \in Seq(Replies) /\ n \in Nat /\ unread[c] \in Nat /\ ReplyInv(c)
  BY HttpHas
<1>2. \A i \in 1..n : answered[c][i] = Http!handle_request(asked[c][i])
  BY <1>1 DEF ReplyInv
<1>3. answered[c] = [i \in 1..n |-> answered[c][i]]
  BY <1>1, SMTT(30)
<1>4. answered[c] = [i \in 1..n |-> Http!handle_request(asked[c][i])]
  BY <1>2, <1>3
<1>5. \A i \in 1..n - 1 : answered[c][i].keep_alive
  BY <1>1 DEF ReplyInv, Kept
<1>6. place[c] = "closed" => n = Len(asked[c]) \/ (n > 0 /\ ~answered[c][n].keep_alive)
  BY <1>1 DEF ReplyInv
<1>7. ASSUME NEW i \in 1..n, asked[c][i].method = "head"
      PROVE  LET get == Http!handle_request([asked[c][i] EXCEPT !.method = "get"])
             IN  answered[c][i].status = get.status /\ answered[c][i].type = get.type
  <2>1. i \in 1..Len(asked[c])
    BY <1>1 DEF ReplyInv
  <2>2. asked[c][i] \in Requests
    BY <1>1, <2>1
  <2> QED
    BY <1>2, <1>7, <2>2, HeadAsGet
<1> QED
  BY <1>4, <1>5, <1>6, <1>7

-----------------------------------------------------------------------------
(* The sessions of the echo server and of the join server: AsioSession.    *)

(* Numbers that are not negative have a least one. *)
LEMMA LeastOne == ASSUME NEW T \in SUBSET Nat, T # {} PROVE \E n \in T : \A m \in T : n <= m
<1>1. \E x \in T : \A y \in T : ~(<<y, x>> \in OpToRel(<, Nat))
  BY NatLessThanWellFounded, WFMin
<1>2. PICK x \in T : \A y \in T : ~(<<y, x>> \in OpToRel(<, Nat))
  BY <1>1
<1>3. \A y \in T : ~(y < x)
  BY <1>2 DEF OpToRel
<1> QED
  BY <1>3

(* What a session does with a chunk depends on the program. *)
Exec(d, chunk) ==
    IF program = "join server" THEN Database!Exec(d, chunk) ELSE Database!Echo(d, chunk)

(* The databases and the answers after each of the reads. *)
Fresh == [db |-> Database!NewDb, out |-> <<>>]
After(d, out, chunk) == [db |-> Exec(d, chunk).db, out |-> out \o Exec(d, chunk).answer]
IsAfter(f, reads) ==
    f = [n \in 0..Len(reads) |-> IF n = 0 THEN Fresh
                                 ELSE After(f[n - 1].db, f[n - 1].out, reads[n])]

(* There is one more for a read more, ... *)
LEMMA AfterOneMore ==
    ASSUME NEW S, NEW reads \in Seq(S), NEW chunk \in S, NEW f, IsAfter(f, reads)
    PROVE  LET l == Len(reads)
           IN  \E g : IsAfter(g, Append(reads, chunk)) /\ g[l + 1] = After(f[l].db, f[l].out, chunk)
<1> DEFINE l == Len(reads)
           s == Append(reads, chunk)
           next == After(f[l].db, f[l].out, chunk)
<1>1. l \in Nat /\ s \in Seq(S) /\ Len(s) = l + 1 /\ s[l + 1] = chunk /\ \A i \in 1..l : s[i] = reads[i]
  <2>1. s \in Seq(S) /\ Len(s) = l + 1 /\ \A i \in 1..l + 1 : s[i] = IF i <= l THEN reads[i] ELSE chunk
    BY AppendProperties
  <2>2. l \in Nat
    OBVIOUS
  <2> HIDE DEF s, l
  <2> QED
    BY <2>1, <2>2
<1>2. PICK m \in Nat : m = l + 1
  BY <1>1
<1>3. /\ f[0] = Fresh
      /\ \A n \in 1..l : f[n] = After(f[n - 1].db, f[n - 1].out, reads[n])
  BY DEF IsAfter
<1> HIDE DEF s, l, next
<1> DEFINE g == [n \in 0..m |-> IF n = m THEN next ELSE f[n]]
<1>4. g[m] = next /\ \A n \in 0..l : g[n] = f[n]
  BY <1>1, <1>2
<1>5. ASSUME NEW n \in 0..m
      PROVE  g[n] = IF n = 0 THEN Fresh
                    ELSE After(g[n - 1].db, g[n - 1].out, s[n])
  <2>1. CASE n = 0
    <3> HIDE DEF g
    <3>1. 0 \in 0..l
      <4>1. l \in Nat
        BY <1>1
      <4> QED
        BY <4>1
    <3>2. g[0] = f[0]
      BY <1>4, <3>1
    <3> QED
      BY <1>3, <2>1, <3>2
  <2>2. CASE n \in 1..l
    <3>1. n - 1 \in 0..l /\ n \in 0..l /\ n # 0
      BY <1>1, <2>2
    <3>2. g[n] = f[n] /\ g[n - 1] = f[n - 1] /\ s[n] = reads[n]
      BY <1>1, <1>4, <2>2, <3>1
    <3> HIDE DEF g
    <3> QED
      BY <1>3, <2>2, <3>1, <3>2
  <2>3. CASE n = m
    <3>1. n - 1 = l /\ l \in 0..l /\ n # 0
      BY <1>1, <1>2, <2>3
    <3>2. g[n] = next /\ g[n - 1] = f[l] /\ s[n] = chunk
      BY <1>1, <1>2, <1>4, <2>3, <3>1
    <3> HIDE DEF g
    <3> QED
      BY <3>1, <3>2 DEF next
  <2> QED
    BY <1>1, <1>2, <2>1, <2>2, <2>3
<1>6. IsAfter(g, s)
  <2>1. g = [n \in 0..m |-> g[n]]
    OBVIOUS
  <2>2. Len(s) = m
    BY <1>1, <1>2
  <2> HIDE DEF g
  <2>3. g = [n \in 0..Len(s) |-> IF n = 0 THEN Fresh
                                 ELSE After(g[n - 1].db, g[n - 1].out, s[n])]
    BY <1>5, <2>1, <2>2
  <2> QED
    BY <2>3 DEF IsAfter
<1> QED
  BY <1>2, <1>4, <1>6 DEF s, l, next

(* ... and no other one. *)
LEMMA AfterIsOne ==
    ASSUME NEW S, NEW reads \in Seq(S), NEW f, NEW g, IsAfter(f, reads), IsAfter(g, reads)
    PROVE  f[Len(reads)] = g[Len(reads)]
<1> DEFINE l == Len(reads)
           T == {n \in 0..l : f[n] # g[n]}
<1> SUFFICES ASSUME T # {} PROVE FALSE
  <2>1. l \in 0..l
    OBVIOUS
  <2> QED
    BY <2>1
<1>1. T \in SUBSET Nat
  OBVIOUS
<1>2. PICK n \in T : \A m \in T : n <= m
  <2> HIDE DEF T
  <2> QED
    BY <1>1, LeastOne
<1>3. n \in 0..l /\ f[n] # g[n]
  OBVIOUS
<1>4. /\ f[0] = Fresh /\ g[0] = Fresh
      /\ \A k \in 1..l : f[k] = After(f[k - 1].db, f[k - 1].out, reads[k])
      /\ \A k \in 1..l : g[k] = After(g[k - 1].db, g[k - 1].out, reads[k])
  <2> HIDE DEF T
  <2>1. f[0] = Fresh /\ \A k \in 1..l : f[k] = After(f[k - 1].db, f[k - 1].out, reads[k])
    BY DEF IsAfter
  <2>2. g[0] = Fresh /\ \A k \in 1..l : g[k] = After(g[k - 1].db, g[k - 1].out, reads[k])
    BY DEF IsAfter
  <2> QED
    BY <2>1, <2>2
<1>5. n \in 1..l /\ n - 1 \in 0..l /\ ~(n <= n - 1)
  BY <1>3, <1>4
<1>6. f[n - 1] = g[n - 1]
  BY <1>2, <1>5
<1> QED
  BY <1>3, <1>4, <1>5, <1>6

(* These are the answers of the two servers. *)
LEMMA AnswersAre ==
    ASSUME NEW S, NEW reads \in Seq(S), NEW f, IsAfter(f, reads)
    PROVE  /\ program = "echo server" => EchoServer!Answers(reads) = f[Len(reads)].out
           /\ program = "join server" => JoinServer!Answers(reads) = f[Len(reads)].out
<1>1. ASSUME program = "echo server" PROVE EchoServer!Answers(reads) = f[Len(reads)].out
  <2>1. \A g : IsAfter(g, reads) <=>
          g = [n \in 0..Len(reads) |->
                 IF n = 0 THEN [db |-> Database!NewDb, out |-> <<>>]
                 ELSE [db |-> Database!Echo(g[n - 1].db, reads[n]).db,
                       out |-> g[n - 1].out \o Database!Echo(g[n - 1].db, reads[n]).answer]]
    BY <1>1 DEF IsAfter, After, Exec, Fresh
  <2>2. \E g : IsAfter(g, reads) /\ EchoServer!Answers(reads) = g[Len(reads)].out
    BY <2>1 DEF EchoServer!Answers
  <2> QED
    BY <2>2, AfterIsOne
<1>2. ASSUME program = "join server" PROVE JoinServer!Answers(reads) = f[Len(reads)].out
  <2>1. \A g : IsAfter(g, reads) <=>
          g = [n \in 0..Len(reads) |->
                 IF n = 0 THEN [db |-> Database!NewDb, out |-> <<>>]
                 ELSE [db |-> Database!Exec(g[n - 1].db, reads[n]).db,
                       out |-> g[n - 1].out \o Database!Exec(g[n - 1].db, reads[n]).answer]]
    BY <1>2 DEF IsAfter, After, Exec, Fresh
  <2>2. \E g : IsAfter(g, reads) /\ JoinServer!Answers(reads) = g[Len(reads)].out
    BY <2>1 DEF JoinServer!Answers
  <2> QED
    BY <2>2, AfterIsOne
<1> QED
  BY <1>1, <1>2

Units == Database!Statements \union {"x", "y"}
Serves == program \in {"echo server", "join server"}

SessionTypeOK ==
    /\ up \in [Clients -> Seq(Units)]
    /\ session \in [Clients -> {"none", "reading", "writing", "gone"}]
    /\ chunks \in [Clients -> Seq(Seq(Units))]
    /\ data_ = [c \in Clients |-> data_[c]]
    /\ db = [c \in Clients |-> db[c]]
    /\ got = [c \in Clients |-> got[c]]
    /\ ended \in BOOLEAN

(* What a client got and is being sent is the answers to what its session  *)
(* read, in its own database.                                              *)
GotWith(c, V, f) ==
    LET last == f[Len(chunks[c])]
    IN  /\ IsAfter(f, chunks[c])
        /\ got[c] \in Seq(V) /\ data_[c] \in Seq(V) /\ last.out \in Seq(V)
        /\ IsPrefix(got[c], last.out)
        /\ session[c] = "none" => chunks[c] = <<>> /\ got[c] = <<>>
        /\ session[c] = "reading" /\ ~ended => got[c] = last.out /\ db[c] = last.db
        /\ session[c] = "writing" => last.out = got[c] \o data_[c] /\ db[c] = last.db
GotInv(c) == \E V, f : GotWith(c, V, f)

SessionsInv == Serves => SessionTypeOK /\ \A c \in Clients : GotInv(c)

(* What both servers do, but for what a client sends and what is made of   *)
(* it.                                                                     *)
Sends(c) ==
    /\ \E m \in Units : up' = [up EXCEPT ![c] = Append(@, m)]
    /\ UNCHANGED <<session, data_, db, got, chunks, ended>>
Reads(c) ==
    /\ session[c] = "reading"
    /\ \E n \in 1..max_length :
          LET chunk == SubSeq(up[c], 1, n)
              result == Exec(db[c], chunk)
          IN  /\ n <= Len(up[c])
              /\ up' = [up EXCEPT ![c] = SubSeq(@, n + 1, Len(@))]
              /\ chunks' = [chunks EXCEPT ![c] = Append(@, chunk)]
              /\ IF result.undefined \/ Len(result.answer) > max_length
                 THEN ended' = TRUE /\ UNCHANGED <<session, data_, db>>
                 ELSE /\ data_' = [data_ EXCEPT ![c] = result.answer]
                      /\ db' = [db EXCEPT ![c] = result.db]
                      /\ session' = [session EXCEPT ![c] = "writing"]
                      /\ UNCHANGED ended
    /\ UNCHANGED got

(* A step of these programs is one of theirs. *)
LEMMA SessionStepIs ==
    ASSUME [Next]_vars, Serves
    PROVE  /\ program' = program
           /\ \/ UNCHANGED sessionVars
              \/ /\ ~ended
                 /\ \E c \in Clients :
                      \/ Sends(c) \/ Reads(c)
                      \/ EchoServer!Accept(c) \/ EchoServer!StartThrows(c)
                      \/ EchoServer!Written(c) \/ EchoServer!Fails(c)
<1>1. program' = program
  BY DEF Next, vars, ChatStep, ClientStep, SessionStep, HttpStep
<1>2. \/ UNCHANGED sessionVars
      \/ program = "echo server" /\ EchoServer!Next
      \/ program = "join server" /\ JoinServer!Next
  BY DEF Next, vars, ChatStep, ClientStep, SessionStep, HttpStep, Serves
<1>3. CASE program = "echo server" /\ EchoServer!Next
  <2>1. \A c \in Clients : EchoServer!Send(c) => Sends(c)
    BY DEF EchoServer!Send, Sends, Units
  <2>2. \A c \in Clients : EchoServer!Read(c) => Reads(c)
    <3>1. \A d, chunk : Exec(d, chunk) = Database!Echo(d, chunk)
      BY <1>3 DEF Exec
    <3> QED
      BY <3>1, ZenonT(60) DEF EchoServer!Read, Reads
  <2> QED
    BY <1>1, <1>3, <2>1, <2>2 DEF EchoServer!Next
<1>4. CASE program = "join server" /\ JoinServer!Next
  <2>1. \A c \in Clients : JoinServer!Send(c) => Sends(c)
    <3>1. ASSUME NEW c \in Clients, NEW m \in MCStatements[c] PROVE m \in Units
      BY DEF MCStatements, Units, Database!Statements, Database!Long
    <3> QED
      BY <3>1 DEF JoinServer!Send, Sends
  <2>2. \A c \in Clients : JoinServer!Read(c) => Reads(c)
    <3>1. \A d, chunk : Exec(d, chunk) = Database!Exec(d, chunk)
      BY <1>4 DEF Exec
    <3> QED
      BY <3>1, ZenonT(60) DEF JoinServer!Read, Reads
  <2>3. \A c \in Clients : /\ JoinServer!Accept(c) => EchoServer!Accept(c)
                           /\ JoinServer!StartThrows(c) => EchoServer!StartThrows(c)
    BY DEF JoinServer!Accept, EchoServer!Accept, JoinServer!StartThrows, EchoServer!StartThrows
  <2>4. \A c \in Clients : /\ JoinServer!Written(c) => EchoServer!Written(c)
                           /\ JoinServer!Fails(c) => EchoServer!Fails(c)
    BY DEF JoinServer!Written, EchoServer!Written, JoinServer!Fails, EchoServer!Fails
  <2> QED
    BY <1>1, <1>4, <2>1, <2>2, <2>3, <2>4 DEF JoinServer!Next
<1> QED
  BY <1>1, <1>2, <1>3, <1>4

(* A prefix has the first elements. *)
LEMMA PrefixIs ==
    ASSUME NEW V, NEW s \in Seq(V), NEW t \in Seq(V)
    PROVE  IsPrefix(s, t) <=> Len(s) <= Len(t) /\ \A i \in 1..Len(s) : s[i] = t[i]
<1>1. SubSeq(s, 1, Len(s)) = s
  OBVIOUS
<1>2. ASSUME Len(s) <= Len(t)
      PROVE  s = SubSeq(t, 1, Len(s)) <=> \A i \in 1..Len(s) : s[i] = t[i]
  <2> DEFINE u == SubSeq(t, 1, Len(s))
  <2>1. u \in Seq(V) /\ Len(u) = Len(s) /\ \A i \in 1..Len(s) : u[i] = t[i]
    BY <1>2
  <2> HIDE DEF u
  <2>2. (\A i \in 1..Len(s) : s[i] = u[i]) => s = u
    BY <2>1
  <2> QED
    BY <2>1, <2>2 DEF u
<1> QED
  BY <1>1, <1>2 DEF IsPrefix

(* A sequence is a prefix of itself, ... *)
LEMMA PrefixSelf == ASSUME NEW V, NEW s \in Seq(V) PROVE IsPrefix(s, s)
<1>1. Len(s) \in Nat
  OBVIOUS
<1>2. Len(s) <= Len(s)
  BY <1>1
<1> QED
  BY <1>2 DEF IsPrefix

(* ... and a prefix stays one when more follows. *)
LEMMA PrefixOn ==
    ASSUME NEW V, NEW s \in Seq(V), NEW t \in Seq(V), NEW u \in Seq(V), IsPrefix(s, t)
    PROVE  IsPrefix(s, t \o u)
<1>1. Len(s) <= Len(t) /\ \A i \in 1..Len(s) : s[i] = t[i]
  BY PrefixIs
<1>2. /\ t \o u \in Seq(V) /\ Len(t \o u) = Len(t) + Len(u)
      /\ \A i \in 1..Len(t) + Len(u) : (t \o u)[i] = IF i <= Len(t) THEN t[i] ELSE u[i - Len(t)]
  BY ConcatProperties
<1>3. Len(s) \in Nat /\ Len(t) \in Nat /\ Len(u) \in Nat
  OBVIOUS
<1>4. Len(s) <= Len(t \o u) /\ \A i \in 1..Len(s) : s[i] = (t \o u)[i]
  BY <1>1, <1>2, <1>3
<1> QED
  BY <1>2, <1>4, PrefixIs

(* A part of what follows makes a prefix. *)
LEMMA PrefixPart ==
    ASSUME NEW V, NEW s \in Seq(V), NEW t \in Seq(V), NEW n \in 0..Len(t)
    PROVE  s \o SubSeq(t, 1, n) \in Seq(V) /\ IsPrefix(s \o SubSeq(t, 1, n), s \o t)
<1> DEFINE u == SubSeq(t, 1, n)
<1>1. u \in Seq(V) /\ Len(u) = n /\ \A i \in 1..n : u[i] = t[i]
  OBVIOUS
<1>2. Len(s) \in Nat /\ Len(t) \in Nat /\ n \in Nat /\ n <= Len(t)
  OBVIOUS
<1> HIDE DEF u
<1>3. /\ s \o u \in Seq(V) /\ Len(s \o u) = Len(s) + n
      /\ \A i \in 1..Len(s) + n : (s \o u)[i] = IF i <= Len(s) THEN s[i] ELSE u[i - Len(s)]
  BY <1>1, ConcatProperties
<1>4. /\ s \o t \in Seq(V) /\ Len(s \o t) = Len(s) + Len(t)
      /\ \A i \in 1..Len(s) + Len(t) : (s \o t)[i] = IF i <= Len(s) THEN s[i] ELSE t[i - Len(s)]
  BY ConcatProperties
<1>5. ASSUME NEW i \in 1..Len(s) + n PROVE (s \o u)[i] = (s \o t)[i]
  <2>1. i \in 1..Len(s) + Len(t) /\ (~(i <= Len(s)) => i - Len(s) \in 1..n)
    BY <1>2
  <2> QED
    BY <1>1, <1>3, <1>4, <2>1
<1>6. Len(s \o u) <= Len(s \o t)
  BY <1>2, <1>3, <1>4
<1> QED
  BY <1>3, <1>4, <1>5, <1>6, PrefixIs DEF u

(* What is answered is a sequence. *)
LEMMA AnswerIsSeq ==
    ASSUME NEW d, NEW chunk \in Seq(Units)
    PROVE  \E W : Exec(d, chunk).answer \in Seq(W)
<1>1. CASE program = "join server"
  <2> DEFINE x == Database!exec_internal(d, chunk).answer
  <2>1. Exec(d, chunk).answer = Database!AsString(x)
    BY <1>1 DEF Exec, Database!Exec
  <2> HIDE DEF x
  <2> DEFINE first == [ok |-> x.ok, row |-> 0]
             line == [ok |-> x.ok, row |-> x.row]
  <2>2. Database!AsString(x) \in {<<first, line, line>>, <<first>>, <<first, line>>}
    BY DEF Database!AsString
  <2> HIDE DEF first, line
  <2>3. {<<first, line, line>>, <<first>>, <<first, line>>} \subseteq Seq({first, line})
    OBVIOUS
  <2> QED
    BY <2>1, <2>2, <2>3
<1>2. CASE program # "join server"
  BY <1>2 DEF Exec, Database!Echo
<1> QED
  BY <1>1, <1>2

(* A client nothing happens to. *)
LEMMA GotKept ==
    ASSUME NEW c \in Clients, GotInv(c), program' = program,
           session'[c] = session[c], chunks'[c] = chunks[c], got'[c] = got[c],
           data_'[c] = data_[c], db'[c] = db[c], ended = TRUE => ended' = TRUE, ended \in BOOLEAN
    PROVE  GotInv(c)'
<1>1. PICK V : \E f : GotWith(c, V, f)
  BY DEF GotInv
<1>2. PICK f : GotWith(c, V, f)
  BY <1>1
<1>3. IsAfter(f, chunks[c])'
  BY <1>2 DEF GotWith, IsAfter, After, Exec
<1>4. GotWith(c, V, f)'
  BY <1>2, <1>3 DEF GotWith
<1> QED
  BY <1>4 DEF GotInv

(* At first nothing is sent. *)
LEMMA SessionsInit == Init => SessionsInv
<1> SUFFICES ASSUME EchoServer!Init PROVE SessionsInv
  BY DEF Init
<1>1. /\ up = [c \in Clients |-> <<>>] /\ session = [c \in Clients |-> "none"]
      /\ data_ = [c \in Clients |-> <<>>] /\ db = [c \in Clients |-> Database!NewDb]
      /\ got = [c \in Clients |-> <<>>] /\ chunks = [c \in Clients |-> <<>>] /\ ended = FALSE
  BY DEF EchoServer!Init
<1>2. SessionTypeOK
  <2>1. <<>> \in Seq(Units)
    OBVIOUS
  <2>2. <<>> \in Seq(Seq(Units))
    OBVIOUS
  <2>3. up \in [Clients -> Seq(Units)]
    BY <1>1, <2>1
  <2>4. chunks \in [Clients -> Seq(Seq(Units))]
    BY <1>1, <2>2
  <2> QED
    BY <1>1, <2>3, <2>4 DEF SessionTypeOK
<1>3. ASSUME NEW c \in Clients PROVE GotInv(c)
  <2> DEFINE f == [n \in 0..0 |-> Fresh]
             V == {}
  <2>1. /\ session[c] = "none" /\ chunks[c] = <<>> /\ got[c] = <<>> /\ data_[c] = <<>>
        /\ Len(<<>>) = 0 /\ 0 \in 0..0 /\ <<>> \in Seq(V) /\ IsPrefix(<<>>, <<>>)
    <3>1. <<>> \in Seq(V) /\ Len(<<>>) = 0 /\ 0 \in 0..0
      OBVIOUS
    <3> HIDE DEF V
    <3>2. IsPrefix(<<>>, <<>>)
      BY <3>1, PrefixSelf
    <3> QED
      BY <1>1, <3>1, <3>2
  <2>2. f[0] = Fresh /\ Fresh.out = <<>>
    BY <2>1 DEF Fresh
  <2>3. IsAfter(f, chunks[c])
    <3>1. \A n \in 0..0 : n = 0
      OBVIOUS
    <3> QED
      BY <2>1, <3>1 DEF IsAfter
  <2> HIDE DEF f, V
  <2>4. GotWith(c, V, f)
    BY <2>1, <2>2, <2>3 DEF GotWith
  <2> QED
    BY <2>4 DEF GotInv
<1> QED
  BY <1>2, <1>3 DEF SessionsInv

(* A client sends. *)
LEMMA SendsInv ==
    ASSUME SessionsInv, Serves, program' = program, NEW c \in Clients, Sends(c)
    PROVE  SessionsInv'
<1>1. SessionTypeOK /\ \A o \in Clients : GotInv(o)
  BY DEF SessionsInv
<1>2. UNCHANGED <<session, data_, db, got, chunks, ended>>
  BY DEF Sends
<1>3. PICK m \in Units : up' = [up EXCEPT ![c] = Append(@, m)]
  BY DEF Sends
<1>4. up' \in [Clients -> Seq(Units)]
  BY <1>1, <1>3 DEF SessionTypeOK
<1>5. SessionTypeOK'
  BY <1>1, <1>2, <1>4 DEF SessionTypeOK, Units, Database!Statements, Database!Long
<1>6. \A o \in Clients : GotInv(o)'
  BY <1>1, <1>2, GotKept DEF SessionTypeOK
<1> QED
  BY <1>5, <1>6 DEF SessionsInv

(* A session begins with a database of its own. *)
LEMMA AcceptInv ==
    ASSUME SessionsInv, Serves, program' = program, NEW c \in Clients, EchoServer!Accept(c)
    PROVE  SessionsInv'
<1>1. SessionTypeOK /\ \A o \in Clients : GotInv(o)
  BY DEF SessionsInv
<1>2. /\ session[c] = "none" /\ session' = [session EXCEPT ![c] = "reading"]
      /\ db' = [db EXCEPT ![c] = Database!NewDb]
      /\ UNCHANGED <<up, data_, got, chunks, ended>>
  BY DEF EchoServer!Accept
<1>3. /\ session'[c] = "reading" /\ db'[c] = Database!NewDb
      /\ session' \in [Clients -> {"none", "reading", "writing", "gone"}]
      /\ db' = [o \in Clients |-> db'[o]]
      /\ \A o \in Clients \ {c} : session'[o] = session[o] /\ db'[o] = db[o]
  BY <1>1, <1>2 DEF SessionTypeOK
<1>4. SessionTypeOK'
  BY <1>1, <1>2, <1>3 DEF SessionTypeOK, Units, Database!Statements, Database!Long
<1>5. GotInv(c)'
  <2>1. PICK V : \E f : GotWith(c, V, f)
    BY <1>1 DEF GotInv
  <2>2. PICK f : GotWith(c, V, f)
    BY <2>1
  <2>3. chunks[c] = <<>> /\ got[c] = <<>> /\ Len(<<>>) = 0 /\ 0 \in 0..0
    BY <1>2, <2>2 DEF GotWith
  <2>4. f[0] = Fresh /\ Fresh.out = <<>> /\ Fresh.db = Database!NewDb
    <3>1. f[0] = Fresh
      BY <2>2, <2>3 DEF GotWith, IsAfter
    <3> QED
      BY <3>1 DEF Fresh
  <2>5. IsAfter(f, chunks[c])'
    BY <1>2, <2>2 DEF GotWith, IsAfter, After, Exec
  <2>6. GotWith(c, V, f)'
    BY <1>2, <1>3, <2>2, <2>3, <2>4, <2>5 DEF GotWith
  <2> QED
    BY <2>6 DEF GotInv
<1>6. \A o \in Clients \ {c} : GotInv(o)'
  BY <1>1, <1>2, <1>3, GotKept DEF SessionTypeOK
<1> QED
  BY <1>4, <1>5, <1>6 DEF SessionsInv

(* An answer was written, ... *)
LEMMA AnswerWritten ==
    ASSUME SessionsInv, Serves, program' = program, NEW c \in Clients, EchoServer!Written(c)
    PROVE  SessionsInv'
<1>1. SessionTypeOK /\ \A o \in Clients : GotInv(o)
  BY DEF SessionsInv
<1>2. /\ session[c] = "writing" /\ session' = [session EXCEPT ![c] = "reading"]
      /\ got' = [got EXCEPT ![c] = @ \o data_[c]]
      /\ UNCHANGED <<up, data_, db, chunks, ended>>
  BY DEF EchoServer!Written
<1>3. /\ session'[c] = "reading" /\ got'[c] = got[c] \o data_[c]
      /\ session' \in [Clients -> {"none", "reading", "writing", "gone"}]
      /\ got' = [o \in Clients |-> got'[o]]
      /\ \A o \in Clients \ {c} : session'[o] = session[o] /\ got'[o] = got[o]
  BY <1>1, <1>2 DEF SessionTypeOK
<1>4. SessionTypeOK'
  BY <1>1, <1>2, <1>3 DEF SessionTypeOK, Units, Database!Statements, Database!Long
<1>5. GotInv(c)'
  <2>1. PICK V : \E f : GotWith(c, V, f)
    BY <1>1 DEF GotInv
  <2>2. PICK f : GotWith(c, V, f)
    BY <2>1
  <2> DEFINE out == f[Len(chunks[c])].out
  <2>3. out \in Seq(V) /\ out = got[c] \o data_[c]
    BY <1>2, <2>2 DEF GotWith
  <2>4. got'[c] = out /\ IsPrefix(got'[c], out)
    <3> HIDE DEF out
    <3>1. IsPrefix(out, out)
      BY <2>3, PrefixSelf
    <3> QED
      BY <1>3, <2>3, <3>1
  <2>5. IsAfter(f, chunks[c])'
    BY <1>2, <2>2 DEF GotWith, IsAfter, After, Exec
  <2>6. GotWith(c, V, f)'
    BY <1>2, <1>3, <2>2, <2>3, <2>4, <2>5 DEF GotWith
  <2> QED
    BY <2>6 DEF GotInv
<1>6. \A o \in Clients \ {c} : GotInv(o)'
  BY <1>1, <1>2, <1>3, GotKept DEF SessionTypeOK
<1> QED
  BY <1>4, <1>5, <1>6 DEF SessionsInv

(* ... or a part of it, or none. *)
LEMMA FailsInv ==
    ASSUME SessionsInv, Serves, program' = program, NEW c \in Clients, EchoServer!Fails(c)
    PROVE  SessionsInv'
<1>1. SessionTypeOK /\ \A o \in Clients : GotInv(o)
  BY DEF SessionsInv
<1>2. /\ session[c] \in {"reading", "writing"} /\ session' = [session EXCEPT ![c] = "gone"]
      /\ UNCHANGED <<up, data_, db, chunks, ended>>
  BY DEF EchoServer!Fails
<1>3. PICK n \in 0..Len(data_[c]) : /\ session[c] = "reading" => n = 0
                                    /\ got' = [got EXCEPT ![c] = @ \o SubSeq(data_[c], 1, n)]
  BY DEF EchoServer!Fails
<1>4. /\ session'[c] = "gone" /\ got'[c] = got[c] \o SubSeq(data_[c], 1, n)
      /\ session' \in [Clients -> {"none", "reading", "writing", "gone"}]
      /\ got' = [o \in Clients |-> got'[o]]
      /\ \A o \in Clients \ {c} : session'[o] = session[o] /\ got'[o] = got[o]
  BY <1>1, <1>2, <1>3 DEF SessionTypeOK
<1>5. SessionTypeOK'
  BY <1>1, <1>2, <1>4 DEF SessionTypeOK, Units, Database!Statements, Database!Long
<1>6. GotInv(c)'
  <2>1. PICK V : \E f : GotWith(c, V, f)
    BY <1>1 DEF GotInv
  <2>2. PICK f : GotWith(c, V, f)
    BY <2>1
  <2> DEFINE out == f[Len(chunks[c])].out
             s == got[c]
             t == data_[c]
  <2>3. out \in Seq(V) /\ s \in Seq(V) /\ t \in Seq(V) /\ IsPrefix(s, out)
    BY <2>2 DEF GotWith
  <2>4. session[c] = "writing" => out = s \o t
    BY <2>2 DEF GotWith
  <2> HIDE DEF out
  <2>5. got'[c] \in Seq(V) /\ IsPrefix(got'[c], s \o t)
    BY <1>3, <1>4, <2>3, PrefixPart
  <2>6. IsPrefix(got'[c], out)
    <3>1. CASE session[c] = "writing"
      BY <2>4, <2>5, <3>1
    <3>2. CASE session[c] = "reading"
      <4>1. n = 0 /\ SubSeq(t, 1, 0) = <<>>
        BY <1>3, <2>3, <3>2
      <4>2. got'[c] = s
        BY <1>4, <2>3, <4>1
      <4> QED
        BY <2>3, <4>2
    <3> QED
      BY <1>2, <3>1, <3>2
  <2>7. IsAfter(f, chunks[c])'
    BY <1>2, <2>2 DEF GotWith, IsAfter, After, Exec
  <2>8. GotWith(c, V, f)'
    BY <1>2, <1>4, <2>2, <2>5, <2>6, <2>7 DEF GotWith, out
  <2> QED
    BY <2>8 DEF GotInv
<1>7. \A o \in Clients \ {c} : GotInv(o)'
  BY <1>1, <1>2, <1>4, GotKept DEF SessionTypeOK
<1> QED
  BY <1>5, <1>6, <1>7 DEF SessionsInv

(* A session reads, and what it answers is to be written. *)
LEMMA ReadsInv ==
    ASSUME SessionsInv, Serves, program' = program, NEW c \in Clients, Reads(c), ~ended
    PROVE  SessionsInv'
<1>1. SessionTypeOK /\ \A o \in Clients : GotInv(o)
  BY DEF SessionsInv
<1>2. PICK n \in 1..max_length :
          LET chunk == SubSeq(up[c], 1, n)
              result == Exec(db[c], chunk)
          IN  /\ n <= Len(up[c])
              /\ up' = [up EXCEPT ![c] = SubSeq(@, n + 1, Len(@))]
              /\ chunks' = [chunks EXCEPT ![c] = Append(@, chunk)]
              /\ IF result.undefined \/ Len(result.answer) > max_length
                 THEN ended' = TRUE /\ UNCHANGED <<session, data_, db>>
                 ELSE /\ data_' = [data_ EXCEPT ![c] = result.answer]
                      /\ db' = [db EXCEPT ![c] = result.db]
                      /\ session' = [session EXCEPT ![c] = "writing"]
                      /\ UNCHANGED ended
  BY DEF Reads
<1> DEFINE chunk == SubSeq(up[c], 1, n)
           r == Exec(db[c], chunk)
           rest == SubSeq(up[c], n + 1, Len(up[c]))
           l == Len(chunks[c])
           s == Append(chunks[c], chunk)
<1>3. /\ n <= Len(up[c]) /\ up' = [up EXCEPT ![c] = rest] /\ chunks' = [chunks EXCEPT ![c] = s]
      /\ session[c] = "reading" /\ got' = got
  BY <1>2 DEF Reads
<1>4. \/ ended' = TRUE /\ UNCHANGED <<session, data_, db>>
      \/ /\ data_' = [data_ EXCEPT ![c] = r.answer] /\ db' = [db EXCEPT ![c] = r.db]
         /\ session' = [session EXCEPT ![c] = "writing"] /\ ended' = ended
  BY <1>2
<1>5. up[c] \in Seq(Units) /\ chunks[c] \in Seq(Seq(Units)) /\ n \in Nat /\ n > 0
  BY <1>1 DEF SessionTypeOK
<1>6. chunk \in Seq(Units) /\ rest \in Seq(Units)
  BY <1>3, <1>5
<1> HIDE DEF chunk, rest, r
<1>7. s \in Seq(Seq(Units)) /\ Len(s) = l + 1 /\ l \in Nat
  BY <1>5, <1>6, AppendProperties
<1> HIDE DEF s
<1>8. /\ up' \in [Clients -> Seq(Units)] /\ chunks' \in [Clients -> Seq(Seq(Units))]
      /\ chunks'[c] = s /\ \A o \in Clients \ {c} : chunks'[o] = chunks[o]
  BY <1>1, <1>3, <1>6, <1>7 DEF SessionTypeOK
<1>9. \/ ended' = TRUE /\ session'[c] = "reading" /\ data_'[c] = data_[c]
      \/ /\ data_'[c] = r.answer /\ db'[c] = r.db /\ session'[c] = "writing"
  BY <1>1, <1>3, <1>4 DEF SessionTypeOK
<1>10. /\ session' \in [Clients -> {"none", "reading", "writing", "gone"}]
       /\ data_' = [o \in Clients |-> data_'[o]] /\ db' = [o \in Clients |-> db'[o]]
       /\ ended' \in BOOLEAN
       /\ \A o \in Clients \ {c} : session'[o] = session[o] /\ data_'[o] = data_[o] /\ db'[o] = db[o]
  BY <1>1, <1>4 DEF SessionTypeOK
<1>11. SessionTypeOK'
  BY <1>1, <1>3, <1>8, <1>10 DEF SessionTypeOK, Units, Database!Statements, Database!Long
<1>12. GotInv(c)'
  <2>1. PICK V : \E f : GotWith(c, V, f)
    BY <1>1 DEF GotInv
  <2>2. PICK f : GotWith(c, V, f)
    BY <2>1
  <2>3. /\ IsAfter(f, chunks[c]) /\ got[c] \in Seq(V) /\ data_[c] \in Seq(V) /\ f[l].out \in Seq(V)
        /\ got[c] = f[l].out /\ db[c] = f[l].db
    BY <1>3, <2>2 DEF GotWith
  <2>4. PICK g : IsAfter(g, s) /\ g[l + 1] = After(f[l].db, f[l].out, chunk)
    BY <1>5, <1>6, <2>3, AfterOneMore DEF s
  <2>5. g[l + 1].db = r.db /\ g[l + 1].out = got[c] \o r.answer
    <3>1. PICK m \in Nat : m = l + 1
      BY <1>7
    <3>2. g[m] = After(db[c], got[c], chunk)
      BY <2>3, <2>4, <3>1
    <3>3. \A d, o : After(d, o, chunk).db = Exec(d, chunk).db /\ After(d, o, chunk).out = o \o Exec(d, chunk).answer
      BY DEF After
    <3>4. g[m].db = Exec(db[c], chunk).db /\ g[m].out = got[c] \o Exec(db[c], chunk).answer
      BY <3>2, <3>3
    <3>5. g[m].db = r.db /\ g[m].out = got[c] \o r.answer
      BY <3>4 DEF r
    <3> QED
      BY <3>1, <3>5
  <2>6. PICK W : r.answer \in Seq(W)
    BY <1>6, AnswerIsSeq DEF r
  <2> DEFINE X == V \union W
             last == g[Len(s)]
  <2>7. got[c] \in Seq(X) /\ data_[c] \in Seq(X) /\ r.answer \in Seq(X)
    BY <2>3, <2>6
  <2> HIDE DEF X, last
  <2>8. last.db = r.db /\ last.out = got[c] \o r.answer
    BY <1>7, <2>5 DEF last
  <2>9. last.out \in Seq(X) /\ IsPrefix(got[c], last.out)
    <3>1. got[c] \o r.answer \in Seq(X)
      BY <2>7, ConcatProperties
    <3>2. IsPrefix(got[c], got[c] \o r.answer)
      BY <2>7, PrefixSelf, PrefixOn
    <3> QED
      BY <2>8, <3>1, <3>2
  <2>10. data_'[c] \in Seq(X)
    BY <1>9, <2>7
  <2>11. IsAfter(g, chunks[c])'
    BY <1>8, <2>4 DEF IsAfter, After, Exec
  <2>12. /\ session'[c] = "reading" => ended'
         /\ session'[c] = "writing" => last.out = got[c] \o data_'[c] /\ db'[c] = last.db
    BY <1>9, <2>8
  <2>13. GotWith(c, X, g)'
    BY <1>3, <1>8, <1>9, <2>7, <2>9, <2>10, <2>11, <2>12 DEF GotWith, last
  <2> QED
    BY <2>13 DEF GotInv
<1>13. \A o \in Clients \ {c} : GotInv(o)'
  BY <1>1, <1>3, <1>8, <1>10, GotKept DEF SessionTypeOK
<1> QED
  BY <1>11, <1>12, <1>13 DEF SessionsInv

(* The inductive invariant of the sessions. *)
LEMMA SessionsInductive == Spec => []SessionsInv
<1>1. SessionsInv /\ [Next]_vars => SessionsInv'
  <2>1. ASSUME [Next]_vars, ~Serves PROVE ~Serves'
    BY <2>1 DEF Next, vars, ChatStep, ClientStep, SessionStep, HttpStep, Serves
  <2> SUFFICES ASSUME SessionsInv, [Next]_vars, Serves PROVE SessionsInv'
    BY <2>1 DEF SessionsInv
  <2>2. SessionTypeOK /\ \A o \in Clients : GotInv(o)
    BY DEF SessionsInv
  <2>3. program' = program
    BY SessionStepIs
  <2>4. ASSUME UNCHANGED <<up, session, data_, db, got, chunks>>, ended' \in {TRUE, ended}
        PROVE  SessionsInv'
    <3>1. SessionTypeOK'
      BY <2>2, <2>4 DEF SessionTypeOK, Units, Database!Statements, Database!Long
    <3>2. \A o \in Clients : GotInv(o)'
      BY <2>2, <2>3, <2>4, GotKept DEF SessionTypeOK
    <3> QED
      BY <3>1, <3>2 DEF SessionsInv
  <2>5. CASE UNCHANGED sessionVars
    BY <2>4, <2>5 DEF sessionVars
  <2>6. ASSUME NEW c \in Clients, EchoServer!StartThrows(c) PROVE SessionsInv'
    BY <2>4, <2>6 DEF EchoServer!StartThrows
  <2> QED
    BY <2>3, <2>5, <2>6, SessionStepIs, SendsInv, AcceptInv, AnswerWritten, FailsInv, ReadsInv
<1> QED
  BY SessionsInit, <1>1, PTL DEF Spec

(* What a client of a session got is the answers. *)
LEMMA SessionsInOrder ==
    ASSUME SessionsInv
    PROVE  /\ program = "echo server" => EchoServer!AnswersInOrder
           /\ program = "join server" => JoinServer!AnswersInOrder
<1> SUFFICES ASSUME Serves
             PROVE  /\ program = "echo server" => EchoServer!AnswersInOrder
                    /\ program = "join server" => JoinServer!AnswersInOrder
  BY DEF Serves
<1>1. SessionTypeOK /\ \A c \in Clients : GotInv(c)
  BY DEF SessionsInv
<1>2. ASSUME NEW c \in Clients, NEW out,
             \A f : IsAfter(f, chunks[c]) => out = f[Len(chunks[c])].out
      PROVE  IsPrefix(got[c], out) /\ (session[c] = "reading" /\ ~ended => got[c] = out)
  <2>1. PICK V : \E f : GotWith(c, V, f)
    BY <1>1 DEF GotInv
  <2>2. PICK f : GotWith(c, V, f)
    BY <2>1
  <2>3. out = f[Len(chunks[c])].out
    BY <1>2, <2>2 DEF GotWith
  <2> QED
    BY <2>2, <2>3 DEF GotWith
<1>3. \A c \in Clients : chunks[c] \in Seq(Seq(Units))
  BY <1>1 DEF SessionTypeOK
<1>4. ASSUME program = "echo server" PROVE EchoServer!AnswersInOrder
  <2> SUFFICES ASSUME NEW c \in Clients
               PROVE  /\ IsPrefix(got[c], EchoServer!Answers(chunks[c]))
                      /\ session[c] = "reading" /\ ~ended => got[c] = EchoServer!Answers(chunks[c])
    BY DEF EchoServer!AnswersInOrder, EchoServer!IsPrefix, IsPrefix
  <2>1. \A f : IsAfter(f, chunks[c]) => EchoServer!Answers(chunks[c]) = f[Len(chunks[c])].out
    BY <1>3, <1>4, AnswersAre
  <2> QED
    BY <1>2, <2>1
<1>5. ASSUME program = "join server" PROVE JoinServer!AnswersInOrder
  <2> SUFFICES ASSUME NEW c \in Clients
               PROVE  /\ IsPrefix(got[c], JoinServer!Answers(chunks[c]))
                      /\ session[c] = "reading" /\ ~ended => got[c] = JoinServer!Answers(chunks[c])
    BY DEF JoinServer!AnswersInOrder, JoinServer!IsPrefix, IsPrefix
  <2>1. \A f : IsAfter(f, chunks[c]) => JoinServer!Answers(chunks[c]) = f[Len(chunks[c])].out
    BY <1>3, <1>5, AnswersAre
  <2> QED
    BY <1>2, <2>1
<1> QED
  BY <1>4, <1>5

(* The servers: the answers to a connection come in the order of what was  *)
(* asked in it, none left out and none mixed up, for any number of         *)
(* connections and any division of what is sent into reads, up to a step   *)
(* that is undefined (a NULL in a row, an answer longer than data_).       *)
THEOREM AnswersComeInOrder == Spec => []AnswersInOrder
<1>1. SessionsInv /\ HttpInv => AnswersInOrder
  BY SessionsInOrder, HttpInOrder DEF AnswersInOrder
<1> QED
  BY SessionsInductive, HttpInductive, <1>1, PTL
=============================================================================
