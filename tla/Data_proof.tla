----------------------------- MODULE Data_proof ------------------------------
(***************************************************************************)
(* Proofs about the programs of MCData: the files of the savers, for any   *)
(* number of threads and blocks and any clock; the mappers and the answer  *)
(* of the reducers, for any files, mappers and reducers; the vector, for   *)
(* any elements and any size of its allocator's blocks; the sparse matrix, *)
(* for any rows and columns; the duplicate finder, for any files, any size *)
(* of a block and any order of the lists.                                  *)
(***************************************************************************)
EXTENDS MCData, FiniteSetTheorems, SequenceTheorems, WellFoundedInduction, TLAPS

(* One program runs; the variables of the others stay as they are. *)
LEMMA OneProgram ==
    ASSUME [DataNext]_dataVars
    PROVE  [Saver!Next]_saveVars /\ [Next]_vars /\ [Vec!VectorNext]_vectorVars
<1>1. CASE UNCHANGED dataVars
  BY <1>1 DEF dataVars
<1>2. CASE DataNext
  BY <1>2 DEF DataNext
<1> QED
  BY <1>1, <1>2

-----------------------------------------------------------------------------
(* The savers and their files: SaveFiles.                                  *)

(* The clock in seconds goes up with its ticks. *)
LEMMA SecondsGoUp ==
    \A a, b \in Nat : /\ a \div Second \in Nat /\ a \div Second <= a
                      /\ a <= b => a \div Second <= b \div Second
                      /\ a + Second <= b => a \div Second < b \div Second
<1> USE ClockAssumption
<1> TAKE a, b \in Nat
<1>1. a \div Second \in Nat /\ a \div Second <= a
  OBVIOUS
<1>2. a <= b => a \div Second <= b \div Second
  OBVIOUS
<1>3. a + Second <= b => a \div Second < b \div Second
  OBVIOUS
<1> QED
  BY <1>1, <1>2, <1>3

Busy(w) == saver_pc[w] = "open"

SaverTypeOK ==
    /\ now \in 0..MaxTime
    /\ saver_pc \in [Threads -> {"idle", "sleeping", "open"}]
    /\ wake \in [Threads -> Nat]
    /\ name \in [Threads -> Saver!Names]
    /\ block \in [Threads -> Blocks \union {NoBlock}]
    /\ todo \in SUBSET Blocks
    /\ \A f \in files : f \in Saver!Names \X (Blocks \union {NoBlock})

(* The files of a thread are not of a later second than this one, or than  *)
(* the one it has open, and of an earlier one than that its sleep ends in. *)
NamesInv ==
    /\ \A w \in Threads, f \in files :
         f[1][2] = w =>
            /\ Busy(w) => f[1][1] <= name[w][1]
            /\ ~Busy(w) => f[1][1] <= now \div Second
            /\ saver_pc[w] = "sleeping" => f[1][1] < wake[w] \div Second
    /\ \A w \in Threads : Busy(w) => name[w][2] = w /\ name[w][1] <= now \div Second

(* The file of a block that was saved is there, and nobody has it open. *)
ClosedInv ==
    \A b \in closed : \E n \in Saver!Names : <<n, b>> \in files /\ (Busy(n[2]) => n # name[n[2]])

SaverInv == SaverTypeOK /\ NamesInv /\ ClosedInv

(* At first there is no file. *)
LEMMA SaverInit == DataInit => SaverInv
<1> SUFFICES ASSUME Saver!Init PROVE SaverInv
  BY DEF DataInit
<1> USE ClockAssumption DEF Saver!Init
<1>1. 0 \in 0..MaxTime /\ \A w \in Threads : <<0, w>> \in Saver!Names
  BY DEF Saver!Names
<1>2. SaverTypeOK
  BY <1>1 DEF SaverTypeOK
<1>3. NamesInv /\ ClosedInv
  BY DEF NamesInv, ClosedInv, Busy
<1> QED
  BY <1>2, <1>3 DEF SaverInv

(* The clock goes on, or a thread goes from one place to the next without  *)
(* touching the files.                                                     *)
LEMMA TickInv == ASSUME SaverInv, Saver!Tick PROVE SaverInv'
<1> USE ClockAssumption
<1>1. /\ SaverTypeOK /\ NamesInv /\ ClosedInv
      /\ now' = now + 1 /\ now \in Nat /\ now' \in 0..MaxTime
      /\ UNCHANGED <<todo, saver_pc, block, wake, name, files, crashed, closed>>
  BY DEF SaverInv, SaverTypeOK, Saver!Tick
<1>2. now \div Second \in Nat /\ now' \div Second \in Nat /\ now \div Second <= now' \div Second
  BY <1>1, SecondsGoUp
<1>3. SaverTypeOK'
  BY <1>1 DEF SaverTypeOK, Saver!Names
<1>4. ClosedInv'
  BY <1>1 DEF ClosedInv, Busy, Saver!Names
<1>5. ASSUME NEW w \in Threads
      PROVE  /\ name[w][1] \in Nat
             /\ \A f \in files : f[1][1] \in Nat
  BY <1>1 DEF SaverTypeOK, Saver!Names
<1>6. NamesInv'
  <2>1. ASSUME NEW w \in Threads, NEW f \in files, f[1][2] = w
        PROVE  /\ Busy(w) => f[1][1] <= name[w][1]
               /\ ~Busy(w) => f[1][1] <= now' \div Second
               /\ saver_pc[w] = "sleeping" => f[1][1] < wake[w] \div Second
    <3>1. ~Busy(w) => f[1][1] <= now \div Second
      BY <1>1, <2>1 DEF NamesInv
    <3> QED
      BY <1>1, <1>2, <1>5, <2>1, <3>1 DEF NamesInv
  <2>2. ASSUME NEW w \in Threads, Busy(w)
        PROVE  name[w][2] = w /\ name[w][1] <= now' \div Second
    BY <1>1, <1>2, <1>5, <2>2 DEF NamesInv
  <2> QED
    BY <1>1, <2>1, <2>2 DEF NamesInv, Busy
<1> QED
  BY <1>3, <1>4, <1>6 DEF SaverInv

(* A thread takes a block and begins to sleep: when it wakes, it is another *)
(* second.                                                                  *)
LEMMA StartInv == ASSUME SaverInv, NEW w \in Threads, Saver!Start(w) PROVE SaverInv'
<1> USE ClockAssumption
<1>1. /\ SaverTypeOK /\ NamesInv /\ ClosedInv
      /\ saver_pc[w] = "idle" /\ saver_pc' = [saver_pc EXCEPT ![w] = "sleeping"]
      /\ wake' = [wake EXCEPT ![w] = now + Second]
      /\ UNCHANGED <<now, name, files, crashed, closed>>
  BY DEF SaverInv, Saver!Start, Saver!Goto
<1>2. PICK b \in todo : block' = [block EXCEPT ![w] = b] /\ todo' = todo \ {b}
  BY DEF Saver!Start
<1>3. now \in Nat /\ now + Second \in Nat
  BY <1>1 DEF SaverTypeOK
<1>4. SaverTypeOK'
  <2>1. b \in Blocks
    BY <1>1 DEF SaverTypeOK
  <2> QED
    BY <1>1, <1>2, <1>3, <2>1 DEF SaverTypeOK, Saver!Names
<1>5. /\ \A v \in Threads : Busy(v)' <=> Busy(v)
      /\ \A v \in Threads \ {w} : saver_pc'[v] = saver_pc[v] /\ wake'[v] = wake[v]
      /\ ~Busy(w) /\ wake'[w] = now + Second
  BY <1>1 DEF SaverTypeOK, Busy
<1>6. ASSUME NEW f \in files, f[1][2] = w PROVE f[1][1] < wake'[w] \div Second
  <2>1. /\ now \div Second \in Nat /\ (now + Second) \div Second \in Nat
        /\ now \div Second < (now + Second) \div Second
    BY <1>3, SecondsGoUp
  <2>2. f[1][1] <= now \div Second /\ f[1][1] \in Nat
    BY <1>1, <1>5, <1>6 DEF NamesInv, SaverTypeOK, Saver!Names
  <2> QED
    BY <1>5, <2>1, <2>2
<1>7. NamesInv'
  BY <1>1, <1>5, <1>6 DEF NamesInv
<1>8. ClosedInv'
  BY <1>1, <1>5 DEF ClosedInv, Saver!Names
<1> QED
  BY <1>4, <1>7, <1>8 DEF SaverInv

(* The file is a new one. *)
LEMMA OpenInv == ASSUME SaverInv, NEW w \in Threads, Saver!Open(w) PROVE SaverInv'
<1> USE ClockAssumption
<1> DEFINE n == <<now \div Second, w>>
<1>1. /\ SaverTypeOK /\ NamesInv /\ ClosedInv
      /\ saver_pc[w] = "sleeping" /\ saver_pc' = [saver_pc EXCEPT ![w] = "open"]
      /\ name' = [name EXCEPT ![w] = n]
      /\ files' = (files \ Saver!Named(n)) \union {<<n, NoBlock>>}
      /\ now >= wake[w]
      /\ UNCHANGED <<now, todo, block, wake, crashed, closed>>
  BY DEF SaverInv, Saver!Open, Saver!Goto, Saver!FileName
<1>2. now \in Nat /\ now \div Second \in 0..MaxTime
  BY <1>1, SecondsGoUp DEF SaverTypeOK
<1>3. n \in Saver!Names /\ n[1] = now \div Second /\ n[2] = w
  BY <1>2 DEF Saver!Names
<1>4. ~Busy(w)
  BY <1>1 DEF Busy
<1>5. Saver!Named(n) = {}
  <2> SUFFICES ASSUME NEW f \in files, f[1] = n PROVE FALSE
    BY DEF Saver!Named
  <2>1. f[1][2] = w /\ f[1][1] = now \div Second
    BY <1>3
  <2>2. f[1][1] < wake[w] \div Second
    BY <1>1, <2>1 DEF NamesInv
  <2>3. wake[w] \in Nat /\ wake[w] <= now
    BY <1>1, <1>2 DEF SaverTypeOK
  <2>4. wake[w] \div Second \in Nat /\ wake[w] \div Second <= now \div Second
    BY <1>2, <2>3, SecondsGoUp
  <2> QED
    BY <1>2, <2>1, <2>2, <2>4
<1>6. files' = files \union {<<n, NoBlock>>}
  BY <1>1, <1>5
<1>7. /\ name'[w] = n /\ Busy(w)' /\ saver_pc'[w] = "open"
      /\ \A v \in Threads \ {w} : name'[v] = name[v] /\ saver_pc'[v] = saver_pc[v] /\ (Busy(v)' <=> Busy(v))
  BY <1>1 DEF SaverTypeOK, Busy
<1> HIDE DEF n
<1>8. SaverTypeOK'
  <2>1. name' \in [Threads -> Saver!Names] /\ saver_pc' \in [Threads -> {"idle", "sleeping", "open"}]
    BY <1>1, <1>3 DEF SaverTypeOK
  <2>2. \A f \in files' : f \in Saver!Names \X (Blocks \union {NoBlock})
    BY <1>1, <1>3, <1>6 DEF SaverTypeOK
  <2> QED
    BY <1>1, <2>1, <2>2 DEF SaverTypeOK, Saver!Names
<1>9. NamesInv'
  <2>1. ASSUME NEW v \in Threads, NEW f \in files', f[1][2] = v
        PROVE  /\ Busy(v)' => f[1][1] <= name'[v][1]
               /\ ~Busy(v)' => f[1][1] <= now \div Second
               /\ saver_pc'[v] = "sleeping" => f[1][1] < wake[v] \div Second
    <3>1. CASE f = <<n, NoBlock>>
      <4>1. v = w /\ f[1] = n
        BY <1>3, <2>1, <3>1
      <4> QED
        BY <1>2, <1>3, <1>7, <4>1
    <3>2. CASE f \in files /\ v = w
      <4>1. f[1][1] <= now \div Second /\ f[1][1] \in Nat
        BY <1>1, <1>4, <2>1, <3>2 DEF NamesInv, SaverTypeOK, Saver!Names
      <4> QED
        BY <1>2, <1>3, <1>7, <3>2, <4>1
    <3>3. CASE f \in files /\ v # w
      BY <1>1, <1>7, <2>1, <3>3 DEF NamesInv
    <3> QED
      BY <1>6, <3>1, <3>2, <3>3
  <2>2. ASSUME NEW v \in Threads, Busy(v)'
        PROVE  name'[v][2] = v /\ name'[v][1] <= now \div Second
    <3>1. CASE v = w
      BY <1>2, <1>3, <1>7, <3>1
    <3>2. CASE v # w
      BY <1>1, <1>7, <2>2, <3>2 DEF NamesInv
    <3> QED
      BY <3>1, <3>2
  <2> QED
    BY <1>1, <2>1, <2>2 DEF NamesInv
<1>10. ClosedInv'
  <2> SUFFICES ASSUME NEW b \in closed
               PROVE  \E m \in Saver!Names : <<m, b>> \in files' /\ (Busy(m[2])' => m # name'[m[2]])
    BY <1>1 DEF ClosedInv, Saver!Names
  <2>1. PICK m \in Saver!Names : <<m, b>> \in files /\ (Busy(m[2]) => m # name[m[2]])
    BY <1>1 DEF ClosedInv
  <2>2. m[2] \in Threads /\ <<m, b>> \in files'
    BY <1>6, <2>1 DEF Saver!Names
  <2>3. CASE m[2] = w
    <3>1. m # n
      BY <1>5, <2>1 DEF Saver!Named
    <3> QED
      BY <1>7, <2>2, <2>3, <3>1
  <2>4. CASE m[2] # w
    BY <1>7, <2>1, <2>2, <2>4
  <2> QED
    BY <2>3, <2>4
<1> QED
  BY <1>8, <1>9, <1>10 DEF SaverInv

(* What is replaced is the thread's own file. *)
LEMMA CloseInv == ASSUME SaverInv, NEW w \in Threads, Saver!Close(w) PROVE SaverInv'
<1> USE ClockAssumption
<1>1. /\ SaverTypeOK /\ NamesInv /\ ClosedInv
      /\ saver_pc[w] = "open" /\ saver_pc' = [saver_pc EXCEPT ![w] = "idle"]
      /\ files' = (files \ Saver!Named(name[w])) \union {<<name[w], block[w]>>}
      /\ block' = [block EXCEPT ![w] = NoBlock]
      /\ closed' = closed \union {block[w]}
      /\ UNCHANGED <<now, todo, wake, name, crashed>>
  BY DEF SaverInv, Saver!Close, Saver!Goto
<1>2. /\ name[w] \in Saver!Names /\ name[w][2] = w /\ name[w][1] \in Nat
      /\ block[w] \in Blocks \union {NoBlock}
  BY <1>1 DEF SaverTypeOK, Saver!Names, NamesInv, Busy
<1>3. name[w][1] <= now \div Second /\ now \div Second \in Nat
  <2>1. now \in Nat
    BY <1>1 DEF SaverTypeOK
  <2>2. now \div Second \in Nat
    BY <2>1, SecondsGoUp
  <2> QED
    BY <1>1, <2>2 DEF NamesInv, Busy
<1>4. /\ Busy(w) /\ ~Busy(w)' /\ saver_pc'[w] = "idle"
      /\ \A v \in Threads \ {w} : saver_pc'[v] = saver_pc[v] /\ (Busy(v)' <=> Busy(v))
  BY <1>1 DEF SaverTypeOK, Busy
<1>5. \A f \in files' : f \in files \/ f = <<name[w], block[w]>>
  BY <1>1
<1>6. SaverTypeOK'
  <2>1. \A f \in files' : f \in Saver!Names \X (Blocks \union {NoBlock})
    BY <1>1, <1>2, <1>5 DEF SaverTypeOK
  <2> QED
    BY <1>1, <2>1 DEF SaverTypeOK, Saver!Names
<1>7. NamesInv'
  <2>1. ASSUME NEW v \in Threads, NEW f \in files', f[1][2] = v
        PROVE  /\ Busy(v)' => f[1][1] <= name[v][1]
               /\ ~Busy(v)' => f[1][1] <= now \div Second
               /\ saver_pc'[v] = "sleeping" => f[1][1] < wake[v] \div Second
    <3>1. CASE v = w
      <4>1. f[1][1] <= name[w][1] /\ f[1][1] \in Nat
        <5>1. CASE f = <<name[w], block[w]>>
          BY <1>2, <5>1
        <5>2. CASE f \in files
          BY <1>1, <1>4, <2>1, <3>1, <5>2 DEF NamesInv, SaverTypeOK, Saver!Names
        <5> QED
          BY <1>5, <5>1, <5>2
      <4> QED
        BY <1>2, <1>3, <1>4, <3>1, <4>1
    <3>2. CASE v # w
      <4>1. f \in files
        BY <1>2, <1>5, <2>1, <3>2
      <4> QED
        BY <1>1, <1>4, <2>1, <3>2, <4>1 DEF NamesInv
    <3> QED
      BY <3>1, <3>2
  <2>2. ASSUME NEW v \in Threads, Busy(v)'
        PROVE  name[v][2] = v /\ name[v][1] <= now \div Second
    BY <1>1, <1>4, <2>2 DEF NamesInv
  <2> QED
    BY <1>1, <2>1, <2>2 DEF NamesInv
<1>8. ClosedInv'
  <2> SUFFICES ASSUME NEW b \in closed'
               PROVE  \E m \in Saver!Names : <<m, b>> \in files' /\ (Busy(m[2])' => m # name[m[2]])
    BY <1>1 DEF ClosedInv, Saver!Names
  <2>1. CASE b = block[w]
    <3>1. PICK m \in Saver!Names : m = name[w]
      BY <1>2
    <3>2. <<m, b>> \in files' /\ m[2] = w
      BY <1>1, <1>2, <2>1, <3>1
    <3> QED
      BY <1>4, <3>2
  <2>2. CASE b \in closed
    <3>1. PICK m \in Saver!Names : <<m, b>> \in files /\ (Busy(m[2]) => m # name[m[2]])
      BY <1>1, <2>2 DEF ClosedInv
    <3>2. m[2] \in Threads
      BY DEF Saver!Names
    <3>3. m # name[w]
      BY <1>2, <1>4, <3>1
    <3>4. <<m, b>> \in files'
      BY <1>1, <3>1, <3>3 DEF Saver!Named
    <3> QED
      BY <1>4, <3>1, <3>2, <3>4
  <2> QED
    BY <1>1, <2>1, <2>2
<1> QED
  BY <1>6, <1>7, <1>8 DEF SaverInv

(* The savers' files: a block that was saved stays saved, since no file is *)
(* opened twice.                                                           *)
THEOREM SavedStay == DataSpec => []SavedBlocksStay
<1>1. SaverInv /\ [DataNext]_dataVars => SaverInv'
  <2> SUFFICES ASSUME SaverInv, [Saver!Next]_saveVars PROVE SaverInv'
    BY OneProgram
  <2>1. ASSUME UNCHANGED <<now, todo, saver_pc, block, wake, name, files, closed>>
        PROVE  SaverInv'
    BY <2>1 DEF SaverInv, SaverTypeOK, NamesInv, ClosedInv, Busy, Saver!Names
  <2>2. CASE UNCHANGED saveVars
    BY <2>1, <2>2 DEF saveVars
  <2>3. ASSUME NEW w \in Threads, Saver!OpenFails(w) PROVE SaverInv'
    BY <2>1, <2>3 DEF Saver!OpenFails
  <2> QED
    BY <2>2, <2>3, TickInv, StartInv, OpenInv, CloseInv DEF Saver!Next
<1>2. SaverInv => SavedBlocksStay
  BY DEF SaverInv, ClosedInv, SavedBlocksStay, Saver!SavedBlocksStay
<1> QED
  BY SaverInit, <1>1, <1>2, PTL DEF DataSpec

-----------------------------------------------------------------------------
(* The mappers and their stream: MapReduce.                                *)

(* Numbers that are not negative have a least one. *)
LEMMA LeastOne == ASSUME NEW T \in SUBSET Nat, T # {} PROVE \E n \in T : \A m \in T : n <= m
<1>1. \E x \in T : \A y \in T : ~(<<y, x>> \in OpToRel(<, Nat))
  BY NatLessThanWellFounded, WFMin
<1>2. PICK x \in T : \A y \in T : ~(<<y, x>> \in OpToRel(<, Nat))
  BY <1>1
<1>3. \A y \in T : ~(y < x)
  BY <1>2 DEF OpToRel
<1> QED
  BY <1>3

(* A file's bytes are finitely many, and those of more lines are more. *)
LEMMA BytesFinite ==
    ASSUME NEW lns \in Seq(Seq(Nat)), NEW i \in 0..Len(lns)
    PROVE  IsFiniteSet(BytesTo(lns, i))
<1> DEFINE Of(l) == {l} \X (1..Len(lns[l]) + 1)
           g == [l \in 1..i |-> Of(l)]
           S == {Of(l) : l \in 1..i}
<1>1. i \in Nat /\ IsFiniteSet(1..i)
  BY FS_Interval
<1>2. ASSUME NEW l \in 1..i PROVE IsFiniteSet(Of(l))
  <2>1. lns[l] \in Seq(Nat) /\ Len(lns[l]) + 1 \in Int
    OBVIOUS
  <2>2. IsFiniteSet({l})
    BY FS_Singleton
  <2>3. IsFiniteSet(1..Len(lns[l]) + 1)
    BY <2>1, 1 \in Int, FS_Interval
  <2> QED
    BY <2>2, <2>3, FS_Product
<1> HIDE DEF Of
<1>3. g \in Surjection(1..i, S)
  BY DEF Surjection
<1>4. IsFiniteSet(S)
  BY <1>1, <1>3, FS_Surjection
<1>5. IsFiniteSet(UNION S)
  BY <1>2, <1>4, FS_UNION
<1> QED
  BY <1>5 DEF BytesTo, Of

(* More lines have more bytes. *)
LEMMA MoreBytes ==
    ASSUME NEW lns \in Seq(Seq(Nat)), NEW i \in 0..Len(lns), NEW j \in 0..Len(lns), i <= j
    PROVE  /\ Cardinality(BytesTo(lns, i)) \in Nat /\ Cardinality(BytesTo(lns, j)) \in Nat
           /\ Cardinality(BytesTo(lns, i)) <= Cardinality(BytesTo(lns, j))
<1>1. BytesTo(lns, i) \subseteq BytesTo(lns, j)
  <2>1. 1..i \subseteq 1..j
    OBVIOUS
  <2> QED
    BY <2>1 DEF BytesTo
<1>2. IsFiniteSet(BytesTo(lns, i)) /\ IsFiniteSet(BytesTo(lns, j))
  BY BytesFinite
<1> QED
  BY <1>1, <1>2, FS_Subset, FS_CardinalityType

(* Where the lines of a file end. *)
EndAt(f, i) ==
    Cardinality(BytesTo(f.lines, i)) - (IF i = Len(f.lines) /\ ~f.ended THEN 1 ELSE 0)

(* EndOf is the end in the file that is read. *)
LEMMA EndIs == \A i : EndOf(i) = EndAt(input, i)
BY DEF EndOf, EndAt

(* The ends of a file's lines grow, and the last one is its size, which is *)
(* a size_t.                                                               *)
LEMMA EndsGrow ==
    ASSUME NEW f \in Inputs
    PROVE  /\ Len(f.lines) \in Nat
           /\ EndAt(f, Len(f.lines)) \in Nat /\ EndAt(f, Len(f.lines)) <= Wrap /\ Wrap \in Nat /\ Wrap > 0
           /\ \A i \in 0..Len(f.lines) : EndAt(f, i) \in Int
           /\ \A i, j \in 0..Len(f.lines) - 1 : i <= j => EndAt(f, i) <= EndAt(f, j)
<1> DEFINE n == Len(f.lines)
           C(i) == Cardinality(BytesTo(f.lines, i))
<1>1. f.lines \in Seq(Seq(Nat)) /\ (f.lines = <<>> => f.ended)
  BY InputsAssumption
<1>2. n \in Nat /\ (n = 0 => f.ended)
  BY <1>1
<1>3. \A i \in 0..n : C(i) \in Nat
  <2> SUFFICES ASSUME NEW i \in 0..n PROVE C(i) \in Nat
    OBVIOUS
  <2>1. IsFiniteSet(BytesTo(f.lines, i))
    BY <1>1, BytesFinite
  <2> QED
    BY <2>1, FS_CardinalityType
<1>4. \A i, j \in 0..n : i <= j => C(i) <= C(j)
  BY <1>1, <1>2, MoreBytes
<1>5. n > 0 => C(n) # 0
  <2> SUFFICES ASSUME n > 0 PROVE C(n) # 0
    OBVIOUS
  <2>1. f.lines[1] \in Seq(Nat) /\ 1 \in 1..n
    BY <1>1, <1>2
  <2>2. 1 \in 1..Len(f.lines[1]) + 1
    BY <2>1
  <2>3. <<1, 1>> \in BytesTo(f.lines, n)
    BY <2>1, <2>2 DEF BytesTo
  <2>4. IsFiniteSet(BytesTo(f.lines, n))
    BY <1>1, <1>2, BytesFinite
  <2> QED
    BY <2>3, <2>4, FS_EmptySet
<1>6. C(n) <= Wrap /\ Wrap \in Nat /\ Wrap > 0
  BY SizeAssumption
<1>7. \A i \in 0..n : EndAt(f, i) = C(i) \/ (i = n /\ ~f.ended /\ EndAt(f, i) = C(i) - 1)
  <2> SUFFICES ASSUME NEW i \in 0..n PROVE EndAt(f, i) = C(i) \/ (i = n /\ ~f.ended /\ EndAt(f, i) = C(i) - 1)
    OBVIOUS
  <2>1. C(i) \in Nat
    BY <1>3
  <2>2. EndAt(f, i) = C(i) - (IF i = n /\ ~f.ended THEN 1 ELSE 0)
    BY DEF EndAt
  <2> HIDE DEF C, n
  <2>3. CASE i = n /\ ~f.ended
    BY <2>2, <2>3
  <2>4. CASE ~(i = n /\ ~f.ended)
    <3>1. EndAt(f, i) = C(i) - 0
      BY <2>2, <2>4
    <3> QED
      BY <2>1, <3>1
  <2> QED
    BY <2>3, <2>4
<1>8. \A i \in 0..n - 1 : EndAt(f, i) = C(i)
  BY <1>2, <1>7
<1> HIDE DEF C, n
<1>9. EndAt(f, n) \in Nat /\ EndAt(f, n) <= Wrap /\ Wrap > 0
  <2>1. C(n) \in Nat /\ (EndAt(f, n) = C(n) \/ (n > 0 /\ EndAt(f, n) = C(n) - 1))
    BY <1>2, <1>3, <1>7
  <2> QED
    BY <1>5, <1>6, <2>1
<1>10. \A i \in 0..n : EndAt(f, i) \in Int
  BY <1>3, <1>7
<1>11. \A i, j \in 0..n - 1 : i <= j => EndAt(f, i) <= EndAt(f, j)
  BY <1>2, <1>4, <1>8
<1> QED
  BY <1>2, <1>6, <1>9, <1>10, <1>11 DEF n

(* The last mapper has had enough only when fewer bytes are left than      *)
(* there are mappers: those that equal shares leave over.                  *)
LEMMA LastShare ==
    ASSUME input \in Inputs
    PROVE  /\ To(Mappers) \in Int
           /\ To(Mappers) >= EndAt(input, Len(input.lines)) - Mappers
<1> DEFINE size == EndAt(input, Len(input.lines))
           pos == ((size \div Mappers) * Mappers - 1) % Wrap
           ahead == {n \in Newlines : n >= pos}
<1>1. Mappers \in Nat /\ Mappers > 0 /\ size \in Nat /\ size <= Wrap /\ Wrap \in Nat /\ Wrap > 0
  BY CountsAssumption, EndsGrow
<1>2. pos \in Nat /\ pos >= size - Mappers
  <2> DEFINE q == size \div Mappers
             p == q * Mappers
  <2> HIDE DEF size
  <2>1. q \in Nat /\ p \in Nat /\ p <= size /\ size < p + Mappers
    BY <1>1
  <2> HIDE DEF q, p
  <2>2. pos = (p - 1) % Wrap
    BY DEF p, q
  <2> HIDE DEF pos
  <2>3. CASE p > 0
    <3>1. p - 1 \in 0..Wrap - 1
      BY <1>1, <2>1, <2>3
    <3>2. pos = p - 1
      BY <1>1, <2>2, <3>1
    <3> QED
      BY <1>1, <2>1, <2>3, <3>2
  <2>4. CASE p = 0
    <3>1. pos \in Nat
      BY <1>1, <2>1, <2>2
    <3> QED
      BY <1>1, <2>1, <2>4, <3>1
  <2> QED
    BY <2>1, <2>3, <2>4
<1>3. To(Mappers) = IF pos >= size THEN pos ELSE IF ahead = {} THEN size ELSE Min(ahead)
  BY EndIs DEF To
<1>4. Newlines \subseteq Int
  <2> SUFFICES ASSUME NEW i \in Lines PROVE EndOf(i) - 1 \in Int
    BY DEF Newlines
  <2>1. i \in 0..Len(input.lines)
    BY InputsAssumption DEF Lines
  <2>2. EndOf(i) \in Int
    BY <2>1, EndIs, EndsGrow
  <2> QED
    BY <2>2
<1>5. ahead # {} => Min(ahead) \in ahead
  <2> SUFFICES ASSUME ahead # {} PROVE Min(ahead) \in ahead
    OBVIOUS
  <2>1. ahead \in SUBSET Nat
    <3> SUFFICES ASSUME NEW n \in Newlines, n >= pos PROVE n \in Nat
      OBVIOUS
    <3>1. n \in Int /\ pos \in Nat
      BY <1>2, <1>4
    <3> HIDE DEF pos
    <3> QED
      BY <3>1
  <2>2. \E x \in ahead : \A y \in ahead : x <= y
    BY <2>1, LeastOne
  <2> HIDE DEF ahead
  <2> QED
    BY <2>2 DEF Min
<1>6. ahead # {} => Min(ahead) >= pos /\ Min(ahead) \in Int
  BY <1>4, <1>5
<1> HIDE DEF size, pos, ahead
<1>7. To(Mappers) \in Int /\ To(Mappers) >= size - Mappers
  BY <1>1, <1>2, <1>3, <1>6
<1> QED
  BY <1>7 DEF size

(* Each line the stream has passed is with one mapper, in one place. *)
ReadInv ==
    /\ input \in Inputs
    /\ next \in Nat \ {0} /\ next <= Len(input.lines) + 1
    /\ svec \in [M -> Seq(Nat)]
    /\ pc \in [M -> {"free", "reading", "got", "telling", "wrote"}]
    /\ \A m \in M : \A k \in DOMAIN svec[m] : svec[m][k] \in 1..next - 1
    /\ \A m, o \in M : \A k \in DOMAIN svec[m], l \in DOMAIN svec[o] :
          svec[m][k] = svec[o][l] => m = o /\ k = l
    /\ \A i \in 1..next - 1 : \E m \in M : \E k \in DOMAIN svec[m] : svec[m][k] = i
    /\ eof => next = Len(input.lines) + 1
    /\ \A m \in M : pc[m] \in {"got", "telling"} => next > 1

(* The map phase ends when all have written, the last mapper at the end of *)
(* the file or when little of it is left.                                  *)
Little == \/ next = Len(input.lines) + 1
          \/ \E line \in 1..next - 1 : EndAt(input, Len(input.lines)) - EndAt(input, line) < Mappers
EnoughInv ==
    /\ phase # "map" => \A m \in M : pc[m] = "wrote"
    /\ pc[Mappers] = "wrote" => Little

MapInv == ReadInv /\ EnoughInv

(* Before a map phase nothing is read. *)
LEMMA MapInit == DataInit => MapInv
<1> SUFFICES ASSUME Init PROVE MapInv
  BY DEF DataInit
<1> USE CountsAssumption
<1>1. Mappers \in M
  BY DEF M
<1>2. Len(input.lines) \in Nat
  BY EndsGrow DEF Init
<1>3. \A m \in M : svec[m] = <<>> /\ pc[m] = "free"
  BY DEF Init
<1>4. svec \in [M -> Seq(Nat)] /\ pc \in [M -> {"free", "reading", "got", "telling", "wrote"}]
  <2>1. <<>> \in Seq(Nat)
    OBVIOUS
  <2> QED
    BY <2>1 DEF Init
<1>5. ReadInv
  BY <1>2, <1>3, <1>4 DEF ReadInv, Init
<1>6. EnoughInv
  BY <1>1, <1>3 DEF EnoughInv, Init
<1> QED
  BY <1>5, <1>6 DEF MapInv

(* A mapper gets the next line. *)
LEMMA GotLineInv == ASSUME MapInv, NEW m \in M, GotLine(m) PROVE MapInv'
<1> USE CountsAssumption
<1>1. ReadInv /\ EnoughInv
  BY DEF MapInv
<1>2. /\ pc[m] = "reading" /\ next \in Lines
      /\ svec' = [svec EXCEPT ![m] = Append(svec[m], next)]
      /\ next' = next + 1 /\ pc' = [pc EXCEPT ![m] = "got"]
      /\ eof' = (eof \/ (next = Len(input.lines) /\ ~input.ended))
      /\ UNCHANGED <<input, prefix_size, phase, order, out, corrupted>>
  BY DEF GotLine
<1>4. next \in Nat /\ next > 0 /\ next <= Len(input.lines) /\ Len(input.lines) \in Nat
  BY <1>1, <1>2, InputsAssumption DEF ReadInv, Lines
<1>5. /\ \A o \in M \ {m} : svec'[o] = svec[o]
      /\ svec'[m] \in Seq(Nat) /\ Len(svec'[m]) = Len(svec[m]) + 1 /\ Len(svec[m]) \in Nat
      /\ svec'[m][Len(svec[m]) + 1] = next
      /\ \A k \in 1..Len(svec[m]) : svec'[m][k] = svec[m][k]
  <2>1. svec[m] \in Seq(Nat) /\ svec'[m] = Append(svec[m], next)
    BY <1>1, <1>2 DEF ReadInv
  <2>2. \A o \in M \ {m} : svec'[o] = svec[o]
    BY <1>1, <1>2 DEF ReadInv
  <2> QED
    BY <1>4, <2>1, <2>2, AppendProperties
<1>6. /\ DOMAIN svec'[m] = 1..Len(svec[m]) + 1 /\ DOMAIN svec[m] = 1..Len(svec[m])
  BY <1>1, <1>5 DEF ReadInv
<1>7. ASSUME NEW o \in M, NEW k \in DOMAIN svec'[o]
      PROVE  \/ k \in DOMAIN svec[o] /\ svec'[o][k] = svec[o][k] /\ svec[o][k] \in 1..next - 1
             \/ o = m /\ k = Len(svec[m]) + 1 /\ svec'[o][k] = next
  <2>1. CASE o # m
    BY <1>1, <1>5, <2>1 DEF ReadInv
  <2>2. CASE o = m /\ k \in 1..Len(svec[m])
    BY <1>1, <1>5, <1>6, <2>2 DEF ReadInv
  <2>3. CASE o = m /\ k = Len(svec[m]) + 1
    BY <1>5, <2>3
  <2>4. o = m => k \in 1..Len(svec[m]) \/ k = Len(svec[m]) + 1
    BY <1>5, <1>6
  <2> QED
    BY <2>1, <2>2, <2>3, <2>4
<1>8. svec' \in [M -> Seq(Nat)] /\ pc' \in [M -> {"free", "reading", "got", "telling", "wrote"}]
  BY <1>1, <1>2, <1>5 DEF ReadInv
<1>9. ASSUME NEW o \in M, NEW k \in DOMAIN svec'[o]
      PROVE  svec'[o][k] \in 1..next' - 1
  BY <1>2, <1>4, <1>7
<1>10. ASSUME NEW o \in M, NEW p \in M, NEW k \in DOMAIN svec'[o], NEW l \in DOMAIN svec'[p],
              svec'[o][k] = svec'[p][l]
       PROVE  o = p /\ k = l
  <2>1. \/ k \in DOMAIN svec[o] /\ svec'[o][k] = svec[o][k] /\ svec[o][k] \in 1..next - 1
        \/ o = m /\ k = Len(svec[m]) + 1 /\ svec'[o][k] = next
    BY <1>7
  <2>2. \/ l \in DOMAIN svec[p] /\ svec'[p][l] = svec[p][l] /\ svec[p][l] \in 1..next - 1
        \/ p = m /\ l = Len(svec[m]) + 1 /\ svec'[p][l] = next
    BY <1>7
  <2>3. next \notin 1..next - 1
    BY <1>4
  <2>4. CASE k \in DOMAIN svec[o] /\ svec'[o][k] = svec[o][k] /\ l \in DOMAIN svec[p] /\ svec'[p][l] = svec[p][l]
    <3>1. svec[o][k] = svec[p][l]
      BY <1>10, <2>4
    <3>2. \A q, u \in M : \A x \in DOMAIN svec[q], y \in DOMAIN svec[u] :
             svec[q][x] = svec[u][y] => q = u /\ x = y
      BY <1>1 DEF ReadInv
    <3> QED
      BY <2>4, <3>1, <3>2
  <2> QED
    BY <1>10, <2>1, <2>2, <2>3, <2>4
<1>11. ASSUME NEW i \in 1..next' - 1
       PROVE  \E o \in M : \E k \in DOMAIN svec'[o] : svec'[o][k] = i
  <2>1. CASE i \in 1..next - 1
    <3>1. PICK o \in M : \E k \in DOMAIN svec[o] : svec[o][k] = i
      BY <1>1, <2>1 DEF ReadInv
    <3>2. PICK k \in DOMAIN svec[o] : svec[o][k] = i
      BY <3>1
    <3>3. k \in DOMAIN svec'[o] /\ svec'[o][k] = i
      <4>1. CASE o # m
        BY <1>5, <3>2, <4>1
      <4>2. CASE o = m
        <5>1. k \in 1..Len(svec[m]) + 1
          BY <1>5, <1>6, <4>2
        <5> QED
          BY <1>5, <1>6, <3>2, <4>2, <5>1
      <4> QED
        BY <4>1, <4>2
    <3> QED
      BY <3>3
  <2>2. CASE i = next
    <3>1. Len(svec[m]) + 1 \in DOMAIN svec'[m]
      BY <1>5, <1>6
    <3> QED
      BY <1>5, <2>2, <3>1
  <2>3. i \in 1..next - 1 \/ i = next
    BY <1>2, <1>4
  <2> QED
    BY <2>1, <2>2, <2>3
<1>12. ReadInv'
  <2>1. input' \in Inputs
    BY <1>1, <1>2 DEF ReadInv
  <2>2. next' \in Nat \ {0} /\ next' <= Len(input'.lines) + 1
    BY <1>2, <1>4
  <2>3. M' = M
    BY DEF M
  <2>4. eof' => next' = Len(input'.lines) + 1
    <3>1. eof' => eof \/ next = Len(input.lines)
      BY <1>2, Zenon
    <3>2. ~eof
      BY <1>1, <1>4 DEF ReadInv
    <3> QED
      BY <1>2, <3>1, <3>2
  <2>5. next' > 1
    BY <1>2, <1>4
  <2> QED
    BY <1>8, <1>9, <1>10, <1>11, <2>1, <2>2, <2>3, <2>4, <2>5 DEF ReadInv
<1>13. Little => Little'
  <2>1. next # Len(input.lines) + 1 /\ next' - 1 = next
    BY <1>2, <1>4
  <2> SUFFICES ASSUME NEW line \in 1..next - 1,
                      EndAt(input, Len(input.lines)) - EndAt(input, line) < Mappers
               PROVE  Little'
    BY <2>1 DEF Little
  <2>2. line \in 1..next' - 1
    BY <1>2, <1>4
  <2> QED
    BY <1>2, <2>2 DEF Little
<1>14. EnoughInv'
  <2>1. phase = "map" /\ phase' = "map"
    BY <1>1, <1>2 DEF EnoughInv
  <2>2. pc'[Mappers] = "wrote" => pc[Mappers] = "wrote"
    <3>1. Mappers \in M
      BY DEF M
    <3> QED
      BY <1>1, <1>2, <3>1 DEF ReadInv
  <2> QED
    BY <1>1, <1>13, <2>1, <2>2 DEF EnoughInv
<1> QED
  BY <1>12, <1>14 DEF MapInv

(* When the last mapper has been told that it had enough, little is left, *)
(* whoever read last.                                                      *)
LEMMA EnoughIsLittle == ASSUME ReadInv, pc[Mappers] = "telling", HadEnough(Mappers) PROVE Little
<1> USE CountsAssumption
<1>1. Mappers \in M
  BY DEF M
<1>2. next \in Nat /\ next > 1 /\ next <= Len(input.lines) + 1 /\ input \in Inputs
  BY <1>1 DEF ReadInv
<1>3. Len(input.lines) \in Nat
  BY <1>2, EndsGrow
<1>4. CASE eof
  BY <1>4 DEF ReadInv, Little
<1>5. CASE EndOf(next - 1) > To(Mappers)
  <2>1. PICK line \in 1..next - 1 : line = next - 1
    BY <1>2
  <2>2. line \in 0..Len(input.lines)
    BY <1>2, <1>3, <2>1
  <2>3. To(Mappers) \in Int /\ To(Mappers) >= EndAt(input, Len(input.lines)) - Mappers
    BY <1>2, LastShare
  <2>4. EndAt(input, line) \in Int /\ EndAt(input, Len(input.lines)) \in Nat
    BY <1>2, <2>2, EndsGrow
  <2>5. EndAt(input, line) > To(Mappers)
    BY <1>5, <2>1, EndIs
  <2>6. EndAt(input, Len(input.lines)) - EndAt(input, line) < Mappers
    BY <2>3, <2>4, <2>5
  <2> QED
    BY <2>6 DEF Little
<1> QED
  BY <1>4, <1>5 DEF HadEnough

(* Where no line is next the file is read. *)
LEMMA ReadAll == ASSUME ReadInv, next \notin Lines PROVE next = Len(input.lines) + 1
<1>1. next \in Nat \ {0} /\ next <= Len(input.lines) + 1 /\ Len(input.lines) \in Nat
  BY EndsGrow DEF ReadInv
<1>2. Lines = 1..Len(input.lines)
  BY InputsAssumption DEF ReadInv, Lines
<1> QED
  BY <1>1, <1>2

(* Anything else: nothing is read, a mapper goes on, or all begin again. *)
LEMMA OtherMapInv ==
    ASSUME MapInv, UNCHANGED <<input, next, svec>>,
           pc' \in [M -> {"free", "reading", "got", "telling", "wrote"}],
           eof' => next = Len(input.lines) + 1,
           \A m \in M : pc'[m] \in {"got", "telling"} => pc[m] \in {"got", "telling"},
           phase' # "map" => \A m \in M : pc'[m] = "wrote",
           pc'[Mappers] = "wrote" => pc[Mappers] = "wrote" \/ Little
    PROVE  MapInv'
<1>1. ReadInv /\ EnoughInv
  BY DEF MapInv
<1>2. ReadInv'
  BY <1>1 DEF ReadInv
<1>3. Little => Little'
  BY DEF Little
<1>4. EnoughInv'
  BY <1>1, <1>3 DEF EnoughInv
<1> QED
  BY <1>2, <1>4 DEF MapInv

(* The next run, with a longer prefix, begins as the first one. *)
LEMMA BeginAgainInv == ASSUME MapInv, Start(prefix_size + 1), UNCHANGED <<input, corrupted>> PROVE MapInv'
<1> USE CountsAssumption
<1>1. Mappers \in M /\ input' \in Inputs
  BY DEF M, MapInv, ReadInv
<1>2. Len(input'.lines) \in Nat
  BY <1>1, EndsGrow
<1>3. \A m \in M : svec'[m] = <<>> /\ pc'[m] = "free"
  BY DEF Start
<1>4. svec' \in [M -> Seq(Nat)] /\ pc' \in [M -> {"free", "reading", "got", "telling", "wrote"}]
  <2>1. <<>> \in Seq(Nat)
    OBVIOUS
  <2> QED
    BY <2>1 DEF Start
<1>5. ReadInv'
  BY <1>1, <1>2, <1>3, <1>4 DEF ReadInv, Start
<1>6. EnoughInv'
  BY <1>1, <1>3 DEF EnoughInv, Start
<1> QED
  BY <1>5, <1>6 DEF MapInv

(* The inductive invariant of the mappers. *)
LEMMA MapInductive == DataSpec => []MapInv
<1>1. MapInv /\ [DataNext]_dataVars => MapInv'
  <2> SUFFICES ASSUME MapInv, [Next]_vars PROVE MapInv'
    BY OneProgram
  <2> USE CountsAssumption
  <2>1. ReadInv /\ EnoughInv /\ Mappers \in M
    BY DEF MapInv, M
  <2>2. ASSUME UNCHANGED <<input, next, eof, svec, pc>>, phase' = "map" => phase = "map",
               phase' # "map" => phase # "map" \/ \A m \in M : pc[m] = "wrote"
        PROVE  MapInv'
    BY <2>1, <2>2, OtherMapInv DEF ReadInv, EnoughInv
  <2>3. CASE UNCHANGED vars
    BY <2>2, <2>3 DEF vars
  <2>4. ASSUME NEW m \in M, GetLine(m) \/ TellG(m) PROVE MapInv'
    <3>1. PICK call \in {"reading", "telling"} :
             Enter(m, call) /\ (call = "telling" => pc[m] = "got") /\ pc[m] \in {"free", "got"}
      BY <2>4 DEF GetLine, TellG
    <3>2. pc' = [pc EXCEPT ![m] = call] /\ UNCHANGED <<input, phase, next, eof, svec>>
      BY <3>1 DEF Enter
    <3>3. pc[m] # "wrote"
      BY <3>1
    <3> QED
      BY <2>1, <3>1, <3>2, <3>3, OtherMapInv DEF ReadInv, EnoughInv
  <2>5. ASSUME NEW m \in M, GotNone(m) PROVE MapInv'
    <3>1. next = Len(input.lines) + 1
      BY <2>1, <2>5, ReadAll DEF GotNone
    <3>2. Little
      BY <3>1 DEF Little
    <3>3. pc[m] = "reading" /\ pc' = [pc EXCEPT ![m] = "wrote"] /\ UNCHANGED <<input, phase, next, svec>>
      BY <2>5 DEF GotNone
    <3> QED
      BY <2>1, <3>1, <3>2, <3>3, OtherMapInv DEF ReadInv, EnoughInv
  <2>t. ASSUME NEW m \in M, TellGReturns(m) PROVE MapInv'
    <3>1. PICK r \in {"wrote", "free"} : pc' = [pc EXCEPT ![m] = r] /\ (r = "wrote" => HadEnough(m))
      BY <2>t DEF TellGReturns
    <3>2. pc[m] = "telling" /\ UNCHANGED <<input, phase, next, eof, svec>>
      BY <2>t DEF TellGReturns
    <3>3. m = Mappers /\ r = "wrote" => Little
      BY <2>1, <3>1, <3>2, EnoughIsLittle
    <3> QED
      BY <2>1, <3>1, <3>2, <3>3, OtherMapInv DEF ReadInv, EnoughInv
  <2>6. CASE MapReturns
    BY <2>2, <2>6 DEF MapReturns
  <2>7. CASE Distribute \/ Reduce
    BY <2>2, <2>7 DEF Distribute, Reduce
  <2>8. CASE Decide
    <3>1. Start(prefix_size + 1) \/ (phase' = "done" /\ UNCHANGED <<next, eof, pc, svec>>)
      BY <2>8 DEF Decide
    <3>2. phase = "decide" /\ UNCHANGED <<input, corrupted>>
      BY <2>8 DEF Decide
    <3>3. CASE Start(prefix_size + 1)
      BY <3>2, <3>3, BeginAgainInv
    <3>4. CASE phase' = "done" /\ UNCHANGED <<next, eof, pc, svec>>
      BY <2>2, <3>2, <3>4
    <3> QED
      BY <3>1, <3>3, <3>4
  <2> QED
    BY <2>3, <2>4, <2>5, <2>t, <2>6, <2>7, <2>8, GotLineInv DEF Next
<1> QED
  BY MapInit, <1>1, PTL DEF DataSpec

(* The mappers: each line is mapped by one of them and once, but for a     *)
(* line in the last bytes, fewer than there are mappers, whatever the file *)
(* of Inputs, and however the getline and tellg of the mappers alternate   *)
(* (map, mapreduce.h of 13_BigData), until two are in the stream at once.  *)
THEOREM LinesMappedOnce == DataSpec => []MappedOnce
<1>1. MapInv => MappedOnce
  <2> SUFFICES ASSUME MapInv, phase = "distribute" PROVE
        /\ \A m, o \in M : \A k \in DOMAIN svec[m], l \in DOMAIN svec[o] :
              svec[m][k] = svec[o][l] => m = o /\ k = l
        /\ \A i \in Lines \ Mapped : EndOf(Len(input.lines)) - EndOf(i - 1) < Mappers
    BY DEF MappedOnce
  <2> USE CountsAssumption
  <2>1. ReadInv /\ EnoughInv /\ Mappers \in M
    BY DEF MapInv, M
  <2>2. Little
    BY <2>1 DEF EnoughInv
  <2>3. ASSUME NEW i \in Lines \ Mapped
        PROVE  EndAt(input, Len(input.lines)) - EndAt(input, i - 1) < Mappers
    <3> DEFINE n == Len(input.lines)
    <3>1. n \in Nat /\ next \in Nat /\ Lines = 1..n /\ input \in Inputs
      BY <2>1, InputsAssumption DEF ReadInv, Lines
    <3>2. i \notin 1..next - 1
      BY <2>1 DEF ReadInv, Mapped, Data
    <3>3. i \in 1..n /\ next <= i
      BY <3>1, <3>2
    <3>4. PICK line \in 1..next - 1 : EndAt(input, n) - EndAt(input, line) < Mappers
      BY <2>2, <3>1, <3>3 DEF Little
    <3>5. line \in 0..n - 1 /\ i - 1 \in 0..n - 1 /\ line <= i - 1 /\ line \in 0..n
      BY <3>1, <3>3, <3>4
    <3>6. /\ EndAt(input, line) <= EndAt(input, i - 1) /\ EndAt(input, n) \in Int
          /\ EndAt(input, line) \in Int /\ EndAt(input, i - 1) \in Int
      <4>1. i - 1 \in 0..n
        BY <3>5
      <4> QED
        BY <3>1, <3>5, <4>1, EndsGrow
    <3> HIDE DEF n
    <3>7. EndAt(input, n) - EndAt(input, i - 1) < Mappers
      BY <3>4, <3>6
    <3> QED
      BY <3>7 DEF n
  <2> QED
    BY <2>1, <2>3, EndIs DEF ReadInv
<1> QED
  BY MapInductive, <1>1, PTL

-----------------------------------------------------------------------------
(* The keys and their order: AtMost.                                       *)

(* Where two keys part: the first is at its end or has the lesser letter.  *)
Starts(s, t) == Len(s) <= Len(t) /\ \A j \in 1..Len(s) : s[j] = t[j]
PartAt(s, t, k) ==
    k \in 1..Len(s) /\ k \in 1..Len(t) /\ s[k] < t[k] /\ \A j \in 1..k - 1 : s[j] = t[j]

(* So the order of strings is: the first ends first, or is less where they first differ. *)
LEMMA AtMostIs ==
    ASSUME NEW s \in Seq(Nat), NEW t \in Seq(Nat)
    PROVE  AtMost(s, t) <=> Starts(s, t) \/ \E k \in Nat : PartAt(s, t, k)
<1>1. IsPrefix(s, t) <=> Starts(s, t)
  <2>1. Len(s) <= Len(t) => (SubSeq(s, 1, Len(s)) = SubSeq(t, 1, Len(s)) <=> \A j \in 1..Len(s) : s[j] = t[j])
    <3> SUFFICES ASSUME Len(s) <= Len(t)
                 PROVE  SubSeq(s, 1, Len(s)) = SubSeq(t, 1, Len(s)) <=> \A j \in 1..Len(s) : s[j] = t[j]
      OBVIOUS
    <3>1. /\ SubSeq(s, 1, Len(s)) \in Seq(Nat) /\ Len(SubSeq(s, 1, Len(s))) = Len(s)
          /\ \A j \in 1..Len(s) : SubSeq(s, 1, Len(s))[j] = s[j]
      OBVIOUS
    <3>2. /\ SubSeq(t, 1, Len(s)) \in Seq(Nat) /\ Len(SubSeq(t, 1, Len(s))) = Len(s)
          /\ \A j \in 1..Len(s) : SubSeq(t, 1, Len(s))[j] = t[j]
      OBVIOUS
    <3> DEFINE x == SubSeq(s, 1, Len(s))
               y == SubSeq(t, 1, Len(s))
    <3>3. x \in Seq(Nat) /\ y \in Seq(Nat) /\ Len(x) = Len(y) /\ Len(x) = Len(s)
      BY <3>1, <3>2
    <3>4. (\A j \in 1..Len(s) : x[j] = y[j]) => x = y
      <4> HIDE DEF x, y
      <4> SUFFICES ASSUME \A j \in 1..Len(x) : x[j] = y[j] PROVE x = y
        BY <3>3
      <4> QED
        BY <3>3, SeqEqual
    <3> QED
      BY <3>1, <3>2, <3>4
  <2> QED
    BY <2>1 DEF IsPrefix, Starts
<1>2. DOMAIN s = 1..Len(s) /\ DOMAIN t = 1..Len(t)
  OBVIOUS
<1>3. (\E k \in DOMAIN s \cap DOMAIN t : s[k] < t[k] /\ \A j \in 1..k-1 : s[j] = t[j]) <=> \E k \in Nat : PartAt(s, t, k)
  <2>1. \A k : k \in DOMAIN s \cap DOMAIN t <=> k \in Nat /\ k \in 1..Len(s) /\ k \in 1..Len(t)
    BY <1>2
  <2> HIDE <1>2
  <2> QED
    BY <2>1 DEF PartAt
<1> QED
  BY <1>1, <1>3 DEF AtMost

(* It is an order. *)
LEMMA AtMostAntisymmetric ==
    ASSUME NEW s \in Seq(Nat), NEW t \in Seq(Nat), AtMost(s, t), AtMost(t, s)
    PROVE  s = t
<1>1. Len(s) \in Nat /\ Len(t) \in Nat /\ (\A j \in 1..Len(s) : s[j] \in Nat) /\ (\A j \in 1..Len(t) : t[j] \in Nat)
  OBVIOUS
<1>2. /\ Starts(s, t) \/ \E k \in Nat : PartAt(s, t, k)
      /\ Starts(t, s) \/ \E k \in Nat : PartAt(t, s, k)
  BY AtMostIs
<1>3. CASE Starts(s, t) /\ Starts(t, s)
  <2>1. Len(s) = Len(t) /\ \A j \in 1..Len(s) : s[j] = t[j]
    BY <1>1, <1>3 DEF Starts
  <2> QED
    BY <2>1, SeqEqual
<1>4. ASSUME Starts(s, t), NEW k \in Nat, PartAt(t, s, k) PROVE FALSE
  BY <1>1, <1>4 DEF Starts, PartAt
<1>5. ASSUME Starts(t, s), NEW k \in Nat, PartAt(s, t, k) PROVE FALSE
  BY <1>1, <1>5 DEF Starts, PartAt
<1>6. ASSUME NEW k \in Nat, PartAt(s, t, k), NEW l \in Nat, PartAt(t, s, l) PROVE FALSE
  <2>1. CASE k < l
    BY <1>1, <1>6, <2>1, SMTT(30) DEF PartAt
  <2>2. CASE l < k
    BY <1>1, <1>6, <2>2 DEF PartAt
  <2>3. CASE k = l
    BY <1>1, <1>6, <2>3 DEF PartAt
  <2> QED
    BY <2>1, <2>2, <2>3
<1> QED
  BY <1>2, <1>3, <1>4, <1>5, <1>6

(* It is transitive. *)
LEMMA AtMostTransitive ==
    ASSUME NEW s \in Seq(Nat), NEW t \in Seq(Nat), NEW u \in Seq(Nat), AtMost(s, t), AtMost(t, u)
    PROVE  AtMost(s, u)
<1>1. /\ Len(s) \in Nat /\ Len(t) \in Nat /\ Len(u) \in Nat
      /\ (\A j \in 1..Len(s) : s[j] \in Nat) /\ (\A j \in 1..Len(t) : t[j] \in Nat) /\ (\A j \in 1..Len(u) : u[j] \in Nat)
  OBVIOUS
<1>2. /\ Starts(s, t) \/ \E k \in Nat : PartAt(s, t, k)
      /\ Starts(t, u) \/ \E k \in Nat : PartAt(t, u, k)
  BY AtMostIs
<1>3. CASE Starts(s, t) /\ Starts(t, u)
  <2>1. Starts(s, u)
    BY <1>1, <1>3 DEF Starts
  <2> QED
    BY <2>1, AtMostIs
<1>4. ASSUME Starts(s, t), NEW k \in Nat, PartAt(t, u, k) PROVE AtMost(s, u)
  <2>1. CASE k <= Len(s)
    <3>1. PartAt(s, u, k)
      BY <1>1, <1>4, <2>1 DEF Starts, PartAt
    <3> QED
      BY <3>1, AtMostIs
  <2>2. CASE k > Len(s)
    <3>1. Starts(s, u)
      BY <1>1, <1>4, <2>2 DEF Starts, PartAt
    <3> QED
      BY <3>1, AtMostIs
  <2> QED
    BY <1>1, <2>1, <2>2
<1>5. ASSUME NEW k \in Nat, PartAt(s, t, k), Starts(t, u) PROVE AtMost(s, u)
  <2>1. PartAt(s, u, k)
    BY <1>1, <1>5 DEF Starts, PartAt
  <2> QED
    BY <2>1, AtMostIs
<1>6. ASSUME NEW k \in Nat, PartAt(s, t, k), NEW l \in Nat, PartAt(t, u, l) PROVE AtMost(s, u)
  <2> USE <1>1, <1>6
  <2>1. CASE k < l
    <3>1. k \in 1..Len(u) /\ k \in 1..Len(s) /\ k \in 1..l - 1
      BY <2>1 DEF PartAt
    <3>a. s[k] < t[k] /\ \A j \in 1..l - 1 : t[j] = u[j]
      BY DEF PartAt
    <3>2. s[k] < t[k] /\ t[k] = u[k]
      BY <3>1, <3>a, Zenon
    <3>3. \A j \in 1..k - 1 : s[j] = t[j] /\ t[j] = u[j]
      <4>1. \A j \in 1..k - 1 : s[j] = t[j]
        BY DEF PartAt
      <4>2. \A j \in 1..k - 1 : j \in 1..l - 1
        BY <2>1, <3>1
      <4> QED
        BY <3>a, <4>1, <4>2, Zenon
    <3>4. PartAt(s, u, k)
      BY <3>1, <3>2, <3>3 DEF PartAt
    <3> QED
      BY <3>4, AtMostIs
  <2>2. CASE l < k
    <3>1. l \in 1..Len(u) /\ l \in 1..Len(s) /\ l \in 1..k - 1
      BY <2>2 DEF PartAt
    <3>a. t[l] < u[l] /\ \A j \in 1..k - 1 : s[j] = t[j]
      BY DEF PartAt
    <3>2. s[l] = t[l] /\ t[l] < u[l]
      BY <3>1, <3>a, Zenon
    <3>3. \A j \in 1..l - 1 : s[j] = t[j] /\ t[j] = u[j]
      <4>1. \A j \in 1..l - 1 : t[j] = u[j]
        BY DEF PartAt
      <4>2. \A j \in 1..l - 1 : j \in 1..k - 1
        BY <2>2, <3>1
      <4> QED
        BY <3>a, <4>1, <4>2, Zenon
    <3>4. PartAt(s, u, l)
      BY <3>1, <3>2, <3>3 DEF PartAt
    <3> QED
      BY <3>4, AtMostIs
  <2>3. CASE k = l
    <3>1. PartAt(s, u, k)
      BY <1>1, <1>6, <2>3, SMTT(30) DEF PartAt
    <3> QED
      BY <3>1, AtMostIs
  <2> QED
    BY <2>1, <2>2, <2>3
<1> QED
  BY <1>2, <1>3, <1>4, <1>5, <1>6

(* Where a key is twice among sorted ones, it is twice running. *)
LEMMA EqualAreNeighbours ==
    ASSUME NEW L \in Nat, NEW key \in [1..L -> Seq(Nat)],
           \A i \in 1..L : \A j \in 1..L : j = i + 1 => AtMost(key[i], key[j]),
           NEW p \in 1..L, NEW q \in 1..L, p < q, key[p] = key[q]
    PROVE  p + 1 \in 1..L /\ key[p + 1] = key[p]
<1>1. PICK n \in 1..L : n = p + 1
  OBVIOUS
<1> DEFINE T == {j \in 1..L : n <= j /\ ~AtMost(key[n], key[j])}
<1>2. AtMost(key[n], key[n])
  <2>1. Starts(key[n], key[n])
    BY DEF Starts
  <2> QED
    BY <2>1, AtMostIs
<1>3. CASE T = {}
  <2>1. AtMost(key[p], key[n])
    BY <1>1, Zenon
  <2>2. q \notin T
    BY <1>3
  <2>a. n <= q
    BY <1>1
  <2>3. AtMost(key[n], key[q])
    BY <2>2, <2>a
  <2>4. key[p] \in Seq(Nat) /\ key[n] \in Seq(Nat)
    OBVIOUS
  <2>5. AtMost(key[n], key[p])
    BY <2>3
  <2>6. key[n] = key[p]
    BY <2>1, <2>4, <2>5, AtMostAntisymmetric
  <2> QED
    BY <1>1, <2>6
<1>4. CASE T # {}
  <2>1. PICK j \in T : \A i \in T : j <= i
    <3>1. T \in SUBSET Nat
      OBVIOUS
    <3> HIDE DEF T
    <3> QED
      BY <1>4, <3>1, LeastOne
  <2>2. j \in 1..L /\ n <= j /\ ~AtMost(key[n], key[j])
    BY <2>1
  <2>3. j # n
    BY <1>2, <2>2
  <2>4. PICK i \in 1..L : j = i + 1 /\ n <= i
    <3>1. j - 1 \in 1..L /\ j = (j - 1) + 1 /\ n <= j - 1
      BY <2>2, <2>3
    <3> QED
      BY <3>1
  <2>5. i \notin T
    BY <2>1, <2>4
  <2>6. AtMost(key[n], key[i]) /\ AtMost(key[i], key[j])
    BY <2>2, <2>4, <2>5
  <2>7. key[n] \in Seq(Nat) /\ key[i] \in Seq(Nat) /\ key[j] \in Seq(Nat)
    BY <2>2
  <2>8. AtMost(key[n], key[j])
    BY <2>6, <2>7, AtMostTransitive
  <2> QED
    BY <2>2, <2>8
<1> QED
  BY <1>3, <1>4

(* What a reducer makes of its file, datum after datum. *)
More(r, res, k) == IF k \in Indices(r) THEN Reducer(res, Mapper(order[k])) ELSE res
Reducing(r, N, f) == f = [k \in 0..N |-> IF k = 0 THEN NoData ELSE More(r, f[k - 1], k)]

(* There is such a reduction. *)
LEMMA ReducingExists == ASSUME NEW r, NEW N \in Nat PROVE \E f : Reducing(r, N, f)
<1> DEFINE T == {m \in Nat : ~\E f : Reducing(r, m, f)}
<1>1. CASE T = {}
  BY <1>1
<1>2. CASE T # {}
  <2>1. PICK m \in T : \A i \in T : m <= i
    <3>1. T \in SUBSET Nat
      OBVIOUS
    <3> HIDE DEF T
    <3> QED
      BY <1>2, <3>1, LeastOne
  <2>2. CASE m = 0
    <3> DEFINE f == [n \in 0..0 |-> NoData]
    <3>1. f = [n \in 0..0 |-> IF n = 0 THEN NoData ELSE More(r, f[n - 1], n)]
      OBVIOUS
    <3>2. Reducing(r, 0, f)
      BY <3>1 DEF Reducing
    <3> QED
      BY <2>1, <2>2, <3>2
  <2>3. CASE m # 0
    <3>1. m - 1 \in Nat /\ m - 1 \notin T
      BY <2>1, <2>3
    <3>2. PICK f : Reducing(r, m - 1, f)
      BY <3>1
    <3> DEFINE g == [n \in 0..m |-> IF n = m THEN More(r, f[m - 1], m) ELSE f[n]]
    <3>3. \A n \in 0..m - 1 : f[n] = IF n = 0 THEN NoData ELSE More(r, f[n - 1], n)
      BY <3>2 DEF Reducing
    <3>4. ASSUME NEW n \in 0..m
          PROVE  g[n] = IF n = 0 THEN NoData ELSE More(r, g[n - 1], n)
      <4>1. m \in Nat
        BY <2>1
      <4>2. CASE n = m
        <5>1. n - 1 \in 0..m /\ n - 1 # m /\ n # 0
          BY <2>3, <4>1, <4>2
        <5>2. g[n - 1] = f[n - 1] /\ g[n] = More(r, f[m - 1], m)
          BY <4>2, <5>1
        <5> QED
          BY <4>2, <5>1, <5>2
      <4>3. CASE n = 0
        <5>1. n # m /\ n \in 0..m - 1
          BY <2>3, <4>1, <4>3
        <5> QED
          BY <3>3, <4>3, <5>1
      <4>4. CASE n # 0 /\ n # m
        <5>1. n \in 0..m - 1 /\ n - 1 \in 0..m /\ n - 1 # m
          BY <4>1, <4>4
        <5>2. g[n] = f[n] /\ g[n - 1] = f[n - 1]
          BY <4>4, <5>1
        <5> QED
          BY <3>3, <4>4, <5>1, <5>2
      <4> QED
        BY <4>2, <4>3, <4>4
    <3>5. Reducing(r, m, g)
      <4>1. g = [n \in 0..m |-> g[n]]
        OBVIOUS
      <4> HIDE DEF g
      <4> QED
        BY <3>4, <4>1 DEF Reducing
    <3> QED
      BY <2>1, <3>5
  <2> QED
    BY <2>2, <2>3
<1> QED
  BY <1>1, <1>2

(* Its last datum is what the reducer writes. *)
LEMMA AccumulatedIs ==
    ASSUME NEW r, Len(order) \in Nat
    PROVE  \E f : Reducing(r, Len(order), f) /\ Accumulated(r) = f[Len(order)]
<1> DEFINE after == CHOOSE f : f = [k \in 0..Len(order) |->
                        IF k = 0 THEN NoData
                        ELSE IF k \in Indices(r) THEN Reducer(f[k - 1], Mapper(order[k])) ELSE f[k - 1]]
<1>1. Accumulated(r) = after[Len(order)]
  BY DEF Accumulated
<1>2. \E f : f = [k \in 0..Len(order) |->
                    IF k = 0 THEN NoData
                    ELSE IF k \in Indices(r) THEN Reducer(f[k - 1], Mapper(order[k])) ELSE f[k - 1]]
  <2>1. \E f : Reducing(r, Len(order), f)
    BY ReducingExists
  <2> QED
    BY <2>1 DEF Reducing, More
<1>3. after = [k \in 0..Len(order) |->
                 IF k = 0 THEN NoData
                 ELSE IF k \in Indices(r) THEN Reducer(after[k - 1], Mapper(order[k])) ELSE after[k - 1]]
  BY <1>2
<1>4. Reducing(r, Len(order), after)
  BY <1>3 DEF Reducing, More
<1> QED
  BY <1>1, <1>4

-----------------------------------------------------------------------------
(* The merged data have the keys and lengths of lines. *)
Merged ==
    /\ Len(order) \in Nat /\ DOMAIN order = 1..Len(order)
    /\ \A k \in 1..Len(order) :
          /\ order[k] \in Lines
          /\ Key(order[k]) \in Seq(Nat) /\ Key(order[k]) # <<>>
          /\ Len(input.lines[order[k]]) \in Nat

Datum == [line : Seq(Nat), duplicates : Nat, max_length : Nat]

(* What the result of a reducer tells of the data up to the n-th: nothing  *)
(* if it saw none, the key and the length of one, two of that key if it    *)
(* counted more than one; and two running equal keys were counted.         *)
OfLine(i, res) == Key(order[i]) = res.line /\ Len(input.lines[order[i]]) = res.max_length
TellsNone(r, n, res) == res.duplicates = 0 => res = NoData /\ \A k \in 1..n : k \notin Indices(r)
TellsOne(n, res) == res.duplicates # 0 => \E i \in 1..n : OfLine(i, res)
TellsTwo(n, res) ==
    res.duplicates > 1 => \E i \in 1..n : \E j \in 1..n : i # j /\ Key(order[i]) = Key(order[j])
IsLast(r, n, res) ==
    n \in Indices(r) => res.duplicates > 1 \/ (res.duplicates # 0 /\ res.line = Key(order[n]))
Counted(r, n, res) ==
    \A p \in 1..n : \A q \in 1..n :
        q = p + 1 /\ p \in Indices(r) /\ q \in Indices(r) /\ Key(order[p]) = Key(order[q]) => res.duplicates > 1
Tells(r, n, res) ==
    /\ res \in Datum
    /\ TellsNone(r, n, res) /\ TellsOne(n, res) /\ TellsTwo(n, res)
    /\ IsLast(r, n, res) /\ Counted(r, n, res)

(* The three ways of the reducer. *)
LEMMA MoreIs ==
    ASSUME NEW r, NEW k, NEW res \in Datum, Key(order[k]) \in Seq(Nat), Len(input.lines[order[k]]) \in Nat
    PROVE  /\ More(r, res, k) \in Datum
           /\ k \notin Indices(r) => More(r, res, k) = res
           /\ k \in Indices(r) /\ res.line = Key(order[k]) =>
                /\ More(r, res, k).line = res.line /\ More(r, res, k).max_length = res.max_length
                /\ More(r, res, k).duplicates = res.duplicates + 1
           /\ k \in Indices(r) /\ res.line # Key(order[k]) /\ res.duplicates > 1 => More(r, res, k) = res
           /\ k \in Indices(r) /\ res.line # Key(order[k]) /\ ~(res.duplicates > 1) =>
                /\ More(r, res, k).line = Key(order[k]) /\ More(r, res, k).max_length = Len(input.lines[order[k]])
                /\ More(r, res, k).duplicates = 1
<1> DEFINE key == Key(order[k])
           len == Len(input.lines[order[k]])
<1>1. More(r, res, k) = IF k \in Indices(r)
                        THEN IF res.line = key THEN [res EXCEPT !.duplicates = res.duplicates + 1]
                             ELSE IF res.duplicates > 1 THEN res
                             ELSE [line |-> key, duplicates |-> 1, max_length |-> len]
                        ELSE res
  BY DEF More, Reducer, Mapper
<1>2. key \in Seq(Nat) /\ len \in Nat
  OBVIOUS
<1>3. /\ res = [line |-> res.line, duplicates |-> res.duplicates, max_length |-> res.max_length]
      /\ res.line \in Seq(Nat) /\ res.duplicates \in Nat /\ res.max_length \in Nat
  BY DEF Datum
<1> HIDE DEF key, len
<1>4. /\ [res EXCEPT !.duplicates = res.duplicates + 1].line = res.line
      /\ [res EXCEPT !.duplicates = res.duplicates + 1].max_length = res.max_length
      /\ [res EXCEPT !.duplicates = res.duplicates + 1].duplicates = res.duplicates + 1
      /\ [res EXCEPT !.duplicates = res.duplicates + 1] \in Datum
  <2>1. [res EXCEPT !.duplicates = res.duplicates + 1]
          = [line |-> res.line, duplicates |-> res.duplicates + 1, max_length |-> res.max_length]
    <3> SUFFICES ASSUME NEW l, NEW d, NEW n, NEW e, res = [line |-> l, duplicates |-> d, max_length |-> n]
                 PROVE  [res EXCEPT !.duplicates = e] = [line |-> l, duplicates |-> e, max_length |-> n]
      BY <1>3
    <3> QED
      OBVIOUS
  <2>2. res.duplicates + 1 \in Nat
    BY <1>3
  <2>3. [line |-> res.line, duplicates |-> res.duplicates + 1, max_length |-> res.max_length] \in Datum
    BY <1>3, <2>2 DEF Datum
  <2> QED
    BY <2>1, <2>3
<1>5. [line |-> key, duplicates |-> 1, max_length |-> len] \in Datum
  BY <1>2 DEF Datum
<1>6. CASE k \notin Indices(r)
  BY <1>1, <1>6
<1>7. CASE k \in Indices(r) /\ res.line = key
  BY <1>1, <1>4, <1>7 DEF key
<1>8. CASE k \in Indices(r) /\ res.line # key /\ res.duplicates > 1
  BY <1>1, <1>8 DEF key
<1>9. CASE k \in Indices(r) /\ res.line # key /\ ~(res.duplicates > 1)
  BY <1>1, <1>5, <1>9 DEF key, len
<1> QED
  BY <1>6, <1>7, <1>8, <1>9

(* One datum more. *)
LEMMA TellsMore ==
    ASSUME Merged, NEW r, NEW k \in 1..Len(order), NEW n \in Nat, k = n + 1, NEW res, Tells(r, n, res)
    PROVE  Tells(r, k, More(r, res, k))
<1> DEFINE new == More(r, res, k)
<1>1. /\ res \in Datum /\ res.duplicates \in Nat
      /\ Key(order[k]) \in Seq(Nat) /\ Key(order[k]) # <<>> /\ Len(input.lines[order[k]]) \in Nat
  BY DEF Merged, Tells, Datum
<1>2. /\ new \in Datum
      /\ k \notin Indices(r) => new = res
      /\ k \in Indices(r) /\ res.line = Key(order[k]) =>
           /\ new.line = res.line /\ new.max_length = res.max_length
           /\ new.duplicates = res.duplicates + 1
      /\ k \in Indices(r) /\ res.line # Key(order[k]) /\ res.duplicates > 1 => new = res
      /\ k \in Indices(r) /\ res.line # Key(order[k]) /\ ~(res.duplicates > 1) =>
           /\ new.line = Key(order[k]) /\ new.max_length = Len(input.lines[order[k]])
           /\ new.duplicates = 1
  BY <1>1, MoreIs
<1> HIDE DEF new
<1>3. /\ k \in Nat /\ k \in 1..k /\ k \notin 1..n /\ (\A i \in 1..n : i \in 1..k /\ i # k)
      /\ \A i \in 1..k : i = k \/ i \in 1..n
  OBVIOUS
<1>4. /\ TellsNone(r, n, res) /\ TellsOne(n, res) /\ TellsTwo(n, res)
      /\ IsLast(r, n, res) /\ Counted(r, n, res)
  BY DEF Tells
<1>5. /\ res.duplicates > 1 => new.duplicates > 1
      /\ k \in Indices(r) => new.duplicates # 0
      /\ new.duplicates \in Nat
  BY <1>1, <1>2
<1>6. TellsNone(r, k, new)
  <2>1. CASE k \in Indices(r)
    BY <1>5, <2>1 DEF TellsNone
  <2>2. CASE k \notin Indices(r)
    BY <1>2, <1>3, <1>4, <2>2 DEF TellsNone
  <2> QED
    BY <2>1, <2>2
<1>7. TellsOne(k, new)
  <2>1. CASE new = res
    BY <1>3, <1>4, <2>1 DEF TellsOne
  <2>2. CASE k \in Indices(r) /\ res.line = Key(order[k])
    <3>1. res # NoData
      BY <1>1, <2>2 DEF NoData
    <3>2. res.duplicates # 0
      BY <1>4, <3>1 DEF TellsNone
    <3>3. PICK i \in 1..n : OfLine(i, res)
      BY <1>4, <3>2 DEF TellsOne
    <3>4. OfLine(i, new)
      BY <1>2, <2>2, <3>3 DEF OfLine
    <3> QED
      BY <1>3, <3>3, <3>4 DEF TellsOne
  <2>3. CASE k \in Indices(r) /\ res.line # Key(order[k]) /\ ~(res.duplicates > 1)
    <3>1. OfLine(k, new)
      BY <1>2, <2>3 DEF OfLine
    <3> QED
      BY <1>3, <3>1 DEF TellsOne
  <2> QED
    BY <1>2, <2>1, <2>2, <2>3
<1>8. TellsTwo(k, new)
  <2>1. CASE res.duplicates > 1
    BY <1>3, <1>4, <2>1 DEF TellsTwo
  <2>2. CASE ~(res.duplicates > 1) /\ k \in Indices(r) /\ res.line = Key(order[k])
    <3>1. res # NoData
      BY <1>1, <2>2 DEF NoData
    <3>2. res.duplicates # 0
      BY <1>4, <3>1 DEF TellsNone
    <3>3. PICK i \in 1..n : OfLine(i, res)
      BY <1>4, <3>2 DEF TellsOne
    <3>4. Key(order[i]) = Key(order[k]) /\ i # k /\ i \in 1..k
      BY <1>3, <2>2, <3>3 DEF OfLine
    <3> QED
      BY <1>3, <3>4 DEF TellsTwo
  <2>3. CASE ~(res.duplicates > 1) /\ ~(k \in Indices(r) /\ res.line = Key(order[k]))
    <3>1. ~(new.duplicates > 1)
      BY <1>2, <2>3
    <3> QED
      BY <3>1 DEF TellsTwo
  <2> QED
    BY <2>1, <2>2, <2>3
<1>9. IsLast(r, k, new)
  <2>1. CASE res.duplicates > 1
    BY <1>5, <2>1 DEF IsLast
  <2>2. CASE ~(res.duplicates > 1)
    <3>1. k \in Indices(r) => new.line = Key(order[k])
      BY <1>2, <2>2
    <3> QED
      BY <1>5, <3>1 DEF IsLast
  <2> QED
    BY <2>1, <2>2
<1>10. Counted(r, k, new)
  <2> SUFFICES ASSUME NEW p \in 1..k, NEW q \in 1..k, q = p + 1, p \in Indices(r), q \in Indices(r),
                      Key(order[p]) = Key(order[q])
               PROVE  new.duplicates > 1
    BY DEF Counted
  <2>1. CASE q # k
    <3>1. p \in 1..n /\ q \in 1..n
      BY <1>3, <2>1
    <3>2. res.duplicates > 1
      BY <1>4, <3>1 DEF Counted
    <3> QED
      BY <1>5, <3>2
  <2>2. CASE q = k
    <3>1. p = n
      BY <2>2
    <3>2. res.duplicates > 1 \/ (res.duplicates # 0 /\ res.line = Key(order[k]))
      BY <1>4, <2>2, <3>1 DEF IsLast
    <3>3. CASE res.duplicates > 1
      BY <1>5, <3>3
    <3>4. CASE res.duplicates # 0 /\ res.line = Key(order[k])
      BY <1>1, <1>2, <2>2, <3>4
    <3> QED
      BY <3>2, <3>3, <3>4
  <2> QED
    BY <2>1, <2>2
<1> QED
  BY <1>2, <1>6, <1>7, <1>8, <1>9, <1>10 DEF Tells, new

(* What a reducer writes tells of all the data. *)
LEMMA AccumulatedTells ==
    ASSUME Merged, NEW r
    PROVE  Tells(r, Len(order), Accumulated(r))
<1> DEFINE N == Len(order)
<1>1. N \in Nat
  BY DEF Merged
<1>2. PICK f : Reducing(r, N, f) /\ Accumulated(r) = f[N]
  BY <1>1, AccumulatedIs
<1> HIDE DEF N
<1>3. \A n \in 0..N : f[n] = IF n = 0 THEN NoData ELSE More(r, f[n - 1], n)
  BY <1>1, <1>2 DEF Reducing
<1>4. Tells(r, 0, f[0])
  <2>1. f[0] = NoData
    BY <1>1, <1>3
  <2>2. NoData \in Datum /\ NoData.duplicates = 0
    <3>1. <<>> \in Seq(Nat)
      OBVIOUS
    <3> QED
      BY <3>1 DEF NoData, Datum
  <2>3. \A k : k \notin 1..0
    OBVIOUS
  <2>4. 0 \notin Indices(r)
    BY DEF Indices, Merged
  <2> QED
    BY <2>1, <2>2, <2>3, <2>4 DEF Tells, TellsNone, TellsOne, TellsTwo, IsLast, Counted
<1> DEFINE T == {n \in 0..N : ~Tells(r, n, f[n])}
<1>5. CASE T = {}
  BY <1>1, <1>2, <1>5 DEF N
<1>6. CASE T # {}
  <2>1. PICK k \in T : \A i \in T : k <= i
    <3>1. T \in SUBSET Nat
      OBVIOUS
    <3> HIDE DEF T
    <3> QED
      BY <1>6, <3>1, LeastOne
  <2>2. k # 0 /\ k \in 0..N
    BY <1>4, <2>1
  <2>3. PICK n \in 0..N : k = n + 1 /\ n = k - 1
    <3>1. k - 1 \in 0..N /\ k = (k - 1) + 1
      BY <1>1, <2>2
    <3> QED
      BY <3>1
  <2>4. n \notin T
    BY <2>1, <2>3
  <2>5. Tells(r, n, f[n])
    BY <2>4
  <2>6. f[k] = More(r, f[n], k)
    BY <1>3, <2>2, <2>3
  <2>7. n \in Nat /\ k \in 1..Len(order)
    BY <1>1, <2>2 DEF N
  <2>8. Tells(r, k, f[k])
    BY <2>3, <2>5, <2>6, <2>7, TellsMore
  <2> QED
    BY <2>1, <2>8
<1> QED
  BY <1>5, <1>6

AllLong == \A i \in Lines : Len(input.lines[i]) > prefix_size

(* What is read back of all the mappers' files. *)
Read == UNION {ReadBack(m) : m \in M}

Ordered == order \in SetToSeqs(Read) /\ Merges(order)

(* A word has letters, and a text without white space is one word. *)
LEMMA WordIs ==
    ASSUME NEW s \in Seq(Nat)
    PROVE  /\ OneWord(s) => Word(s) \in Seq(Nat) /\ Word(s) # <<>>
           /\ Letters(s) = DOMAIN s /\ s # <<>> => OneWord(s) /\ Word(s) = s
<1>1. ASSUME NEW a \in DOMAIN s, NEW b \in DOMAIN s, a <= b, Letters(s) = a..b
      PROVE  Word(s) = SubSeq(s, a, b)
  <2>1. a \in Nat /\ b \in Nat
    OBVIOUS
  <2>2. a \in a..b /\ b \in a..b /\ (\A k \in a..b : a <= k /\ k <= b) /\ a..b \subseteq Int
    BY <1>1, <2>1
  <2>3. Min(a..b) \in a..b /\ \A k \in a..b : Min(a..b) <= k
    BY <2>2 DEF Min
  <2>4. Max(a..b) \in a..b /\ \A k \in a..b : k <= Max(a..b)
    BY <2>2 DEF Max
  <2>5. Min(a..b) = a /\ Max(a..b) = b
    <3> HIDE DEF Min, Max
    <3> QED
      BY <2>1, <2>2, <2>3, <2>4
  <2> QED
    BY <1>1, <2>5 DEF Word
<1>2. ASSUME OneWord(s) PROVE Word(s) \in Seq(Nat) /\ Word(s) # <<>>
  <2>1. PICK a \in DOMAIN s, b \in DOMAIN s : a <= b /\ Letters(s) = a..b
    BY <1>2 DEF OneWord
  <2>2. Word(s) = SubSeq(s, a, b)
    BY <1>1, <2>1
  <2>3. a \in 1..Len(s) /\ b \in 1..Len(s) /\ Len(s) \in Nat
    OBVIOUS
  <2>4. SubSeq(s, a, b) \in Seq(Nat) /\ Len(SubSeq(s, a, b)) = b - a + 1
    BY <2>1, <2>3, SubSeqProperties
  <2>5. Len(SubSeq(s, a, b)) # 0
    BY <2>1, <2>3, <2>4
  <2>6. SubSeq(s, a, b) # <<>>
    <3>1. PICK t \in Seq(Nat) : t = SubSeq(s, a, b) /\ Len(t) # 0
      BY <2>4, <2>5
    <3>2. t # <<>>
      BY <3>1
    <3> QED
      BY <3>1, <3>2
  <2> QED
    BY <2>2, <2>4, <2>6
<1>3. ASSUME Letters(s) = DOMAIN s, s # <<>> PROVE OneWord(s) /\ Word(s) = s
  <2>1. PICK n \in Nat : n = Len(s) /\ n > 0 /\ DOMAIN s = 1..n
    BY <1>3
  <2>2. 1 \in DOMAIN s /\ n \in DOMAIN s /\ 1 <= n /\ Letters(s) = 1..n
    BY <1>3, <2>1
  <2>3. Word(s) = SubSeq(s, 1, n)
    BY <1>1, <2>2
  <2>4. SubSeq(s, 1, n) = s
    BY <2>1
  <2> QED
    BY <2>2, <2>3, <2>4 DEF OneWord
<1> QED
  BY <1>2, <1>3

(* The prefixes of the lines, and what is read back of them. *)
LEMMA KeysAre ==
    ASSUME input \in Inputs, prefix_size \in Nat \ {0}
    PROVE  /\ Lines = 1..Len(input.lines) /\ Len(input.lines) \in Nat
           /\ \A i \in Lines :
                /\ Prefix(i, prefix_size) \in Seq(Nat) /\ Len(input.lines[i]) \in Nat
                /\ OneWord(Prefix(i, prefix_size)) => Key(i) \in Seq(Nat) /\ Key(i) # <<>>
                /\ Letters(Prefix(i, prefix_size)) = DOMAIN Prefix(i, prefix_size) /\ Len(input.lines[i]) > prefix_size
                      => OneWord(Prefix(i, prefix_size)) /\ Key(i) = Prefix(i, prefix_size)
<1>1. input.lines \in Seq(Seq(Nat))
  BY InputsAssumption
<1>2. Lines = 1..Len(input.lines) /\ Len(input.lines) \in Nat
  BY <1>1 DEF Lines
<1>3. ASSUME NEW i \in Lines
      PROVE  /\ Prefix(i, prefix_size) \in Seq(Nat) /\ Len(input.lines[i]) \in Nat
             /\ Len(input.lines[i]) > prefix_size => Prefix(i, prefix_size) # <<>>
  <2>1. PICK line \in Seq(Nat) : line = input.lines[i]
    BY <1>1, <1>3 DEF Lines
  <2>2. Len(line) \in Nat
    OBVIOUS
  <2>3. PICK n \in 0..Len(line) : Min({prefix_size, Len(line)}) = n /\ (Len(line) > prefix_size => n > 0)
    <3>1. \E n \in {prefix_size, Len(line)} : \A m \in {prefix_size, Len(line)} : n <= m
      BY <2>2
    <3>2. /\ Min({prefix_size, Len(line)}) \in {prefix_size, Len(line)}
          /\ \A m \in {prefix_size, Len(line)} : Min({prefix_size, Len(line)}) <= m
      BY <3>1 DEF Min
    <3> HIDE DEF Min
    <3> QED
      BY <2>2, <3>2
  <2>4. Prefix(i, prefix_size) = SubSeq(line, 1, n)
    BY <2>1, <2>3 DEF Prefix
  <2>5. SubSeq(line, 1, n) \in Seq(Nat) /\ Len(SubSeq(line, 1, n)) = n
    BY <2>2, <2>3
  <2>6. n > 0 => SubSeq(line, 1, n) # <<>>
    BY <2>5
  <2> QED
    BY <2>1, <2>2, <2>3, <2>4, <2>5, <2>6
<1>4. ASSUME NEW i \in Lines
      PROVE  /\ OneWord(Prefix(i, prefix_size)) => Key(i) \in Seq(Nat) /\ Key(i) # <<>>
             /\ Letters(Prefix(i, prefix_size)) = DOMAIN Prefix(i, prefix_size) /\ Len(input.lines[i]) > prefix_size
                   => OneWord(Prefix(i, prefix_size)) /\ Key(i) = Prefix(i, prefix_size)
  BY <1>3, WordIs DEF Key
<1> QED
  BY <1>2, <1>3, <1>4

(* What is read back are lines, one word each; all, if no prefix has white space. *)
LEMMA ReadBackIs ==
    ASSUME ReadInv, prefix_size \in Nat \ {0}
    PROVE  /\ Mapped \subseteq Lines /\ Read \subseteq Mapped
           /\ \A i \in Read : OneWord(Prefix(i, prefix_size))
           /\ AllLong /\ NoBlanks => Read = Mapped
<1>1. input \in Inputs
  BY DEF ReadInv
<1>2. Lines = 1..Len(input.lines) /\ Len(input.lines) \in Nat
  BY <1>1, KeysAre
<1>3. Mapped \subseteq Lines
  <2> SUFFICES ASSUME NEW m \in M, NEW k \in DOMAIN svec[m] PROVE svec[m][k] \in Lines
    BY DEF Mapped, Data
  <2>1. svec[m][k] \in 1..next - 1 /\ next \in Nat /\ next <= Len(input.lines) + 1
    BY DEF ReadInv
  <2> QED
    BY <1>2, <2>1
<1>4. Read \subseteq Mapped
  BY DEF Read, ReadBack, Mapped
<1>5. ASSUME NEW i \in Read PROVE OneWord(Prefix(i, prefix_size))
  <2>1. PICK m \in M : i \in Data(m) /\ \A j \in Data(m) : Sorted(j, i) => OneWord(Prefix(j, prefix_size))
    BY DEF Read, ReadBack
  <2>2. Prefix(i, prefix_size) \in Seq(Nat)
    BY <1>1, <1>3, <1>4, KeysAre
  <2>3. Starts(Prefix(i, prefix_size), Prefix(i, prefix_size))
    BY <2>2 DEF Starts
  <2>4. Sorted(i, i)
    BY <2>2, <2>3, AtMostIs DEF Sorted
  <2> QED
    BY <2>1, <2>4
<1>6. ASSUME AllLong, NoBlanks PROVE Mapped \subseteq Read
  <2> SUFFICES ASSUME NEW m \in M, NEW i \in Data(m) PROVE i \in ReadBack(m)
    BY DEF Mapped, Read
  <2>1. \A j \in Data(m) : j \in Lines
    BY <1>3 DEF Mapped
  <2>2. \A j \in Lines : OneWord(Prefix(j, prefix_size))
    BY <1>1, <1>6, KeysAre DEF AllLong, NoBlanks
  <2> QED
    BY <2>1, <2>2 DEF ReadBack
<1> QED
  BY <1>3, <1>4, <1>5, <1>6

(* The merge writes each line that is read back once. *)
LEMMA OrderIs ==
    ASSUME ReadInv, prefix_size \in Nat \ {0}, order \in SetToSeqs(Read)
    PROVE  /\ Merged
           /\ \A i \in 1..Len(order) : OneWord(Prefix(order[i], prefix_size))
           /\ \A i \in 1..Len(order) : \A j \in 1..Len(order) : i # j => order[i] # order[j]
           /\ \A i \in Read : \E k \in 1..Len(order) : order[k] = i
<1>1. input \in Inputs
  BY DEF ReadInv
<1>2. Lines = 1..Len(input.lines) /\ Len(input.lines) \in Nat
  BY <1>1, KeysAre
<1>3. Read \subseteq Lines /\ \A i \in Read : OneWord(Prefix(i, prefix_size))
  BY ReadBackIs
<1>4. IsFiniteSet(Read) /\ Cardinality(Read) \in Nat
  <2>1. IsFiniteSet(Lines)
    BY <1>2, FS_Interval
  <2> QED
    BY <1>3, <2>1, FS_Subset, FS_CardinalityType
<1> DEFINE L == Cardinality(Read)
<1>5. /\ order \in [1..L -> Read]
      /\ \A i \in 1..L : \A j \in 1..L : i # j => order[i] # order[j]
  BY DEF SetToSeqs
<1>6. L \in Nat
  BY <1>4
<1> HIDE DEF L
<1>7. Len(order) = L /\ DOMAIN order = 1..L
  BY <1>5, <1>6
<1>8. \A k \in 1..L : order[k] \in Lines /\ OneWord(Prefix(order[k], prefix_size))
  BY <1>3, <1>5
<1>9. Merged
  BY <1>1, <1>6, <1>7, <1>8, KeysAre DEF Merged
<1>10. \A i \in Read : \E k \in 1..L : order[k] = i
  <2>1. order \in Injection(1..L, Read)
    BY <1>5 DEF Injection, IsInjective
  <2>2. Cardinality(1..L) = L
    BY <1>6, FS_Interval
  <2>3. order \in Surjection(1..L, Read)
    BY <1>4, <2>1, <2>2, FS_Injection DEF L
  <2> QED
    BY <2>3 DEF Surjection
<1> QED
  BY <1>5, <1>7, <1>8, <1>9, <1>10

(* Equal keys that follow each other are in one file, one of the reducers'. *)
LEMMA SameFile ==
    ASSUME Merged, NEW p \in 1..Len(order), NEW q \in 1..Len(order), q = p + 1, Key(order[p]) = Key(order[q])
    PROVE  FileOf(p) \in 0..Reducers - 1 /\ FileOf(q) = FileOf(p)
<1> USE CountsAssumption
<1> DEFINE Change(k) == {j \in 2..k : Key(order[j]) # Key(order[j - 1])}
<1>1. Len(order) \in Nat
  BY DEF Merged
<1>2. IsFiniteSet(Change(p)) /\ Cardinality(Change(p)) \in Nat
  <2>1. IsFiniteSet(2..p)
    BY <1>1, FS_Interval
  <2> QED
    BY <2>1, FS_Subset, FS_CardinalityType
<1>3. Change(q) = Change(p)
  <2>1. q - 1 = p
    BY <1>1
  <2>2. q \notin Change(q)
    BY <2>1
  <2>3. \A j : j \in 2..p <=> j \in 2..q /\ j # q
    BY <1>1
  <2> QED
    BY <2>2, <2>3
<1>4. FileOf(p) = Cardinality(Change(p)) % Reducers /\ FileOf(q) = Cardinality(Change(q)) % Reducers
  BY DEF FileOf
<1> HIDE DEF Change
<1>5. Cardinality(Change(p)) % Reducers \in 0..Reducers - 1
  BY <1>2
<1> QED
  BY <1>3, <1>4, <1>5

-----------------------------------------------------------------------------
(* Nothing is lost, too short or with white space. *)
Plain == Mapped = Lines /\ AllLong /\ NoBlanks

(* The results of the reducers tell whether the prefix tells lines apart.  *)
Told(results) ==
    /\ (\E f \in results : f.duplicates > 1) => Doubled(prefix_size)
    /\ AllLong => \A f \in results : ~Short(f)
    /\ Plain /\ (\A f \in results : ~(f.duplicates > 1)) => Distinct(prefix_size)

Results == {Accumulated(r) : r \in {q \in 0..Reducers - 1 : Indices(q) # {}}}

(* The results of the reducers tell whether the keys are apart. *)
LEMMA ResultsTold ==
    ASSUME ReadInv, prefix_size \in Nat \ {0}, Ordered
    PROVE  Told(Results)
<1> DEFINE L == Len(order)
<1>1. /\ Merged
      /\ \A i \in 1..L : OneWord(Prefix(order[i], prefix_size))
      /\ \A i \in 1..L : \A j \in 1..L : i # j => order[i] # order[j]
      /\ \A i \in Read : \E k \in 1..L : order[k] = i
  BY OrderIs DEF Ordered
<1>2. /\ L \in Nat /\ DOMAIN order = 1..L
      /\ \A k \in 1..L : order[k] \in Lines /\ Key(order[k]) \in Seq(Nat)
  BY <1>1 DEF Merged
<1>3. Plain => Read = Lines /\ \A i \in Lines : Key(i) = Prefix(i, prefix_size)
  <2>1. input \in Inputs
    BY DEF ReadInv
  <2>2. AllLong /\ NoBlanks => \A i \in Lines : Key(i) = Prefix(i, prefix_size)
    BY <2>1, KeysAre DEF AllLong, NoBlanks
  <2> QED
    BY <2>2, ReadBackIs DEF Plain
<1>4. \A r : Tells(r, L, Accumulated(r))
  BY <1>1, AccumulatedTells
<1> HIDE DEF L
<1>5. ASSUME NEW f \in Results, f.duplicates > 1 PROVE Doubled(prefix_size)
  <2>1. PICK r \in 0..Reducers - 1 : f = Accumulated(r)
    BY DEF Results
  <2>2. TellsTwo(L, f)
    BY <1>4, <2>1 DEF Tells
  <2>3. PICK i \in 1..L : \E j \in 1..L : i # j /\ Key(order[i]) = Key(order[j])
    BY <1>5, <2>2 DEF TellsTwo
  <2>4. PICK j \in 1..L : i # j /\ Key(order[i]) = Key(order[j])
    BY <2>3
  <2>5. order[i] \in Lines /\ order[j] \in Lines /\ order[i] # order[j]
    BY <1>1, <1>2, <2>4
  <2>6. Word(Prefix(order[i], prefix_size)) = Word(Prefix(order[j], prefix_size))
    BY <2>4 DEF Key
  <2> QED
    BY <1>1, <2>5, <2>6 DEF Doubled
<1>6. ASSUME AllLong, NEW f \in Results PROVE ~Short(f)
  <2>1. PICK r \in 0..Reducers - 1 : f = Accumulated(r) /\ Indices(r) # {}
    BY DEF Results
  <2>2. TellsNone(r, L, f) /\ TellsOne(L, f)
    BY <1>4, <2>1 DEF Tells
  <2>3. PICK k : k \in Indices(r)
    BY <2>1
  <2>4. k \in 1..L
    BY <1>2, <2>3 DEF Indices
  <2>5. f.duplicates # 0
    BY <2>2, <2>3, <2>4 DEF TellsNone
  <2>6. PICK i \in 1..L : OfLine(i, f)
    BY <2>2, <2>5 DEF TellsOne
  <2>7. f.max_length > prefix_size
    BY <1>2, <1>6, <2>6 DEF OfLine, AllLong
  <2>8. f.max_length \in Nat
    BY <1>1, <2>6 DEF OfLine, Merged, L
  <2> QED
    BY <2>7, <2>8 DEF Short
<1>7. ASSUME Plain, \A f \in Results : ~(f.duplicates > 1),
             NEW i \in Lines, NEW j \in Lines, i # j, Prefix(i, prefix_size) = Prefix(j, prefix_size)
      PROVE  FALSE
  <2> DEFINE key == [k \in 1..L |-> Key(order[k])]
  <2>1. PICK a \in 1..L : order[a] = i
    BY <1>1, <1>3, <1>7
  <2>2. PICK b \in 1..L : order[b] = j
    BY <1>1, <1>3, <1>7
  <2>3. a # b /\ key[a] = key[b]
    BY <1>3, <1>7, <2>1, <2>2
  <2>4. key \in [1..L -> Seq(Nat)]
    BY <1>2
  <2>5. \A p \in 1..L : \A q \in 1..L : q = p + 1 => AtMost(key[p], key[q])
    <3> SUFFICES ASSUME NEW p \in 1..L, NEW q \in 1..L, q = p + 1 PROVE AtMost(key[p], key[q])
      OBVIOUS
    <3>1. /\ Together(order[p], order[q]) => Sorted(order[p], order[q])
          /\ (\A k \in p..q-1 : ~Together(order[k], order[q])) => AtMost(Key(order[p]), Key(order[q]))
      <4>1. p \in DOMAIN order /\ q \in DOMAIN order /\ p < q
        BY <1>2
      <4> QED
        BY <4>1 DEF Ordered, Merges
    <3>2. order[p] \in Lines /\ order[q] \in Lines
      BY <1>2
    <3>3. \A k \in p..q-1 : k = p
      BY <1>2
    <3>4. Sorted(order[p], order[q]) => AtMost(Key(order[p]), Key(order[q]))
      BY <1>3, <1>7, <3>2 DEF Sorted
    <3> QED
      BY <3>1, <3>3, <3>4
  <2>6. ASSUME NEW p \in 1..L, NEW q \in 1..L, p < q, key[p] = key[q] PROVE FALSE
    <3>1. p + 1 \in 1..L /\ key[p + 1] = key[p]
      <4> HIDE DEF key
      <4> QED
        BY <1>2, <2>4, <2>5, <2>6, EqualAreNeighbours
    <3>2. PICK n \in 1..L : n = p + 1 /\ key[n] = key[p]
      BY <3>1
    <3>3. Key(order[p]) = Key(order[n])
      BY <3>2
    <3>4. FileOf(p) \in 0..Reducers - 1 /\ FileOf(n) = FileOf(p)
      BY <1>1, <3>2, <3>3, SameFile DEF L
    <3>5. PICK r \in 0..Reducers - 1 : r = FileOf(p)
      BY <3>4
    <3>6. p \in Indices(r) /\ n \in Indices(r)
      BY <1>2, <3>4, <3>5 DEF Indices
    <3>7. Counted(r, L, Accumulated(r))
      BY <1>4 DEF Tells
    <3>8. Accumulated(r).duplicates > 1
      BY <3>2, <3>3, <3>6, <3>7 DEF Counted
    <3>9. Accumulated(r) \in Results
      BY <3>6 DEF Results
    <3> QED
      BY <1>7, <3>8, <3>9
  <2> HIDE DEF key
  <2>7. a < b \/ b < a
    BY <1>2, <2>3
  <2> QED
    BY <2>3, <2>6, <2>7
<1>8. Plain /\ (\A f \in Results : ~(f.duplicates > 1)) => Distinct(prefix_size)
  BY <1>7 DEF Distinct
<1> QED
  BY <1>5, <1>6, <1>8 DEF Told

(* What the client knows in each phase: two lines were the same at each    *)
(* shorter size, the merged data are in order, the results tell.           *)
AnswerInv ==
    /\ prefix_size \in Nat \ {0}
    /\ \A size \in 1..prefix_size - 1 : Doubled(size)
    /\ phase = "reduce" => Ordered
    /\ phase = "decide" => Told(out)
    /\ phase = "done" => (Plain => Distinct(prefix_size))

(* At first the prefix has one character, and no shorter one exists. *)
LEMMA AnswerInit == Init => AnswerInv
<1> SUFFICES ASSUME Init PROVE AnswerInv
  OBVIOUS
<1>1. prefix_size = 1 /\ phase = "map"
  BY DEF Init
<1>2. \A size : size \notin 1..prefix_size - 1
  BY <1>1
<1> QED
  BY <1>1, <1>2 DEF AnswerInv

(* What the steps of the mappers, the merge and the reducers leave alone.  *)
LEMMA SameAnswer ==
    ASSUME AnswerInv, UNCHANGED <<input, prefix_size>>,
           phase' = "reduce" => Ordered', phase' = "decide" => Told(out)',
           phase' = "done" => (Plain => Distinct(prefix_size))'
    PROVE  AnswerInv'
<1>1. \A size : Doubled(size)' <=> Doubled(size)
  BY DEF Doubled, Prefix, Lines
<1>2. /\ prefix_size' \in Nat \ {0}
      /\ \A size \in 1..prefix_size' - 1 : Doubled(size)'
  BY <1>1 DEF AnswerInv
<1> QED
  BY <1>2 DEF AnswerInv

(* The merges are those of the lines that were read, *)
LEMMA UnchangedOrder ==
    ASSUME UNCHANGED <<input, prefix_size, svec>>
    PROVE  /\ Read' = Read
           /\ \A o : Merges(o)' <=> Merges(o)
<1>1. /\ \A i : Prefix(i, prefix_size)' = Prefix(i, prefix_size)
      /\ M' = M /\ \A m : Data(m)' = Data(m)
  BY DEF Prefix, M, Data
<1>2. /\ \A i : Key(i)' = Key(i)
      /\ \A i, j : (Sorted(i, j)' <=> Sorted(i, j)) /\ (Together(i, j)' <=> Together(i, j))
  BY <1>1 DEF Key, Sorted, Together
<1>3. \A m : ReadBack(m)' = ReadBack(m)
  BY <1>1, <1>2 DEF ReadBack
<1>4. Read' = Read
  BY <1>1, <1>3 DEF Read
<1>5. \A o : Merges(o)' <=> Merges(o)
  BY <1>2 DEF Merges
<1> QED
  BY <1>4, <1>5

(* and what results tell is about them. *)
LEMMA UnchangedTold ==
    ASSUME UNCHANGED <<input, prefix_size, svec>>
    PROVE  /\ Plain' <=> Plain
           /\ Distinct(prefix_size)' <=> Distinct(prefix_size)
           /\ Doubled(prefix_size)' <=> Doubled(prefix_size)
           /\ AllLong' <=> AllLong
           /\ \A f : Short(f)' <=> Short(f)
<1>1. /\ Distinct(prefix_size)' <=> Distinct(prefix_size)
      /\ Doubled(prefix_size)' <=> Doubled(prefix_size)
      /\ AllLong' <=> AllLong
      /\ NoBlanks' <=> NoBlanks
      /\ Mapped' = Mapped /\ Lines' = Lines
      /\ \A f : Short(f)' <=> Short(f)
  BY DEF Distinct, Doubled, Prefix, Lines, AllLong, NoBlanks, Mapped, Data, M, Short
<1>2. Plain' <=> Plain
  BY <1>1 DEF Plain
<1> QED
  BY <1>1, <1>2

(* Each round keeps the invariant, and a longer prefix is only tried when this one failed. *)
LEMMA AnswerStep == ASSUME MapInv, AnswerInv, [Next]_vars PROVE AnswerInv'
<1>1. ReadInv /\ prefix_size \in Nat \ {0}
  BY DEF MapInv, AnswerInv
<1>2. CASE UNCHANGED vars
  <2>1. UNCHANGED <<input, prefix_size, phase, svec, order, out>>
    BY <1>2 DEF vars
  <2>2. (Ordered' <=> Ordered) /\ (Told(out)' <=> Told(out))
    <3>1. Ordered' <=> Ordered
      BY <2>1, UnchangedOrder DEF Ordered
    <3>2. Told(out)' <=> Told(out)
      BY <2>1, UnchangedTold DEF Told
    <3> QED
      BY <3>1, <3>2
  <2>3. (Plain => Distinct(prefix_size))' <=> (Plain => Distinct(prefix_size))
    BY <2>1, UnchangedTold
  <2> QED
    BY <2>1, <2>2, <2>3, SameAnswer DEF AnswerInv
<1>3. ASSUME NEW m \in M, GetLine(m) \/ GotLine(m) \/ GotNone(m) \/ TellG(m) \/ TellGReturns(m) PROVE AnswerInv'
  <2>1. UNCHANGED <<input, prefix_size, phase>>
    BY <1>3 DEF GetLine, GotLine, GotNone, TellG, TellGReturns, Enter
  <2>2. phase = "map"
    <3>1. pc[m] # "wrote"
      BY <1>3 DEF GetLine, GotLine, GotNone, TellG, TellGReturns
    <3> QED
      BY <3>1 DEF MapInv, EnoughInv
  <2> QED
    BY <2>1, <2>2, SameAnswer
<1>4. CASE MapReturns
  BY <1>4, SameAnswer DEF MapReturns
<1>5. CASE Distribute
  <2>1. UNCHANGED <<input, prefix_size, svec>>
    BY <1>5 DEF Distribute
  <2>2. CASE phase' = "distribute"
    BY <2>1, <2>2, SameAnswer
  <2>3. CASE phase' = "reduce" /\ order' \in {o \in SetToSeqs(Read) : Merges(o)}
    <3>1. Ordered'
      BY <2>1, <2>3, UnchangedOrder DEF Ordered
    <3> QED
      BY <2>1, <2>3, <3>1, SameAnswer
  <2> QED
    BY <1>5, <2>2, <2>3 DEF Distribute, Read
<1>6. CASE Reduce
  <2>1. /\ phase = "reduce" /\ phase' = "decide" /\ out' = Results
        /\ UNCHANGED <<input, prefix_size, svec>>
    BY <1>6 DEF Reduce, Results
  <2>2. Told(Results)
    BY <1>1, <2>1, ResultsTold DEF AnswerInv
  <2>3. Told(out)'
    <3> HIDE DEF Results
    <3> QED
      BY <2>1, <2>2, UnchangedTold DEF Told
  <2> QED
    BY <2>1, <2>3, SameAnswer
<1>7. CASE Decide
  <2>1. Told(out) /\ UNCHANGED input
    BY <1>7 DEF Decide, AnswerInv
  <2> DEFINE deciding == {f \in out : Short(f) \/ f.duplicates > 1}
  <2>2. \/ /\ deciding = {} \/ \E f \in deciding : Short(f)
           /\ phase' = "done" /\ UNCHANGED <<prefix_size, next, pc, svec, order, out>>
        \/ /\ \E f \in deciding : ~Short(f)
           /\ Start(prefix_size + 1)
    BY <1>7 DEF Decide
  <2>3. CASE /\ deciding = {} \/ \E f \in deciding : Short(f)
             /\ phase' = "done" /\ UNCHANGED <<prefix_size, next, pc, svec, order, out>>
    <3>1. Plain => Distinct(prefix_size)
      BY <2>1, <2>3 DEF Told, Plain
    <3>2. UNCHANGED <<input, prefix_size, svec>>
      BY <2>1, <2>3
    <3>3. (Plain => Distinct(prefix_size))'
      BY <3>1, <3>2, UnchangedTold
    <3> QED
      BY <2>3, <3>2, <3>3, SameAnswer
  <2>4. CASE (\E f \in deciding : ~Short(f)) /\ Start(prefix_size + 1)
    <3>1. Doubled(prefix_size)
      BY <2>1, <2>4 DEF Told
    <3>2. prefix_size' = prefix_size + 1 /\ phase' = "map"
      BY <2>4 DEF Start
    <3>3. ASSUME NEW size \in 1..prefix_size' - 1 PROVE Doubled(size)
      <4>1. size = prefix_size \/ size \in 1..prefix_size - 1
        BY <1>1, <3>2
      <4> QED
        BY <3>1, <4>1 DEF AnswerInv
    <3>4. \A size : Doubled(size)' <=> Doubled(size)
      BY <2>1 DEF Doubled, Prefix, Lines
    <3>5. prefix_size' \in Nat \ {0}
      BY <1>1, <3>2
    <3> QED
      BY <3>2, <3>3, <3>4, <3>5 DEF AnswerInv
  <2> HIDE DEF deciding
  <2> QED
    BY <2>2, <2>3, <2>4
<1> QED
  BY <1>2, <1>3, <1>4, <1>5, <1>6, <1>7 DEF Next

(* The answer of calc_min_prefix: at each shorter size two lines were read *)
(* back as the same word, and it tells the lines apart if every line was   *)
(* mapped, is longer and has no white space before it, for any numbers of  *)
(* mappers and reducers, any order in which equal keys are merged and the  *)
(* results are read (distribute, reduce, and the loop of client.h).        *)
THEOREM AnswerMinimal == DataSpec => []AnswerIsMinimal
<1>1. DataInit => AnswerInv
  BY AnswerInit DEF DataInit
<1>2. MapInv /\ AnswerInv /\ [DataNext]_dataVars => AnswerInv'
  BY OneProgram, AnswerStep
<1>3. AnswerInv => AnswerIsMinimal
  BY DEF AnswerInv, AnswerIsMinimal, Plain, AllLong
<1> QED
  BY MapInductive, <1>1, <1>2, <1>3, PTL DEF DataSpec

-----------------------------------------------------------------------------
(* The vector and its allocator: Vector.                                   *)

Vals == Elems \union {0}
Modes == [allowAllocks : BOOLEAN, free_on_deallocate_ : BOOLEAN]
Addresses == Nat \X Nat
Grants == [at : Addresses, n : Nat]

AllocatorTypeOK ==
    /\ mode \in Modes
    /\ heap \in Seq(Nat) /\ count \in Seq(Nat) /\ Len(count) = Len(heap)
    /\ free \in Addresses /\ active \in Nat
    /\ given \in Seq(Grants)

(* A range lies in what its block has given away; the allocator goes on    *)
(* behind that, in the last block, and counts it; and so no two ranges     *)
(* meet.                                                                   *)
AllocatorInv ==
    /\ \A i \in DOMAIN given :
          /\ given[i].at[1] \in 1..Len(heap)
          /\ given[i].at[2] + given[i].n <= count[given[i].at[1]]
    /\ ~mode.free_on_deallocate_ /\ heap # <<>> =>
          /\ free = <<Len(heap), count[Len(heap)]>>
          /\ count[Len(heap)] <= active /\ heap[Len(heap)] = _block_size
    /\ \A i, j \in DOMAIN given : i # j => Vec!Range(given[i]) \cap Vec!Range(given[j]) = {}

VectorTypeOK == data \in Addresses /\ sz \in Nat /\ cp \in Nat /\ contents \in Seq(Vals)

(* The elements are there from data on. *)
Holds(m, at_, s) ==
    \A i \in 1..Len(s) : Vec!Plus(at_, i - 1) \in DOMAIN m /\ m[Vec!Plus(at_, i - 1)] = s[i]
VectorHolds == sz = Len(contents) /\ sz <= cp /\ Holds(memory, data, contents)

VecInv ==
    IF fate = "overrun" THEN mode.allowAllocks /\ ~mode.free_on_deallocate_
    ELSE AllocatorTypeOK /\ AllocatorInv /\ VectorTypeOK /\ (fate = "fine" => VectorHolds)

(* Ranges of other blocks, or one behind the other, do not meet. *)
LEMMA RangesApart ==
    ASSUME NEW g \in Grants, NEW h \in Grants,
           g.at[1] # h.at[1] \/ g.at[2] + g.n <= h.at[2]
    PROVE  Vec!Range(g) \cap Vec!Range(h) = {}
<1> SUFFICES ASSUME NEW i \in 0..g.n - 1, NEW j \in 0..h.n - 1, Vec!Plus(g.at, i) = Vec!Plus(h.at, j)
             PROVE  FALSE
  BY DEF Vec!Range
<1>1. g.at[1] = h.at[1] /\ g.at[2] + i = h.at[2] + j
  BY DEF Vec!Plus
<1>2. g.at[2] \in Nat /\ h.at[2] \in Nat /\ g.n \in Nat /\ h.n \in Nat
  BY DEF Grants, Addresses
<1> QED
  BY <1>1, <1>2

(* The elements constructed are there, and those that were elsewhere stay. *)
LEMMA ConstructedIs ==
    ASSUME NEW m, NEW p \in Addresses, NEW s \in Seq(Vals)
    PROVE  /\ Holds(Vec!Constructed(m, p, s), p, s)
           /\ \A q \in DOMAIN m : (\A i \in 1..Len(s) : q # Vec!Plus(p, i - 1)) =>
                 q \in DOMAIN Vec!Constructed(m, p, s) /\ Vec!Constructed(m, p, s)[q] = m[q]
<1> DEFINE new == {Vec!Plus(p, i - 1) : i \in DOMAIN s}
           c == Vec!Constructed(m, p, s)
<1>1. Len(s) \in Nat /\ DOMAIN s = 1..Len(s) /\ p[1] \in Nat /\ p[2] \in Nat
  BY DEF Addresses
<1>2. c = [q \in DOMAIN m \union new |-> IF q \in new THEN s[q[2] - p[2] + 1] ELSE m[q]]
  BY DEF Vec!Constructed
<1>3. \A i \in 1..Len(s) : Vec!Plus(p, i - 1) \in new /\ Vec!Plus(p, i - 1)[2] = p[2] + (i - 1)
  BY <1>1 DEF Vec!Plus
<1>4. \A q \in new : \E i \in 1..Len(s) : q = Vec!Plus(p, i - 1)
  BY <1>1
<1> HIDE DEF new, c
<1>5. PICK a \in Nat : a = p[2]
  BY <1>1
<1>6. ASSUME NEW i \in 1..Len(s)
      PROVE  Vec!Plus(p, i - 1) \in DOMAIN c /\ c[Vec!Plus(p, i - 1)] = s[i]
  <2>1. i \in Nat /\ Vec!Plus(p, i - 1)[2] = a + (i - 1) /\ p[2] = a
    BY <1>1, <1>3, <1>5
  <2>2. Vec!Plus(p, i - 1)[2] - p[2] + 1 = i
    BY <1>5, <2>1
  <2> QED
    BY <1>2, <1>3, <2>2
<1>7. \A q \in DOMAIN m : q \notin new => q \in DOMAIN c /\ c[q] = m[q]
  BY <1>2
<1> QED
  BY <1>4, <1>6, <1>7 DEF Holds, c

(* What allocate does. *)
LEMMA AllocateIs ==
    ASSUME AllocatorTypeOK, AllocatorInv, NEW n \in Nat, Vec!allocate(n), mode' = mode
    PROVE  /\ Vec!res \in Addresses /\ fate' \in {"fine", "overrun"}
           /\ IF fate' = "overrun" THEN mode.allowAllocks /\ ~mode.free_on_deallocate_
              ELSE AllocatorTypeOK' /\ AllocatorInv'
<1> DEFINE b == Vec!res[1]
           g == [at |-> Vec!res, n |-> n]
           L == Len(heap)
<1> USE VectorAssumption
<1>1. /\ ~Vec!Throws(n)
      /\ heap' = IF ~Vec!NewBlock THEN heap
                 ELSE Append(heap, IF mode.free_on_deallocate_ THEN n ELSE _block_size)
      /\ count' = IF Vec!NewBlock THEN Append(count, n) ELSE [count EXCEPT ![b] = @ + n]
      /\ free' = IF mode.free_on_deallocate_ THEN Vec!res ELSE Vec!Plus(Vec!res, n)
      /\ active' = active + n
      /\ given' = Append(given, g)
      /\ fate' = IF n > 0 /\ Vec!res[2] + n > heap'[b] THEN "overrun" ELSE "fine"
  BY DEF Vec!allocate
<1>2. /\ L \in Nat /\ heap \in Seq(Nat) /\ count \in Seq(Nat) /\ Len(count) = L /\ mode \in Modes
      /\ free \in Addresses /\ active \in Nat /\ given \in Seq(Grants) /\ Len(given) \in Nat
      /\ heap = <<>> <=> L = 0
      /\ mode.free_on_deallocate_ \in BOOLEAN /\ mode.allowAllocks \in BOOLEAN
  BY DEF AllocatorTypeOK, Modes
<1>3. \A i \in 1..L : count[i] \in Nat
  BY <1>2
<1> HIDE DEF g, L
<1>4. CASE Vec!NewBlock
  <2> DEFINE k == IF mode.free_on_deallocate_ THEN n ELSE _block_size
  <2>1. Vec!res = <<L + 1, 0>> /\ b = L + 1 /\ Vec!res[2] = 0 /\ Vec!res \in Addresses
    BY <1>2, <1>4 DEF Vec!res, L, Addresses
  <2>2. k \in Nat
    OBVIOUS
  <2> HIDE DEF k
  <2>3. heap' = Append(heap, k) /\ count' = Append(count, n)
    BY <1>1, <1>4 DEF k
  <2>4. /\ heap' \in Seq(Nat) /\ Len(heap') = L + 1 /\ heap'[L + 1] = k
        /\ count' \in Seq(Nat) /\ Len(count') = L + 1 /\ count'[L + 1] = n
        /\ \A i \in 1..L : count'[i] = count[i]
    <3>1. /\ heap' \in Seq(Nat) /\ Len(heap') = L + 1
          /\ \A i \in 1..L + 1 : heap'[i] = IF i <= L THEN heap[i] ELSE k
      BY <1>2, <2>2, <2>3, AppendProperties DEF L
    <3>2. /\ count' \in Seq(Nat) /\ Len(count') = L + 1
          /\ \A i \in 1..L + 1 : count'[i] = IF i <= L THEN count[i] ELSE n
      BY <1>2, <2>3, AppendProperties
    <3> QED
      BY <1>2, <3>1, <3>2
  <2>5. fate' = "overrun" => FALSE
    <3>1. ~mode.free_on_deallocate_ => n <= _block_size
      BY <1>1 DEF Vec!Throws
    <3>2. n <= k
      BY <3>1 DEF k
    <3> QED
      BY <1>1, <2>1, <2>2, <2>4, <3>2
  <2>6. fate' = "fine"
    BY <1>1, <2>5
  <2>7. g \in Grants /\ g.at = Vec!res /\ g.n = n
    BY <2>1 DEF g, Grants
  <2>8. /\ given' \in Seq(Grants) /\ Len(given') = Len(given) + 1 /\ DOMAIN given = 1..Len(given)
        /\ DOMAIN given' = 1..Len(given) + 1
        /\ \A i \in 1..Len(given) : given'[i] = given[i]
        /\ given'[Len(given) + 1] = g
    <3>1. PICK l \in Nat : l = Len(given)
      BY <1>2
    <3>2. /\ given' \in Seq(Grants) /\ Len(given') = l + 1
          /\ \A i \in 1..l + 1 : given'[i] = IF i <= l THEN given[i] ELSE g
      BY <1>1, <1>2, <2>7, <3>1, AppendProperties
    <3>3. given'[l + 1] = g /\ \A i \in 1..l : given'[i] = given[i]
      BY <3>1, <3>2
    <3>4. DOMAIN given = 1..l /\ DOMAIN given' = 1..l + 1
      BY <1>2, <3>1, <3>2
    <3> QED
      BY <3>1, <3>2, <3>3, <3>4
  <2>9. AllocatorTypeOK'
    <3>1. free' \in Addresses
      BY <1>1, <2>1 DEF Vec!Plus, Addresses
    <3> QED
      BY <1>1, <1>2, <2>4, <2>8, <3>1 DEF AllocatorTypeOK
  <2>10. ASSUME NEW i \in DOMAIN given'
         PROVE  given'[i].at[1] \in 1..Len(heap') /\ given'[i].at[2] + given'[i].n <= count'[given'[i].at[1]]
    <3>1. CASE i \in 1..Len(given)
      <4>1. given[i].at[1] \in 1..L /\ given[i].at[2] + given[i].n <= count[given[i].at[1]]
        BY <2>8, <3>1 DEF AllocatorInv, L
      <4>2. given'[i] = given[i] /\ given[i].at[1] \in 1..L + 1
        BY <1>2, <2>8, <3>1, <4>1
      <4> QED
        BY <2>4, <4>1, <4>2
    <3>2. CASE i = Len(given) + 1
      BY <1>2, <2>1, <2>4, <2>7, <2>8, <3>2, SMTT(30)
    <3> QED
      BY <1>2, <2>8, <3>1, <3>2
  <2>11. ~mode.free_on_deallocate_ =>
            /\ free' = <<Len(heap'), count'[Len(heap')]>>
            /\ count'[Len(heap')] <= active' /\ heap'[Len(heap')] = _block_size
    BY <1>1, <1>2, <2>1, <2>4 DEF Vec!Plus, k
  <2>12. ASSUME NEW i \in 1..Len(given)
         PROVE  Vec!Range(given[i]) \cap Vec!Range(g) = {}
    <3>1. given[i] \in Grants /\ given[i].at[1] \in 1..L
      BY <1>2, <2>8 DEF AllocatorInv, L
    <3>2. given[i].at[1] # g.at[1]
      BY <1>2, <2>1, <2>7, <3>1
    <3> QED
      BY <2>7, <3>1, <3>2, RangesApart
  <2>13. \A i, j \in DOMAIN given' : i # j => Vec!Range(given'[i]) \cap Vec!Range(given'[j]) = {}
    <3>1. \A i \in DOMAIN given' : i \in 1..Len(given) \/ i = Len(given) + 1
      BY <1>2, <2>8
    <3>2. \A i, j \in 1..Len(given) : i # j => Vec!Range(given[i]) \cap Vec!Range(given[j]) = {}
      BY <2>8 DEF AllocatorInv
    <3> QED
      BY <2>8, <2>12, <3>1, <3>2
  <2>14. AllocatorInv'
    BY <2>10, <2>11, <2>13 DEF AllocatorInv
  <2> QED
    BY <2>1, <2>6, <2>9, <2>14
<1>5. CASE ~Vec!NewBlock
  <2>1. /\ Vec!res = free /\ ~mode.free_on_deallocate_ /\ heap # <<>> /\ L > 0
        /\ (mode.allowAllocks => ~(count[Len(count)] >= _block_size))
    BY <1>2, <1>5 DEF Vec!res, Vec!NewBlock
  <2>2. /\ free = <<L, count[L]>> /\ count[L] <= active /\ heap[L] = _block_size /\ count[L] \in Nat
        /\ b = L /\ Vec!res[2] = count[L] /\ L \in 1..L
    BY <1>2, <1>3, <2>1 DEF AllocatorInv, L
  <2>3. heap' = heap /\ count' = [count EXCEPT ![L] = @ + n]
    BY <1>1, <1>5, <2>2
  <2>4. /\ count' \in Seq(Nat) /\ Len(count') = L /\ count'[L] = count[L] + n
        /\ \A i \in 1..L : i # L => count'[i] = count[i]
    <3>1. DOMAIN count = 1..L /\ count \in [1..L -> Nat]
      BY <1>2
    <3> DEFINE v == count[L] + n
    <3>2. v \in Nat
      BY <2>2
    <3>3. count' = [count EXCEPT ![L] = v]
      BY <2>3
    <3> HIDE DEF v
    <3>4. count' \in [1..L -> Nat] /\ count'[L] = v
          /\ \A i \in 1..L : i # L => count'[i] = count[i]
      BY <2>2, <3>1, <3>2, <3>3
    <3>5. count' \in Seq(Nat) /\ Len(count') = L
      BY <1>2, <3>4
    <3> QED
      BY <3>4, <3>5 DEF v
  <2>5. fate' = "overrun" => mode.allowAllocks
    <3>1. ~mode.allowAllocks => active + n <= _block_size
      BY <1>1, <1>2, <2>1 DEF Vec!Throws
    <3> QED
      BY <1>1, <1>2, <2>2, <2>3, <3>1, SMTT(30)
  <2>6. fate' \in {"fine", "overrun"}
    BY <1>1
  <2>7. g \in Grants /\ g.at = free /\ g.n = n /\ free \in Addresses
    BY <1>2, <2>1 DEF g, Grants
  <2>8. /\ given' \in Seq(Grants) /\ Len(given') = Len(given) + 1 /\ DOMAIN given = 1..Len(given)
        /\ DOMAIN given' = 1..Len(given) + 1
        /\ \A i \in 1..Len(given) : given'[i] = given[i]
        /\ given'[Len(given) + 1] = g
    <3>1. PICK l \in Nat : l = Len(given)
      BY <1>2
    <3>2. /\ given' \in Seq(Grants) /\ Len(given') = l + 1
          /\ \A i \in 1..l + 1 : given'[i] = IF i <= l THEN given[i] ELSE g
      BY <1>1, <1>2, <2>7, <3>1, AppendProperties
    <3>3. given'[l + 1] = g /\ \A i \in 1..l : given'[i] = given[i]
      BY <3>1, <3>2
    <3>4. DOMAIN given = 1..l /\ DOMAIN given' = 1..l + 1
      BY <1>2, <3>1, <3>2
    <3> QED
      BY <3>1, <3>2, <3>3, <3>4
  <2>9. free' = <<L, count[L] + n>> /\ free' \in Addresses
    BY <1>1, <1>2, <2>1, <2>2, SMTT(30) DEF Vec!Plus, Addresses
  <2>10. AllocatorTypeOK'
    BY <1>1, <1>2, <2>3, <2>4, <2>8, <2>9 DEF AllocatorTypeOK, L
  <2>11. ASSUME NEW i \in DOMAIN given'
         PROVE  given'[i].at[1] \in 1..Len(heap') /\ given'[i].at[2] + given'[i].n <= count'[given'[i].at[1]]
    <3>1. CASE i \in 1..Len(given)
      <4>1. given[i].at[1] \in 1..L /\ given[i].at[2] + given[i].n <= count[given[i].at[1]]
        BY <2>8, <3>1 DEF AllocatorInv, L
      <4>2. given'[i] = given[i]
        BY <2>8, <3>1
      <4>3. given[i] \in Grants
        BY <1>2, <2>8, <3>1
      <4>4. given[i].at[2] + given[i].n \in Nat
        BY <4>3 DEF Grants, Addresses
      <4>5. count[given[i].at[1]] <= count'[given[i].at[1]]
        <5>1. \A j \in 1..L : count[j] <= count'[j]
          BY <1>3, <2>2, <2>4, SMTT(30)
        <5> QED
          BY <4>1, <5>1
      <4>6. count'[given[i].at[1]] \in Nat /\ count[given[i].at[1]] \in Nat
        BY <1>3, <2>4, <4>1
      <4>7. given[i].at[2] + given[i].n <= count'[given[i].at[1]]
        BY <4>1, <4>4, <4>5, <4>6
      <4> QED
        BY <2>3, <4>1, <4>2, <4>7 DEF L
    <3>2. CASE i = Len(given) + 1
      BY <1>2, <2>2, <2>3, <2>4, <2>7, <2>8, <3>2, SMTT(30) DEF L
    <3> QED
      BY <1>2, <2>8, <3>1, <3>2
  <2>12. /\ free' = <<Len(heap'), count'[Len(heap')]>>
         /\ count'[Len(heap')] <= active' /\ heap'[Len(heap')] = _block_size
    <3>1. Len(heap') = L /\ heap'[L] = _block_size /\ count'[L] = count[L] + n
      BY <2>2, <2>3, <2>4 DEF L
    <3>2. count[L] + n <= active + n
      BY <1>2, <2>2
    <3> QED
      BY <1>1, <2>9, <3>1, <3>2
  <2>13. ASSUME NEW i \in 1..Len(given)
         PROVE  Vec!Range(given[i]) \cap Vec!Range(g) = {}
    <3>1. given[i] \in Grants /\ given[i].at[1] \in 1..L
          /\ given[i].at[2] + given[i].n <= count[given[i].at[1]]
      <4>1. given[i] \in Grants /\ i \in DOMAIN given
        BY <1>2, <2>8
      <4>2. \A j \in DOMAIN given : given[j].at[1] \in 1..L
                                /\ given[j].at[2] + given[j].n <= count[given[j].at[1]]
        BY DEF AllocatorInv, L
      <4> QED
        BY <4>1, <4>2
    <3>2. given[i].at[1] # g.at[1] \/ given[i].at[2] + given[i].n <= g.at[2]
      BY <2>2, <2>7, <3>1
    <3> QED
      BY <2>7, <3>1, <3>2, RangesApart
  <2>14. \A i, j \in DOMAIN given' : i # j => Vec!Range(given'[i]) \cap Vec!Range(given'[j]) = {}
    <3>1. \A i \in DOMAIN given' : i \in 1..Len(given) \/ i = Len(given) + 1
      BY <1>2, <2>8
    <3>2. \A i, j \in 1..Len(given) : i # j => Vec!Range(given[i]) \cap Vec!Range(given[j]) = {}
      BY <2>8 DEF AllocatorInv
    <3> QED
      BY <2>8, <2>13, <3>1, <3>2
  <2>15. AllocatorInv'
    BY <2>11, <2>12, <2>14 DEF AllocatorInv
  <2> QED
    BY <1>2, <2>1, <2>5, <2>6, <2>7, <2>10, <2>15
<1> QED
  BY <1>4, <1>5

(* What is in memory is what the vector should hold. *)
LEMMA InMemoryIs ==
    ASSUME VectorTypeOK, VectorHolds
    PROVE  Vec!InMemory = contents
<1>1. contents \in Seq(Vals) /\ sz = Len(contents) /\ sz \in Nat /\ DOMAIN contents = 1..sz
  BY DEF VectorTypeOK, VectorHolds
<1>2. \A i \in 1..sz : memory[Vec!Plus(data, i - 1)] = contents[i]
  BY <1>1 DEF VectorHolds, Holds
<1>3. contents = [i \in 1..sz |-> contents[i]]
  BY <1>1
<1>4. Vec!InMemory = [i \in 1..sz |-> contents[i]]
  BY <1>2 DEF Vec!InMemory
<1> QED
  BY <1>3, <1>4

(* reserve, and elements constructed behind the others: in place, or in a  *)
(* range of their own.                                                     *)
LEMMA ReserveIs ==
    ASSUME VecInv, fate = "fine", NEW n \in Nat, NEW s \in Seq(Vals), Vec!reserve(n, s),
           mode' = mode, sz' = sz + Len(s), contents' = contents \o s,
           sz' <= IF n > cp THEN n ELSE cp
    PROVE  VecInv'
<1> DEFINE t == contents \o s
           k == Len(s)
<1>1. /\ AllocatorTypeOK /\ AllocatorInv /\ VectorTypeOK /\ VectorHolds
      /\ sz \in Nat /\ cp \in Nat /\ k \in Nat /\ data \in Addresses /\ contents \in Seq(Vals)
      /\ sz = Len(contents)
  <2>1. fate # "overrun"
    OBVIOUS
  <2>2. AllocatorTypeOK /\ AllocatorInv /\ VectorTypeOK /\ VectorHolds
    BY <2>1 DEF VecInv
  <2> QED
    BY <2>2 DEF VectorTypeOK, VectorHolds
<1>2. /\ t \in Seq(Vals) /\ Len(t) = sz + k
      /\ \A i \in 1..sz : t[i] = contents[i]
      /\ \A i \in 1..k : t[sz + i] = s[i]
  <2>1. /\ t \in Seq(Vals) /\ Len(t) = sz + k
        /\ \A i \in 1..sz + k : t[i] = IF i <= sz THEN contents[i] ELSE s[i - sz]
    BY <1>1, ConcatProperties
  <2> HIDE DEF t, k
  <2>2. \A i \in 1..sz : t[i] = contents[i]
    BY <1>1, <2>1
  <2>3. ASSUME NEW i \in 1..k PROVE t[sz + i] = s[i]
    <3>1. PICK j \in 1..sz + k : j = sz + i
      BY <1>1
    <3>2. ~(j <= sz) /\ j - sz = i
      BY <1>1, <3>1
    <3> QED
      BY <2>1, <3>1, <3>2
  <2> QED
    BY <2>1, <2>2, <2>3
<1>3. contents' = t /\ sz' = sz + k
  OBVIOUS
<1> HIDE DEF t, k
<1>4. CASE n > cp
  <2>1. Vec!allocate(n) /\ data' = Vec!res /\ cp' = n /\ memory' = Vec!Constructed(memory, Vec!res, t)
    <3>1. Vec!allocate(n) /\ data' = Vec!res /\ cp' = n
          /\ memory' = Vec!Constructed(memory, Vec!res, Vec!InMemory \o s)
      BY <1>4 DEF Vec!reserve
    <3> QED
      BY <1>1, <3>1, InMemoryIs DEF t
  <2>2. /\ Vec!res \in Addresses /\ fate' \in {"fine", "overrun"}
        /\ IF fate' = "overrun" THEN mode.allowAllocks /\ ~mode.free_on_deallocate_
           ELSE AllocatorTypeOK' /\ AllocatorInv'
    BY <1>1, <2>1, AllocateIs
  <2>3. VectorTypeOK'
    BY <1>1, <1>2, <1>3, <2>1, <2>2 DEF VectorTypeOK
  <2>4. Holds(memory', data', contents')
    BY <1>2, <1>3, <2>1, <2>2, ConstructedIs
  <2>5. VectorHolds'
    <3>1. sz' = Len(contents') /\ sz' <= cp'
      BY <1>2, <1>3, <1>4, <2>1
    <3> QED
      BY <2>4, <3>1 DEF VectorHolds, Holds
  <2> QED
    BY <2>2, <2>3, <2>5 DEF VecInv
<1>5. CASE ~(n > cp)
  <2> DEFINE p == Vec!Plus(data, sz)
  <2>1. /\ Vec!NoAllocation /\ data' = data /\ cp' = cp
        /\ memory' = Vec!Constructed(memory, p, s)
    BY <1>5 DEF Vec!reserve
  <2>2. AllocatorTypeOK' /\ AllocatorInv' /\ fate' = "fine"
    BY <1>1, <2>1 DEF Vec!NoAllocation, AllocatorTypeOK, AllocatorInv
  <2>3. VectorTypeOK'
    BY <1>1, <1>2, <1>3, <2>1 DEF VectorTypeOK
  <2>4. p \in Addresses /\ data[1] \in Nat /\ data[2] \in Nat
    BY <1>1 DEF Vec!Plus, Addresses
  <2>5. \A i \in Nat, j \in Nat : /\ Vec!Plus(p, j) = Vec!Plus(data, sz + j)
                                  /\ i # sz + j => Vec!Plus(data, i) # Vec!Plus(p, j)
    <3>1. PICK a \in Nat, b \in Nat : a = data[1] /\ b = data[2]
      BY <2>4
    <3>2. p[1] = a /\ p[2] = b + sz
      BY <3>1 DEF Vec!Plus
    <3> HIDE DEF p
    <3>3. \A i, j \in Nat : (b + sz) + j = b + (sz + j) /\ (i # sz + j => b + i # b + (sz + j))
      BY <1>1
    <3>4. \A j \in Nat : Vec!Plus(p, j) = <<a, (b + sz) + j>>
      BY <3>2 DEF Vec!Plus
    <3>5. \A j : Vec!Plus(data, j) = <<a, b + j>>
      BY <3>1 DEF Vec!Plus
    <3> QED
      BY <3>3, <3>4, <3>5, SMTT(30)
  <2>6. /\ Holds(memory', p, s)
        /\ \A q \in DOMAIN memory : (\A i \in 1..k : q # Vec!Plus(p, i - 1)) =>
              q \in DOMAIN memory' /\ memory'[q] = memory[q]
    BY <2>1, <2>4, ConstructedIs DEF k
  <2> HIDE DEF p
  <2>7. ASSUME NEW i \in 1..sz
        PROVE  Vec!Plus(data, i - 1) \in DOMAIN memory' /\ memory'[Vec!Plus(data, i - 1)] = t[i]
    <3>1. Vec!Plus(data, i - 1) \in DOMAIN memory /\ memory[Vec!Plus(data, i - 1)] = t[i]
      BY <1>1, <1>2 DEF VectorHolds, Holds
    <3>2. ASSUME NEW j \in 1..k PROVE Vec!Plus(data, i - 1) # Vec!Plus(p, j - 1)
      <4>1. i - 1 \in Nat /\ j - 1 \in Nat /\ i - 1 # sz + (j - 1)
        BY <1>1
      <4> QED
        BY <2>5, <4>1
    <3> QED
      BY <2>6, <3>1, <3>2
  <2>8. ASSUME NEW i \in 1..k
        PROVE  Vec!Plus(data, sz + i - 1) \in DOMAIN memory' /\ memory'[Vec!Plus(data, sz + i - 1)] = t[sz + i]
    <3>1. Vec!Plus(p, i - 1) \in DOMAIN memory' /\ memory'[Vec!Plus(p, i - 1)] = t[sz + i]
      BY <1>2, <2>6 DEF Holds, k
    <3>2. i - 1 \in Nat /\ sz + i - 1 = sz + (i - 1)
      BY <1>1
    <3>3. Vec!Plus(p, i - 1) = Vec!Plus(data, sz + i - 1)
      BY <2>5, <3>2
    <3> QED
      BY <3>1, <3>3
  <2>9. Holds(memory', data', contents')
    <3>1. ASSUME NEW j \in 1..sz + k
          PROVE  Vec!Plus(data, j - 1) \in DOMAIN memory' /\ memory'[Vec!Plus(data, j - 1)] = t[j]
      <4>1. CASE j <= sz
        BY <1>1, <2>7, <4>1
      <4>2. CASE j > sz
        <5>1. PICK i \in 1..k : j = sz + i
          <6>1. j - sz \in 1..k /\ j = sz + (j - sz)
            BY <1>1, <4>2
          <6> QED
            BY <6>1
        <5>2. j - 1 = sz + i - 1
          BY <1>1, <5>1
        <5> QED
          BY <2>8, <5>1, <5>2
      <4> QED
        BY <1>1, <4>1, <4>2
    <3> QED
      BY <1>2, <1>3, <2>1, <3>1 DEF Holds
  <2>10. VectorHolds'
    <3>1. sz' = Len(contents') /\ sz' <= cp'
      BY <1>1, <1>2, <1>3, <1>5, <2>1
    <3> QED
      BY <2>9, <3>1 DEF VectorHolds, Holds
  <2> QED
    BY <2>2, <2>3, <2>10 DEF VecInv
<1> QED
  BY <1>4, <1>5

(* An element is pushed, in place or into twice the room. *)
LEMMA PushBackInv == ASSUME VecInv, fate = "fine", NEW elem \in Elems, Vec!push_back(elem) PROVE VecInv'
<1> DEFINE n == IF sz < cp THEN cp ELSE IF sz = 0 THEN 1 ELSE sz * 2
           s == <<elem>>
<1>1. Vec!reserve(n, s) /\ sz' = sz + 1 /\ contents' = Append(contents, elem) /\ mode' = mode
  BY DEF Vec!push_back
<1>2. sz \in Nat /\ cp \in Nat /\ contents \in Seq(Vals) /\ sz <= cp
  BY DEF VecInv, VectorTypeOK, VectorHolds
<1>3. n \in Nat /\ sz + 1 <= n
  BY <1>2
<1>4. s \in Seq(Vals) /\ Len(s) = 1
  BY DEF Vals
<1>5. contents' = contents \o s
  BY <1>1, <1>2 DEF Vals
<1> HIDE DEF n, s
<1>6. sz' <= IF n > cp THEN n ELSE cp
  BY <1>1, <1>2, <1>3
<1> QED
  BY <1>1, <1>3, <1>4, <1>5, <1>6, ReserveIs

(* It grows, and is filled up. *)
LEMMA ResizeUpInv == ASSUME VecInv, fate = "fine", NEW n \in Nat, Vec!resizeUp(n) PROVE VecInv'
<1> USE VectorAssumption
<1> DEFINE s == Vec!Zeros(n - sz)
<1>1. Vec!reserve(n, s) /\ sz' = n /\ contents' = contents \o s /\ mode' = mode /\ n \in sz..MaxSize
  BY DEF Vec!resizeUp
<1>2. sz \in Nat /\ cp \in Nat /\ n - sz \in Nat
  BY <1>1 DEF VecInv, VectorTypeOK
<1>3. s \in Seq(Vals) /\ Len(s) = n - sz
  BY <1>2 DEF Vec!Zeros, Vals
<1> HIDE DEF s
<1>4. sz' = sz + Len(s) /\ sz' <= IF n > cp THEN n ELSE cp
  BY <1>1, <1>2, <1>3
<1> QED
  BY <1>1, <1>3, <1>4, ReserveIs

(* It gets more room. *)
LEMMA RoomInv == ASSUME VecInv, fate = "fine", NEW n \in Nat, Vec!Reserve(n) PROVE VecInv'
<1> USE VectorAssumption
<1>1. Vec!reserve(n, <<>>) /\ UNCHANGED <<mode, sz, contents>> /\ n \in cp + 1..MaxSize
  BY DEF Vec!Reserve
<1>2. sz \in Nat /\ cp \in Nat /\ sz <= cp /\ contents \in Seq(Vals)
  BY DEF VecInv, VectorTypeOK, VectorHolds
<1>3. <<>> \in Seq(Vals) /\ Len(<<>>) = 0 /\ contents' = contents \o <<>>
  BY <1>1, <1>2
<1>4. sz' = sz + Len(<<>>) /\ sz' <= IF n > cp THEN n ELSE cp
  BY <1>1, <1>2, <1>3
<1> QED
  BY <1>1, <1>3, <1>4, ReserveIs

(* It shrinks, and hangs when nothing is to be left. *)
LEMMA ResizeDownInv == ASSUME VecInv, fate = "fine", NEW n \in Nat, Vec!resizeDown(n) PROVE VecInv'
<1>1. /\ UNCHANGED <<mode, heap, count, free, active, given, memory, data, cp>> /\ n < sz
      /\ IF n = 0 THEN fate' = "hangs" /\ UNCHANGED <<sz, contents>>
         ELSE sz' = n /\ contents' = SubSeq(contents, 1, n) /\ UNCHANGED fate
  BY DEF Vec!resizeDown
<1>2. AllocatorTypeOK /\ AllocatorInv /\ VectorTypeOK /\ VectorHolds
  BY DEF VecInv
<1>3. AllocatorTypeOK' /\ AllocatorInv'
  BY <1>1, <1>2 DEF AllocatorTypeOK, AllocatorInv
<1>4. CASE n = 0
  <2>1. VectorTypeOK' /\ fate' = "hangs"
    BY <1>1, <1>2, <1>4 DEF VectorTypeOK
  <2> QED
    BY <1>3, <2>1 DEF VecInv
<1>5. CASE n # 0
  <2>1. /\ sz' = n /\ contents' = SubSeq(contents, 1, n) /\ fate' = "fine"
        /\ contents \in Seq(Vals) /\ sz \in Nat /\ cp \in Nat /\ sz = Len(contents) /\ sz <= cp
    BY <1>1, <1>2, <1>5 DEF VectorTypeOK, VectorHolds
  <2>2. /\ contents' \in Seq(Vals) /\ Len(contents') = n
        /\ \A i \in 1..n : contents'[i] = contents[i]
    BY <1>1, <1>5, <2>1
  <2>3. VectorTypeOK'
    BY <1>1, <1>2, <2>1, <2>2 DEF VectorTypeOK
  <2>4. Holds(memory', data', contents')
    BY <1>1, <1>2, <2>1, <2>2 DEF VectorHolds, Holds
  <2>5. VectorHolds'
    BY <1>1, <2>1, <2>2, <2>4 DEF VectorHolds, Holds
  <2> QED
    BY <1>3, <2>1, <2>3, <2>5 DEF VecInv
<1> QED
  BY <1>4, <1>5

(* A vector with an allocator of its own. *)
LEMMA MadeInv ==
    ASSUME fate = "fine", NEW m \in Modes, NEW s \in Seq(Vals), Len(s) <= _block_size, Vec!Made(m, s)
    PROVE  VecInv'
<1> USE VectorAssumption
<1> DEFINE k == Len(s)
           h == IF m.free_on_deallocate_ THEN k ELSE _block_size
           g == [at |-> <<1, 0>>, n |-> k]
<1>1. /\ mode' = m /\ heap' = <<h>> /\ count' = <<k>> /\ active' = k
      /\ free' = <<1, IF m.free_on_deallocate_ THEN 0 ELSE k>>
      /\ given' = <<g>>
      /\ memory' = Vec!Constructed([p \in {} |-> 0], <<1, 0>>, s)
      /\ data' = <<1, 0>> /\ sz' = k /\ cp' = k /\ contents' = s /\ fate' = "fine"
  BY DEF Vec!Made
<1>2. k \in Nat /\ h \in Nat /\ <<1, 0>> \in Addresses /\ k <= _block_size
  BY DEF Addresses
<1>3. g \in Grants /\ g.at = <<1, 0>> /\ g.n = k
  BY <1>2 DEF Grants
<1>4. ~m.free_on_deallocate_ => h = _block_size /\ free' = <<1, k>>
  BY <1>1
<1> HIDE DEF k, h, g
<1>5. AllocatorTypeOK'
  <2>1. heap' \in Seq(Nat) /\ count' \in Seq(Nat) /\ Len(count') = 1 /\ Len(heap') = 1
    BY <1>1, <1>2
  <2>2. given' \in Seq(Grants)
    BY <1>1, <1>3
  <2>3. free' \in Addresses
    BY <1>1, <1>2 DEF Addresses
  <2> QED
    BY <1>1, <1>2, <2>1, <2>2, <2>3 DEF AllocatorTypeOK
<1>6. AllocatorInv'
  <2>1. Len(heap') = 1 /\ count'[1] = k /\ heap'[1] = h /\ DOMAIN given' = {1} /\ given'[1] = g
    BY <1>1
  <2>2. \A i \in DOMAIN given' : /\ given'[i].at[1] \in 1..Len(heap')
                                 /\ given'[i].at[2] + given'[i].n <= count'[given'[i].at[1]]
    BY <1>2, <1>3, <2>1
  <2>3. ~mode'.free_on_deallocate_ =>
            /\ free' = <<Len(heap'), count'[Len(heap')]>>
            /\ count'[Len(heap')] <= active' /\ heap'[Len(heap')] = _block_size
    BY <1>1, <1>2, <1>4, <2>1
  <2>4. \A i, j \in DOMAIN given' : i = j
    BY <2>1
  <2> QED
    BY <2>2, <2>3, <2>4 DEF AllocatorInv
<1>7. VectorTypeOK'
  BY <1>1, <1>2 DEF VectorTypeOK
<1>8. Holds(memory', data', contents')
  BY <1>1, <1>2, ConstructedIs
<1>9. VectorHolds'
  BY <1>1, <1>2, <1>8 DEF VectorHolds, Holds, k
<1> QED
  BY <1>1, <1>5, <1>6, <1>7, <1>9 DEF VecInv

(* At first there is no element and no block. *)
LEMMA VectorInit == DataInit => VecInv
<1> SUFFICES ASSUME Vec!VectorInit PROVE VecInv
  BY DEF DataInit
<1> USE DEF Vec!VectorInit, Vec!Null
<1>1. AllocatorTypeOK
  BY DEF AllocatorTypeOK, Modes, Addresses
<1>2. AllocatorInv
  BY DEF AllocatorInv
<1>3. VectorTypeOK
  BY DEF VectorTypeOK, Addresses
<1>4. VectorHolds
  BY DEF VectorHolds, Holds
<1> QED
  BY <1>1, <1>2, <1>3, <1>4 DEF VecInv

(* The vector: it holds what was put into it, in any order of growing,     *)
(* shrinking and copying, and no two ranges of the allocator meet; only    *)
(* one that may add blocks runs over the end of one, whatever their size.  *)
THEOREM VectorKeeps == DataSpec => []ContentsKept
<1>1. VecInv /\ [DataNext]_dataVars => VecInv'
  <2> SUFFICES ASSUME VecInv, [Vec!VectorNext]_vectorVars PROVE VecInv'
    BY OneProgram
  <2> USE VectorAssumption
  <2>1. CASE UNCHANGED vectorVars
    BY <2>1 DEF vectorVars, VecInv, AllocatorTypeOK, AllocatorInv, VectorTypeOK, VectorHolds, Holds
  <2>2. ASSUME fate = "fine", NEW n \in Nat, Vec!VectorOf(n) PROVE VecInv'
    <3>1. AllocatorTypeOK /\ n <= _block_size /\ Vec!Made(mode, Vec!Zeros(n))
      BY <2>2 DEF VecInv, Vec!VectorOf
    <3>2. mode \in Modes
      BY <3>1 DEF AllocatorTypeOK
    <3>3. Vec!Zeros(n) \in Seq(Vals) /\ Len(Vec!Zeros(n)) = n
      BY DEF Vec!Zeros, Vals
    <3> QED
      BY <2>2, <3>1, <3>2, <3>3, MadeInv
  <2>3. ASSUME fate = "fine", Vec!Copy PROVE VecInv'
    <3> DEFINE m == [mode EXCEPT !.free_on_deallocate_ = FALSE]
    <3>1. AllocatorTypeOK /\ VectorTypeOK /\ VectorHolds
      BY <2>3 DEF VecInv
    <3>2. m \in Modes
      BY <3>1 DEF AllocatorTypeOK, Modes
    <3>3. contents \in Seq(Vals) /\ Len(contents) = sz
      BY <3>1 DEF VectorTypeOK, VectorHolds
    <3>4. sz <= _block_size /\ Vec!Made(m, contents)
      BY <2>3, <3>1, InMemoryIs DEF Vec!Copy
    <3> HIDE DEF m
    <3> QED
      BY <2>3, <3>2, <3>3, <3>4, MadeInv
  <2>4. CASE Vec!VectorNext
    <3>1. fate = "fine" /\ \A n \in 0..MaxSize : n \in Nat
      BY <2>4 DEF Vec!VectorNext
    <3> QED
      BY <2>2, <2>3, <2>4, <3>1, PushBackInv, ResizeUpInv, RoomInv, ResizeDownInv DEF Vec!VectorNext
  <2> QED
    BY <2>1, <2>4
<1>2. VecInv => ContentsKept
  <2> SUFFICES ASSUME VecInv PROVE Vec!ContentsKept
    BY DEF ContentsKept
  <2>1. fate = "fine" => sz = Len(contents) /\ sz <= cp /\ Vec!InMemory = contents
    BY InMemoryIs DEF VecInv, VectorHolds
  <2> QED
    BY <2>1 DEF VecInv, AllocatorInv, Vec!ContentsKept
<1> QED
  BY VectorInit, <1>1, <1>2, PTL DEF DataSpec

-----------------------------------------------------------------------------
(* The sparse matrix: SparseMatrix.                                        *)

(* The least of a set of numbers. *)
LEMMA MinIs ==
    ASSUME NEW T \in SUBSET Nat, T # {}
    PROVE  Matrix!Min(T) \in T /\ \A n \in T : Matrix!Min(T) <= n
<1>1. \E n \in T : \A m \in T : n <= m
  BY LeastOne
<1> QED
  BY <1>1 DEF Matrix!Min

(* What list::insert leaves. *)
LEMMA InsertAtFacts ==
    ASSUME NEW V, NEW s \in Seq(V), NEW e \in V, NEW i \in 1..Len(s) + 1
    PROVE  LET t == Matrix!InsertAt(s, i, e)
           IN  /\ t \in Seq(V) /\ Len(t) = Len(s) + 1
               /\ \A j \in 1..Len(s) + 1 : t[j] = IF j < i THEN s[j] ELSE IF j = i THEN e ELSE s[j - 1]
<1> DEFINE before == SubSeq(s, 1, i - 1)
           after == SubSeq(s, i, Len(s))
           t == Matrix!InsertAt(s, i, e)
           front == before \o <<e>>
<1>1. /\ before \in Seq(V) /\ Len(before) = i - 1
      /\ \A j \in 1..i - 1 : before[j] = s[j]
  OBVIOUS
<1>2. /\ after \in Seq(V) /\ Len(after) = Len(s) - i + 1
      /\ \A j \in 1..Len(s) - i + 1 : after[j] = s[i + j - 1]
  OBVIOUS
<1>3. <<e>> \in Seq(V) /\ Len(<<e>>) = 1 /\ <<e>>[1] = e
  OBVIOUS
<1>4. t = front \o after
  BY DEF t, front, Matrix!InsertAt
<1> HIDE DEF before, after, t
<1>5. /\ front \in Seq(V) /\ Len(front) = i
      /\ \A j \in 1..i - 1 : front[j] = s[j]
      /\ front[i] = e
  BY <1>1, <1>3
<1> HIDE DEF front
<1>6. t \in Seq(V) /\ Len(t) = Len(s) + 1
  <2>1. Len(s) \in Nat /\ t \in Seq(V) /\ Len(t) = i + Len(after)
    BY <1>2, <1>4, <1>5, ConcatProperties
  <2> QED
    BY <1>2, <2>1
<1>7. ASSUME NEW j \in 1..Len(s) + 1
      PROVE  t[j] = IF j < i THEN s[j] ELSE IF j = i THEN e ELSE s[j - 1]
  <2>1. CASE j <= i
    <3>1. t[j] = front[j] /\ (j \in 1..i - 1 \/ j = i)
      BY <1>2, <1>4, <1>5, <2>1
    <3> QED
      BY <1>5, <3>1
  <2>2. CASE j > i
    <3>1. t[j] = after[j - i] /\ j - i \in 1..Len(s) - i + 1
      BY <1>2, <1>4, <1>5, <2>2
    <3> QED
      BY <1>2, <2>2, <3>1
  <2> QED
    BY <2>1, <2>2
<1> QED
  BY <1>6, <1>7 DEF t

(* What list::erase leaves. *)
LEMMA RemoveAtFacts ==
    ASSUME NEW V, NEW s \in Seq(V), NEW i \in 1..Len(s)
    PROVE  LET t == Matrix!RemoveAt(s, i)
           IN  /\ t \in Seq(V) /\ Len(t) = Len(s) - 1
               /\ \A j \in 1..Len(s) - 1 : t[j] = s[IF j < i THEN j ELSE j + 1]
<1> DEFINE before == SubSeq(s, 1, i - 1)
           after == SubSeq(s, i + 1, Len(s))
           t == Matrix!RemoveAt(s, i)
<1>1. /\ before \in Seq(V) /\ Len(before) = i - 1
      /\ \A j \in 1..i - 1 : before[j] = s[j]
  OBVIOUS
<1>2. /\ after \in Seq(V) /\ Len(after) = Len(s) - i
      /\ \A j \in 1..Len(s) - i : after[j] = s[i + j]
  OBVIOUS
<1>3. t = before \o after
  BY DEF t, Matrix!RemoveAt
<1> HIDE DEF before, after, t
<1>4. t \in Seq(V) /\ Len(t) = Len(s) - 1
  BY <1>1, <1>2, <1>3
<1>5. ASSUME NEW j \in 1..Len(s) - 1
      PROVE  t[j] = s[IF j < i THEN j ELSE j + 1]
  <2>1. CASE j < i
    BY <1>1, <1>2, <1>3, <2>1
  <2>2. CASE ~(j < i)
    <3>1. t[j] = after[j - (i - 1)] /\ j - (i - 1) \in 1..Len(s) - i
      BY <1>1, <1>2, <1>3, <2>2
    <3> QED
      BY <1>2, <2>2, <3>1
  <2> QED
    BY <2>1, <2>2
<1> QED
  BY <1>4, <1>5 DEF t

(* An element, a row, and the order that they are in. *)
Cell == [col_num : ColNums, item : Items \ {def_val}]
MatrixRow == [row_num_ : RowNums, elems : Seq(Cell)]

ColsSorted(seq) == \A i, j \in 1..Len(seq) : i < j => seq[i].col_num < seq[j].col_num
RowsSorted(seq) == \A i, j \in 1..Len(seq) : i < j => seq[i].row_num_ < seq[j].row_num_

(* Where an element of column c is or belongs among those of a row ... *)
LEMMA ColPlace ==
    ASSUME NEW seq \in Seq(Cell), NEW c \in ColNums
    PROVE  LET p == Matrix!Place(seq, LAMBDA e : e.col_num, c)
           IN  /\ p \in 1..Len(seq) + 1
               /\ \A k \in 1..Len(seq) : k < p => seq[k].col_num < c
               /\ p <= Len(seq) => seq[p].col_num >= c
<1> DEFINE T == {k \in DOMAIN seq : seq[k].col_num >= c} \union {Len(seq) + 1}
           p == Matrix!Place(seq, LAMBDA e : e.col_num, c)
<1>1. Len(seq) \in Nat /\ DOMAIN seq = 1..Len(seq)
  OBVIOUS
<1>2. c \in Nat /\ \A k \in 1..Len(seq) : seq[k].col_num \in Nat
  <2>1. \A k \in 1..Len(seq) : seq[k] \in Cell
    OBVIOUS
  <2> QED
    BY <2>1, MatrixAssumption DEF Cell
<1>3. T \in SUBSET Nat /\ Len(seq) + 1 \in T
  BY <1>1
<1>4. p = Matrix!Min(T)
  BY DEF Matrix!Place
<1> HIDE DEF p
<1>5. p \in T /\ \A n \in T : p <= n
  <2> HIDE DEF T
  <2> QED
    BY <1>3, <1>4, MinIs
<1>6. p \in 1..Len(seq) + 1
  BY <1>1, <1>5
<1>7. ASSUME NEW k \in 1..Len(seq), k < p PROVE seq[k].col_num < c
  BY <1>1, <1>2, <1>5, <1>6, <1>7
<1>8. p <= Len(seq) => seq[p].col_num >= c
  BY <1>1, <1>5
<1> QED
  BY <1>6, <1>7, <1>8 DEF p

(* ... and where row r is or belongs among the rows. *)
LEMMA RowPlace ==
    ASSUME NEW seq \in Seq(MatrixRow), NEW r \in RowNums
    PROVE  LET p == Matrix!Place(seq, LAMBDA row : row.row_num_, r)
           IN  /\ p \in 1..Len(seq) + 1
               /\ \A k \in 1..Len(seq) : k < p => seq[k].row_num_ < r
               /\ p <= Len(seq) => seq[p].row_num_ >= r
<1> DEFINE T == {k \in DOMAIN seq : seq[k].row_num_ >= r} \union {Len(seq) + 1}
           p == Matrix!Place(seq, LAMBDA row : row.row_num_, r)
<1>1. Len(seq) \in Nat /\ DOMAIN seq = 1..Len(seq)
  OBVIOUS
<1>2. r \in Nat /\ \A k \in 1..Len(seq) : seq[k].row_num_ \in Nat
  <2>1. \A k \in 1..Len(seq) : seq[k] \in MatrixRow
    OBVIOUS
  <2> QED
    BY <2>1, MatrixAssumption DEF MatrixRow
<1>3. T \in SUBSET Nat /\ Len(seq) + 1 \in T
  BY <1>1
<1>4. p = Matrix!Min(T)
  BY DEF Matrix!Place
<1> HIDE DEF p
<1>5. p \in T /\ \A n \in T : p <= n
  <2> HIDE DEF T
  <2> QED
    BY <1>3, <1>4, MinIs
<1>6. p \in 1..Len(seq) + 1
  BY <1>1, <1>5
<1>7. ASSUME NEW k \in 1..Len(seq), k < p PROVE seq[k].row_num_ < r
  BY <1>1, <1>2, <1>5, <1>6, <1>7
<1>8. p <= Len(seq) => seq[p].row_num_ >= r
  BY <1>1, <1>5
<1> QED
  BY <1>6, <1>7, <1>8 DEF p

(* A row has this value in column c. *)
HasItem(seq, c, v) == \E k \in 1..Len(seq) : seq[k].col_num = c /\ seq[k].item = v
There(seq, c) == LET p == Matrix!Place(seq, LAMBDA e : e.col_num, c)
                  IN  p \in DOMAIN seq /\ seq[p].col_num = c

(* What an assignment makes of the elements of a row. *)
Assigned(seq, c, v) ==
    LET p == Matrix!Place(seq, LAMBDA e : e.col_num, c)
        there == p \in DOMAIN seq /\ seq[p].col_num = c
        elem == [col_num |-> c, item |-> v]
    IN  IF there THEN IF v = def_val THEN Matrix!RemoveAt(seq, p) ELSE Matrix!ReplaceAt(seq, p, elem)
        ELSE IF v = def_val THEN seq ELSE Matrix!InsertAt(seq, p, elem)

(* The element of the column is overwritten, erased or inserted, and the   *)
(* others stay, in order.                                                  *)
LEMMA AssignedIs ==
    ASSUME NEW seq \in Seq(Cell), ColsSorted(seq), NEW c \in ColNums, NEW v \in Items
    PROVE  LET t == Assigned(seq, c, v)
           IN  /\ t \in Seq(Cell) /\ ColsSorted(t)
               /\ \A d \in ColNums, w \in Items \ {def_val} :
                    HasItem(t, d, w) <=> IF d = c THEN w = v ELSE HasItem(seq, d, w)
               /\ There(seq, c) <=> \E w \in Items \ {def_val} : HasItem(seq, c, w)
<1> DEFINE p == Matrix!Place(seq, LAMBDA e : e.col_num, c)
           elem == [col_num |-> c, item |-> v]
           t == Assigned(seq, c, v)
           W == Items \ {def_val}
<1>1. /\ p \in 1..Len(seq) + 1
      /\ \A k \in 1..Len(seq) : k < p => seq[k].col_num < c
      /\ p <= Len(seq) => seq[p].col_num >= c
  BY ColPlace
<1>2. Len(seq) \in Nat /\ DOMAIN seq = 1..Len(seq) /\ p \in Nat
  BY <1>1
<1>3. There(seq, c) <=> p <= Len(seq) /\ seq[p].col_num = c
  BY <1>1, <1>2 DEF There
<1>4. t = IF There(seq, c) THEN IF v = def_val THEN Matrix!RemoveAt(seq, p) ELSE Matrix!ReplaceAt(seq, p, elem)
          ELSE IF v = def_val THEN seq ELSE Matrix!InsertAt(seq, p, elem)
  BY DEF Assigned, There, t, p, elem
<1> HIDE DEF p
<1>5. \A k \in 1..Len(seq) : seq[k] \in Cell /\ seq[k].col_num \in Nat /\ seq[k].item \in W
  <2>1. \A k \in 1..Len(seq) : seq[k] \in Cell
    OBVIOUS
  <2> QED
    BY <2>1, MatrixAssumption DEF Cell
<1>6. c \in Nat
  BY MatrixAssumption
<1>7. \A k \in 1..Len(seq) : k > p => seq[k].col_num > c
  BY <1>1, <1>2, <1>5, <1>6 DEF ColsSorted
<1>8. There(seq, c) <=> \E w \in W : HasItem(seq, c, w)
  <2>1. ASSUME There(seq, c) PROVE HasItem(seq, c, seq[p].item) /\ seq[p].item \in W
    BY <1>1, <1>2, <1>3, <1>5, <2>1 DEF HasItem
  <2>2. ASSUME NEW k \in 1..Len(seq), seq[k].col_num = c PROVE There(seq, c)
    BY <1>1, <1>2, <1>3, <1>5, <1>6, <1>7, <2>2
  <2> QED
    BY <2>1, <2>2 DEF HasItem
<1>9. v # def_val => elem \in Cell /\ elem.col_num = c /\ elem.item = v
  BY DEF Cell
<1> HIDE DEF t, elem, W
<1> SUFFICES /\ t \in Seq(Cell) /\ ColsSorted(t)
             /\ \A d \in ColNums, w \in W : HasItem(t, d, w) <=> IF d = c THEN w = v ELSE HasItem(seq, d, w)
  BY <1>8 DEF t, W
<1>10. CASE There(seq, c) /\ v = def_val
  <2>1. /\ t \in Seq(Cell) /\ Len(t) = Len(seq) - 1
        /\ \A j \in 1..Len(seq) - 1 : t[j] = seq[IF j < p THEN j ELSE j + 1]
    <3>1. p \in 1..Len(seq) /\ t = Matrix!RemoveAt(seq, p)
      BY <1>1, <1>2, <1>3, <1>4, <1>10
    <3> QED
      BY <3>1, RemoveAtFacts
  <2>2. ColsSorted(t)
    <3> SUFFICES ASSUME NEW i \in 1..Len(t), NEW j \in 1..Len(t), i < j
                 PROVE  t[i].col_num < t[j].col_num
      BY DEF ColsSorted
    <3>1. PICK k \in 1..Len(seq) : k = (IF i < p THEN i ELSE i + 1)
      BY <1>2, <2>1
    <3>2. PICK l \in 1..Len(seq) : l = (IF j < p THEN j ELSE j + 1)
      BY <1>2, <2>1
    <3>3. t[i] = seq[k] /\ t[j] = seq[l] /\ k < l
      BY <1>2, <2>1, <3>1, <3>2
    <3> QED
      BY <3>3 DEF ColsSorted
  <2>3. ASSUME NEW d \in ColNums, NEW w \in W
        PROVE  HasItem(t, d, w) <=> IF d = c THEN w = v ELSE HasItem(seq, d, w)
    <3>1. w # v
      BY <1>10 DEF W
    <3>2. ASSUME NEW j \in 1..Len(t), t[j].col_num = d, t[j].item = w
          PROVE  d # c /\ HasItem(seq, d, w)
      <4>1. PICK k \in 1..Len(seq) : k = (IF j < p THEN j ELSE j + 1)
        BY <1>2, <2>1
      <4>2. t[j] = seq[k] /\ k # p
        BY <1>2, <2>1, <4>1
      <4>3. seq[k].col_num # c
        BY <1>1, <1>2, <1>5, <1>6, <1>7, <4>2
      <4> QED
        BY <3>2, <4>2, <4>3 DEF HasItem
    <3>3. ASSUME NEW k \in 1..Len(seq), seq[k].col_num = d, seq[k].item = w, d # c
          PROVE  HasItem(t, d, w)
      <4>1. k # p
        BY <1>3, <1>10, <3>3
      <4>2. PICK j \in 1..Len(t) : k = (IF j < p THEN j ELSE j + 1)
        <5>1. CASE k < p
          BY <1>1, <1>2, <1>3, <1>10, <2>1, <5>1
        <5>2. CASE k > p
          <6>1. k - 1 \in 1..Len(t) /\ ~(k - 1 < p) /\ k = (k - 1) + 1
            BY <1>1, <1>2, <2>1, <5>2
          <6> QED
            BY <6>1
        <5> QED
          BY <1>2, <4>1, <5>1, <5>2
      <4>3. t[j] = seq[k]
        BY <2>1, <4>2
      <4> QED
        BY <3>3, <4>3 DEF HasItem
    <3> QED
      BY <3>1, <3>2, <3>3 DEF HasItem
  <2> QED
    BY <2>1, <2>2, <2>3
<1>11. CASE There(seq, c) /\ v # def_val
  <2>1. /\ p \in 1..Len(seq) /\ elem \in Cell /\ t = [seq EXCEPT ![p] = elem]
    BY <1>1, <1>2, <1>3, <1>4, <1>9, <1>11 DEF Matrix!ReplaceAt
  <2>2. t \in Seq(Cell) /\ Len(t) = Len(seq) /\ \A k \in 1..Len(seq) : t[k] = IF k = p THEN elem ELSE seq[k]
    BY <2>1
  <2>3. \A k \in 1..Len(seq) : t[k].col_num = seq[k].col_num
    BY <1>3, <1>9, <1>11, <2>2
  <2>4. ColsSorted(t)
    BY <2>2, <2>3 DEF ColsSorted
  <2>5. \A k \in 1..Len(seq) : seq[k].col_num = c => k = p
    BY <1>1, <1>2, <1>5, <1>6, <1>7
  <2>6. ASSUME NEW d \in ColNums, NEW w \in W
        PROVE  HasItem(t, d, w) <=> IF d = c THEN w = v ELSE HasItem(seq, d, w)
    <3>1. CASE d = c
      BY <1>3, <1>9, <1>11, <2>1, <2>2, <2>3, <2>5, <3>1 DEF HasItem
    <3>2. CASE d # c
      <4>1. \A k \in 1..Len(seq) : seq[k].col_num = d \/ t[k].col_num = d => t[k] = seq[k]
        BY <1>9, <1>11, <1>3, <2>2, <2>3, <3>2
      <4> QED
        BY <2>2, <3>2, <4>1 DEF HasItem
    <3> QED
      BY <3>1, <3>2
  <2> QED
    BY <2>2, <2>4, <2>6
<1>12. CASE ~There(seq, c) /\ v = def_val
  <2>1. t = seq
    BY <1>4, <1>12
  <2>2. ASSUME NEW w \in W PROVE w # v /\ ~HasItem(seq, c, w)
    BY <1>8, <1>12 DEF W
  <2> QED
    BY <2>1, <2>2
<1>13. CASE ~There(seq, c) /\ v # def_val
  <2>1. /\ t \in Seq(Cell) /\ Len(t) = Len(seq) + 1
        /\ \A j \in 1..Len(seq) + 1 : t[j] = IF j < p THEN seq[j] ELSE IF j = p THEN elem ELSE seq[j - 1]
    <3>1. p \in 1..Len(seq) + 1 /\ elem \in Cell /\ t = Matrix!InsertAt(seq, p, elem)
      BY <1>1, <1>4, <1>9, <1>13
    <3>2. \A e \in Cell, i \in 1..Len(seq) + 1 :
             LET u == Matrix!InsertAt(seq, i, e)
             IN  /\ u \in Seq(Cell) /\ Len(u) = Len(seq) + 1
                 /\ \A j \in 1..Len(seq) + 1 : u[j] = IF j < i THEN seq[j] ELSE IF j = i THEN e ELSE seq[j - 1]
      BY InsertAtFacts
    <3> QED
      BY <3>1, <3>2
  <2>2. \A k \in 1..Len(seq) : (k < p => seq[k].col_num < c) /\ (k >= p => seq[k].col_num > c)
    BY <1>1, <1>2, <1>3, <1>5, <1>6, <1>7, <1>13
  <2>3. ColsSorted(t)
    <3> SUFFICES ASSUME NEW i \in 1..Len(t), NEW j \in 1..Len(t), i < j
                 PROVE  t[i].col_num < t[j].col_num
      BY DEF ColsSorted
    <3>1. CASE j < p
      <4>1. t[i] = seq[i] /\ t[j] = seq[j] /\ i \in 1..Len(seq) /\ j \in 1..Len(seq)
        BY <1>1, <1>2, <2>1, <3>1
      <4> QED
        BY <4>1 DEF ColsSorted
    <3>2. CASE j = p
      BY <1>2, <1>9, <1>13, <2>1, <2>2, <3>2
    <3>3. CASE i = p
      <4>1. t[j] = seq[j - 1] /\ j - 1 \in 1..Len(seq) /\ j - 1 >= p
        BY <1>2, <2>1, <3>3, SMTT(30)
      <4> QED
        BY <1>2, <1>9, <1>13, <2>1, <2>2, <3>3, <4>1
    <3>4. CASE i < p /\ j > p
      <4>1. t[i] = seq[i] /\ t[j] = seq[j - 1] /\ j - 1 \in 1..Len(seq) /\ i \in 1..Len(seq) /\ i < j - 1
        BY <1>2, <2>1, <3>4
      <4> QED
        BY <4>1 DEF ColsSorted
    <3>5. CASE i > p
      <4>1. t[i] = seq[i - 1] /\ t[j] = seq[j - 1] /\ j - 1 \in 1..Len(seq) /\ i - 1 \in 1..Len(seq) /\ i - 1 < j - 1
        BY <1>1, <1>2, <2>1, <3>5
      <4> QED
        BY <4>1 DEF ColsSorted
    <3> QED
      BY <1>2, <2>1, <3>1, <3>2, <3>3, <3>4, <3>5
  <2>4. ASSUME NEW d \in ColNums, NEW w \in W
        PROVE  HasItem(t, d, w) <=> IF d = c THEN w = v ELSE HasItem(seq, d, w)
    <3>1. ASSUME NEW j \in 1..Len(t), j # p, t[j].col_num = d, t[j].item = w
          PROVE  d # c /\ HasItem(seq, d, w)
      <4>1. PICK k \in 1..Len(seq) : t[j] = seq[k]
        <5>1. CASE j < p
          BY <1>1, <1>2, <2>1, <5>1
        <5>2. CASE j > p
          <6>1. j - 1 \in 1..Len(seq) /\ t[j] = seq[j - 1]
            BY <1>1, <1>2, <2>1, <5>2
          <6> QED
            BY <6>1
        <5> QED
          BY <1>2, <2>1, <3>1, <5>1, <5>2
      <4>2. seq[k].col_num # c
        BY <1>2, <1>5, <1>6, <2>2
      <4> QED
        BY <3>1, <4>1, <4>2 DEF HasItem
    <3>2. ASSUME NEW k \in 1..Len(seq), seq[k].col_num = d, seq[k].item = w
          PROVE  d # c /\ HasItem(t, d, w)
      <4>1. PICK j \in 1..Len(t) : t[j] = seq[k]
        <5>1. CASE k < p
          BY <1>2, <2>1, <5>1
        <5>2. CASE k >= p
          <6>1. k + 1 \in 1..Len(t) /\ t[k + 1] = seq[(k + 1) - 1] /\ (k + 1) - 1 = k
            BY <1>2, <2>1, <5>2
          <6> QED
            BY <6>1
        <5> QED
          BY <1>2, <5>1, <5>2
      <4>2. seq[k].col_num # c
        BY <1>2, <1>5, <1>6, <2>2
      <4> QED
        BY <3>2, <4>1, <4>2 DEF HasItem
    <3>3. p \in 1..Len(t) /\ t[p] = elem
      BY <1>1, <1>2, <2>1
    <3>4. HasItem(t, d, w) <=> (d = c /\ w = v) \/ (d # c /\ HasItem(seq, d, w))
      BY <1>9, <1>13, <3>1, <3>2, <3>3 DEF HasItem
    <3> QED
      BY <3>4
  <2> QED
    BY <2>1, <2>3, <2>4
<1> QED
  BY <1>10, <1>11, <1>12, <1>13

(* The rows hold this value in row r, column c. *)
Has(seq, r, c, v) == \E k \in 1..Len(seq) : seq[k].row_num_ = r /\ HasItem(seq[k].elems, c, v)

AllSorted(seq) == RowsSorted(seq) /\ \A k \in 1..Len(seq) : ColsSorted(seq[k].elems)

(* What a cell that is set may hold, and the cells that are set. *)
Values == Items \ {def_val}
Taken(f) == {x \in RowNums \X ColNums : f[x] # def_val}

(* No row has this number. *)
NoRow(seq, r) == \A k \in 1..Len(seq) : seq[k].row_num_ # r

MatrixTypeOK ==
    /\ rows \in Seq(MatrixRow)
    /\ handle \in [Handles -> [row_num_ : Nat, found : {TRUE, FALSE}]]
    /\ cells \in [RowNums \X ColNums -> Items \union {def_val}]

(* A handle that was told of a row goes on having it. *)
HandleInv ==
    \A h \in Handles : handle[h].found = TRUE =>
        /\ handle[h].row_num_ \in RowNums
        /\ ~NoRow(rows, handle[h].row_num_)

(* The rows hold what was assigned and is not the default. *)
Agree(f, seq) ==
    \A r \in RowNums, c \in ColNums, v \in Values : f[<<r, c>>] = v <=> Has(seq, r, c, v)
CellsInv == Agree(cells, rows)

(* The invariant of the matrix. *)
MatrixInv ==
    /\ MatrixTypeOK /\ AllSorted(rows) /\ HandleInv /\ CellsInv
    /\ cur_size = Cardinality(Taken(cells))

(* The cells that are set are finitely many ... *)
LEMMA TakenFinite == \A f : IsFiniteSet(Taken(f)) /\ Cardinality(Taken(f)) \in Nat
<1>1. IsFiniteSet(RowNums \X ColNums)
  BY MatrixAssumption, FS_Product
<1> TAKE f
<1>2. Taken(f) \subseteq RowNums \X ColNums
  BY DEF Taken
<1> QED
  BY <1>1, <1>2, FS_Subset, FS_CardinalityType

(* ... and one more, one less or as many after an assignment. *)
Resized(f, g, x, v) ==
    Cardinality(Taken(g)) =
        IF f[x] # def_val /\ v = def_val THEN Cardinality(Taken(f)) - 1
        ELSE IF f[x] = def_val /\ v # def_val THEN Cardinality(Taken(f)) + 1
        ELSE Cardinality(Taken(f))

(* cur_size follows it. *)
LEMMA SizeAfter ==
    ASSUME NEW f \in [RowNums \X ColNums -> Items \union {def_val}],
           NEW r \in RowNums, NEW c \in ColNums, NEW v \in Items,
           NEW g, g = [f EXCEPT ![<<r, c>>] = v]
    PROVE  Resized(f, g, <<r, c>>, v)
<1> DEFINE x == <<r, c>>
<1>1. x \in RowNums \X ColNums
  OBVIOUS
<1>2. \A y \in RowNums \X ColNums : g[y] = IF y = x THEN v ELSE f[y]
  BY <1>1
<1>3. IsFiniteSet(Taken(f)) /\ Cardinality(Taken(f)) \in Nat
  BY TakenFinite
<1> HIDE DEF x
<1>4. CASE f[x] # def_val /\ v = def_val
  <2>1. Taken(g) = Taken(f) \ {x} /\ x \in Taken(f)
    BY <1>1, <1>2, <1>4 DEF Taken
  <2>2. \A S : IsFiniteSet(S) => \A y \in S : Cardinality(S \ {y}) = Cardinality(S) - 1
    BY FS_RemoveElement
  <2>3. Cardinality(Taken(g)) = Cardinality(Taken(f)) - 1
    BY <1>3, <2>1, <2>2
  <2> QED
    BY <1>4, <2>3 DEF x, Resized
<1>5. CASE f[x] = def_val /\ v # def_val
  <2>1. Taken(g) = Taken(f) \union {x} /\ x \notin Taken(f)
    BY <1>1, <1>2, <1>5 DEF Taken
  <2>2. Cardinality(Taken(g)) = Cardinality(Taken(f)) + 1
    BY <1>3, <2>1, FS_AddElement
  <2> QED
    BY <1>5, <2>2 DEF x, Resized
<1>6. CASE f[x] # def_val <=> v # def_val
  <2>1. Taken(g) = Taken(f)
    BY <1>1, <1>2, <1>6 DEF Taken
  <2> QED
    BY <1>6, <2>1 DEF x, Resized
<1> QED
  BY <1>4, <1>5, <1>6

(* At first there is nothing. *)
LEMMA MatrixInit == DataInit => MatrixInv
<1> SUFFICES ASSUME DataInit PROVE MatrixInv
  OBVIOUS
<1>1. /\ rows = <<>> /\ cur_size = 0
      /\ handle = [h \in Handles |-> [row_num_ |-> 0, found |-> FALSE]]
      /\ cells = [c \in RowNums \X ColNums |-> def_val]
  BY DEF DataInit, Matrix!MatrixInit
<1>2. MatrixTypeOK
  BY <1>1 DEF MatrixTypeOK
<1>3. AllSorted(rows)
  BY <1>1 DEF AllSorted, RowsSorted
<1>4. HandleInv
  BY <1>1 DEF HandleInv
<1>5. CellsInv
  BY <1>1 DEF CellsInv, Agree, Has, Values
<1>6. Taken(cells) = {}
  BY <1>1 DEF Taken
<1>7. cur_size = Cardinality(Taken(cells))
  BY <1>1, <1>6, FS_EmptySet
<1> QED
  BY <1>2, <1>3, <1>4, <1>5, <1>7 DEF MatrixInv

(* operator[] looks the row up. *)
LEMMA RowInv ==
    ASSUME MatrixInv, NEW h \in Handles, NEW r \in RowNums, Matrix!Row(h, r)
    PROVE  MatrixInv'
<1>1. MatrixTypeOK /\ HandleInv /\ r \in Nat
  BY MatrixAssumption DEF MatrixInv
<1>2. UNCHANGED <<rows, cur_size, cells>> /\ handle' = [handle EXCEPT ![h] = [row_num_ |-> r, found |-> Matrix!RowOf(r) # {}]]
  BY DEF Matrix!Row
<1>3. handle' \in [Handles -> [row_num_ : Nat, found : {TRUE, FALSE}]]
  BY <1>1, <1>2 DEF MatrixTypeOK
<1>4. \A g \in Handles : g # h => handle'[g] = handle[g]
  BY <1>1, <1>2 DEF MatrixTypeOK
<1>5. handle'[h].row_num_ = r /\ handle'[h].found = (Matrix!RowOf(r) # {})
  BY <1>1, <1>2 DEF MatrixTypeOK
<1>6. DOMAIN rows = 1..Len(rows)
  BY <1>1 DEF MatrixTypeOK
<1>7. ASSUME NEW g \in Handles, handle'[g].found = TRUE
      PROVE  /\ handle'[g].row_num_ \in RowNums
             /\ ~NoRow(rows, handle'[g].row_num_)
  <2>1. CASE g = h
    <3>1. Matrix!RowOf(r) # {}
      BY <1>5, <1>7, <2>1
    <3>2. ~NoRow(rows, r)
      BY <1>6, <3>1 DEF Matrix!RowOf, NoRow
    <3> QED
      BY <1>5, <2>1, <3>2
  <2>2. CASE g # h
    BY <1>1, <1>4, <1>7, <2>2 DEF HandleInv
  <2> QED
    BY <2>1, <2>2
<1>8. HandleInv'
  BY <1>2, <1>7 DEF HandleInv
<1> QED
  BY <1>1, <1>2, <1>3, <1>8 DEF MatrixInv, MatrixTypeOK, CellsInv

(* A new row of one element. *)
NewRow(r, c, v) == [row_num_ |-> r, elems |-> <<[col_num |-> c, item |-> v]>>]

(* It has that element, and no other. *)
LEMMA NewRowIs ==
    ASSUME NEW r \in RowNums, NEW c \in ColNums, NEW v \in Values
    PROVE  LET row == NewRow(r, c, v)
           IN  /\ row \in MatrixRow /\ row.row_num_ = r /\ ColsSorted(row.elems)
               /\ \A d, w : HasItem(row.elems, d, w) <=> d = c /\ w = v
<1> DEFINE elem == [col_num |-> c, item |-> v]
<1>1. elem \in Cell /\ elem.col_num = c /\ elem.item = v
  BY DEF Cell, Values
<1> HIDE DEF elem
<1>2. /\ <<elem>> \in Seq(Cell) /\ Len(<<elem>>) = 1 /\ <<elem>>[1] = elem
  BY <1>1
<1>3. ColsSorted(<<elem>>)
  BY <1>2 DEF ColsSorted
<1>4. \A d, w : HasItem(<<elem>>, d, w) <=> d = c /\ w = v
  BY <1>1, <1>2 DEF HasItem
<1>5. NewRow(r, c, v) = [row_num_ |-> r, elems |-> <<elem>>]
  BY DEF NewRow, elem
<1> QED
  BY <1>2, <1>3, <1>4, <1>5 DEF MatrixRow

(* list::insert into the rows. *)
LEMMA RowInserted ==
    ASSUME NEW seq \in Seq(MatrixRow), NEW row \in MatrixRow, NEW i \in 1..Len(seq) + 1
    PROVE  LET t == Matrix!InsertAt(seq, i, row)
           IN  /\ t \in Seq(MatrixRow) /\ Len(t) = Len(seq) + 1
               /\ \A j \in 1..Len(seq) + 1 : t[j] = IF j < i THEN seq[j] ELSE IF j = i THEN row ELSE seq[j - 1]
<1> DEFINE V == MatrixRow
<1>1. seq \in Seq(V) /\ row \in V
  OBVIOUS
<1> HIDE DEF V
<1>2. LET t == Matrix!InsertAt(seq, i, row)
      IN  /\ t \in Seq(V) /\ Len(t) = Len(seq) + 1
          /\ \A j \in 1..Len(seq) + 1 : t[j] = IF j < i THEN seq[j] ELSE IF j = i THEN row ELSE seq[j - 1]
  BY <1>1, InsertAtFacts
<1> QED
  BY <1>2 DEF V

(* The rows hold v in one cell, and otherwise what they held. *)
Changed(new, old, r, c, v) ==
    \A s \in RowNums, d \in ColNums, w \in Values :
        Has(new, s, d, w) <=> IF s = r /\ d = c THEN w = v ELSE Has(old, s, d, w)

Added(seq, r, c, v) ==
    Matrix!InsertAt(seq, Matrix!Place(seq, LAMBDA row : row.row_num_, r), NewRow(r, c, v))

(* A row is inserted before the first one with a greater number. *)
LEMMA RowAdded ==
    ASSUME NEW seq \in Seq(MatrixRow), AllSorted(seq),
           NEW r \in RowNums, NEW c \in ColNums, NEW v \in Values,
           NoRow(seq, r)
    PROVE  LET t == Added(seq, r, c, v)
           IN  /\ t \in Seq(MatrixRow) /\ AllSorted(t)
               /\ Changed(t, seq, r, c, v)
               /\ ~NoRow(t, r)
               /\ \A s : NoRow(t, s) => NoRow(seq, s)
               /\ ~\E w : Has(seq, r, c, w)
<1> DEFINE p == Matrix!Place(seq, LAMBDA row : row.row_num_, r)
           row == NewRow(r, c, v)
           t == Added(seq, r, c, v)
<1>1. /\ p \in 1..Len(seq) + 1
      /\ \A k \in 1..Len(seq) : k < p => seq[k].row_num_ < r
      /\ p <= Len(seq) => seq[p].row_num_ >= r
  BY RowPlace
<1>2. Len(seq) \in Nat /\ p \in Nat
  BY <1>1
<1> HIDE DEF p
<1>3. /\ row \in MatrixRow /\ row.row_num_ = r /\ ColsSorted(row.elems)
      /\ \A d, w : HasItem(row.elems, d, w) <=> d = c /\ w = v
  BY NewRowIs
<1> HIDE DEF row
<1>4. r \in Nat /\ \A k \in 1..Len(seq) : seq[k].row_num_ \in Nat
  <2>1. \A k \in 1..Len(seq) : seq[k] \in MatrixRow
    OBVIOUS
  <2> QED
    BY <2>1, MatrixAssumption DEF MatrixRow
<1>5. /\ t \in Seq(MatrixRow) /\ Len(t) = Len(seq) + 1
      /\ \A j \in 1..Len(seq) + 1 : t[j] = IF j < p THEN seq[j] ELSE IF j = p THEN row ELSE seq[j - 1]
  <2> DEFINE u == Matrix!InsertAt(seq, p, row)
  <2>1. /\ u \in Seq(MatrixRow) /\ Len(u) = Len(seq) + 1
        /\ \A j \in 1..Len(seq) + 1 : u[j] = IF j < p THEN seq[j] ELSE IF j = p THEN row ELSE seq[j - 1]
    <3>1. p \in 1..Len(seq) + 1
      BY <1>1
    <3>2. row \in MatrixRow
      BY <1>3
    <3> QED
      BY <3>1, <3>2, RowInserted
  <2>2. t = u
    BY DEF p, row, t, u, Added
  <2> HIDE DEF t, u
  <2> QED
    BY <2>1, <2>2
<1> HIDE DEF t
<1>6. \A k \in 1..Len(seq) : (k < p => seq[k].row_num_ < r) /\ (k >= p => seq[k].row_num_ > r)
  <2>1. p <= Len(seq) => seq[p].row_num_ > r
    BY <1>1, <1>2, <1>4 DEF NoRow
  <2>2. ASSUME NEW k \in 1..Len(seq), k > p PROVE seq[k].row_num_ > r
    BY <1>1, <1>2, <1>4, <2>1, <2>2 DEF AllSorted, RowsSorted
  <2> QED
    BY <1>1, <1>2, <2>1, <2>2
<1>7. RowsSorted(t)
  <2> SUFFICES ASSUME NEW i \in 1..Len(t), NEW j \in 1..Len(t), i < j
               PROVE  t[i].row_num_ < t[j].row_num_
    BY DEF RowsSorted
  <2>1. CASE j < p
    <3>1. t[i] = seq[i] /\ t[j] = seq[j] /\ i \in 1..Len(seq) /\ j \in 1..Len(seq)
      BY <1>1, <1>2, <1>5, <2>1
    <3> QED
      BY <3>1 DEF AllSorted, RowsSorted
  <2>2. CASE j = p
    BY <1>2, <1>3, <1>5, <1>6, <2>2
  <2>3. CASE i = p
    <3>1. t[j] = seq[j - 1] /\ j - 1 \in 1..Len(seq) /\ j - 1 >= p
      BY <1>2, <1>5, <2>3
    <3> QED
      BY <1>2, <1>3, <1>5, <1>6, <2>3, <3>1
  <2>4. CASE i < p /\ j > p
    <3>1. t[i] = seq[i] /\ t[j] = seq[j - 1] /\ j - 1 \in 1..Len(seq) /\ i \in 1..Len(seq) /\ i < j - 1
      BY <1>2, <1>5, <2>4
    <3> QED
      BY <3>1 DEF AllSorted, RowsSorted
  <2>5. CASE i > p
    <3>1. t[i] = seq[i - 1] /\ t[j] = seq[j - 1] /\ j - 1 \in 1..Len(seq) /\ i - 1 \in 1..Len(seq) /\ i - 1 < j - 1
      BY <1>1, <1>2, <1>5, <2>5
    <3> QED
      BY <3>1 DEF AllSorted, RowsSorted
  <2> QED
    BY <1>2, <1>5, <2>1, <2>2, <2>3, <2>4, <2>5
<1>8. ASSUME NEW j \in 1..Len(t) PROVE t[j] = row \/ \E k \in 1..Len(seq) : t[j] = seq[k]
  <2>1. CASE j < p
    BY <1>1, <1>2, <1>5, <2>1
  <2>2. CASE j = p
    BY <1>5, <2>2
  <2>3. CASE j > p
    <3>1. j - 1 \in 1..Len(seq) /\ t[j] = seq[j - 1]
      BY <1>1, <1>2, <1>5, <2>3
    <3> QED
      BY <3>1
  <2> QED
    BY <1>2, <1>5, <2>1, <2>2, <2>3
<1>9. ASSUME NEW k \in 1..Len(seq) PROVE \E j \in 1..Len(t) : t[j] = seq[k]
  <2>1. CASE k < p
    BY <1>2, <1>5, <2>1
  <2>2. CASE k >= p
    <3>1. k + 1 \in 1..Len(t) /\ t[k + 1] = seq[(k + 1) - 1] /\ (k + 1) - 1 = k
      BY <1>2, <1>5, <2>2
    <3> QED
      BY <3>1
  <2> QED
    BY <1>2, <2>1, <2>2
<1>10. p \in 1..Len(t) /\ t[p] = row
  BY <1>1, <1>2, <1>5
<1>11. \A k \in 1..Len(t) : ColsSorted(t[k].elems)
  BY <1>3, <1>8 DEF AllSorted
<1>12. ASSUME NEW s, NEW d, NEW w
       PROVE  Has(t, s, d, w) <=> (s = r /\ d = c /\ w = v) \/ Has(seq, s, d, w)
  <2>1. Has(t, s, d, w) => (s = r /\ d = c /\ w = v) \/ Has(seq, s, d, w)
    <3> SUFFICES ASSUME NEW j \in 1..Len(t), t[j].row_num_ = s, HasItem(t[j].elems, d, w)
                 PROVE  (s = r /\ d = c /\ w = v) \/ Has(seq, s, d, w)
      BY DEF Has
    <3>1. CASE t[j] = row
      BY <1>3, <3>1
    <3>2. CASE \E k \in 1..Len(seq) : t[j] = seq[k]
      BY <3>2 DEF Has
    <3> QED
      BY <1>8, <3>1, <3>2
  <2>2. s = r /\ d = c /\ w = v => Has(t, s, d, w)
    BY <1>3, <1>10 DEF Has
  <2>3. Has(seq, s, d, w) => Has(t, s, d, w)
    <3> SUFFICES ASSUME NEW k \in 1..Len(seq), seq[k].row_num_ = s, HasItem(seq[k].elems, d, w)
                 PROVE  Has(t, s, d, w)
      BY DEF Has
    <3>1. PICK j \in 1..Len(t) : t[j] = seq[k]
      BY <1>9
    <3> QED
      BY <3>1 DEF Has
  <2> QED
    BY <2>1, <2>2, <2>3
<1>13. \A d, w : ~Has(seq, r, d, w)
  BY DEF NoRow, Has
<1>14. Changed(t, seq, r, c, v)
  BY <1>12, <1>13 DEF Changed
<1>15. ~NoRow(t, r)
  BY <1>3, <1>10 DEF NoRow
<1>16. ASSUME NEW s, NoRow(t, s) PROVE NoRow(seq, s)
  BY <1>9, <1>16 DEF NoRow
<1> QED
  BY <1>5, <1>7, <1>11, <1>13, <1>14, <1>15, <1>16 DEF AllSorted, t

(* A row is alone with its number. *)
LEMMA OneRow ==
    ASSUME NEW seq \in Seq(MatrixRow), AllSorted(seq),
           NEW j \in 1..Len(seq), NEW k \in 1..Len(seq), seq[j].row_num_ = seq[k].row_num_
    PROVE  j = k
<1>1. seq[j].row_num_ \in Nat /\ seq[k].row_num_ \in Nat
  <2>1. seq[j] \in MatrixRow /\ seq[k] \in MatrixRow
    OBVIOUS
  <2> QED
    BY <2>1, MatrixAssumption DEF MatrixRow
<1>2. j < k \/ k < j \/ j = k
  OBVIOUS
<1> QED
  BY <1>1, <1>2 DEF AllSorted, RowsSorted

RowSet(seq, k, c, v) == [seq EXCEPT ![k].elems = Assigned(seq[k].elems, c, v)]

(* An assignment to the elements of a row. *)
LEMMA RowChanged ==
    ASSUME NEW seq \in Seq(MatrixRow), AllSorted(seq), NEW k \in 1..Len(seq),
           NEW r \in RowNums, NEW c \in ColNums, NEW v \in Items, seq[k].row_num_ = r,
           NEW t, t = RowSet(seq, k, c, v)
    PROVE  /\ t \in Seq(MatrixRow) /\ AllSorted(t)
           /\ Changed(t, seq, r, c, v)
           /\ \A s : NoRow(t, s) => NoRow(seq, s)
           /\ There(seq[k].elems, c) <=> \E w \in Values : Has(seq, r, c, w)
<1> DEFINE old == seq[k].elems
           new == Assigned(old, c, v)
           row == [seq[k] EXCEPT !.elems = new]
<1>1. seq[k] \in MatrixRow
  OBVIOUS
<1>2. old \in Seq(Cell) /\ ColsSorted(old)
  BY <1>1 DEF MatrixRow, AllSorted
<1>3. t = [seq EXCEPT ![k] = row]
  BY DEF RowSet
<1> HIDE DEF old
<1>4. /\ new \in Seq(Cell) /\ ColsSorted(new)
      /\ \A d \in ColNums, w \in Values : HasItem(new, d, w) <=> IF d = c THEN w = v ELSE HasItem(old, d, w)
      /\ There(old, c) <=> \E w \in Values : HasItem(old, c, w)
  BY <1>2, AssignedIs DEF Values
<1> HIDE DEF new
<1>5. row \in MatrixRow /\ row.row_num_ = r /\ row.elems = new
  BY <1>1, <1>4 DEF MatrixRow
<1> HIDE DEF row
<1>6. t \in Seq(MatrixRow) /\ Len(t) = Len(seq) /\ \A j \in 1..Len(seq) : t[j] = IF j = k THEN row ELSE seq[j]
  BY <1>3, <1>5
<1>7. \A j \in 1..Len(seq) : t[j].row_num_ = seq[j].row_num_
  BY <1>5, <1>6
<1>8. AllSorted(t)
  BY <1>4, <1>5, <1>6, <1>7 DEF AllSorted, RowsSorted
<1>9. \A j \in 1..Len(seq) : seq[j].row_num_ = r => j = k
  BY OneRow
<1>10. \A d, w : (Has(t, r, d, w) <=> HasItem(new, d, w)) /\ (Has(seq, r, d, w) <=> HasItem(old, d, w))
  BY <1>5, <1>6, <1>7, <1>9 DEF Has, old
<1>11. \A s, d, w : s # r => (Has(t, s, d, w) <=> Has(seq, s, d, w))
  BY <1>6, <1>7 DEF Has
<1>12. Changed(t, seq, r, c, v)
  BY <1>4, <1>10, <1>11 DEF Changed
<1>13. \A s : NoRow(t, s) => NoRow(seq, s)
  BY <1>6, <1>7 DEF NoRow
<1>14. There(old, c) <=> \E w \in Values : Has(seq, r, c, w)
  BY <1>4, <1>10
<1> QED
  BY <1>6, <1>8, <1>12, <1>13, <1>14 DEF old

(* A cell is what the rows say, and they say one thing at most. *)
LEMMA CellIs ==
    ASSUME NEW f \in [RowNums \X ColNums -> Items \union {def_val}], NEW seq, Agree(f, seq),
           NEW r \in RowNums, NEW c \in ColNums
    PROVE  /\ f[<<r, c>>] \in Values \union {def_val}
           /\ f[<<r, c>>] # def_val <=> \E v \in Values : Has(seq, r, c, v)
<1>1. <<r, c>> \in RowNums \X ColNums
  OBVIOUS
<1>2. f[<<r, c>>] \in Values \union {def_val}
  BY <1>1 DEF Values
<1>3. \A v \in Values : (f[<<r, c>>] = v <=> Has(seq, r, c, v)) /\ v # def_val
  BY DEF Agree, Values
<1> HIDE DEF Values
<1> QED
  BY <1>2, <1>3

(* The rows and the cells stay in agreement, and the size with them. *)
LEMMA CellsAfter ==
    ASSUME NEW f \in [RowNums \X ColNums -> Items \union {def_val}], NEW seq, Agree(f, seq),
           NEW r \in RowNums, NEW c \in ColNums, NEW v \in Items,
           NEW g, g = [f EXCEPT ![<<r, c>>] = v],
           NEW t, Changed(t, seq, r, c, v)
    PROVE  /\ g \in [RowNums \X ColNums -> Items \union {def_val}]
           /\ Agree(g, t)
<1>1. g \in [RowNums \X ColNums -> Items \union {def_val}]
  OBVIOUS
<1>2. \A s \in RowNums, d \in ColNums : g[<<s, d>>] = IF s = r /\ d = c THEN v ELSE f[<<s, d>>]
  OBVIOUS
<1>3. ASSUME NEW s \in RowNums, NEW d \in ColNums, NEW w \in Values
      PROVE  g[<<s, d>>] = w <=> Has(t, s, d, w)
  <2>1. CASE s = r /\ d = c
    <3>1. Has(t, s, d, w) <=> w = v
      BY <2>1 DEF Changed
    <3>2. g[<<s, d>>] = v
      BY <1>2, <2>1
    <3> QED
      BY <3>1, <3>2
  <2>2. CASE ~(s = r /\ d = c)
    <3>1. Has(t, s, d, w) <=> Has(seq, s, d, w)
      BY <2>2 DEF Changed
    <3>2. g[<<s, d>>] = f[<<s, d>>]
      BY <1>2, <2>2
    <3>3. f[<<s, d>>] = w <=> Has(seq, s, d, w)
      BY DEF Agree
    <3> QED
      BY <3>1, <3>2, <3>3
  <2> QED
    BY <2>1, <2>2
<1>4. Agree(g, t)
  BY <1>3 DEF Agree
<1> QED
  BY <1>1, <1>4

(* An assignment through a handle without a row. *)
LEMMA NewRowInv ==
    ASSUME MatrixInv, NEW h \in Handles, NEW c \in ColNums, NEW item \in Items,
           Matrix!AssignNewRow(h, c, item)
    PROVE  MatrixInv'
<1> DEFINE r == handle[h].row_num_
<1>1. r \in RowNums /\ item # def_val /\ item \in Values
  BY DEF Matrix!AssignNewRow, Values
<1>2. CASE Matrix!RowOf(r) # {}
  <2>1. UNCHANGED <<rows, cur_size, handle, cells>>
    BY <1>2 DEF Matrix!AssignNewRow
  <2> QED
    BY <2>1 DEF MatrixInv, MatrixTypeOK, HandleInv, CellsInv
<1>3. CASE Matrix!RowOf(r) = {}
  <2>1. /\ rows' = Added(rows, r, c, item)
        /\ cur_size' = cur_size + 1
        /\ handle' = [handle EXCEPT ![h].found = TRUE]
        /\ cells' = [cells EXCEPT ![<<r, c>>] = item]
    BY <1>3 DEF Matrix!AssignNewRow, Matrix!AddRow, NewRow, Added
  <2>2. /\ rows \in Seq(MatrixRow)
        /\ handle \in [Handles -> [row_num_ : Nat, found : {TRUE, FALSE}]]
        /\ cells \in [RowNums \X ColNums -> Items \union {def_val}]
    BY DEF MatrixInv, MatrixTypeOK
  <2>3. AllSorted(rows) /\ HandleInv /\ Agree(cells, rows) /\ cur_size = Cardinality(Taken(cells))
    BY DEF MatrixInv, CellsInv
  <2>4. NoRow(rows, r)
    <3>1. DOMAIN rows = 1..Len(rows)
      BY <2>2
    <3> QED
      BY <1>3, <3>1 DEF NoRow, Matrix!RowOf
  <2> HIDE DEF r
  <2>5. /\ rows' \in Seq(MatrixRow) /\ AllSorted(rows')
        /\ Changed(rows', rows, r, c, item)
        /\ ~NoRow(rows', r)
        /\ \A s : NoRow(rows', s) => NoRow(rows, s)
        /\ ~\E w : Has(rows, r, c, w)
    <3>1. LET t == Added(rows, r, c, item)
          IN  /\ t \in Seq(MatrixRow) /\ AllSorted(t)
              /\ Changed(t, rows, r, c, item)
              /\ ~NoRow(t, r)
              /\ \A s : NoRow(t, s) => NoRow(rows, s)
              /\ ~\E w : Has(rows, r, c, w)
      BY <1>1, <2>2, <2>3, <2>4, RowAdded
    <3> QED
      BY <2>1, <3>1
  <2>6. cells' \in [RowNums \X ColNums -> Items \union {def_val}] /\ Agree(cells', rows')
    BY <1>1, <2>1, <2>2, <2>3, <2>5, CellsAfter
  <2>7. cells[<<r, c>>] = def_val
    BY <1>1, <2>2, <2>3, <2>5, CellIs
  <2>8. cur_size' = Cardinality(Taken(cells'))
    <3>1. Resized(cells, cells', <<r, c>>, item)
      BY <1>1, <2>1, <2>2, SizeAfter
    <3>2. Cardinality(Taken(cells')) = Cardinality(Taken(cells)) + 1
      BY <1>1, <2>7, <3>1 DEF Resized
    <3> QED
      BY <2>1, <2>3, <3>2
  <2>9. handle' \in [Handles -> [row_num_ : Nat, found : {TRUE, FALSE}]]
    BY <2>1, <2>2
  <2>10. HandleInv'
    <3>1. /\ \A g \in Handles : handle'[g].row_num_ = handle[g].row_num_
          /\ \A g \in Handles : g # h => handle'[g] = handle[g]
      BY <2>1, <2>2
    <3>2. ASSUME NEW g \in Handles, handle'[g].found = TRUE
          PROVE  handle'[g].row_num_ \in RowNums /\ ~NoRow(rows', handle'[g].row_num_)
      <4>1. CASE g = h
        BY <1>1, <2>5, <3>1, <4>1 DEF r
      <4>2. CASE g # h
        BY <2>3, <2>5, <3>1, <3>2, <4>2 DEF HandleInv
      <4> QED
        BY <4>1, <4>2
    <3> QED
      BY <3>2 DEF HandleInv
  <2> QED
    BY <2>5, <2>6, <2>8, <2>9, <2>10 DEF MatrixInv, MatrixTypeOK, CellsInv
<1> QED
  BY <1>2, <1>3

(* ... and through a handle on a row. *)
LEMMA InRowInv ==
    ASSUME MatrixInv, NEW h \in Handles, NEW c \in ColNums, NEW item \in Items,
           Matrix!AssignInRow(h, c, item)
    PROVE  MatrixInv'
<1> DEFINE r == handle[h].row_num_
           k == CHOOSE k \in DOMAIN rows : rows[k].row_num_ = r
           old == rows[k].elems
<1>1. /\ rows \in Seq(MatrixRow)
      /\ handle \in [Handles -> [row_num_ : Nat, found : {TRUE, FALSE}]]
      /\ cells \in [RowNums \X ColNums -> Items \union {def_val}]
  BY DEF MatrixInv, MatrixTypeOK
<1>2. AllSorted(rows) /\ HandleInv /\ Agree(cells, rows) /\ cur_size = Cardinality(Taken(cells))
  BY DEF MatrixInv, CellsInv
<1>3. handle[h].found = TRUE
  <2>1. handle[h] \in [row_num_ : Nat, found : {TRUE, FALSE}] /\ handle[h].found
    BY <1>1 DEF Matrix!AssignInRow
  <2> QED
    BY <2>1
<1>4. r \in RowNums /\ \E j \in 1..Len(rows) : rows[j].row_num_ = r
  BY <1>2, <1>3 DEF HandleInv, NoRow
<1>5. k \in 1..Len(rows) /\ rows[k].row_num_ = r
  <2>1. DOMAIN rows = 1..Len(rows)
    BY <1>1
  <2> QED
    BY <1>4, <2>1
<1>6. /\ rows' = RowSet(rows, k, c, item)
      /\ cur_size' = IF There(old, c) /\ item = def_val THEN cur_size - 1
                     ELSE IF ~There(old, c) /\ item # def_val THEN cur_size + 1 ELSE cur_size
      /\ cells' = [cells EXCEPT ![<<r, c>>] = item]
      /\ UNCHANGED handle
  BY DEF Matrix!AssignInRow, Assigned, There, RowSet
<1> HIDE DEF r, k
<1>7. /\ rows' \in Seq(MatrixRow) /\ AllSorted(rows')
      /\ Changed(rows', rows, r, c, item)
      /\ \A s : NoRow(rows', s) => NoRow(rows, s)
      /\ There(old, c) <=> \E w \in Values : Has(rows, r, c, w)
  BY <1>1, <1>2, <1>4, <1>5, <1>6, RowChanged
<1> HIDE DEF old
<1>8. cells' \in [RowNums \X ColNums -> Items \union {def_val}] /\ Agree(cells', rows')
  BY <1>1, <1>2, <1>4, <1>6, <1>7, CellsAfter
<1>9. There(old, c) <=> cells[<<r, c>>] # def_val
  BY <1>1, <1>2, <1>4, <1>7, CellIs
<1>10. cur_size' = Cardinality(Taken(cells'))
  <2>1. Resized(cells, cells', <<r, c>>, item)
    BY <1>1, <1>4, <1>6, SizeAfter
  <2> QED
    BY <1>2, <1>6, <1>9, <2>1 DEF Resized
<1>11. HandleInv'
  BY <1>2, <1>6, <1>7 DEF HandleInv
<1> QED
  BY <1>1, <1>6, <1>7, <1>8, <1>10, <1>11 DEF MatrixInv, MatrixTypeOK, CellsInv

(* Nobody else touches the matrix. *)
LEMMA MatrixInductive == DataSpec => []MatrixInv
<1>1. ASSUME MatrixInv, [DataNext]_dataVars PROVE MatrixInv'
  <2>1. CASE UNCHANGED matrixVars
    BY <1>1, <2>1 DEF matrixVars, MatrixInv, MatrixTypeOK, HandleInv, CellsInv
  <2>2. CASE Matrix!MatrixNext
    BY <1>1, <2>2, RowInv, NewRowInv, InRowInv DEF Matrix!MatrixNext
  <2>3. UNCHANGED matrixVars \/ Matrix!MatrixNext
    BY <1>1 DEF DataNext, dataVars
  <2> QED
    BY <2>1, <2>2, <2>3
<1> QED
  BY MatrixInit, <1>1, PTL DEF DataSpec

(* The iterator's way: where it is after n steps. *)
Width(seq, k) == Len(seq[k].elems)
Wide(seq) == Len(seq) \in Nat /\ \A k \in 1..Len(seq) : Width(seq, k) \in Nat \ {0}
After(seq, it) ==
    IF it[1] > Len(seq) THEN it
    ELSE IF it[2] < Width(seq, it[1]) THEN <<it[1], it[2] + 1>> ELSE <<it[1] + 1, 1>>
Way(seq, N, f) == f = [n \in 0..N |-> IF n = 0 THEN <<1, 1>> ELSE After(seq, f[n - 1])]

(* A place in the rows, or behind them. *)
IsPlace(seq, it) ==
    it \in (Nat \ {0}) \X Nat /\ (it[1] <= Len(seq) => it[2] \in 1..Width(seq, it[1]))
Behind(x, y) == x[1] < y[1] \/ (x[1] = y[1] /\ x[2] < y[2])

(* A step goes to the next place. *)
LEMMA StepIs ==
    ASSUME NEW seq, Wide(seq), NEW it, IsPlace(seq, it)
    PROVE  /\ IsPlace(seq, After(seq, it))
           /\ it[1] > Len(seq) => After(seq, it) = it
           /\ it[1] <= Len(seq) =>
                /\ Behind(it, After(seq, it))
                /\ \A x : IsPlace(seq, x) /\ x[1] <= Len(seq) /\ Behind(it, x) =>
                      x = After(seq, it) \/ Behind(After(seq, it), x)
<1>1. PICK a \in Nat \ {0}, b \in Nat : it = <<a, b>>
  BY DEF IsPlace
<1>2. Len(seq) \in Nat
  BY DEF Wide
<1>3. CASE a > Len(seq)
  BY <1>1, <1>2, <1>3 DEF After
<1>4. CASE a <= Len(seq)
  <2>1. a \in 1..Len(seq) /\ Width(seq, a) \in Nat \ {0} /\ b \in 1..Width(seq, a)
    BY <1>1, <1>2, <1>4 DEF Wide, IsPlace
  <2>2. CASE b < Width(seq, a)
    <3>1. After(seq, it) = <<a, b + 1>>
      BY <1>1, <1>2, <1>4, <2>2 DEF After
    <3>2. IsPlace(seq, <<a, b + 1>>) /\ Behind(it, <<a, b + 1>>)
      BY <1>1, <2>1, <2>2 DEF IsPlace, Behind
    <3>3. ASSUME NEW x, IsPlace(seq, x), x[1] <= Len(seq), Behind(it, x)
          PROVE  x = <<a, b + 1>> \/ Behind(<<a, b + 1>>, x)
      <4>1. PICK c \in Nat \ {0}, d \in Nat : x = <<c, d>>
        BY <3>3 DEF IsPlace
      <4>2. a < c \/ (a = c /\ b < d)
        BY <1>1, <3>3, <4>1 DEF Behind
      <4>3. a < c \/ (a = c /\ (d = b + 1 \/ b + 1 < d))
        BY <4>2
      <4> QED
        BY <4>1, <4>3 DEF Behind
    <3> QED
      BY <1>1, <1>2, <1>4, <3>1, <3>2, <3>3
  <2>3. CASE ~(b < Width(seq, a))
    <3>1. After(seq, it) = <<a + 1, 1>>
      BY <1>1, <1>2, <1>4, <2>3 DEF After
    <3>2. IsPlace(seq, <<a + 1, 1>>)
      <4>1. PICK e \in Nat \ {0} : e = a + 1
        OBVIOUS
      <4>2. e <= Len(seq) => Width(seq, e) \in Nat \ {0}
        BY <1>2 DEF Wide
      <4>3. e <= Len(seq) => 1 \in 1..Width(seq, e)
        BY <4>2
      <4> QED
        BY <4>1, <4>3 DEF IsPlace
    <3>3. Behind(it, <<a + 1, 1>>)
      BY <1>1 DEF Behind
    <3>4. ASSUME NEW x, IsPlace(seq, x), x[1] <= Len(seq), Behind(it, x)
          PROVE  x = <<a + 1, 1>> \/ Behind(<<a + 1, 1>>, x)
      <4>1. PICK c \in Nat \ {0}, d \in Nat : x = <<c, d>>
        BY <3>4 DEF IsPlace
      <4>2. (a < c \/ (a = c /\ b < d)) /\ d \in 1..Width(seq, c)
        BY <1>1, <3>4, <4>1 DEF Behind, IsPlace
      <4>3. a < c /\ d >= 1
        <5>1. d >= 1 /\ (a = c => d <= Width(seq, a))
          BY <2>1, <4>2
        <5> QED
          BY <2>1, <2>3, <4>2, <5>1
      <4>4. (c = a + 1 /\ (d = 1 \/ 1 < d)) \/ a + 1 < c
        BY <4>3
      <4> QED
        BY <4>1, <4>4 DEF Behind
    <3> QED
      BY <1>1, <1>2, <1>4, <3>1, <3>2, <3>3, <3>4
  <2> QED
    BY <2>2, <2>3
<1> QED
  BY <1>1, <1>2, <1>3, <1>4

(* There is such a way. *)
LEMMA WayExists == ASSUME NEW seq, NEW N \in Nat PROVE \E f : Way(seq, N, f)
<1> DEFINE T == {m \in Nat : ~\E f : Way(seq, m, f)}
<1>1. CASE T = {}
  BY <1>1
<1>2. CASE T # {}
  <2>1. PICK m \in T : \A i \in T : m <= i
    <3>1. T \in SUBSET Nat
      OBVIOUS
    <3> HIDE DEF T
    <3> QED
      BY <1>2, <3>1, LeastOne
  <2>2. CASE m = 0
    <3> DEFINE f == [n \in 0..0 |-> <<1, 1>>]
    <3>1. f = [n \in 0..0 |-> IF n = 0 THEN <<1, 1>> ELSE After(seq, f[n - 1])]
      OBVIOUS
    <3>2. Way(seq, 0, f)
      BY <3>1 DEF Way
    <3> QED
      BY <2>1, <2>2, <3>2
  <2>3. CASE m # 0
    <3>1. m - 1 \in Nat /\ m - 1 \notin T
      BY <2>1, <2>3
    <3>2. PICK f : Way(seq, m - 1, f)
      BY <3>1
    <3> DEFINE g == [n \in 0..m |-> IF n = m THEN After(seq, f[m - 1]) ELSE f[n]]
    <3>3. \A n \in 0..m - 1 : f[n] = IF n = 0 THEN <<1, 1>> ELSE After(seq, f[n - 1])
      BY <3>2 DEF Way
    <3>4. ASSUME NEW n \in 0..m
          PROVE  g[n] = IF n = 0 THEN <<1, 1>> ELSE After(seq, g[n - 1])
      <4>1. m \in Nat
        BY <2>1
      <4>2. CASE n = m
        <5>1. n - 1 \in 0..m /\ n - 1 # m /\ n # 0
          BY <2>3, <4>1, <4>2
        <5>2. g[n - 1] = f[n - 1] /\ g[n] = After(seq, f[m - 1])
          BY <4>2, <5>1
        <5> QED
          BY <4>2, <5>1, <5>2
      <4>3. CASE n = 0
        <5>1. n # m /\ n \in 0..m - 1
          BY <2>3, <4>1, <4>3
        <5> QED
          BY <3>3, <4>3, <5>1
      <4>4. CASE n # 0 /\ n # m
        <5>1. n \in 0..m - 1 /\ n - 1 \in 0..m /\ n - 1 # m
          BY <4>1, <4>4
        <5>2. g[n] = f[n] /\ g[n - 1] = f[n - 1]
          BY <4>4, <5>1
        <5> QED
          BY <3>3, <4>4, <5>1, <5>2
      <4> QED
        BY <4>2, <4>3, <4>4
    <3>5. Way(seq, m, g)
      <4>1. g = [n \in 0..m |-> g[n]]
        OBVIOUS
      <4> HIDE DEF g
      <4> QED
        BY <3>4, <4>1 DEF Way
    <3> QED
      BY <2>1, <3>5
  <2> QED
    BY <2>2, <2>3
<1> QED
  BY <1>1, <1>2

(* A way goes from place to place. *)
LEMMA WayIs ==
    ASSUME NEW seq, Wide(seq), NEW N \in Nat, NEW f, Way(seq, N, f)
    PROVE  /\ f[0] = <<1, 1>>
           /\ \A n \in 0..N : n # 0 => f[n] = After(seq, f[n - 1])
           /\ \A n \in 0..N : IsPlace(seq, f[n])
<1>1. \A n \in 0..N : f[n] = IF n = 0 THEN <<1, 1>> ELSE After(seq, f[n - 1])
  BY DEF Way
<1>2. f[0] = <<1, 1>> /\ \A n \in 0..N : n # 0 => f[n] = After(seq, f[n - 1])
  BY <1>1
<1>3. IsPlace(seq, <<1, 1>>)
  BY DEF IsPlace, Wide
<1> DEFINE T == {n \in 0..N : ~IsPlace(seq, f[n])}
<1>4. CASE T = {}
  BY <1>2, <1>4
<1>5. CASE T # {}
  <2>1. PICK n \in T : \A i \in T : n <= i
    <3>1. T \in SUBSET Nat
      OBVIOUS
    <3> HIDE DEF T
    <3> QED
      BY <1>5, <3>1, LeastOne
  <2>2. n # 0 /\ n \in 0..N
    BY <1>2, <1>3, <2>1
  <2>3. n - 1 \in 0..N /\ n - 1 \notin T
    BY <2>1, <2>2
  <2>4. IsPlace(seq, f[n - 1])
    BY <2>3
  <2>5. f[n] = After(seq, f[n - 1])
    BY <1>2, <2>2
  <2>6. IsPlace(seq, f[n])
    BY <2>4, <2>5, StepIs
  <2> QED
    BY <2>1, <2>6
<1> QED
  BY <1>4, <1>5

(* Behind is an order. *)
LEMMA BehindBehind ==
    ASSUME NEW x, NEW y, NEW z, x[1] \in Nat, x[2] \in Nat, y[1] \in Nat, y[2] \in Nat,
           z[1] \in Nat, z[2] \in Nat, Behind(x, y), Behind(y, z)
    PROVE  Behind(x, z)
BY DEF Behind

(* It goes forward until it is behind the rows. *)
LEMMA WayForward ==
    ASSUME NEW seq, Wide(seq), NEW N \in Nat, NEW f, Way(seq, N, f)
    PROVE  \A n \in 0..N : f[n][1] <= Len(seq) =>
              \A i \in 0..N : i < n => Behind(f[i], f[n]) /\ f[i][1] <= Len(seq)
<1>1. /\ \A n \in 0..N : n # 0 => f[n] = After(seq, f[n - 1])
      /\ \A n \in 0..N : IsPlace(seq, f[n])
  BY WayIs
<1>2. Len(seq) \in Nat
  BY DEF Wide
<1>3. \A n \in 0..N : f[n][1] \in Nat /\ f[n][2] \in Nat
  BY <1>1 DEF IsPlace
<1> DEFINE T == {n \in 0..N : f[n][1] <= Len(seq) /\ \E i \in 0..N : i < n /\ ~(Behind(f[i], f[n]) /\ f[i][1] <= Len(seq))}
<1>4. CASE T = {}
  BY <1>4
<1>5. CASE T # {}
  <2>1. PICK n \in T : \A i \in T : n <= i
    <3>1. T \in SUBSET Nat
      OBVIOUS
    <3> HIDE DEF T
    <3> QED
      BY <1>5, <3>1, LeastOne
  <2>2. n \in 0..N /\ f[n][1] <= Len(seq)
    BY <2>1
  <2>3. PICK i \in 0..N : i < n /\ ~(Behind(f[i], f[n]) /\ f[i][1] <= Len(seq))
    BY <2>1
  <2>4. PICK m \in 0..N : m = n - 1
    BY <2>2, <2>3
  <2>5. m \notin T
    BY <2>1, <2>2, <2>4
  <2>6. n # 0 /\ f[n] = After(seq, f[m]) /\ IsPlace(seq, f[m]) /\ i <= m
    BY <1>1, <2>2, <2>3, <2>4
  <2>7. /\ f[m][1] > Len(seq) => After(seq, f[m]) = f[m]
        /\ f[m][1] <= Len(seq) => Behind(f[m], After(seq, f[m]))
    BY <2>6, StepIs
  <2>8. f[m][1] <= Len(seq)
    BY <1>2, <1>3, <2>2, <2>6, <2>7
  <2>9. Behind(f[m], f[n])
    BY <2>6, <2>7, <2>8
  <2>10. i < m => Behind(f[i], f[m]) /\ f[i][1] <= Len(seq)
    BY <2>5, <2>8
  <2>11. i = m \/ i < m
    BY <2>6
  <2>12. CASE i = m
    BY <2>3, <2>8, <2>9, <2>12
  <2>13. CASE i < m
    <3>1. Behind(f[i], f[n])
      BY <1>3, <2>2, <2>9, <2>10, <2>13, BehindBehind
    <3> QED
      BY <2>3, <2>10, <2>13, <3>1
  <2> QED
    BY <2>11, <2>12, <2>13
<1> QED
  BY <1>4, <1>5

(* It is behind the rows in the end. *)
Ends(seq, N, f) == f[N][1] > Len(seq)

(* What a way passes: all the places in the rows, if it is behind them in  *)
(* the end.                                                                *)
LEMMA WayVisits ==
    ASSUME NEW seq, Wide(seq), NEW N \in Nat, NEW f, Way(seq, N, f), Ends(seq, N, f),
           NEW x, IsPlace(seq, x), x[1] <= Len(seq)
    PROVE  \E n \in 0..N : f[n] = x
<1>1. /\ f[0] = <<1, 1>>
      /\ \A n \in 0..N : n # 0 => f[n] = After(seq, f[n - 1])
      /\ \A n \in 0..N : IsPlace(seq, f[n])
  BY WayIs
<1>2. Len(seq) \in Nat
  BY DEF Wide
<1>3. \A n \in 0..N : f[n][1] \in Nat /\ f[n][2] \in Nat
  BY <1>1 DEF IsPlace
<1>4. x[1] \in Nat \ {0} /\ x[2] \in Nat \ {0}
  BY <1>2 DEF IsPlace
<1>5. x \in Nat \X Nat
  BY DEF IsPlace
<1> DEFINE T == {n \in 0..N : Behind(x, f[n])}
<1>6. N \in T
  BY <1>2, <1>3, <1>4 DEF Behind, Ends
<1>7. PICK n \in T : \A i \in T : n <= i
  <2>1. T \in SUBSET Nat
    OBVIOUS
  <2> HIDE DEF T
  <2> QED
    BY <1>6, <2>1, LeastOne
<1>8. n \in 0..N /\ Behind(x, f[n])
  BY <1>7
<1>9. n # 0
  BY <1>1, <1>4, <1>8 DEF Behind
<1>10. PICK m \in 0..N : m = n - 1
  BY <1>8, <1>9
<1>11. m \notin T
  BY <1>7, <1>8, <1>10
<1>12. ~Behind(x, f[m])
  BY <1>11
<1>13. f[m] = x \/ Behind(f[m], x)
  <2>1. PICK a \in Nat, b \in Nat : f[m] = <<a, b>>
    <3>1. IsPlace(seq, f[m])
      BY <1>1
    <3>2. f[m] \in (Nat \ {0}) \X Nat
      BY <3>1 DEF IsPlace
    <3> QED
      BY <3>2
  <2>2. PICK c \in Nat, d \in Nat : x = <<c, d>>
    BY <1>5
  <2>3. (a = c /\ b = d) \/ a < c \/ (a = c /\ b < d)
    BY <1>12, <2>1, <2>2 DEF Behind
  <2> QED
    BY <2>1, <2>2, <2>3 DEF Behind
<1>14. CASE Behind(f[m], x)
  <2>1. f[n] = After(seq, f[m]) /\ IsPlace(seq, f[m])
    BY <1>1, <1>8, <1>9, <1>10
  <2>2. f[m][1] <= Len(seq)
    BY <1>2, <1>3, <1>4, <1>14 DEF Behind
  <2>3. x = f[n] \/ Behind(f[n], x)
    BY <1>14, <2>1, <2>2, StepIs
  <2> QED
    BY <1>3, <1>4, <1>8, <2>3 DEF Behind
<1> QED
  BY <1>13, <1>14

Inside(seq, N, f) == {n \in 0..N : ~(f[n][1] > Len(seq))}

(* How many places it passes. *)
LEMMA WayLength ==
    ASSUME NEW seq, Wide(seq), NEW N \in Nat, NEW f, Way(seq, N, f), Ends(seq, N, f)
    PROVE  \E m \in 0..N : Inside(seq, N, f) = 0..m - 1 /\ Cardinality(Inside(seq, N, f)) = m
<1> DEFINE T == {n \in 0..N : f[n][1] > Len(seq)}
<1>1. PICK m \in T : \A i \in T : m <= i
  <2>1. T \in SUBSET Nat /\ N \in T
    BY DEF Ends
  <2> HIDE DEF T
  <2> QED
    BY <2>1, LeastOne
<1>2. m \in 0..N /\ f[m][1] > Len(seq)
  BY <1>1
<1>3. Len(seq) \in Nat /\ \A n \in 0..N : f[n][1] \in Nat
  <2>1. \A n \in 0..N : IsPlace(seq, f[n])
    BY WayIs
  <2> QED
    BY <2>1 DEF IsPlace, Wide
<1>4. \A n \in 0..N : ~(f[n][1] > Len(seq)) => n < m
  <2>1. ASSUME NEW n \in 0..N, ~(f[n][1] > Len(seq)), m < n PROVE FALSE
    <3>1. f[n][1] <= Len(seq)
      BY <1>3, <2>1
    <3>2. f[m][1] <= Len(seq)
      BY <1>2, <2>1, <3>1, WayForward
    <3> QED
      BY <1>2, <1>3, <3>2
  <2> QED
    BY <1>2, <2>1
<1>5. \A n \in 0..N : n < m => ~(f[n][1] > Len(seq))
  BY <1>1, <1>2
<1>6. Inside(seq, N, f) = 0..m - 1
  BY <1>2, <1>4, <1>5 DEF Inside
<1>7. Cardinality(0..m - 1) = m
  <2>1. m - 1 \in Int /\ 0 \in Int
    BY <1>2
  <2>2. Cardinality(0..m - 1) = IF 0 > m - 1 THEN 0 ELSE m - 1 - 0 + 1
    BY <2>1, FS_Interval
  <2> QED
    BY <1>2, <2>2
<1> QED
  BY <1>2, <1>6, <1>7

(* A way as long as the matrix has cells comes to its end. *)
LEMMA WayEnds ==
    ASSUME NEW seq \in Seq(MatrixRow), AllSorted(seq), Wide(seq), NEW f,
           Way(seq, Cardinality(RowNums \X ColNums), f)
    PROVE  Ends(seq, Cardinality(RowNums \X ColNums), f)
<1> DEFINE N == Cardinality(RowNums \X ColNums)
           g == [n \in 0..N |-> <<seq[f[n][1]].row_num_, seq[f[n][1]].elems[f[n][2]].col_num>>]
<1>1. IsFiniteSet(RowNums \X ColNums) /\ N \in Nat
  BY MatrixAssumption, FS_Product, FS_CardinalityType
<1> HIDE DEF N
<1> SUFFICES ASSUME ~(f[N][1] > Len(seq)) PROVE FALSE
  BY DEF N, Ends
<1>2. Len(seq) \in Nat /\ \A n \in 0..N : IsPlace(seq, f[n])
  BY <1>1, WayIs DEF Wide, N
<1>3. \A n \in 0..N : f[n][1] <= Len(seq)
  <2>1. f[N][1] <= Len(seq)
    <3>1. N \in 0..N
      BY <1>1
    <3>2. f[N][1] \in Nat
      BY <1>2, <3>1 DEF IsPlace
    <3> QED
      BY <1>2, <3>2
  <2>2. \A n \in 0..N : n = N \/ n < N
    BY <1>1
  <2>3. \A n \in 0..N : n < N => f[n][1] <= Len(seq)
    BY <1>1, <2>1, WayForward DEF N
  <2> QED
    BY <2>1, <2>2, <2>3
<1>4. \A n \in 0..N : f[n][1] \in 1..Len(seq) /\ f[n][2] \in 1..Len(seq[f[n][1]].elems)
  BY <1>2, <1>3 DEF IsPlace, Width
<1>5. \A k \in 1..Len(seq) : seq[k].row_num_ \in RowNums /\ seq[k].elems \in Seq(Cell) /\ ColsSorted(seq[k].elems)
  <2>1. \A k \in 1..Len(seq) : seq[k] \in MatrixRow
    OBVIOUS
  <2> QED
    BY <2>1 DEF MatrixRow, AllSorted
<1>6. \A k \in 1..Len(seq) : \A j \in 1..Len(seq[k].elems) : seq[k].elems[j].col_num \in ColNums
  <2>1. ASSUME NEW k \in 1..Len(seq), NEW j \in 1..Len(seq[k].elems) PROVE seq[k].elems[j] \in Cell
    BY <1>5
  <2> QED
    BY <2>1 DEF Cell
<1>7. g \in [0..N -> RowNums \X ColNums]
  BY <1>4, <1>5, <1>6
<1>8. Cardinality(0..N) = N + 1 /\ IsFiniteSet(0..N)
  <2>1. N \in Int /\ 0 \in Int
    BY <1>1
  <2>2. IsFiniteSet(0..N) /\ Cardinality(0..N) = IF 0 > N THEN 0 ELSE N - 0 + 1
    BY <2>1, FS_Interval
  <2> QED
    BY <1>1, <2>2
<1>9. PICK i \in 0..N, j \in 0..N : i # j /\ g[i] = g[j]
  <2>1. Cardinality(RowNums \X ColNums) < Cardinality(0..N)
    BY <1>1, <1>8 DEF N
  <2> HIDE DEF g
  <2> QED
    BY <1>1, <1>7, <1>8, <2>1, FS_PigeonHole
<1>10. ASSUME NEW a \in 0..N, NEW b \in 0..N, a < b PROVE g[a] # g[b]
  <2>1. Behind(f[a], f[b])
    BY <1>1, <1>3, <1>10, WayForward DEF N
  <2> DEFINE r == f[a][1]
             s == f[b][1]
             c == f[a][2]
             d == f[b][2]
  <2>2. r \in 1..Len(seq) /\ s \in 1..Len(seq) /\ c \in 1..Len(seq[r].elems) /\ d \in 1..Len(seq[s].elems)
    BY <1>4
  <2>3. r < s \/ (r = s /\ c < d)
    BY <2>1 DEF Behind
  <2>4. g[a] = <<seq[r].row_num_, seq[r].elems[c].col_num>> /\ g[b] = <<seq[s].row_num_, seq[s].elems[d].col_num>>
    OBVIOUS
  <2> HIDE DEF g, r, s, c, d
  <2>5. CASE r < s
    <3>1. seq[r].row_num_ < seq[s].row_num_
      BY <2>2, <2>5 DEF AllSorted, RowsSorted
    <3>2. seq[r].row_num_ \in Nat /\ seq[s].row_num_ \in Nat
      BY <1>5, <2>2, MatrixAssumption
    <3> QED
      BY <2>4, <3>1, <3>2
  <2>6. CASE r = s /\ c < d
    <3>1. seq[r].elems[c].col_num < seq[r].elems[d].col_num
      BY <1>5, <2>2, <2>6 DEF ColsSorted
    <3>2. seq[r].elems[c].col_num \in Nat /\ seq[r].elems[d].col_num \in Nat
      BY <1>6, <2>2, <2>6, MatrixAssumption
    <3> QED
      BY <2>4, <2>6, <3>1, <3>2
  <2> QED
    BY <2>3, <2>5, <2>6
<1>11. i < j \/ j < i
  BY <1>1, <1>9
<1> QED
  BY <1>9, <1>10, <1>11

(* matrix[r][c] reads what was assigned. *)
LEMMA ReadIs ==
    ASSUME MatrixInv, NEW r \in RowNums, NEW c \in ColNums
    PROVE  Matrix!Read(r, c) = cells[<<r, c>>]
<1> DEFINE found == {e \in UNION {Matrix!ToSet(rows[k].elems) : k \in Matrix!RowOf(r)} : e.col_num = c}
<1>1. /\ rows \in Seq(MatrixRow) /\ Agree(cells, rows)
      /\ cells \in [RowNums \X ColNums -> Items \union {def_val}]
  BY DEF MatrixInv, MatrixTypeOK, CellsInv
<1>2. Matrix!RowOf(r) = {k \in 1..Len(rows) : rows[k].row_num_ = r}
  BY <1>1 DEF Matrix!RowOf
<1>3. \A k \in 1..Len(rows) : rows[k].elems \in Seq(Cell)
  <2>1. \A k \in 1..Len(rows) : rows[k] \in MatrixRow
    BY <1>1
  <2> QED
    BY <2>1 DEF MatrixRow
<1>4. ASSUME NEW e \in found PROVE e.item = cells[<<r, c>>]
  <2>1. PICK k \in 1..Len(rows) : rows[k].row_num_ = r /\ e \in Matrix!ToSet(rows[k].elems)
    BY <1>2
  <2>2. PICK j \in 1..Len(rows[k].elems) : e = rows[k].elems[j]
    BY <1>3, <2>1 DEF Matrix!ToSet
  <2>3. e \in Cell /\ e.col_num = c
    BY <1>3, <2>2
  <2>4. e.item \in Values
    BY <2>3 DEF Cell, Values
  <2>5. Has(rows, r, c, e.item)
    BY <2>1, <2>2, <2>3 DEF Has, HasItem
  <2> QED
    BY <1>1, <2>4, <2>5 DEF Agree
<1>5. ASSUME cells[<<r, c>>] # def_val PROVE found # {}
  <2>1. PICK v \in Values : Has(rows, r, c, v)
    BY <1>1, <1>5, CellIs
  <2>2. PICK k \in 1..Len(rows) : rows[k].row_num_ = r /\ HasItem(rows[k].elems, c, v)
    BY <2>1 DEF Has
  <2>3. PICK j \in 1..Len(rows[k].elems) : rows[k].elems[j].col_num = c
    BY <2>2 DEF HasItem
  <2>4. rows[k].elems[j] \in Matrix!ToSet(rows[k].elems) /\ k \in Matrix!RowOf(r)
    BY <1>2, <1>3, <2>2 DEF Matrix!ToSet
  <2> QED
    BY <2>3, <2>4
<1>6. Matrix!Read(r, c) = IF found = {} THEN def_val ELSE (CHOOSE e \in found : TRUE).item
  BY DEF Matrix!Read
<1> HIDE DEF found
<1>7. CASE found = {}
  BY <1>5, <1>6, <1>7
<1>8. CASE found # {}
  <2>1. (CHOOSE e \in found : TRUE) \in found
    BY <1>8
  <2> QED
    BY <1>4, <1>6, <1>8, <2>1
<1> QED
  BY <1>7, <1>8

(* The matrix counts as anyone does. *)
LEMMA MatrixCounts == \A S : Matrix!Cardinality(S) = Cardinality(S)
BY DEF Matrix!Cardinality, Cardinality

(* A loop over the matrix goes its way to the end. *)
LEMMA VisitedIs ==
    ASSUME MatrixInv, Matrix!NoRowEmptied
    PROVE  /\ Wide(rows)
           /\ \E f : \E m \in 0..Cardinality(RowNums \X ColNums) :
                /\ Way(rows, Cardinality(RowNums \X ColNums), f)
                /\ Ends(rows, Cardinality(RowNums \X ColNums), f)
                /\ Inside(rows, Cardinality(RowNums \X ColNums), f) = 0..m - 1
                /\ Matrix!Visited = [n \in 1..m |-> Matrix!At(f[n - 1])]
<1> DEFINE N == Cardinality(RowNums \X ColNums)
           f == CHOOSE after : after = [n \in 0..Matrix!Cardinality(RowNums \X ColNums) |->
                   IF n = 0 THEN Matrix!Begin
                   ELSE IF Matrix!Ended(after[n - 1]) THEN after[n - 1] ELSE Matrix!Advanced(after[n - 1])]
<1>1. rows \in Seq(MatrixRow) /\ AllSorted(rows)
  BY DEF MatrixInv, MatrixTypeOK
<1>2. Wide(rows)
  <2>1. \A k \in 1..Len(rows) : rows[k] \in MatrixRow /\ rows[k].elems # <<>>
    BY <1>1 DEF Matrix!NoRowEmptied
  <2>2. \A k \in 1..Len(rows) : rows[k].elems \in Seq(Cell) /\ rows[k].elems # <<>>
    BY <2>1 DEF MatrixRow
  <2>3. \A k \in 1..Len(rows) : Width(rows, k) \in Nat \ {0}
    <3> SUFFICES ASSUME NEW k \in 1..Len(rows) PROVE Len(rows[k].elems) \in Nat \ {0}
      BY DEF Width
    <3>1. \A s \in Seq(Cell) : s # <<>> => Len(s) \in Nat \ {0}
      BY EmptySeq
    <3> QED
      BY <2>2, <3>1
  <2> QED
    BY <1>1, <2>3 DEF Wide
<1>3. N \in Nat
  BY MatrixAssumption, FS_Product, FS_CardinalityType
<1>4. Way(rows, N, f)
  <2>1. \A g : Way(rows, N, g) <=> g = [n \in 0..Matrix!Cardinality(RowNums \X ColNums) |->
                   IF n = 0 THEN Matrix!Begin
                   ELSE IF Matrix!Ended(g[n - 1]) THEN g[n - 1] ELSE Matrix!Advanced(g[n - 1])]
    BY MatrixCounts DEF Way, After, Width, Matrix!Begin, Matrix!Ended, Matrix!Advanced
  <2>2. \E g : Way(rows, N, g)
    BY <1>3, WayExists
  <2> QED
    BY <2>1, <2>2
<1>5. Matrix!Visited = [n \in 1..Cardinality(Inside(rows, N, f)) |-> Matrix!At(f[n - 1])]
  <2> DEFINE within == {n \in 0..Matrix!Cardinality(RowNums \X ColNums) : ~Matrix!Ended(f[n])}
  <2>1. Matrix!Visited = [n \in 1..Matrix!Cardinality(within) |-> Matrix!At(f[n - 1])]
    BY DEF Matrix!Visited
  <2> HIDE DEF f
  <2>2. within = Inside(rows, N, f)
    BY MatrixCounts DEF Matrix!Ended, Inside
  <2> HIDE DEF within
  <2> QED
    BY <2>1, <2>2, MatrixCounts
<1> HIDE DEF f
<1>6. Ends(rows, N, f)
  BY <1>1, <1>2, <1>4, WayEnds
<1>7. \E m \in 0..N : Inside(rows, N, f) = 0..m - 1 /\ Cardinality(Inside(rows, N, f)) = m
  <2> HIDE DEF N
  <2> QED
    BY <1>2, <1>3, <1>4, <1>6, WayLength
<1>8. PICK m \in 0..N : Inside(rows, N, f) = 0..m - 1 /\ Cardinality(Inside(rows, N, f)) = m
  BY <1>7
<1>9. Matrix!Visited = [n \in 1..m |-> Matrix!At(f[n - 1])]
  BY <1>5, <1>8
<1> QED
  BY <1>2, <1>4, <1>6, <1>8, <1>9

(* A cell that is set has a place in the rows, and what is at a place is   *)
(* what is set in its cell.                                                *)
LEMMA PlaceOfCell ==
    ASSUME MatrixInv
    PROVE  /\ \A r \in RowNums, c \in ColNums : cells[<<r, c>>] # def_val =>
                \E it : /\ IsPlace(rows, it) /\ it[1] <= Len(rows)
                       /\ Matrix!At(it) = <<r, c, cells[<<r, c>>]>>
           /\ \A it : IsPlace(rows, it) /\ it[1] <= Len(rows) =>
                \E r \in RowNums, c \in ColNums :
                    Matrix!At(it) = <<r, c, cells[<<r, c>>]>> /\ cells[<<r, c>>] # def_val
<1>1. /\ rows \in Seq(MatrixRow) /\ Agree(cells, rows)
      /\ cells \in [RowNums \X ColNums -> Items \union {def_val}]
  BY DEF MatrixInv, MatrixTypeOK, CellsInv
<1>2. \A k \in 1..Len(rows) : rows[k].elems \in Seq(Cell) /\ rows[k].row_num_ \in RowNums
  <2>1. \A k \in 1..Len(rows) : rows[k] \in MatrixRow
    BY <1>1
  <2> QED
    BY <2>1 DEF MatrixRow
<1>3. ASSUME NEW r \in RowNums, NEW c \in ColNums, cells[<<r, c>>] # def_val
      PROVE  \E it : /\ IsPlace(rows, it) /\ it[1] <= Len(rows)
                    /\ Matrix!At(it) = <<r, c, cells[<<r, c>>]>>
  <2>1. PICK v \in Values : Has(rows, r, c, v)
    BY <1>1, <1>3, CellIs
  <2>2. cells[<<r, c>>] = v
    BY <1>1, <2>1 DEF Agree
  <2>3. PICK k \in 1..Len(rows) : rows[k].row_num_ = r /\ HasItem(rows[k].elems, c, v)
    BY <2>1 DEF Has
  <2>4. PICK j \in 1..Len(rows[k].elems) : rows[k].elems[j].col_num = c /\ rows[k].elems[j].item = v
    BY <2>3 DEF HasItem
  <2>5. k \in Nat \ {0} /\ j \in Nat /\ k <= Len(rows)
    BY <1>1, <1>2
  <2>6. IsPlace(rows, <<k, j>>)
    BY <2>5 DEF IsPlace, Width
  <2>7. Matrix!At(<<k, j>>) = <<r, c, v>>
    BY <2>3, <2>4 DEF Matrix!At
  <2> QED
    BY <2>2, <2>5, <2>6, <2>7
<1>4. ASSUME NEW it, IsPlace(rows, it), it[1] <= Len(rows)
      PROVE  \E r \in RowNums, c \in ColNums :
                Matrix!At(it) = <<r, c, cells[<<r, c>>]>> /\ cells[<<r, c>>] # def_val
  <2>1. it[1] \in 1..Len(rows) /\ it[2] \in 1..Len(rows[it[1]].elems)
    BY <1>1, <1>4 DEF IsPlace, Width
  <2>2. PICK k \in 1..Len(rows) : k = it[1]
    BY <2>1
  <2>3. PICK j \in 1..Len(rows[k].elems) : j = it[2]
    BY <2>1, <2>2
  <2>4. PICK e \in Cell : e = rows[k].elems[j]
    BY <1>2, <2>3
  <2>5. PICK r \in RowNums : r = rows[k].row_num_
    BY <1>2
  <2>6. e.col_num \in ColNums /\ e.item \in Values
    BY DEF Cell, Values
  <2>7. Has(rows, r, e.col_num, e.item)
    BY <2>4, <2>5 DEF Has, HasItem
  <2>8. cells[<<r, e.col_num>>] = e.item /\ e.item # def_val
    BY <1>1, <2>6, <2>7 DEF Agree, Values
  <2>9. Matrix!At(it) = <<r, e.col_num, e.item>>
    BY <2>2, <2>3, <2>4, <2>5 DEF Matrix!At
  <2> QED
    BY <2>6, <2>8, <2>9
<1> QED
  BY <1>3, <1>4

(* A place behind another one is of a cell behind its cell. *)
LEMMA OrderOfCells ==
    ASSUME MatrixInv, NEW x, NEW y, IsPlace(rows, x), IsPlace(rows, y),
           x[1] <= Len(rows), y[1] <= Len(rows), Behind(x, y)
    PROVE  Matrix!Before(Matrix!At(x), Matrix!At(y))
<1>1. rows \in Seq(MatrixRow) /\ AllSorted(rows) /\ Len(rows) \in Nat
  BY DEF MatrixInv, MatrixTypeOK
<1>2. \A k \in 1..Len(rows) : rows[k] \in MatrixRow
  BY <1>1
<1>3. PICK k \in 1..Len(rows), l \in 1..Len(rows) : k = x[1] /\ l = y[1]
  BY <1>1 DEF IsPlace
<1>4. PICK i \in 1..Len(rows[k].elems), j \in 1..Len(rows[l].elems) : i = x[2] /\ j = y[2]
  BY <1>3 DEF IsPlace, Width
<1>5. k < l \/ (k = l /\ i < j)
  BY <1>3, <1>4 DEF Behind
<1>6. CASE k < l
  <2>1. rows[k].row_num_ < rows[l].row_num_
    BY <1>1, <1>6 DEF AllSorted, RowsSorted
  <2> QED
    BY <1>3, <2>1 DEF Matrix!Before, Matrix!At
<1>7. CASE k = l /\ i < j
  <2>1. ColsSorted(rows[k].elems)
    BY <1>1 DEF AllSorted
  <2>2. rows[k].elems[i].col_num < rows[k].elems[j].col_num
    BY <1>7, <2>1 DEF ColsSorted
  <2>3. x[1] = k /\ y[1] = k /\ x[2] = i /\ y[2] = j
    BY <1>3, <1>4, <1>7
  <2> QED
    BY <2>2, <2>3 DEF Matrix!Before, Matrix!At
<1> QED
  BY <1>5, <1>6, <1>7

(* The loop visits the cells that are set, once each, row by row.          *)
LEMMA LoopIs ==
    ASSUME MatrixInv, Matrix!NoRowEmptied
    PROVE  /\ Matrix!ToSet(Matrix!Visited) = {<<c[1], c[2], cells[c]>> : c \in Taken(cells)}
           /\ \A i \in 1..Len(Matrix!Visited) - 1 : Matrix!Before(Matrix!Visited[i], Matrix!Visited[i + 1])
<1> DEFINE N == Cardinality(RowNums \X ColNums)
<1>1. Wide(rows) /\ Len(rows) \in Nat
  BY VisitedIs DEF Wide
<1>2. PICK f : \E m \in 0..N : /\ Way(rows, N, f) /\ Ends(rows, N, f) /\ Inside(rows, N, f) = 0..m - 1
                               /\ Matrix!Visited = [n \in 1..m |-> Matrix!At(f[n - 1])]
  BY VisitedIs
<1>3. PICK m \in 0..N : /\ Way(rows, N, f) /\ Ends(rows, N, f) /\ Inside(rows, N, f) = 0..m - 1
                        /\ Matrix!Visited = [n \in 1..m |-> Matrix!At(f[n - 1])]
  BY <1>2
<1>4. N \in Nat
  BY MatrixAssumption, FS_Product, FS_CardinalityType
<1> HIDE DEF N
<1>5. \A n \in 0..N : IsPlace(rows, f[n])
  BY <1>1, <1>3, <1>4, WayIs
<1>6. \A n \in 0..N : f[n][1] \in Nat /\ (f[n][1] <= Len(rows) <=> n \in 0..m - 1)
  <2>1. \A n \in 0..N : f[n][1] \in Nat
    BY <1>5 DEF IsPlace
  <2>2. \A n \in 0..N : ~(f[n][1] > Len(rows)) <=> n \in 0..m - 1
    BY <1>3 DEF Inside
  <2> QED
    BY <1>1, <2>1, <2>2
<1> DEFINE v == Matrix!Visited
<1>7. DOMAIN v = 1..m /\ Len(v) = m /\ \A n \in 1..m : v[n] = Matrix!At(f[n - 1])
  BY <1>3, <1>4
<1> HIDE DEF v
<1>8. ASSUME NEW z \in Matrix!ToSet(v) PROVE z \in {<<c[1], c[2], cells[c]>> : c \in Taken(cells)}
  <2>1. PICK n \in 1..m : z = Matrix!At(f[n - 1])
    BY <1>7 DEF Matrix!ToSet
  <2>2. PICK p \in 0..N : p = n - 1 /\ p \in 0..m - 1
    BY <1>4
  <2>3. IsPlace(rows, f[p]) /\ f[p][1] <= Len(rows)
    BY <1>5, <1>6, <2>2
  <2>4. PICK r \in RowNums, c \in ColNums : Matrix!At(f[p]) = <<r, c, cells[<<r, c>>]>> /\ cells[<<r, c>>] # def_val
    BY <2>3, PlaceOfCell
  <2>5. <<r, c>> \in Taken(cells)
    BY <2>4 DEF Taken
  <2>6. <<r, c>>[1] = r /\ <<r, c>>[2] = c
    OBVIOUS
  <2> QED
    BY <2>1, <2>2, <2>4, <2>5, <2>6
<1>9. ASSUME NEW x \in Taken(cells) PROVE <<x[1], x[2], cells[x]>> \in Matrix!ToSet(v)
  <2>1. PICK r \in RowNums, c \in ColNums : x = <<r, c>> /\ cells[<<r, c>>] # def_val
    BY DEF Taken
  <2>2. PICK it : IsPlace(rows, it) /\ it[1] <= Len(rows) /\ Matrix!At(it) = <<r, c, cells[<<r, c>>]>>
    BY <2>1, PlaceOfCell
  <2>3. PICK p \in 0..N : f[p] = it
    BY <1>1, <1>3, <1>4, <2>2, WayVisits
  <2>4. p \in 0..m - 1
    BY <1>6, <2>2, <2>3
  <2>5. PICK n \in 1..m : n - 1 = p
    <3>1. p + 1 \in 1..m /\ (p + 1) - 1 = p
      BY <1>4, <2>4
    <3> QED
      BY <3>1
  <2>6. v[n] = <<r, c, cells[<<r, c>>]>> /\ n \in DOMAIN v
    BY <1>7, <2>2, <2>3, <2>5
  <2> QED
    BY <2>1, <2>6 DEF Matrix!ToSet
<1>10. ASSUME NEW i \in 1..Len(v) - 1 PROVE Matrix!Before(v[i], v[i + 1])
  <2>1. PICK p \in 0..N, q \in 0..N : p = i - 1 /\ q = i /\ p \in 0..m - 1 /\ q \in 0..m - 1
    BY <1>4, <1>7
  <2>2. v[i] = Matrix!At(f[p]) /\ v[i + 1] = Matrix!At(f[q])
    <3>1. i \in 1..m /\ i + 1 \in 1..m /\ (i + 1) - 1 = q
      BY <1>4, <1>7, <2>1
    <3> QED
      BY <1>7, <2>1, <3>1
  <2>3. f[p][1] <= Len(rows) /\ f[q][1] <= Len(rows) /\ p < q
    BY <1>6, <2>1
  <2>4. Behind(f[p], f[q])
    BY <1>1, <1>3, <1>4, <2>3, WayForward
  <2>5. Matrix!Before(Matrix!At(f[p]), Matrix!At(f[q]))
    BY <1>5, <2>3, <2>4, OrderOfCells
  <2> QED
    BY <2>2, <2>5
<1> QED
  BY <1>8, <1>9, <1>10 DEF v

(* The sparse matrix is the function its callers assigned, however they    *)
(* mix handles: it reads so, counts so, and a loop visits the cells that   *)
(* are set, and no other, in order (proxy_matrix_row::operator=, find and  *)
(* the iterator of 06_Matrix).                                             *)
THEOREM MatrixIsItsCells == DataSpec => []CellsAgree
<1>1. ASSUME MatrixInv PROVE CellsAgree
  <2>1. \A r \in RowNums, c \in ColNums : Matrix!Read(r, c) = cells[<<r, c>>]
    BY <1>1, ReadIs
  <2>2. cur_size = Cardinality(Taken(cells))
    BY <1>1 DEF MatrixInv
  <2>3. Matrix!NoRowEmptied =>
           /\ Matrix!ToSet(Matrix!Visited) = {<<c[1], c[2], cells[c]>> : c \in Taken(cells)}
           /\ \A i \in 1..Len(Matrix!Visited) - 1 : Matrix!Before(Matrix!Visited[i], Matrix!Visited[i + 1])
    BY <1>1, LoopIs
  <2> QED
    BY <2>1, <2>2, <2>3, MatrixCounts DEF CellsAgree, Matrix!CellsAgree, Taken
<1> QED
  BY MatrixInductive, <1>1, PTL

-----------------------------------------------------------------------------
(* The duplicate finder: Duplicates.                                       *)

(* The keys of the blocks there are. *)
KeyOf(p, b) == IF b \in 0..Finder!LastBlock(p) THEN Finder!Hashed(p, b) ELSE <<>>

(* The node an addition of a key leads to. *)
Step(start, key) == IF Finder!Last(start) = key THEN start ELSE Append(start, key)
RootOf(t) == CHOOSE n \in DOMAIN t : Len(n) = 1
Root == RootOf(tree)

(* The places of two files of one size and the same keys, listed once each. *)
Twins(p, q) ==
    /\ p \in DOMAIN listed /\ q \in DOMAIN listed /\ p # q
    /\ Finder!Once(p) /\ Finder!Once(q)
    /\ Finder!Size(p) = Finder!Size(q) /\ Finder!Size(q) # 0
    /\ \A b : KeyOf(p, b) = KeyOf(q, b)

(* The blocks that were read of the file at a place. *)
Class(j) == {k \in DOMAIN listed : Finder!Size(k) = Finder!Size(j)}
Waiting(p) == \E l \in m_files : p \in l
Reading(p) == scan = "read" /\ p \in list
BlocksRead(p) ==
    IF Waiting(p) THEN 0
    ELSE IF ~Reading(p) THEN Finder!LastBlock(p) + 1
    ELSE IF p \in left \/ Finder!Size(p) <= block_num * m_block_size THEN block_num
    ELSE block_num + 1

Running == {at \in UNION {{k} \X (0..Finder!Size(k)) : k \in DOMAIN listed} : Finder!RunsOn(at[1], at[2])}
FinderTypeOK ==
    /\ content \in [DOMAIN content -> Seq(Nat)]
    /\ listed \in Seq(DOMAIN content)
    /\ behind \in [Running -> Seq(Nat)]
    /\ block_num \in Nat /\ file_read \in BOOLEAN
    /\ scan \in {"erase", "next", "read", "done"}

(* The lists are those of the sizes; one is read at a time, block by block,*)
(* until its files have no more.                                           *)
ListsInv ==
    /\ \A l \in m_files : \E j \in DOMAIN listed : l = Class(j)
    /\ scan = "erase" => \A j \in DOMAIN listed : Class(j) \in m_files
    /\ scan = "done" => m_files = {}
    /\ scan = "read" =>
         /\ \E j \in DOMAIN listed : list = Class(j)
         /\ list \notin m_files /\ left \subseteq list
         /\ \A p \in list :
              /\ block_num * m_block_size <= Finder!Size(p)
              /\ file_read => (block_num + 1) * m_block_size <= Finder!Size(p)
              /\ ~file_read /\ p \notin left => Finder!Size(p) < (block_num + 1) * m_block_size

(* The tree: a node is the path to it, one is the root. *)
Keys == Seq(Nat)
IsTree(t) ==
    /\ \A m \in DOMAIN t : m \in Seq(Keys) /\ Len(m) >= 1 /\ IsFiniteSet(t[m])
    /\ DOMAIN t # {} => \E r \in DOMAIN t : Len(r) = 1
    /\ \A r, s \in DOMAIN t : Len(r) = 1 /\ Len(s) = 1 => r = s
TreeInv ==
    /\ IsTree(tree)
    /\ \A f \in DOMAIN node : node[f] \in DOMAIN tree

(* A file is in the node of its last block, unless that block has the key  *)
(* of the one before; in no other; and before its first block in none.     *)
FileInv(p) ==
    LET f == listed[p]
        n == BlocksRead(p)
    IN  /\ n = 0 => f \notin DOMAIN node /\ \A m \in DOMAIN tree : f \notin tree[m]
        /\ n # 0 =>
             /\ f \in DOMAIN node
             /\ Finder!Last(node[f]) = KeyOf(p, n - 1)
             /\ \A m \in DOMAIN tree :
                  f \in tree[m] <=> (m = node[f] /\ (n = 1 \/ KeyOf(p, n - 1) # KeyOf(p, n - 2)))

(* Such files take the same way, one a step ahead at most. *)
PairInv(p, q) ==
    LET f == listed[p]
        g == listed[q]
        n == BlocksRead(q)
    IN  /\ BlocksRead(p) = n /\ n # 0 => node[f] = node[g]
        /\ BlocksRead(p) = n + 1 => node[f] = Step(IF n = 0 THEN Root ELSE node[g], KeyOf(q, n))

FinderInv ==
    program = "finder" =>
        /\ FinderTypeOK
        /\ ListsInv
        /\ TreeInv
        /\ \A p, q : Twins(p, q) => FileInv(p) /\ PairInv(p, q)

(* A division says how many blocks there are. *)
LEMMA BlocksOf ==
    ASSUME NEW n \in Nat \ {0}, NEW b \in Nat
    PROVE  /\ (n - 1) \div m_block_size \in Nat
           /\ b * m_block_size < n => b <= (n - 1) \div m_block_size
           /\ b * m_block_size < n /\ n <= (b + 1) * m_block_size => b = (n - 1) \div m_block_size
<1> m_block_size \in Nat \ {0}
  BY FinderAssumption
<1> DEFINE B == m_block_size
           x == (n - 1) \div B
<1>1. x \in Int /\ x * B <= n - 1 /\ n - 1 < (x + 1) * B
  BY Z3
<1> HIDE DEF x, B
<1>2. B \in Nat \ {0}
  BY DEF B
<1>3. x >= 0
  <2>1. SUFFICES ASSUME x <= -1 PROVE FALSE
    BY <1>1
  <2>2. (x + 1) * B <= 0
    BY <1>1, <1>2, <2>1, Z3
  <2> QED
    BY <1>1, <1>2, <2>2
<1>4. ASSUME b * B < n PROVE b <= x
  <2>1. SUFFICES ASSUME x + 1 <= b PROVE FALSE
    BY <1>1
  <2>2. (x + 1) * B <= b * B
    BY <1>1, <1>2, <2>1, Z3
  <2> QED
    BY <1>1, <1>2, <1>4, <2>2, Z3
<1>5. ASSUME b * B < n, n <= (b + 1) * B PROVE b = x
  <2>1. b <= x
    BY <1>4, <1>5
  <2>2. SUFFICES ASSUME b + 1 <= x PROVE FALSE
    BY <1>1, <2>1
  <2>3. (b + 1) * B <= x * B
    BY <1>1, <1>2, <2>2, Z3
  <2> QED
    BY <1>1, <1>2, <1>5, <2>3, Z3
<1> QED
  BY <1>1, <1>3, <1>4, <1>5 DEF x, B

(* The block that is read: none behind the end, a full one before it. *)
LEMMA BlockIs ==
    ASSUME NEW f, content[f] \in Seq(Nat), NEW b \in Nat
    PROVE  /\ Finder!BlockAt(f, b) \in Seq(Nat)
           /\ Finder!BlockAt(f, b) = <<>> <=> Len(content[f]) <= b * m_block_size
           /\ Len(Finder!BlockAt(f, b)) = m_block_size <=> (b + 1) * m_block_size <= Len(content[f])
<1> DEFINE B == m_block_size
           c == content[f]
           lo == b * B
           hi == (b + 1) * B
           m == Finder!Min({hi, Len(c)})
<1>1. B \in Nat \ {0}
  BY FinderAssumption
<1>2. lo \in Nat /\ hi \in Nat /\ hi = lo + B
  BY <1>1, Z3
<1>3. c \in Seq(Nat) /\ Len(c) \in Nat
  OBVIOUS
<1>4. m = IF hi <= Len(c) THEN hi ELSE Len(c)
  <2> HIDE DEF B, c, lo, hi
  <2> QED
    BY <1>2, <1>3 DEF Finder!Min
<1>5. Finder!BlockAt(f, b) = SubSeq(c, lo + 1, m)
  BY DEF Finder!BlockAt
<1> HIDE DEF B, c, lo, hi, m
<1>6. m \in Nat /\ m <= Len(c)
  BY <1>2, <1>3, <1>4
<1>7. SubSeq(c, lo + 1, m) \in Seq(Nat)
  BY <1>2, <1>3, <1>6
<1>8. Len(SubSeq(c, lo + 1, m)) = IF lo + 1 <= m THEN m - lo ELSE 0
  BY <1>2, <1>3, <1>6
<1>9. SubSeq(c, lo + 1, m) = <<>> <=> Len(c) <= lo
  <2>1. SubSeq(c, lo + 1, m) = <<>> <=> Len(SubSeq(c, lo + 1, m)) = 0
    <3>1. \A s \in Seq(Nat) : s = <<>> <=> Len(s) = 0
      OBVIOUS
    <3> QED
      BY <1>7, <3>1
  <2> QED
    BY <1>1, <1>2, <1>3, <1>4, <1>8, <2>1
<1>10. Len(SubSeq(c, lo + 1, m)) = B <=> hi <= Len(c)
  BY <1>1, <1>2, <1>3, <1>4, <1>8
<1> QED
  BY <1>5, <1>7, <1>9, <1>10 DEF B, c, lo, hi

(* The key of a block that is read is what is hashed, a sequence of bytes. *)
LEMMA KeyIs ==
    ASSUME FinderTypeOK, NEW p \in DOMAIN listed, NEW b \in Nat, b * m_block_size < Finder!Size(p)
    PROVE  Finder!Hashed(p, b) \in Keys /\ KeyOf(p, b) = Finder!Hashed(p, b)
<1> DEFINE bytes == Finder!BlockAt(listed[p], b)
           zeros == {i \in DOMAIN bytes : bytes[i] = 0}
<1>1. content[listed[p]] \in Seq(Nat) /\ Finder!Size(p) \in Nat
  <2>1. listed[p] \in DOMAIN content
    BY DEF FinderTypeOK
  <2> QED
    BY <2>1 DEF FinderTypeOK, Finder!Size
<1>2. bytes \in Seq(Nat)
  BY <1>1, BlockIs
<1>3. m_block_size \in Nat \ {0}
  BY FinderAssumption
<1>4. b * m_block_size \in Nat /\ b <= b * m_block_size
  BY <1>3, Z3
<1>5. Finder!Size(p) \in Nat \ {0} /\ b \in 0..Finder!Size(p)
  <2>1. PICK n : n = b * m_block_size
    OBVIOUS
  <2> QED
    BY <1>1, <1>4, <2>1
<1>7. KeyOf(p, b) = Finder!Hashed(p, b)
  <2>1. b \in 0..Finder!LastBlock(p)
    BY <1>5, BlocksOf DEF Finder!LastBlock
  <2> QED
    BY <2>1 DEF KeyOf
<1>6. CASE Finder!RunsOn(p, b)
  <2>1. <<p, b>> \in Running
    BY <1>5, <1>6 DEF Running
  <2>2. behind[<<p, b>>] \in Seq(Nat)
    BY <2>1 DEF FinderTypeOK
  <2>3. Finder!Hashed(p, b) = bytes \o behind[<<p, b>>]
    BY <1>6 DEF Finder!Hashed
  <2>4. \A s, t \in Seq(Nat) : s \o t \in Seq(Nat)
    OBVIOUS
  <2> QED
    BY <1>2, <1>7, <2>2, <2>3, <2>4 DEF Keys
<1>8. CASE ~Finder!RunsOn(p, b) /\ zeros # {}
  <2>1. Finder!Hashed(p, b) = SubSeq(bytes, 1, Finder!Min(zeros) - 1)
    BY <1>8 DEF Finder!Hashed
  <2>2. zeros \subseteq Nat
    BY <1>2
  <2>3. Finder!Min(zeros) \in zeros
    <3>1. \E x \in zeros : \A y \in zeros : x <= y
      <4> HIDE DEF zeros
      <4> QED
        BY <1>8, <2>2, LeastOne
    <3> QED
      BY <3>1 DEF Finder!Min
  <2>4. Finder!Min(zeros) \in 1..Len(bytes)
    BY <1>2, <2>3
  <2> HIDE DEF zeros, bytes
  <2>5. PICK m \in 1..Len(bytes) : m = Finder!Min(zeros)
    BY <2>4
  <2>6. SubSeq(bytes, 1, m - 1) \in Seq(Nat)
    BY <1>2
  <2> QED
    BY <1>7, <2>1, <2>5, <2>6 DEF Keys
<1>9. CASE ~Finder!RunsOn(p, b) /\ zeros = {}
  <2>1. Finder!Hashed(p, b) = bytes
    BY <1>9 DEF Finder!Hashed
  <2> QED
    BY <1>2, <1>7, <2>1 DEF Keys
<1> QED
  BY <1>6, <1>8, <1>9

(* Which files are equal does not change, nor who has which size and keys. *)
LEMMA SamePlaces ==
    ASSUME UNCHANGED <<content, behind, listed>>
    PROVE  /\ \A p, q : Twins(p, q)' <=> Twins(p, q)
           /\ \A p, b : KeyOf(p, b)' = KeyOf(p, b)
           /\ \A j : Class(j)' = Class(j)
           /\ \A j : Finder!Size(j)' = Finder!Size(j)
           /\ \A j : Finder!LastBlock(j)' = Finder!LastBlock(j)
           /\ Running' = Running
<1>1. ASSUME NEW j PROVE Finder!Size(j)' = Finder!Size(j)
  BY DEF Finder!Size
<1>2. ASSUME NEW j PROVE Class(j)' = Class(j)
  BY <1>1 DEF Class
<1>3. ASSUME NEW j PROVE Finder!LastBlock(j)' = Finder!LastBlock(j)
  BY <1>1 DEF Finder!LastBlock
<1>4. ASSUME NEW k, NEW b
      PROVE  (Finder!RunsOn(k, b)' <=> Finder!RunsOn(k, b)) /\ Finder!Hashed(k, b)' = Finder!Hashed(k, b)
  <2>1. Finder!BlockAt(listed[k], b)' = Finder!BlockAt(listed[k], b)
    BY DEF Finder!BlockAt
  <2>2. Finder!RunsOn(k, b)' <=> Finder!RunsOn(k, b)
    BY <2>1 DEF Finder!RunsOn
  <2> QED
    BY <2>1, <2>2 DEF Finder!Hashed
<1>5. ASSUME NEW p, NEW b PROVE KeyOf(p, b)' = KeyOf(p, b)
  BY <1>3, <1>4 DEF KeyOf
<1>6. ASSUME NEW p, NEW q PROVE Twins(p, q)' <=> Twins(p, q)
  BY <1>1, <1>5 DEF Twins, Finder!Once
<1>7. Running' = Running
  BY <1>1, <1>4 DEF Running
<1> QED
  BY <1>1, <1>2, <1>3, <1>5, <1>6, <1>7

(* What is known of two files stays, if nothing of them is read. *)
LEMMA SameFiles ==
    ASSUME UNCHANGED <<content, behind, listed, tree, node>>, NEW p, NEW q,
           BlocksRead(p)' = BlocksRead(p), BlocksRead(q)' = BlocksRead(q), FileInv(p), PairInv(p, q)
    PROVE  FileInv(p)' /\ PairInv(p, q)'
<1>1. ASSUME NEW k, NEW b PROVE KeyOf(k, b)' = KeyOf(k, b)
  BY SamePlaces
<1>2. Root' = Root
  BY DEF Root, RootOf
<1>3. FileInv(p)'
  BY <1>1 DEF FileInv
<1>4. PairInv(p, q)'
  BY <1>1, <1>2 DEF PairInv, Step, Finder!Last
<1> QED
  BY <1>3, <1>4

(* Twins are each other's, and of one size; they are in the same lists.    *)
LEMMA TwinsAre ==
    ASSUME FinderTypeOK, NEW p, NEW q, Twins(p, q)
    PROVE  /\ Twins(q, p)
           /\ p \in DOMAIN listed /\ q \in DOMAIN listed /\ p # q
           /\ Finder!Size(p) \in Nat \ {0} /\ Finder!Size(q) = Finder!Size(p)
           /\ \A j : p \in Class(j) <=> q \in Class(j)
           /\ \A b : KeyOf(q, b) = KeyOf(p, b)
           /\ Finder!LastBlock(q) = Finder!LastBlock(p)
           /\ Finder!LastBlock(p) \in Nat
<1>1. p \in DOMAIN listed /\ q \in DOMAIN listed /\ p # q
  BY DEF Twins
<1>2. content[listed[p]] \in Seq(Nat)
  <2>1. listed[p] \in DOMAIN content
    BY <1>1 DEF FinderTypeOK
  <2> QED
    BY <2>1 DEF FinderTypeOK
<1>3. Finder!Size(p) \in Nat \ {0} /\ Finder!Size(q) = Finder!Size(p)
  <2>1. Finder!Size(p) \in Nat
    BY <1>2 DEF Finder!Size
  <2> QED
    BY <2>1 DEF Twins
<1>4. \A j : p \in Class(j) <=> q \in Class(j)
  BY <1>1, <1>3 DEF Class
<1>5. \A b : KeyOf(q, b) = KeyOf(p, b)
  BY DEF Twins
<1>6. Twins(q, p)
  BY <1>3, <1>5 DEF Twins
<1>7. Finder!LastBlock(q) = Finder!LastBlock(p)
  BY <1>3 DEF Finder!LastBlock
<1>8. Finder!LastBlock(p) \in Nat
  BY <1>3, BlocksOf DEF Finder!LastBlock
<1> QED
  BY <1>1, <1>3, <1>4, <1>5, <1>6, <1>7, <1>8

(* Two lists that share a place are one. *)
LEMMA OneClass ==
    ASSUME NEW i \in DOMAIN listed, NEW j \in DOMAIN listed, NEW p, p \in Class(i), p \in Class(j)
    PROVE  Class(i) = Class(j)
BY DEF Class

(* It starts. *)
LEMMA FinderStarts == DataInit => FinderInv
<1> SUFFICES ASSUME Finder!FinderInit PROVE FinderTypeOK /\ ListsInv /\ TreeInv /\ (\A p, q : Twins(p, q) => FileInv(p) /\ PairInv(p, q))
  BY DEF DataInit, FinderInv
<1>1. FinderTypeOK
  <2>1. PICK s \in Searches : content = s.content /\ listed = Finder!ListFiles(s.entries, s.content, s.options)
    BY DEF Finder!FinderInit
  <2>2. content \in [DOMAIN content -> Seq(Nat)] /\ listed \in Seq(DOMAIN content)
    BY <2>1, FinderAssumption
  <2>3. behind \in [Running -> Seq(Nat)]
    <3>1. behind \in [Running -> Tails]
      BY DEF Finder!FinderInit, Running
    <3> HIDE DEF Running
    <3> QED
      BY <3>1, FinderAssumption
  <2> QED
    BY <2>2, <2>3 DEF Finder!FinderInit, FinderTypeOK
<1>2. m_files = {Class(j) : j \in DOMAIN listed} /\ scan = "erase"
  BY DEF Finder!FinderInit, Class
<1>3. ListsInv
  BY <1>2 DEF ListsInv
<1>4. DOMAIN tree = {} /\ DOMAIN node = {}
  BY DEF Finder!FinderInit
<1>5. TreeInv
  BY <1>4 DEF TreeInv, IsTree
<1>6. ASSUME NEW p, NEW q, Twins(p, q) PROVE FileInv(p) /\ PairInv(p, q)
  <2>1. p \in DOMAIN listed /\ q \in DOMAIN listed
    BY <1>6 DEF Twins
  <2>2. \A j \in DOMAIN listed : j \in Class(j) /\ Class(j) \in m_files
    BY <1>2 DEF Class
  <2>3. BlocksRead(p) = 0 /\ BlocksRead(q) = 0
    BY <2>1, <2>2 DEF BlocksRead, Waiting
  <2> QED
    BY <1>4, <2>3 DEF FileInv, PairInv
<1> QED
  BY <1>1, <1>3, <1>5, <1>6

(* The finder counts as the theorems about finite sets do. *)
LEMMA FinderCounts == \A S : Finder!Cardinality(S) = Cardinality(S)
BY DEF Finder!Cardinality, Cardinality

(* The lists of one file are dropped: equal files are in none of them. *)
LEMMA ErasedInv ==
    ASSUME FinderTypeOK, ListsInv, TreeInv, \A p, q : Twins(p, q) => FileInv(p) /\ PairInv(p, q),
           Finder!Erase
    PROVE  (FinderTypeOK /\ ListsInv /\ TreeInv /\ (\A p, q : Twins(p, q) => FileInv(p) /\ PairInv(p, q)))'
<1>1. UNCHANGED <<listed, list, left, block_num, file_read, content, behind, tree, node>> /\ scan = "erase" /\ scan' = "next"
  BY DEF Finder!Erase
<1>2. FinderTypeOK'
  BY <1>1, SamePlaces DEF FinderTypeOK
<1>3. TreeInv'
  BY <1>1 DEF TreeInv, IsTree
<1>4. m_files' = {l \in m_files : Cardinality(l) # 1}
  BY FinderCounts DEF Finder!Erase
<1>5. \A j : Class(j)' = Class(j)
  BY <1>1, SamePlaces
<1>6. ListsInv'
  BY <1>1, <1>4, <1>5 DEF ListsInv
<1>7. ASSUME NEW p, NEW q, Twins(p, q) PROVE Waiting(p) /\ Waiting(p)'
  <2>1. p \in DOMAIN listed /\ p # q /\ p \in Class(p) /\ q \in Class(p)
    <3>1. p \in DOMAIN listed /\ p # q /\ (p \in Class(p) <=> q \in Class(p))
      BY <1>7, TwinsAre
    <3> QED
      BY <3>1 DEF Class
  <2>2. Class(p) \in m_files
    BY <1>1, <2>1 DEF ListsInv
  <2>3. Cardinality(Class(p)) # 1
    <3>1. IsFiniteSet(Class(p))
      <4>1. DOMAIN listed = 1..Len(listed) /\ Len(listed) \in Nat
        BY DEF FinderTypeOK
      <4>2. IsFiniteSet(DOMAIN listed)
        BY <4>1, FS_Interval
      <4> QED
        BY <4>2, FS_Subset DEF Class
    <3> QED
      BY <2>1, <3>1, FS_Singleton
  <2>4. Class(p) \in m_files'
    BY <1>4, <2>2, <2>3
  <2> QED
    BY <2>1, <2>2, <2>4 DEF Waiting
<1>8. ASSUME NEW p, NEW q, Twins(p, q)' PROVE FileInv(p)' /\ PairInv(p, q)'
  <2>1. Twins(p, q)
    BY <1>1, <1>8, SamePlaces
  <2>2. Twins(q, p)
    BY <2>1, TwinsAre
  <2>3. BlocksRead(p)' = BlocksRead(p) /\ BlocksRead(q)' = BlocksRead(q)
    BY <1>7, <2>1, <2>2 DEF BlocksRead
  <2> QED
    BY <1>1, <2>1, <2>3, SameFiles
<1> QED
  BY <1>2, <1>3, <1>6, <1>8

(* The next list: nothing of it is read yet. *)
LEMMA NextListInv ==
    ASSUME FinderTypeOK, ListsInv, TreeInv, \A p, q : Twins(p, q) => FileInv(p) /\ PairInv(p, q),
           Finder!NextList
    PROVE  (FinderTypeOK /\ ListsInv /\ TreeInv /\ (\A p, q : Twins(p, q) => FileInv(p) /\ PairInv(p, q)))'
<1>1. UNCHANGED <<listed, content, behind, tree, node>> /\ scan = "next" /\ block_num' = 0 /\ file_read' = FALSE
  BY DEF Finder!NextList
<1>2. FinderTypeOK'
  <2>1. scan' \in {"erase", "next", "read", "done"}
    BY DEF Finder!NextList
  <2>2. file_read' \in BOOLEAN /\ block_num' \in Nat
    BY <1>1
  <2> QED
    BY <1>1, <2>1, <2>2, SamePlaces DEF FinderTypeOK
<1>3. TreeInv'
  BY <1>1 DEF TreeInv, IsTree
<1>4. /\ \A j : Class(j)' = Class(j)
      /\ \A j : Finder!Size(j)' = Finder!Size(j)
      /\ \A f : Finder!LastBlock(f)' = Finder!LastBlock(f)
  BY <1>1, SamePlaces
<1>5. ListsInv' /\ \A p : BlocksRead(p)' = BlocksRead(p)
  <2>1. CASE m_files = {}
    <3>1. scan' = "done" /\ m_files' = {}
      BY <1>1, <2>1 DEF Finder!NextList
    <3>2. ListsInv'
      BY <3>1 DEF ListsInv
    <3>3. ASSUME NEW p PROVE BlocksRead(p)' = BlocksRead(p)
      BY <1>1, <1>4, <2>1, <3>1 DEF BlocksRead, Waiting, Reading
    <3> QED
      BY <3>2, <3>3
  <2>2. CASE m_files # {}
    <3>1. PICK l \in m_files : scan' = "read" /\ list' = l /\ left' = l /\ m_files' = m_files \ {l}
      BY <2>2 DEF Finder!NextList
    <3>2. PICK j \in DOMAIN listed : l = Class(j)
      BY DEF ListsInv
    <3>3. \A p \in l : Finder!Size(p) \in Nat
      <4>1. ASSUME NEW p \in l PROVE Len(content[listed[p]]) \in Nat
        <5>1. p \in DOMAIN listed
          BY <3>2 DEF Class
        <5>2. listed[p] \in DOMAIN content
          BY <5>1 DEF FinderTypeOK
        <5>3. content[listed[p]] \in Seq(Nat)
          BY <5>2 DEF FinderTypeOK
        <5> QED
          BY <5>3
      <4> QED
        BY <4>1 DEF Finder!Size
    <3>4. m_block_size \in Nat /\ 0 * m_block_size = 0
      BY FinderAssumption
    <3>5. ListsInv'
      BY <1>1, <1>4, <3>1, <3>2, <3>3, <3>4 DEF ListsInv
    <3>6. ASSUME NEW p PROVE BlocksRead(p)' = BlocksRead(p)
      <4>1. CASE p \in l
        <5>1. Waiting(p)
          BY <4>1 DEF Waiting
        <5>2. ~Waiting(p)'
          <6>1. ASSUME NEW k \in m_files, p \in k PROVE k = l
            <7>1. PICK i \in DOMAIN listed : k = Class(i)
              BY DEF ListsInv
            <7> QED
              BY <3>2, <4>1, <6>1, <7>1, OneClass
          <6> QED
            BY <3>1, <6>1 DEF Waiting
        <5>3. Reading(p)' /\ p \in left'
          BY <3>1, <4>1 DEF Reading
        <5> QED
          BY <1>1, <5>1, <5>2, <5>3 DEF BlocksRead
      <4>2. CASE p \notin l
        <5>1. Waiting(p)' <=> Waiting(p)
          BY <3>1, <4>2 DEF Waiting
        <5>2. ~Reading(p) /\ ~Reading(p)'
          BY <1>1, <3>1, <4>2 DEF Reading
        <5> QED
          BY <1>1, <1>4, <5>1, <5>2 DEF BlocksRead
      <4> QED
        BY <4>1, <4>2
    <3> QED
      BY <3>5, <3>6
  <2> QED
    BY <2>1, <2>2
<1>6. ASSUME NEW p, NEW q, Twins(p, q)' PROVE FileInv(p)' /\ PairInv(p, q)'
  <2>1. Twins(p, q)
    BY <1>1, <1>6, SamePlaces
  <2> QED
    BY <1>1, <1>5, <2>1, SameFiles
<1> QED
  BY <1>2, <1>3, <1>5, <1>6

(* The end of a block: its files have one more, or all of them had it all. *)
LEMMA BlockReadInv ==
    ASSUME FinderTypeOK, ListsInv, TreeInv, \A p, q : Twins(p, q) => FileInv(p) /\ PairInv(p, q),
           Finder!BlockRead
    PROVE  (FinderTypeOK /\ ListsInv /\ TreeInv /\ (\A p, q : Twins(p, q) => FileInv(p) /\ PairInv(p, q)))'
<1>1. /\ UNCHANGED <<m_files, listed, list, content, behind, tree, node>> /\ scan = "read" /\ left = {} /\ left' = list
      /\ block_num' = block_num + 1 /\ file_read' = FALSE
      /\ scan' = IF file_read THEN "read" ELSE "next"
  BY DEF Finder!BlockRead
<1>2. block_num \in Nat /\ file_read \in BOOLEAN /\ m_block_size \in Nat \ {0}
  BY FinderAssumption DEF FinderTypeOK
<1>3. FinderTypeOK'
  <2>1. block_num' \in Nat
    BY <1>1, <1>2
  <2>2. file_read' \in BOOLEAN
    BY <1>1
  <2>3. scan' \in {"erase", "next", "read", "done"}
    BY <1>1
  <2> QED
    BY <1>1, <2>1, <2>2, <2>3, SamePlaces DEF FinderTypeOK
<1>4. TreeInv'
  BY <1>1 DEF TreeInv, IsTree
<1>5. /\ \A j : Class(j)' = Class(j)
      /\ \A j : Finder!Size(j)' = Finder!Size(j)
      /\ \A f : Finder!LastBlock(f)' = Finder!LastBlock(f)
  BY <1>1, SamePlaces
<1>6. \A p \in list :
          /\ block_num * m_block_size <= Finder!Size(p)
          /\ file_read => (block_num + 1) * m_block_size <= Finder!Size(p)
          /\ ~file_read => Finder!Size(p) < (block_num + 1) * m_block_size
  BY <1>1 DEF ListsInv
<1>7. ListsInv'
  <2>1. \A l \in m_files' : \E j \in DOMAIN listed' : l = Class(j)'
    BY <1>1, <1>5 DEF ListsInv
  <2>2. scan' # "erase" /\ scan' # "done"
    BY <1>1
  <2>3. (\E j \in DOMAIN listed' : list' = Class(j)') /\ list' \notin m_files' /\ left' \subseteq list'
    BY <1>1, <1>5 DEF ListsInv
  <2>4. ASSUME scan' = "read", NEW p \in list' PROVE block_num' * m_block_size <= Finder!Size(p)'
    BY <1>1, <1>5, <1>6, <2>4
  <2>5. ~file_read' /\ (\A p \in list' : p \in left')
    BY <1>1
  <2> QED
    BY <2>1, <2>2, <2>3, <2>4, <2>5 DEF ListsInv
<1>8. ASSUME NEW p, NEW q, Twins(p, q) PROVE BlocksRead(p)' = BlocksRead(p)
  <2>1. Waiting(p)' <=> Waiting(p)
    BY <1>1 DEF Waiting
  <2>2. CASE Waiting(p) \/ p \notin list
    BY <1>1, <1>5, <2>1, <2>2 DEF BlocksRead, Reading
  <2>3. CASE ~Waiting(p) /\ p \in list
    <3>1. Finder!Size(p) \in Nat \ {0} /\ Finder!LastBlock(p) = (Finder!Size(p) - 1) \div m_block_size
      BY <1>8, TwinsAre DEF Finder!LastBlock, Finder!Size
    <3>2. BlocksRead(p) = IF Finder!Size(p) <= block_num * m_block_size THEN block_num ELSE block_num + 1
      BY <1>1, <2>3 DEF BlocksRead, Reading
    <3> DEFINE n == Finder!Size(p)
               low == block_num * m_block_size
               high == (block_num + 1) * m_block_size
    <3>3. low \in Nat /\ high = low + m_block_size
      BY <1>2, Z3
    <3>4. CASE file_read
      <4>1. BlocksRead(p)' = block_num + 1
        BY <1>1, <2>1, <2>3, <3>4 DEF BlocksRead, Reading
      <4>2. high <= n
        BY <1>6, <2>3, <3>4
      <4> HIDE DEF n, low, high
      <4>3. ~(n <= low)
        BY <1>2, <3>1, <3>3, <4>2 DEF n
      <4> QED
        BY <3>2, <4>1, <4>3 DEF n, low
    <3>5. CASE ~file_read
      <4>1. BlocksRead(p)' = Finder!LastBlock(p) + 1
        BY <1>1, <1>5, <2>1, <2>3, <3>5 DEF BlocksRead, Reading
      <4>2. low <= n /\ n < high
        BY <1>6, <2>3, <3>5
      <4>3. CASE n <= low
        <5>1. n = low /\ block_num # 0
          <6>1. n = low
            <7> HIDE DEF n, low
            <7> QED
              BY <3>1, <3>3, <4>2, <4>3 DEF n
          <6>2. block_num = 0 => low = 0
            BY <1>2
          <6> QED
            BY <3>1, <6>1, <6>2
        <5>2. PICK b \in Nat : block_num = b + 1
          <6>1. block_num - 1 \in Nat /\ block_num = (block_num - 1) + 1
            BY <1>2, <5>1
          <6> QED
            BY <6>1
        <5>3. b * m_block_size < n /\ n <= (b + 1) * m_block_size
          <6>1. (b + 1) * m_block_size = b * m_block_size + m_block_size /\ b * m_block_size \in Nat
            BY <1>2, Z3
          <6>2. (b + 1) * m_block_size = low
            BY <5>2
          <6> HIDE DEF n, low
          <6> QED
            BY <1>2, <3>3, <5>1, <6>1, <6>2
        <5>4. b = (n - 1) \div m_block_size
          BY <3>1, <5>3, BlocksOf
        <5> QED
          BY <3>1, <3>2, <4>1, <4>3, <5>2, <5>4
      <4>4. CASE ~(n <= low)
        <5>1. low < n /\ n <= high
          <6> HIDE DEF n, low, high
          <6> QED
            BY <1>2, <3>1, <3>3, <4>2, <4>4 DEF n
        <5>2. block_num = (n - 1) \div m_block_size
          BY <1>2, <3>1, <5>1, BlocksOf
        <5> QED
          BY <3>1, <3>2, <4>1, <4>4, <5>2
      <4> QED
        BY <4>3, <4>4
    <3> QED
      BY <1>2, <3>4, <3>5
  <2> QED
    BY <2>2, <2>3
<1>9. ASSUME NEW p, NEW q, Twins(p, q)' PROVE FileInv(p)' /\ PairInv(p, q)'
  <2>1. Twins(p, q)
    BY <1>1, <1>9, SamePlaces
  <2>2. Twins(q, p)
    BY <2>1, TwinsAre
  <2>3. BlocksRead(p)' = BlocksRead(p) /\ BlocksRead(q)' = BlocksRead(q)
    BY <1>8, <2>1, <2>2
  <2> QED
    BY <1>1, <2>1, <2>3, SameFiles
<1> QED
  BY <1>3, <1>4, <1>7, <1>9

(* Where a file goes with its next key. *)
LEMMA ReachedIs ==
    ASSUME IsTree(tree), NEW from, from = <<>> \/ from \in DOMAIN tree, NEW key \in Keys
    PROVE  /\ Finder!Reached(from, key) \in Seq(Keys) /\ Len(Finder!Reached(from, key)) >= 1
           /\ Finder!Last(Finder!Reached(from, key)) = key
           /\ from # <<>> => Finder!Reached(from, key) = Step(from, key)
           /\ from = <<>> /\ DOMAIN tree # {} => Finder!Reached(from, key) = Step(Root, key)
           /\ DOMAIN tree = {} => Finder!Reached(from, key) = <<key>>
           /\ DOMAIN tree # {} =>
                Finder!Reached(from, key) \in DOMAIN tree \/ Len(Finder!Reached(from, key)) >= 2
           /\ from = Finder!Reached(from, key) <=> from # <<>> /\ Finder!Last(from) = key
<1>1. ASSUME NEW s \in DOMAIN tree
      PROVE  /\ Step(s, key) \in Seq(Keys) /\ Len(Step(s, key)) >= 1 /\ Finder!Last(Step(s, key)) = key
             /\ Step(s, key) \in DOMAIN tree \/ Len(Step(s, key)) >= 2
             /\ s = Step(s, key) <=> Finder!Last(s) = key
             /\ s # <<>>
  <2>1. s \in Seq(Keys) /\ Len(s) >= 1 /\ Len(s) \in Nat
    BY DEF IsTree
  <2>2. Append(s, key) \in Seq(Keys) /\ Len(Append(s, key)) = Len(s) + 1 /\ Append(s, key)[Len(s) + 1] = key
    BY <2>1
  <2>3. Append(s, key) # s
    BY <2>1, <2>2
  <2>4. Finder!Last(Append(s, key)) = key
    BY <2>2 DEF Finder!Last
  <2>5. CASE Finder!Last(s) = key
    BY <2>1, <2>5 DEF Step
  <2>6. CASE Finder!Last(s) # key
    <3>1. Step(s, key) = Append(s, key)
      BY <2>6 DEF Step
    <3>2. Len(Step(s, key)) >= 2
      BY <2>1, <2>2, <3>1
    <3> QED
      BY <2>1, <2>2, <2>3, <2>4, <2>6, <3>1, <3>2
  <2> QED
    BY <2>5, <2>6
<1>2. CASE from # <<>>
  <2>1. from \in DOMAIN tree /\ Finder!Reached(from, key) = Step(from, key)
    BY <1>2 DEF Finder!Reached, Finder!Nothing, Step
  <2> QED
    BY <1>1, <1>2, <2>1
<1>3. CASE from = <<>> /\ DOMAIN tree # {}
  <2>1. Root \in DOMAIN tree
    BY <1>3 DEF IsTree, Root, RootOf
  <2>2. Finder!Reached(from, key) = Step(Root, key)
    BY <1>3 DEF Finder!Reached, Finder!Nothing, Step, Root, RootOf
  <2>3. from # Step(Root, key)
    BY <1>1, <1>3, <2>1
  <2> QED
    BY <1>1, <1>3, <2>1, <2>2, <2>3
<1>4. CASE from = <<>> /\ DOMAIN tree = {}
  <2>1. Finder!Reached(from, key) = <<key>>
    BY <1>4 DEF Finder!Reached, Finder!Nothing
  <2>2. <<key>> \in Seq(Keys) /\ Len(<<key>>) = 1 /\ <<key>>[1] = key /\ <<key>> # <<>>
    OBVIOUS
  <2> QED
    BY <1>4, <2>1, <2>2 DEF Finder!Last
<1> QED
  BY <1>2, <1>3, <1>4

(* A node that an addition may lead to. *)
Possible(to) ==
    /\ to \in Seq(Keys) /\ Len(to) >= 1
    /\ DOMAIN tree # {} => to \in DOMAIN tree \/ Len(to) >= 2
    /\ DOMAIN tree = {} => Len(to) = 1
(* What the tree becomes: the file is in its new node and no other. *)
Becomes(f, from, to, t) ==
    /\ IsTree(t) /\ DOMAIN t = DOMAIN tree \union {to}
    /\ DOMAIN tree # {} => RootOf(t) = Root
    /\ DOMAIN tree = {} => RootOf(t) = to
    /\ \A g, m : g # f /\ m \in DOMAIN t => (g \in t[m] <=> m \in DOMAIN tree /\ g \in tree[m])
    /\ \A m \in DOMAIN t : f \in t[m] <=> m # from /\ (m = to \/ (m \in DOMAIN tree /\ f \in tree[m]))
(* To add and remove a file has that effect on the tree. *)
LEMMA MovedIs ==
    ASSUME IsTree(tree), NEW f, NEW from, NEW to, Possible(to),
           NEW t, t = Finder!Moved(f, from, to)
    PROVE  Becomes(f, from, to, t)
<1> USE DEF Possible, Becomes
<1> DEFINE Value(n) == (IF n \in DOMAIN tree THEN tree[n] ELSE {}) \union IF n = to THEN {f} ELSE {}
<1>1. DOMAIN t = DOMAIN tree \union {to} /\ \A n \in DOMAIN t : t[n] = IF n = from THEN Value(n) \ {f} ELSE Value(n)
  BY DEF Finder!Moved
<1>2. \A g, m : g # f /\ m \in DOMAIN t => (g \in t[m] <=> m \in DOMAIN tree /\ g \in tree[m])
  BY <1>1
<1>3. \A m \in DOMAIN t : f \in t[m] <=> m # from /\ (m = to \/ (m \in DOMAIN tree /\ f \in tree[m]))
  BY <1>1
<1>4. ASSUME NEW m \in DOMAIN t PROVE m \in Seq(Keys) /\ Len(m) >= 1 /\ IsFiniteSet(t[m])
  <2>1. m \in Seq(Keys) /\ Len(m) >= 1
    BY <1>1 DEF IsTree
  <2>2. IsFiniteSet(IF m \in DOMAIN tree THEN tree[m] ELSE {})
    BY FS_EmptySet DEF IsTree
  <2>3. IsFiniteSet(IF m = to THEN {f} ELSE {})
    BY FS_EmptySet, FS_Singleton
  <2>4. IsFiniteSet(Value(m))
    <3> DEFINE A == IF m \in DOMAIN tree THEN tree[m] ELSE {}
               B == IF m = to THEN {f} ELSE {}
    <3>1. IsFiniteSet(A) /\ IsFiniteSet(B) /\ Value(m) = A \union B
      BY <2>2, <2>3
    <3> HIDE DEF A, B, Value
    <3> QED
      BY <3>1, FS_Union
  <2>5. t[m] \subseteq Value(m)
    BY <1>1
  <2> HIDE DEF Value
  <2> QED
    BY <2>1, <2>4, <2>5, FS_Subset
<1>5. ASSUME NEW r \in DOMAIN t, NEW s \in DOMAIN t, Len(r) = 1, Len(s) = 1 PROVE r = s
  <2>1. CASE DOMAIN tree = {}
    BY <1>1, <2>1
  <2>2. CASE DOMAIN tree # {}
    <3>1. r \in DOMAIN tree /\ s \in DOMAIN tree
      <4>1. CASE to \in DOMAIN tree
        BY <1>1, <4>1
      <4>2. CASE Len(to) >= 2
        <5>1. Len(to) # 1
          <6>1. PICK n \in Nat : n = Len(to)
            OBVIOUS
          <6>2. n # 1
            BY <4>2, <6>1
          <6> QED
            BY <6>1, <6>2
        <5> QED
          BY <1>1, <1>5, <5>1
      <4> QED
        BY <2>2, <4>1, <4>2
    <3> QED
      BY <1>5, <3>1 DEF IsTree
  <2> QED
    BY <2>1, <2>2
<1>6. CASE DOMAIN tree = {}
  <2>1. to \in DOMAIN t /\ Len(to) = 1
    BY <1>1, <1>6
  <2>2. IsTree(t)
    BY <1>4, <1>5, <2>1 DEF IsTree
  <2>3. RootOf(t) = to
    BY <1>5, <2>1 DEF RootOf
  <2> QED
    BY <1>1, <1>2, <1>3, <1>6, <2>2, <2>3
<1>7. CASE DOMAIN tree # {}
  <2>1. Root \in DOMAIN tree /\ Len(Root) = 1
    BY <1>7 DEF IsTree, Root, RootOf
  <2>2. Root \in DOMAIN t
    BY <1>1, <2>1
  <2>3. IsTree(t)
    BY <1>4, <1>5, <2>1, <2>2 DEF IsTree
  <2>4. RootOf(t) = Root
    BY <1>5, <2>1, <2>2 DEF RootOf
  <2> QED
    BY <1>1, <1>2, <1>3, <1>7, <2>3, <2>4
<1> QED
  BY <1>6, <1>7

(* A place of the list that is read is in no other list. *)
LEMMA NotWaiting ==
    ASSUME ListsInv, scan = "read", NEW p \in list
    PROVE  ~Waiting(p) /\ Reading(p)
<1>1. ASSUME NEW l \in m_files, p \in l PROVE FALSE
  <2>1. PICK i \in DOMAIN listed, j \in DOMAIN listed : l = Class(i) /\ list = Class(j)
    BY DEF ListsInv
  <2>2. l = list
    BY <1>1, <2>1, OneClass
  <2> QED
    BY <2>2 DEF ListsInv
<1> QED
  BY <1>1 DEF Waiting, Reading

(* A file of which the block is not there is left as it is, a file that is *)
(* read goes to the node of its key.                                       *)
FileRead(k) ==
    LET f == listed[k]
        from == IF f \in DOMAIN node THEN node[f] ELSE <<>>
        to == Finder!Reached(from, Finder!Hashed(k, block_num))
    IN  IF Finder!Size(k) <= block_num * m_block_size
        THEN UNCHANGED <<file_read, tree, node>>
        ELSE /\ tree' = Finder!Moved(f, from, to)
             /\ node' = [g \in DOMAIN node \union {f} |-> IF g = f THEN to ELSE node[g]]
             /\ file_read' = (file_read \/ (block_num + 1) * m_block_size <= Finder!Size(k))
Others == UNCHANGED <<m_files, listed, list, block_num, content, behind, scan>>

(* The sizes of a list's places are numbers, and one. *)
LEMMA SizeOfList ==
    ASSUME FinderTypeOK, ListsInv, scan = "read", NEW k \in list
    PROVE  /\ k \in DOMAIN listed /\ content[listed[k]] \in Seq(Nat) /\ Finder!Size(k) \in Nat
           /\ \A p \in list : Finder!Size(p) = Finder!Size(k)
<1>1. PICK j \in DOMAIN listed : list = Class(j)
  BY DEF ListsInv
<1>2. k \in DOMAIN listed /\ \A p \in list : Finder!Size(p) = Finder!Size(k)
  BY <1>1 DEF Class
<1>3. content[listed[k]] \in Seq(Nat)
  <2>1. listed[k] \in DOMAIN content
    BY <1>2 DEF FinderTypeOK
  <2> QED
    BY <2>1 DEF FinderTypeOK
<1> QED
  BY <1>2, <1>3 DEF Finder!Size

(* That is what a step of ReadBlock does. *)
LEMMA ReadFileIs ==
    ASSUME FinderTypeOK, ListsInv, Finder!ReadFile
    PROVE  /\ scan = "read" /\ Others
           /\ \E k \in left : left' = left \ {k} /\ k \in list /\ FileRead(k)
<1>1. scan = "read" /\ Others
  BY DEF Finder!ReadFile, Others
<1>2. PICK k \in left :
         /\ left' = left \ {k}
         /\ LET f == listed[k]
                bytes == Finder!BlockAt(f, block_num)
                from == IF f \in DOMAIN node THEN node[f] ELSE Finder!Nothing
                to == Finder!Reached(from, Finder!Hashed(k, block_num))
            IN  IF bytes = <<>>
                THEN UNCHANGED <<file_read, tree, node>>
                ELSE /\ tree' = Finder!Moved(f, from, to)
                     /\ node' = [g \in DOMAIN node \union {f} |-> IF g = f THEN to ELSE node[g]]
                     /\ file_read' = (file_read \/ Len(bytes) = m_block_size)
  BY DEF Finder!ReadFile
<1>3. k \in list
  BY <1>1 DEF ListsInv
<1>4. /\ Finder!BlockAt(listed[k], block_num) = <<>> <=> Finder!Size(k) <= block_num * m_block_size
      /\ Len(Finder!BlockAt(listed[k], block_num)) = m_block_size <=> (block_num + 1) * m_block_size <= Finder!Size(k)
  <2>1. content[listed[k]] \in Seq(Nat) /\ block_num \in Nat
    BY <1>1, <1>3, SizeOfList DEF FinderTypeOK
  <2> QED
    BY <2>1, BlockIs DEF Finder!Size
<1>5. FileRead(k)
  BY <1>2, <1>4, Zenon DEF FileRead, Finder!Nothing
<1> QED
  BY <1>1, <1>2, <1>3, <1>5

(* The lists while a file is read, and what is read of which file. *)
LEMMA ReadLists ==
    ASSUME FinderTypeOK, ListsInv, scan = "read", Others,
           NEW k \in left, left' = left \ {k}, k \in list, FileRead(k)
    PROVE  /\ FinderTypeOK' /\ ListsInv'
           /\ \A p \in DOMAIN listed : p # k => BlocksRead(p)' = BlocksRead(p)
           /\ BlocksRead(k) = block_num
           /\ BlocksRead(k)' = IF Finder!Size(k) <= block_num * m_block_size THEN block_num ELSE block_num + 1
           /\ \A p \in list : Finder!Size(p) > block_num * m_block_size =>
                BlocksRead(p) = block_num \/ BlocksRead(p) = block_num + 1
<1>1. UNCHANGED <<m_files, listed, list, block_num, content, behind, scan>>
  BY DEF Others
<1>2. block_num \in Nat /\ file_read \in BOOLEAN /\ m_block_size \in Nat \ {0}
  BY FinderAssumption DEF FinderTypeOK
<1>3. Finder!Size(k) \in Nat /\ \A p \in list : Finder!Size(p) = Finder!Size(k)
  BY SizeOfList
<1>4. /\ \A j : Class(j)' = Class(j)
      /\ \A j : Finder!Size(j)' = Finder!Size(j)
      /\ \A f : Finder!LastBlock(f)' = Finder!LastBlock(f)
  BY <1>1, SamePlaces
<1>5. /\ file_read' \in BOOLEAN
      /\ file_read' => file_read \/ (block_num + 1) * m_block_size <= Finder!Size(k)
      /\ ~file_read' => ~file_read /\ Finder!Size(k) < (block_num + 1) * m_block_size
  <2> DEFINE low == block_num * m_block_size
             high == (block_num + 1) * m_block_size
             n == Finder!Size(k)
  <2>1. low \in Nat /\ high = low + m_block_size
    BY <1>2, Z3
  <2>2. IF n <= low THEN file_read' = file_read ELSE file_read' = (file_read \/ high <= n)
    BY DEF FileRead
  <2>3. n \in Nat
    BY <1>3
  <2> HIDE DEF low, high, n
  <2>4. n <= low => n < high
    BY <1>2, <2>1, <2>3
  <2>5. ~(high <= n) <=> n < high
    BY <1>2, <2>1, <2>3
  <2>6. file_read' \in BOOLEAN
    <3>1. CASE n <= low
      BY <1>2, <2>2, <3>1, Zenon
    <3>2. CASE ~(n <= low)
      <4>1. (file_read \/ high <= n) \in BOOLEAN
        BY <1>2, Zenon
      <4> QED
        BY <2>2, <3>2, <4>1, Zenon
    <3> QED
      BY <3>1, <3>2
  <2>7. file_read' => file_read \/ high <= n
    BY <2>2, Zenon
  <2>8. ~file_read' => ~file_read /\ n < high
    BY <2>2, <2>4, <2>5, Zenon
  <2> QED
    BY <2>6, <2>7, <2>8, Zenon DEF high, n
<1>6. FinderTypeOK'
  BY <1>1, <1>2, <1>5, SamePlaces DEF FinderTypeOK
<1>7. ListsInv'
  <2>1. \A l \in m_files' : \E j \in DOMAIN listed' : l = Class(j)'
    BY <1>1, <1>4 DEF ListsInv
  <2>2. (\E j \in DOMAIN listed' : list' = Class(j)') /\ list' \notin m_files' /\ left' \subseteq list'
    BY <1>1, <1>4 DEF ListsInv
  <2>3. ASSUME NEW p \in list'
        PROVE  /\ block_num' * m_block_size <= Finder!Size(p)'
               /\ file_read' => (block_num' + 1) * m_block_size <= Finder!Size(p)'
               /\ ~file_read' /\ p \notin left' => Finder!Size(p)' < (block_num' + 1) * m_block_size
    <3>1. p \in list /\ Finder!Size(p)' = Finder!Size(k) /\ block_num' = block_num /\ Finder!Size(p) = Finder!Size(k)
      BY <1>1, <1>3, <1>4
    <3>2. block_num * m_block_size <= Finder!Size(k)
      BY <3>1 DEF ListsInv
    <3>3. file_read' => (block_num + 1) * m_block_size <= Finder!Size(k)
      <4>1. file_read => (block_num + 1) * m_block_size <= Finder!Size(k)
        BY DEF ListsInv
      <4> QED
        BY <1>5, <4>1, Zenon
    <3>4. ~file_read' => Finder!Size(k) < (block_num + 1) * m_block_size
      BY <1>5, Zenon
    <3> QED
      BY <3>1, <3>2, <3>3, <3>4
  <2>4. scan' = "read"
    BY <1>1
  <2> QED
    BY <2>1, <2>2, <2>3, <2>4 DEF ListsInv
<1>8. ASSUME NEW p PROVE (Waiting(p)' <=> Waiting(p)) /\ (Reading(p)' <=> Reading(p))
  BY <1>1 DEF Waiting, Reading
<1>9. ASSUME NEW p \in DOMAIN listed, p # k PROVE BlocksRead(p)' = BlocksRead(p)
  BY <1>1, <1>4, <1>8, <1>9 DEF BlocksRead
<1>10. BlocksRead(k) = block_num
  BY NotWaiting DEF BlocksRead
<1>11. BlocksRead(k)' = IF Finder!Size(k) <= block_num * m_block_size THEN block_num ELSE block_num + 1
  BY <1>1, <1>4, <1>8, NotWaiting DEF BlocksRead
<1>12. ASSUME NEW p \in list PROVE BlocksRead(p) = block_num \/ BlocksRead(p) = block_num + 1
  BY NotWaiting DEF BlocksRead
<1> QED
  BY <1>6, <1>7, <1>9, <1>10, <1>11, <1>12

(* What one block of a file does to the tree: where the file was, its key  *)
(* and where it is.                                                        *)
Placed(f, from, key, to) ==
    /\ from = (IF f \in DOMAIN node THEN node[f] ELSE <<>>)
    /\ to = Finder!Reached(from, key)
    /\ tree' = Finder!Moved(f, from, to)
    /\ node' = [g \in DOMAIN node \union {f} |-> IF g = f THEN to ELSE node[g]]

(* What comes of that: the file is there and nowhere else; the others are  *)
(* where they were; the root is the same.                                  *)
Goes(f, from, key, to) ==
    /\ TreeInv'
    /\ f \in DOMAIN node' /\ node'[f] = to /\ Finder!Last(to) = key
    /\ \A g : g # f => (g \in DOMAIN node' <=> g \in DOMAIN node) /\ (g \in DOMAIN node => node'[g] = node[g])
    /\ DOMAIN tree' = DOMAIN tree \union {to}
    /\ DOMAIN tree # {} => Root' = Root
    /\ DOMAIN tree = {} => Root' = to
    /\ f \in DOMAIN node => to = Step(node[f], key) /\ from = node[f] /\ (to = from <=> Finder!Last(from) = key)
    /\ f \notin DOMAIN node /\ DOMAIN tree # {} => to = Step(Root, key)
    /\ f \notin DOMAIN node /\ DOMAIN tree = {} => to = Step(to, key)
    /\ f \notin DOMAIN node => from = <<>>
    /\ \A g, m : g # f /\ m \in DOMAIN tree' => (g \in tree'[m] <=> m \in DOMAIN tree /\ g \in tree[m])
    /\ \A m \in DOMAIN tree' :
         m # <<>> /\ (f \in tree'[m] <=> m # from /\ (m = to \/ (m \in DOMAIN tree /\ f \in tree[m])))

(* A block of a file has that effect. *)
LEMMA PlacedIs ==
    ASSUME TreeInv, NEW f, NEW from, NEW key \in Keys, NEW to, Placed(f, from, key, to)
    PROVE  Goes(f, from, key, to)
<1> USE DEF Goes
<1>1. IsTree(tree) /\ \A g \in DOMAIN node : node[g] \in DOMAIN tree
  BY DEF TreeInv
<1>2. from = (IF f \in DOMAIN node THEN node[f] ELSE <<>>) /\ to = Finder!Reached(from, key)
  BY DEF Placed
<1>3. from = <<>> \/ from \in DOMAIN tree
  BY <1>1, <1>2
<1>4. f \in DOMAIN node => from = node[f] /\ from # <<>> /\ DOMAIN tree # {}
  <2>1. \A m \in DOMAIN tree : m # <<>>
    <3>1. ASSUME NEW m \in DOMAIN tree PROVE m # <<>>
      <4>1. m \in Seq(Keys) /\ Len(m) >= 1
        BY <1>1 DEF IsTree
      <4> QED
        BY <4>1
    <3> QED
      BY <3>1
  <2> QED
    BY <1>1, <1>2, <2>1
<1>5. /\ to \in Seq(Keys) /\ Len(to) >= 1
      /\ Finder!Last(to) = key
      /\ from # <<>> => to = Step(from, key)
      /\ from = <<>> /\ DOMAIN tree # {} => to = Step(Root, key)
      /\ DOMAIN tree = {} => to = <<key>>
      /\ DOMAIN tree # {} => to \in DOMAIN tree \/ Len(to) >= 2
      /\ from = to <=> from # <<>> /\ Finder!Last(from) = key
  BY <1>1, <1>2, <1>3, ReachedIs
<1>6. DOMAIN tree = {} => Len(to) = 1
  BY <1>5
<1>7. /\ IsTree(tree') /\ DOMAIN tree' = DOMAIN tree \union {to}
      /\ DOMAIN tree # {} => RootOf(tree') = Root
      /\ DOMAIN tree = {} => RootOf(tree') = to
      /\ \A g, m : g # f /\ m \in DOMAIN tree' => (g \in tree'[m] <=> m \in DOMAIN tree /\ g \in tree[m])
      /\ \A m \in DOMAIN tree' : f \in tree'[m] <=> m # from /\ (m = to \/ (m \in DOMAIN tree /\ f \in tree[m]))
  <2>1. PICK t : t = tree'
    OBVIOUS
  <2>2. t = Finder!Moved(f, from, to)
    BY <2>1 DEF Placed
  <2>3. Possible(to)
    BY <1>5, <1>6 DEF Possible
  <2>4. Becomes(f, from, to, t)
    BY <1>1, <2>2, <2>3, MovedIs
  <2> QED
    BY <2>1, <2>4 DEF Becomes
<1>8. /\ DOMAIN node' = DOMAIN node \union {f} /\ node'[f] = to
      /\ \A g \in DOMAIN node : g # f => node'[g] = node[g]
  BY DEF Placed
<1>9. TreeInv'
  BY <1>1, <1>7, <1>8 DEF TreeInv, IsTree
<1>10. (DOMAIN tree # {} => Root' = Root) /\ (DOMAIN tree = {} => Root' = to)
  BY <1>7 DEF Root
<1>11. DOMAIN tree = {} => to = Step(to, key)
  BY <1>5 DEF Step
<1>12. \A m \in DOMAIN tree' : m # <<>>
  <2>1. ASSUME NEW m \in DOMAIN tree' PROVE m # <<>>
    <3>1. m \in Seq(Keys) /\ Len(m) >= 1
      BY <1>7 DEF IsTree
    <3> QED
      BY <3>1
  <2> QED
    BY <2>1
<1> QED
  BY <1>2, <1>4, <1>5, <1>7, <1>8, <1>9, <1>10, <1>11, <1>12
(* How many blocks of a twin were read is a number. *)
LEMMA ReadIsNumber ==
    ASSUME FinderTypeOK, NEW p, NEW q, Twins(p, q)
    PROVE  BlocksRead(p) \in Nat
<1>1. Finder!LastBlock(p) \in Nat
  BY TwinsAre
<1>2. block_num \in Nat
  BY DEF FinderTypeOK
<1> QED
  BY <1>1, <1>2 DEF BlocksRead

(* The next file of a block: it goes the way its twin went or will go. *)
LEMMA ReadFileInv ==
    ASSUME FinderTypeOK, ListsInv, TreeInv, \A p, q : Twins(p, q) => FileInv(p) /\ PairInv(p, q),
           Finder!ReadFile
    PROVE  (FinderTypeOK /\ ListsInv /\ TreeInv /\ (\A p, q : Twins(p, q) => FileInv(p) /\ PairInv(p, q)))'
<1>1. scan = "read" /\ Others
  BY ReadFileIs
<1>2. PICK k \in left : left' = left \ {k} /\ k \in list /\ FileRead(k)
  BY ReadFileIs
<1>3. /\ FinderTypeOK' /\ ListsInv'
      /\ \A p \in DOMAIN listed : p # k => BlocksRead(p)' = BlocksRead(p)
      /\ BlocksRead(k) = block_num
      /\ BlocksRead(k)' = IF Finder!Size(k) <= block_num * m_block_size THEN block_num ELSE block_num + 1
      /\ \A p \in list : Finder!Size(p) > block_num * m_block_size =>
           BlocksRead(p) = block_num \/ BlocksRead(p) = block_num + 1
  BY <1>1, <1>2, ReadLists
<1>4. UNCHANGED <<content, behind, listed>>
  BY <1>1 DEF Others
<1>5. \A p, q : Twins(p, q)' <=> Twins(p, q)
  BY <1>4, SamePlaces
<1>6. k \in DOMAIN listed /\ content[listed[k]] \in Seq(Nat) /\ Finder!Size(k) \in Nat /\ block_num \in Nat
  BY <1>1, <1>2, SizeOfList DEF FinderTypeOK
<1>7. CASE Finder!Size(k) <= block_num * m_block_size
  <2>1. UNCHANGED <<tree, node>>
    BY <1>2, <1>7 DEF FileRead
  <2>2. TreeInv'
    BY <2>1 DEF TreeInv, IsTree
  <2>3. ASSUME NEW p, NEW q, Twins(p, q) PROVE FileInv(p)' /\ PairInv(p, q)'
    <3>1. p \in DOMAIN listed /\ q \in DOMAIN listed
      BY <2>3 DEF Twins
    <3>2. BlocksRead(p)' = BlocksRead(p) /\ BlocksRead(q)' = BlocksRead(q)
      BY <1>3, <1>7, <3>1
    <3> QED
      BY <1>4, <2>1, <2>3, <3>2, SameFiles
  <2> QED
    BY <1>3, <1>5, <2>2, <2>3
<1>8. CASE ~(Finder!Size(k) <= block_num * m_block_size)
  <2> DEFINE f == listed[k]
             from == IF f \in DOMAIN node THEN node[f] ELSE <<>>
  <2>1. PICK key : /\ key = Finder!Hashed(k, block_num)
                   /\ tree' = Finder!Moved(f, from, Finder!Reached(from, key))
                   /\ node' = [g \in DOMAIN node \union {f} |-> IF g = f THEN Finder!Reached(from, key) ELSE node[g]]
    BY <1>2, <1>8 DEF FileRead
  <2>2. key \in Keys /\ key = KeyOf(k, block_num)
    <3>1. block_num * m_block_size \in Nat
      BY <1>6, FinderAssumption, Z3
    <3>2. block_num * m_block_size < Finder!Size(k)
      BY <1>6, <1>8, <3>1
    <3> QED
      BY <1>6, <2>1, <3>2, KeyIs
  <2>3. PICK to : Placed(f, from, key, to)
    BY <2>1 DEF Placed
  <2> HIDE DEF f, from
  <2>4. /\ TreeInv'
        /\ f \in DOMAIN node' /\ node'[f] = to /\ Finder!Last(to) = key
        /\ \A g : g # f => (g \in DOMAIN node' <=> g \in DOMAIN node) /\ (g \in DOMAIN node => node'[g] = node[g])
        /\ DOMAIN tree' = DOMAIN tree \union {to}
        /\ DOMAIN tree # {} => Root' = Root
        /\ DOMAIN tree = {} => Root' = to
        /\ f \in DOMAIN node => to = Step(node[f], key) /\ from = node[f] /\ (to = from <=> Finder!Last(from) = key)
        /\ f \notin DOMAIN node /\ DOMAIN tree # {} => to = Step(Root, key)
        /\ f \notin DOMAIN node /\ DOMAIN tree = {} => to = Step(to, key)
        /\ f \notin DOMAIN node => from = <<>>
        /\ \A g, m : g # f /\ m \in DOMAIN tree' => (g \in tree'[m] <=> m \in DOMAIN tree /\ g \in tree[m])
        /\ \A m \in DOMAIN tree' :
             m # <<>> /\ (f \in tree'[m] <=> m # from /\ (m = to \/ (m \in DOMAIN tree /\ f \in tree[m])))
    <3>1. Goes(f, from, key, to)
      BY <2>2, <2>3, PlacedIs
    <3> QED
      BY <3>1 DEF Goes
  <2>5. \A g \in DOMAIN node : node[g] \in DOMAIN tree
    BY DEF TreeInv
  <2>6. \A g, b : KeyOf(g, b)' = KeyOf(g, b)
    BY <1>4, SamePlaces
  <2>7. BlocksRead(k) = block_num /\ BlocksRead(k)' = block_num + 1
    BY <1>3, <1>8
  <2>8. ASSUME NEW q, Twins(k, q) \/ Twins(q, k)
        PROVE  /\ key = KeyOf(k, block_num) /\ \A b : KeyOf(q, b) = KeyOf(k, b)
               /\ BlocksRead(q)' = BlocksRead(q) /\ BlocksRead(q) \in {block_num, block_num + 1}
               /\ listed[q] # f /\ Twins(k, q) /\ Twins(q, k)
    <3>1. Twins(k, q) /\ Twins(q, k)
      BY <2>8, TwinsAre
    <3>2. Finder!Size(k) \in Nat \ {0} /\ Finder!Size(q) = Finder!Size(k) /\ \A b : KeyOf(q, b) = KeyOf(k, b)
      BY <3>1, TwinsAre DEF f
    <3>3. key = KeyOf(k, block_num)
      BY <2>2
    <3>4. q \in list
      <4>1. PICK j \in DOMAIN listed : list = Class(j)
        BY <1>1 DEF ListsInv
      <4> QED
        BY <1>2, <3>1, <4>1, TwinsAre
    <3>5. BlocksRead(q) \in {block_num, block_num + 1}
      <4>1. Finder!Size(q) > block_num * m_block_size
        <5>1. block_num * m_block_size \in Nat
          BY <1>6, FinderAssumption, Z3
        <5> QED
          BY <1>6, <1>8, <3>2, <5>1
      <4> QED
        BY <1>3, <3>4, <4>1
    <3>6. listed[q] # f /\ q \in DOMAIN listed /\ q # k
      BY <3>1 DEF Twins, Finder!Once, f
    <3> QED
      BY <1>3, <3>1, <3>2, <3>3, <3>5, <3>6
  <2>9. ASSUME NEW q, Twins(k, q) PROVE FileInv(k)'
    <3>1. key = KeyOf(k, block_num)
      BY <2>8, <2>9
    <3>2. FileInv(k)
      BY <2>9
    <3>3. CASE block_num = 0
      <4>1. f \notin DOMAIN node /\ \A m \in DOMAIN tree : f \notin tree[m]
        BY <2>7, <3>2, <3>3 DEF FileInv, f
      <4>2. \A m \in DOMAIN tree' : f \in tree'[m] <=> m = to
        BY <2>4, <4>1
      <4>3. block_num + 1 = 1 /\ 1 - 1 = 0
        BY <3>3
      <4> QED
        BY <1>4, <2>4, <2>6, <2>7, <3>1, <3>3, <4>2, <4>3 DEF FileInv, f
    <3>4. CASE block_num # 0
      <4>1. /\ f \in DOMAIN node
            /\ Finder!Last(node[f]) = KeyOf(k, block_num - 1)
            /\ \A m \in DOMAIN tree : f \in tree[m] => m = node[f]
        BY <2>7, <3>2, <3>4 DEF FileInv, f
      <4>2. \A m \in DOMAIN tree' : f \in tree'[m] <=> m = to /\ KeyOf(k, block_num) # KeyOf(k, block_num - 1)
        BY <2>4, <3>1, <4>1
      <4>3. /\ block_num + 1 # 0 /\ block_num + 1 # 1
            /\ (block_num + 1) - 1 = block_num /\ (block_num + 1) - 2 = block_num - 1
        BY <1>6, <3>4
      <4>4. PICK n : n = block_num + 1
        OBVIOUS
      <4> QED
        BY <1>4, <2>4, <2>6, <2>7, <3>1, <4>2, <4>3, <4>4 DEF FileInv, f
    <3> QED
      BY <3>3, <3>4
  <2>10. ASSUME NEW p, NEW q, Twins(p, q), p # k PROVE FileInv(p)' /\ listed[p] # f /\ BlocksRead(p)' = BlocksRead(p)
    <3>1. p \in DOMAIN listed /\ listed[p] # f
      BY <1>6, <2>10 DEF Twins, Finder!Once, f
    <3>2. BlocksRead(p)' = BlocksRead(p)
      BY <1>3, <2>10, <3>1
    <3>3. FileInv(p)
      BY <2>10
    <3> DEFINE g == listed[p]
               n == BlocksRead(p)
    <3>4. CASE n = 0
      <4>1. g \notin DOMAIN node' /\ \A m \in DOMAIN tree' : g \notin tree'[m]
        BY <2>4, <3>1, <3>3, <3>4 DEF FileInv
      <4> QED
        BY <1>4, <3>1, <3>2, <3>4, <4>1 DEF FileInv
    <3>5. CASE n # 0
      <4>1. /\ g \in DOMAIN node
            /\ Finder!Last(node[g]) = KeyOf(p, n - 1)
            /\ \A m \in DOMAIN tree :
                 g \in tree[m] <=> (m = node[g] /\ (n = 1 \/ KeyOf(p, n - 1) # KeyOf(p, n - 2)))
        BY <3>3, <3>5 DEF FileInv
      <4>2. g \in DOMAIN node' /\ node'[g] = node[g] /\ node[g] \in DOMAIN tree
        BY <2>4, <2>5, <3>1, <4>1
      <4>3. \A m \in DOMAIN tree' :
               g \in tree'[m] <=> (m = node[g] /\ (n = 1 \/ KeyOf(p, n - 1) # KeyOf(p, n - 2)))
        <5> HIDE DEF n, g
        <5>1. g # f
          BY <3>1 DEF g
        <5> QED
          BY <2>4, <4>1, <4>2, <5>1
      <4> QED
        BY <1>4, <2>6, <3>1, <3>2, <3>5, <4>1, <4>2, <4>3 DEF FileInv
    <3> QED
      BY <3>1, <3>2, <3>4, <3>5
  <2>11. ASSUME NEW q, Twins(k, q) PROVE FileInv(q) /\ PairInv(k, q) /\ PairInv(q, k)
    BY <2>8, <2>11
  <2> DEFINE Begun == IF block_num = 0 THEN Root ELSE node[f]
  <2>12. ASSUME NEW q, Twins(k, q), BlocksRead(q) = block_num + 1
         PROVE  node'[f] = node'[listed[q]]
    <3>1. listed[q] # f /\ key = KeyOf(k, block_num)
      BY <2>8, <2>12
    <3>2. block_num + 1 # 0
      BY <1>6
    <3>3. listed[q] \in DOMAIN node
      BY <2>11, <2>12, <3>2 DEF FileInv
    <3>4. node[listed[q]] = Step(Begun, key)
      BY <2>7, <2>11, <2>12, <3>1 DEF PairInv, f
    <3>5. DOMAIN tree # {}
      BY <2>5, <3>3
    <3>6. FileInv(k)
      BY <2>12
    <3>7. to = Step(Begun, key)
      <4>1. CASE block_num = 0
        BY <2>4, <2>7, <3>5, <3>6, <4>1 DEF FileInv, f
      <4>2. CASE block_num # 0
        BY <2>4, <2>7, <3>6, <4>2 DEF FileInv, f
      <4> QED
        BY <4>1, <4>2
    <3> QED
      BY <2>4, <3>1, <3>3, <3>4, <3>7
  <2>13. ASSUME NEW q, Twins(k, q), BlocksRead(q) = block_num
         PROVE  node'[f] = Step(IF block_num = 0 THEN Root' ELSE node'[listed[q]], key)
    <3>1. listed[q] # f
      BY <2>8, <2>13
    <3>2. FileInv(k)
      BY <2>13
    <3>3. CASE block_num = 0
      BY <2>4, <2>7, <3>2, <3>3 DEF FileInv, f
    <3>4. CASE block_num # 0
      <4>1. node[f] = node[listed[q]]
        BY <2>7, <2>11, <2>13, <3>4 DEF PairInv, f
      <4>2. f \in DOMAIN node /\ listed[q] \in DOMAIN node
        BY <2>7, <2>11, <2>13, <3>2, <3>4 DEF FileInv, f
      <4> QED
        BY <2>4, <3>1, <3>4, <4>1, <4>2
    <3> QED
      BY <3>3, <3>4
  <2>14. ASSUME NEW q, Twins(k, q) PROVE PairInv(k, q)'
    <3>1. key = KeyOf(k, block_num) /\ KeyOf(q, block_num) = key /\ BlocksRead(q)' = BlocksRead(q)
          /\ BlocksRead(q) \in {block_num, block_num + 1}
      BY <2>8, <2>14
    <3>2. BlocksRead(q) = block_num + 1 => node'[f] = node'[listed[q]]
      BY <2>12, <2>14
    <3>3. BlocksRead(q) = block_num => node'[f] = Step(IF block_num = 0 THEN Root' ELSE node'[listed[q]], key)
      BY <2>13, <2>14
    <3>4. block_num + 1 = BlocksRead(q) + 1 => BlocksRead(q) = block_num
      BY <1>6, <3>1
    <3>5. CASE BlocksRead(q) = block_num + 1
      <4>1. block_num + 1 # (block_num + 1) + 1
        BY <1>6
      <4> QED
        BY <1>4, <2>7, <3>1, <3>2, <3>5, <4>1 DEF PairInv, f
    <3>6. CASE BlocksRead(q) = block_num
      <4>1. block_num + 1 # block_num
        BY <1>6
      <4>2. \A s : Step(s, key)' = Step(s, key)
        BY DEF Step, Finder!Last
      <4> QED
        BY <1>4, <2>6, <2>7, <3>1, <3>3, <3>6, <4>1 DEF PairInv, f, Step, Finder!Last
    <3> QED
      BY <3>1, <3>5, <3>6
  <2>15. ASSUME NEW q, Twins(k, q) PROVE PairInv(q, k)'
    <3>1. BlocksRead(q)' = BlocksRead(q) /\ BlocksRead(q) \in {block_num, block_num + 1}
      BY <2>8, <2>15
    <3>2. BlocksRead(q) = block_num + 1 => node'[listed[q]] = node'[f]
      BY <2>12, <2>15
    <3>3. BlocksRead(q) # (block_num + 1) + 1
      BY <1>6, <3>1
    <3> QED
      BY <1>4, <2>7, <3>1, <3>2, <3>3 DEF PairInv, f
  <2>16. ASSUME NEW p, NEW q, Twins(p, q), p # k, q # k PROVE PairInv(p, q)'
    <3>1. Twins(q, p) /\ PairInv(p, q) /\ FileInv(p) /\ FileInv(q)
      BY <2>16, TwinsAre
    <3>2. BlocksRead(p)' = BlocksRead(p) /\ BlocksRead(q)' = BlocksRead(q) /\ listed[p] # f /\ listed[q] # f
      BY <2>10, <2>16, <3>1
    <3> DEFINE g == listed[p]
               h == listed[q]
               n == BlocksRead(q)
               m == BlocksRead(p)
    <3>3. m # 0 => g \in DOMAIN node /\ node'[g] = node[g] /\ DOMAIN tree # {} /\ Root' = Root
      <4>1. m # 0 => g \in DOMAIN node
        BY <3>1 DEF FileInv
      <4>2. g \in DOMAIN node => DOMAIN tree # {}
        BY <2>5
      <4> QED
        BY <2>4, <3>2, <4>1, <4>2
    <3>4. n # 0 => h \in DOMAIN node /\ node'[h] = node[h]
      <4>1. n # 0 => h \in DOMAIN node
        BY <3>1 DEF FileInv
      <4> QED
        BY <2>4, <3>2, <4>1
    <3>5. m = n /\ n # 0 => node'[g] = node'[h]
      BY <3>1, <3>3, <3>4 DEF PairInv
    <3>6. m = n + 1 => m # 0
      <4>1. n \in Nat
        BY <3>1, ReadIsNumber
      <4> HIDE DEF n, m
      <4> QED
        BY <4>1
    <3>7. m = n + 1 => node'[g] = Step(IF n = 0 THEN Root' ELSE node'[h], KeyOf(q, n))
      <4>1. m = n + 1 => node[g] = Step(IF n = 0 THEN Root ELSE node[h], KeyOf(q, n))
        BY <3>1 DEF PairInv
      <4> HIDE DEF n, m, g, h
      <4> QED
        BY <3>3, <3>4, <3>6, <4>1
    <3> QED
      BY <1>4, <2>6, <3>2, <3>5, <3>7 DEF PairInv, Step, Finder!Last
  <2>17. ASSUME NEW p, NEW q, Twins(p, q) PROVE FileInv(p)' /\ PairInv(p, q)'
    <3>1. CASE p = k
      BY <2>9, <2>14, <2>17, <3>1
    <3>2. CASE p # k /\ q = k
      <4>1. Twins(k, p)
        BY <2>17, <3>2, TwinsAre
      <4> QED
        BY <2>10, <2>15, <2>17, <3>2, <4>1
    <3>3. CASE p # k /\ q # k
      BY <2>10, <2>16, <2>17, <3>3
    <3> QED
      BY <3>1, <3>2, <3>3
  <2> QED
    BY <1>3, <1>5, <2>4, <2>17
<1> QED
  BY <1>7, <1>8

(* The invariant of the finder is inductive. *)
LEMMA FinderInductive == DataSpec => []FinderInv
<1> DEFINE Inv == FinderTypeOK /\ ListsInv /\ TreeInv /\ \A p, q : Twins(p, q) => FileInv(p) /\ PairInv(p, q)
<1>1. ASSUME Inv, UNCHANGED finderVars PROVE Inv'
  <2>1. UNCHANGED <<m_files, listed, list, left, block_num, file_read, content, behind, tree, node, scan>>
    BY <1>1 DEF finderVars
  <2>2. FinderTypeOK'
    BY <1>1, <2>1, SamePlaces DEF FinderTypeOK
  <2>3. TreeInv'
    BY <1>1, <2>1 DEF TreeInv, IsTree
  <2>4. /\ \A p, q : Twins(p, q)' <=> Twins(p, q)
        /\ \A j : Class(j)' = Class(j)
        /\ \A j : Finder!Size(j)' = Finder!Size(j)
        /\ \A f : Finder!LastBlock(f)' = Finder!LastBlock(f)
    BY <2>1, SamePlaces
  <2>5. ListsInv'
    BY <1>1, <2>1, <2>4 DEF ListsInv
  <2>6. ASSUME NEW p PROVE BlocksRead(p)' = BlocksRead(p)
    BY <2>1, <2>4 DEF BlocksRead, Waiting, Reading
  <2>7. ASSUME NEW p, NEW q, Twins(p, q) PROVE FileInv(p)' /\ PairInv(p, q)'
    BY <1>1, <2>1, <2>6, <2>7, SameFiles
  <2> QED
    BY <2>2, <2>3, <2>4, <2>5, <2>7
<1>2. ASSUME Inv, Finder!FinderNext PROVE Inv'
  <2>1. CASE Finder!Erase
    BY <1>2, <2>1, ErasedInv
  <2>2. CASE Finder!NextList
    BY <1>2, <2>2, NextListInv
  <2>3. CASE Finder!ReadFile
    BY <1>2, <2>3, ReadFileInv
  <2>4. CASE Finder!BlockRead
    BY <1>2, <2>4, BlockReadInv
  <2> QED
    BY <1>2, <2>1, <2>2, <2>3, <2>4 DEF Finder!FinderNext
<1>3. ASSUME FinderInv, [DataNext]_dataVars PROVE FinderInv'
  <2>1. UNCHANGED program
    BY <1>3 DEF DataNext, dataVars
  <2>2. program = "finder" => Finder!FinderNext \/ UNCHANGED finderVars
    BY <1>3 DEF DataNext, dataVars
  <2>3. program = "finder" => Inv
    BY <1>3 DEF FinderInv
  <2>4. program = "finder" => Inv'
    <3> HIDE DEF Inv
    <3> QED
      BY <1>1, <1>2, <2>2, <2>3
  <2> QED
    BY <2>1, <2>4 DEF FinderInv
<1> QED
  BY FinderStarts, <1>3, PTL DEF DataSpec

(* Duplicates are found, whatever the order of the hash table and whatever *)
(* other files are in the tree: two files of one size, listed once each,   *)
(* whose blocks gave the same strings, end in one node and are reported    *)
(* together, or not at all if their last two blocks gave the same string   *)
(* (FileScanner::ReadBlock, HashTree::Add and Remove of 09_Boost).         *)
THEOREM EqualFilesFound == DataSpec => []DuplicatesFound
<1>1. ASSUME FinderInv, program = "finder", scan = "done",
             NEW p \in DOMAIN listed, NEW q \in DOMAIN listed, p # q, Finder!Once(p), Finder!Once(q),
             Finder!Size(p) = Finder!Size(q), Finder!Size(q) # 0, Finder!SameStrings(p, q)
      PROVE  /\ node[listed[p]] = node[listed[q]]
             /\ \A r \in Finder!Reported : listed[p] \in r <=> listed[q] \in r
             /\ (\E r \in Finder!Reported : listed[q] \in r) <=> Finder!LastBlockMoves(q)
  <2> DEFINE f == listed[p]
             g == listed[q]
  <2>1. FinderTypeOK /\ ListsInv /\ TreeInv /\ \A a, b : Twins(a, b) => FileInv(a) /\ PairInv(a, b)
    BY <1>1 DEF FinderInv
  <2>2. f # g
    BY <1>1 DEF Finder!Once
  <2>3. \A b : KeyOf(p, b) = KeyOf(q, b)
    <3>1. Finder!LastBlock(p) = Finder!LastBlock(q)
      BY <1>1 DEF Finder!LastBlock
    <3> QED
      BY <1>1, <3>1 DEF KeyOf, Finder!SameStrings
  <2>5. Twins(p, q)
    BY <1>1, <2>3 DEF Twins
  <2>6. Twins(q, p) /\ Finder!LastBlock(p) = Finder!LastBlock(q) /\ Finder!LastBlock(q) \in Nat
    BY <2>1, <2>5, TwinsAre
  <2>7. PICK k \in Nat : k = Finder!LastBlock(q)
    BY <2>6
  <2>8. BlocksRead(p) = k + 1 /\ BlocksRead(q) = k + 1
    BY <1>1, <2>1, <2>6, <2>7 DEF BlocksRead, Waiting, Reading, ListsInv
  <2>9. k + 1 # 0 /\ (k + 1) - 1 = k /\ (k + 1) - 2 = k - 1 /\ (k + 1 = 1 <=> k = 0)
    BY <2>7
  <2>10. FileInv(p) /\ FileInv(q) /\ PairInv(p, q)
    BY <2>1, <2>5, <2>6
  <2> DEFINE Moves == k = 0 \/ KeyOf(q, k) # KeyOf(q, k - 1)
  <2>11. f \in DOMAIN node /\ \A m \in DOMAIN tree : f \in tree[m] <=> (m = node[f] /\ Moves)
    BY <2>3, <2>8, <2>9, <2>10 DEF FileInv
  <2>12. g \in DOMAIN node /\ \A m \in DOMAIN tree : g \in tree[m] <=> (m = node[g] /\ Moves)
    BY <2>8, <2>9, <2>10 DEF FileInv
  <2>13. node[f] = node[g]
    BY <2>8, <2>9, <2>10 DEF PairInv
  <2>14. Moves <=> Finder!LastBlockMoves(q)
    <3>1. CASE k = 0
      BY <2>7, <3>1 DEF Finder!LastBlockMoves
    <3>2. CASE k # 0
      <4>1. k \in 0..Finder!LastBlock(q) /\ k - 1 \in 0..Finder!LastBlock(q)
        BY <2>7, <3>2
      <4>2. KeyOf(q, k) = Finder!Hashed(q, k) /\ KeyOf(q, k - 1) = Finder!Hashed(q, k - 1)
        BY <4>1 DEF KeyOf
      <4> QED
        BY <2>7, <3>2, <4>2 DEF Finder!LastBlockMoves
    <3> QED
      BY <3>1, <3>2
  <2> HIDE DEF Moves, f, g
  <2>15. \A r \in Finder!Reported : f \in r <=> g \in r
    BY <2>11, <2>12, <2>13 DEF Finder!Reported
  <2>16. (\E r \in Finder!Reported : g \in r) => Moves
    BY <2>12 DEF Finder!Reported
  <2>17. ASSUME Moves PROVE \E r \in Finder!Reported : g \in r
    <3>1. node[g] \in DOMAIN tree /\ IsFiniteSet(tree[node[g]])
      BY <2>1, <2>12 DEF TreeInv, IsTree
    <3>2. f \in tree[node[g]] /\ g \in tree[node[g]]
      BY <2>11, <2>12, <2>13, <2>17, <3>1
    <3>3. Cardinality(tree[node[g]]) >= 2
      <4>1. PICK S : S = tree[node[g]]
        OBVIOUS
      <4>2. IsFiniteSet(S) /\ {f, g} \subseteq S
        BY <3>1, <3>2, <4>1
      <4>3. Cardinality({f, g}) = 2
        <5>1. {f, g} = {f} \union {g} /\ g \notin {f}
          BY <2>2
        <5>2. IsFiniteSet({f}) /\ Cardinality({f}) = 1
          BY FS_Singleton
        <5> QED
          BY <5>1, <5>2, FS_AddElement
      <4>4. Cardinality({f, g}) <= Cardinality(S) /\ Cardinality(S) \in Nat
        BY <4>2, FS_Subset, FS_CardinalityType
      <4> QED
        BY <4>1, <4>3, <4>4
    <3>4. tree[node[g]] \in Finder!Reported
      BY <3>1, <3>3, FinderCounts DEF Finder!Reported
    <3> QED
      BY <3>2, <3>4
  <2> QED
    BY <2>13, <2>14, <2>15, <2>16, <2>17 DEF f, g
<1>2. ASSUME FinderInv PROVE DuplicatesFound
  BY <1>1, <1>2 DEF DuplicatesFound, Finder!DuplicatesFound
<1> QED
  BY FinderInductive, <1>2, PTL
=============================================================================
