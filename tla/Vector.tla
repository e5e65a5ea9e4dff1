------------------------------- MODULE Vector --------------------------------
(***************************************************************************)
(* The Vector of 03_Allocator over its logging_allocator, as main and the  *)
(* tests use them: of numbers, whose destruction leaves them in memory.    *)
(* The allocator hands out the elements of its blocks one range after the  *)
(* other and takes none back; with free_on_deallocate_ it asks the heap    *)
(* for each range instead.  An address is a block of the heap and a place  *)
(* in it.                                                                  *)
(***************************************************************************)
EXTENDS Naturals, Sequences, FiniteSets

CONSTANTS
    _block_size,
    Elems,       \* what is pushed
    MaxSize      \* bound: elements in the vector

VARIABLES
    mode,        \* [allowAllocks, free_on_deallocate_]
    heap,        \* the sizes of the blocks in memory
    count,       \* of each block, the elements given away
    free, active,
    given,       \* history: the ranges given away, [at, n]
    memory,      \* the elements constructed: a function of addresses
    data, sz, cp,
    contents,    \* history: what the vector should hold
    fate         \* "fine"; "overrun": a range left its block; "hangs"

vectorVars == <<mode, heap, count, free, active, given, memory, data, sz, cp, contents, fate>>

Null == <<0, 0>>
Plus(p, i) == <<p[1], p[2] + i>>

VectorInit ==
    /\ mode \in [allowAllocks : BOOLEAN, free_on_deallocate_ : BOOLEAN]
    /\ heap = <<>> /\ count = <<>> /\ free = Null /\ active = 0 /\ given = <<>>
    /\ memory = [p \in {} |-> 0]
    /\ data = Null /\ sz = 0 /\ cp = 0
    /\ contents = <<>> /\ fate = "fine"

(* Mutant of Throws: the elements to be allocated are not counted. *)
ThrowsLate(n) ==
    ~mode.free_on_deallocate_
    /\ (n > _block_size \/ (heap # <<>> /\ ~mode.allowAllocks /\ active > _block_size))

(* allocate throws, before it changes anything, and so do its callers. *)
Throws(n) ==
    ~mode.free_on_deallocate_
    /\ (n > _block_size \/ (heap # <<>> /\ ~mode.allowAllocks /\ active + n > _block_size))

(* A block is added to none, and with allowAllocks to a full one: one that *)
(* has room, but less than n, is not full.                                 *)
NewBlock ==
    mode.free_on_deallocate_ \/ heap = <<>> \/ (mode.allowAllocks /\ count[Len(count)] >= _block_size)

(* The range that allocate gives away next. *)
res == IF NewBlock THEN <<Len(heap) + 1, 0>> ELSE free

allocate(n) ==
    LET b == res[1] IN
    /\ ~Throws(n)
    /\ heap' = IF ~NewBlock THEN heap
               ELSE Append(heap, IF mode.free_on_deallocate_ THEN n ELSE _block_size)
    /\ count' = IF NewBlock THEN Append(count, n) ELSE [count EXCEPT ![b] = @ + n]
    /\ free' = IF mode.free_on_deallocate_ THEN res ELSE Plus(res, n)
    /\ active' = active + n
    /\ given' = Append(given, [at |-> res, n |-> n])
    /\ fate' = IF n > 0 /\ res[2] + n > heap'[b] THEN "overrun" ELSE "fine"

NoAllocation == UNCHANGED <<heap, count, free, active, given, fate>>

(* Memory with the elements s constructed from address p on. *)
Constructed(m, p, s) ==
    LET new == {Plus(p, i - 1) : i \in DOMAIN s}
    IN  [q \in DOMAIN m \union new |-> IF q \in new THEN s[q[2] - p[2] + 1] ELSE m[q]]

InMemory == [i \in 1..sz |-> memory[Plus(data, i - 1)]]

Zeros(n) == [i \in 1..n |-> 0]

(* reserve(n), and then s constructed behind the elements there are.  It   *)
(* destroys cp elements, sz of which were constructed.                     *)
reserve(n, s) ==
    IF n > cp
    THEN /\ allocate(n) /\ data' = res /\ cp' = n
         /\ memory' = Constructed(memory, res, InMemory \o s)
    ELSE /\ NoAllocation /\ UNCHANGED <<data, cp>>
         /\ memory' = Constructed(memory, Plus(data, sz), s)

push_back(elem) ==
    /\ sz < MaxSize
    /\ reserve(IF sz < cp THEN cp ELSE IF sz = 0 THEN 1 ELSE sz * 2, <<elem>>)
    /\ sz' = sz + 1 /\ contents' = Append(contents, elem)
    /\ UNCHANGED mode

(* Growing fills up with T(). *)
resizeUp(n) ==
    /\ n \in sz..MaxSize
    /\ reserve(n, Zeros(n - sz))
    /\ sz' = n /\ contents' = contents \o Zeros(n - sz)
    /\ UNCHANGED mode

(* Shrinking destroys the last element it keeps, too, and to nothing never *)
(* ends: i >= 0 holds of every size_t.                                     *)
resizeDown(n) ==
    /\ n < sz
    /\ UNCHANGED <<mode, heap, count, free, active, given, memory, data, cp>>
    /\ IF n = 0 THEN fate' = "hangs" /\ UNCHANGED <<sz, contents>>
       ELSE sz' = n /\ contents' = SubSeq(contents, 1, n) /\ UNCHANGED fate

Reserve(n) ==
    /\ n \in cp + 1..MaxSize
    /\ reserve(n, <<>>)
    /\ UNCHANGED <<mode, sz, contents>>

(* A vector of s made by the constructors: with an allocator of its own,   *)
(* where the old vector's memory is not.                                   *)
Made(m, s) ==
    /\ mode' = m
    /\ heap' = <<IF m.free_on_deallocate_ THEN Len(s) ELSE _block_size>>
    /\ count' = <<Len(s)>> /\ active' = Len(s)
    /\ free' = <<1, IF m.free_on_deallocate_ THEN 0 ELSE Len(s)>>
    /\ given' = <<[at |-> <<1, 0>>, n |-> Len(s)]>>
    /\ memory' = Constructed([p \in {} |-> 0], <<1, 0>>, s)
    /\ data' = <<1, 0>> /\ sz' = Len(s) /\ cp' = Len(s) /\ contents' = s
    /\ UNCHANGED fate

(* auto v2 = v: the program goes on with v2.  Its allocator is a default   *)
(* one, whatever v's is.                                                   *)
Copy ==
    /\ sz <= _block_size
    /\ Made([mode EXCEPT !.free_on_deallocate_ = FALSE], InMemory)

(* Vector(n), before anything else was done with the allocator. *)
VectorOf(n) == heap = <<>> /\ n \in 1..MaxSize /\ n <= _block_size /\ Made(mode, Zeros(n))

VectorNext ==
    /\ fate = "fine"
    /\ \/ \E elem \in Elems : push_back(elem)
       \/ \E n \in 0..MaxSize : resizeUp(n) \/ resizeDown(n) \/ Reserve(n) \/ VectorOf(n)
       \/ Copy

-----------------------------------------------------------------------------
Range(g) == {Plus(g.at, i) : i \in 0..g.n - 1}

(* The vector holds what was put into it, through every growth, copy and   *)
(* exhausted allocator, as no range of the allocator leaves its block or   *)
(* overlaps another: without allowAllocks, or from the heap.  With it, a   *)
(* block that is nearly full is overrun.                                   *)
ContentsKept ==
    /\ fate = "fine" => sz = Len(contents) /\ sz <= cp /\ InMemory = contents
    /\ fate = "overrun" => mode.allowAllocks /\ ~mode.free_on_deallocate_
    /\ fate # "overrun" => \A i, j \in DOMAIN given : i # j => Range(given[i]) \cap Range(given[j]) = {}
=============================================================================
