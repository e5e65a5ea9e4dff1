------------------------------ MODULE Algorithms -----------------------------
(***************************************************************************)
(* The programs that only compute: the IP filters (02_IP_filter and its    *)
(* copy in 04_IP_filter_ranges), print_ip of a number (05_Print_IP) and    *)
(* the small MapReduce examples (13_BigData/MapReduce.cpp), each compared  *)
(* with a definition of what it computes that goes another way.            *)
(*                                                                         *)
(* Texts are sequences of letters, words numbers in the order of strings,  *)
(* the fields of an address numbers or Bad.                                *)
(***************************************************************************)
EXTENDS Integers, Sequences, FiniteSets, FiniteSetsExt, SequencesExt, TLC

CONSTANTS
    Jobs,        \* what is computed: [program, of]
    Separator,   \* the letter d of split
    Bad,         \* a field that is no number
    Garbage,     \* what an uninitialized int may be
    Byte,        \* values of a byte
    LongLong,    \* sizeof(long long)
    MaxInt       \* numeric_limits<int>::max()

VARIABLES job, done, result

jobVars == <<job, done, result>>

-----------------------------------------------------------------------------
(* ip_filter.cpp, and main of 02_IP_filter *)

split(str) ==
    LET from[start \in 1..Len(str) + 1] ==
            LET stops == {i \in start..Len(str) : str[i] = Separator}
            IN  IF stops = {} THEN <<SubSeq(str, start, Len(str))>>
                ELSE <<SubSeq(str, start, Min(stops) - 1)>> \o from[Min(stops) + 1]
    IN  from[1]

(* Reading one address: the first field that is no number is read as 0 and *)
(* fails the stream; what is not read stays uninitialized.                 *)
Addresses(fields) ==
    LET read == Min({i \in DOMAIN fields : fields[i] = Bad} \union {Len(fields) + 1}) - 1
    IN  {ip \in [1..4 -> Garbage \union {0} \union (ToSet(fields) \ {Bad})] :
            \A i \in 1..4 : IF i <= read THEN ip[i] = fields[i]
                            ELSE IF i = read + 1 /\ i <= Len(fields) THEN ip[i] = 0
                            ELSE ip[i] \in Garbage}

(* What read_ip_pool may return. *)
read_ip_pool(lines) == {ips \in [DOMAIN lines -> UNION {Addresses(lines[k]) : k \in DOMAIN lines}] :
                           \A k \in DOMAIN lines : ips[k] \in Addresses(lines[k])}

Less(s, t) == \E k \in 1..4 : s[k] < t[k] /\ \A j \in 1..k - 1 : s[j] = t[j]

(* std::sort from rbegin to rend. *)
sort_ip_pool(pool) == Reverse(SortSeq(Reverse(pool), Less))

ip_pool_filter(pool, pred(_)) == SelectSeq(pool, pred)

(* What main prints of what it read. *)
Printed(ips) ==
    LET pool == sort_ip_pool(ips) IN
    <<pool, ip_pool_filter(pool, LAMBDA ip : ip[1] = 1),
      ip_pool_filter(pool, LAMBDA ip : ip[1] = 46 /\ ip[2] = 70),
      ip_pool_filter(pool, LAMBDA ip : ip[1] = 46 \/ ip[2] = 46 \/ ip[3] = 46 \/ ip[4] = 46)>>

-----------------------------------------------------------------------------
(* print_ip: byte i of the number, by mask and shift. The mask is a long   *)
(* long, so that the highest byte of one, and that alone, keeps its sign,  *)
(* unless the number is unsigned.                                          *)
Octet(n, i) ==
    LET k == n.size - i
        v2 == ((n.val % Byte^LongLong) \div Byte^k) % Byte
    IN  IF k = LongLong - 1 /\ n.signed /\ v2 >= Byte \div 2 THEN v2 - Byte ELSE v2

(* Mutant of print_ip: from the lowest byte on. *)
print_ip_low(n) == [i \in 1..n.size |-> Octet(n, n.size + 1 - i)]

print_ip(n) == [i \in 1..n.size |-> Octet(n, i)]

-----------------------------------------------------------------------------
(* MapReduce.cpp *)

(* almost_big_data: the sorted words, folded into the word that is counted *)
(* and the lines printed.                                                  *)
BigData(words) ==
    LET Reducer(res, word) ==
            IF res.first = word THEN [res EXCEPT !.second = @ + 1]
            ELSE [first |-> word, second |-> 1,
                  out |-> IF res.second > 0 THEN Append(res.out, <<res.first, res.second>>) ELSE res.out]
        last == FoldLeft(Reducer, [first |-> 0, second |-> 0, out |-> <<>>], SortSeq(words, LAMBDA v, w : v < w))
    IN  Append(last.out, <<last.first, last.second>>)

(* map_shuffle_reduce: sorted numbers, counted where they change. *)
Unique(input) ==
    LET map_output == [i \in DOMAIN input |-> IF input[i] < 0 THEN -input[i] ELSE input[i]]
        Reducer(res, num) ==
            IF res.last_num = num THEN res ELSE [last_num |-> num, count |-> res.count + 1]
    IN  FoldLeft(Reducer, [last_num |-> MaxInt, count |-> 0], SortSeq(map_output, LAMBDA v, w : v < w)).count

-----------------------------------------------------------------------------
JobInit == job \in Jobs /\ done = FALSE /\ result = <<>>

Compute ==
    /\ ~done /\ done' = TRUE
    /\ UNCHANGED job
    /\ \/ job.program = "split" /\ result' = split(job.of)
       \/ /\ job.program = "ip_filter"
          /\ \E ips \in read_ip_pool(job.of) : result' = Printed(ips)
       \/ job.program = "print_ip" /\ result' = print_ip(job.of)
       \/ job.program = "big data" /\ result' = BigData(job.of)
       \/ job.program = "unique" /\ result' = Unique(job.of)

Done(program) == done /\ job.program = program

-----------------------------------------------------------------------------
(* split, as its comment shows: the pieces between the separators. *)
Joined == FoldLeft(LAMBDA s, piece : s \o <<Separator>> \o piece, Head(result), Tail(result))
SplitsAtSeparators ==
    Joined = job.of /\ \A i \in DOMAIN result : Separator \notin ToSet(result[i])

Times(s, e) == Cardinality({i \in DOMAIN s : s[i] = e})
Address(fields) == [i \in 1..Min({4, Len(fields)}) |-> fields[i]]
WellFormed(fields) == Len(fields) >= 4 /\ Bad \notin ToSet(Address(fields))

(* The pool goes down, and each filter has each of its addresses as often  *)
(* as the input has it; a line that is no address may be any.              *)
PoolPrinted ==
    /\ \A n \in DOMAIN result : \A i \in 1..Len(result[n]) - 1 : ~Less(result[n][i], result[n][i + 1])
    /\ Len(result[1]) = Len(job.of)
    /\ \A line \in {l \in ToSet(job.of) : WellFormed(l)} :
        LET ip == Address(line) IN
        /\ Times(result[1], ip) >= Times([k \in DOMAIN job.of |-> Address(job.of[k])], ip)
        /\ Times(result[2], ip) = IF ip[1] = 1 THEN Times(result[1], ip) ELSE 0
        /\ Times(result[3], ip) = IF <<ip[1], ip[2]>> = <<46, 70>> THEN Times(result[1], ip) ELSE 0
        /\ Times(result[4], ip) = IF 46 \in ToSet(ip) THEN Times(result[1], ip) ELSE 0

(* The bytes are the number, but for a negative long long. *)
OctetsAreNumber ==
    ~(job.of.signed /\ job.of.size = LongLong /\ job.of.val < 0) =>
        /\ \A i \in DOMAIN result : result[i] \in 0..Byte - 1
        /\ FoldLeft(LAMBDA v, b : v * Byte + b, 0, result) = job.of.val % Byte^job.of.size

(* The classical count, in the order of the words; but for a text without  *)
(* words, where that prints nothing, and almost_big_data an empty word and *)
(* 0.                                                                      *)
WordsCounted ==
    job.of # <<>> =>
        /\ ToSet(result) = {<<w, Times(job.of, w)>> : w \in ToSet(job.of)}
        /\ \A i \in 1..Len(result) - 1 : result[i][1] < result[i + 1][1]

(* ... but for an input of nothing but the largest int. *)
UniqueCounted ==
    LET found == {IF n < 0 THEN -n ELSE n : n \in ToSet(job.of)}
    IN  found # {MaxInt} => result = Cardinality(found)

(* Each algorithm computes what another definition of the same thing says, *)
(* for every small input.  What the code does differently for four kinds   *)
(* of input (a malformed address, a negative long long, a text without     *)
(* words, only INT_MAX) is excluded where it is, and nowhere else.         *)
AgreesWithReference ==
    /\ Done("split") => SplitsAtSeparators
    /\ Done("ip_filter") => PoolPrinted
    /\ Done("print_ip") => OctetsAreNumber
    /\ Done("big data") => WordsCounted
    /\ Done("unique") => UniqueCounted
=============================================================================
