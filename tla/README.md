# TLA+ models of OtusCPP

The repository holds the homework projects and the lecture programs of a C++
course. Its own core logic is the *bulk* program, which grows over four
directories (`08_Cmd`, `10_Async_Cmd`, `10_Async_Cmd_2`,
`11_Async_Cmd_network`) from a line parser to a server with worker threads; next
to it are a MapReduce, a join server, a chat, two thread pools and the
concurrency examples of three lectures, and a few small programs about data. This
directory models nearly all of them (section 5 lists what is left out), checks the
models with TLC, and proves with TLAPS what the main components promise, for any number
of threads, clients, lines and whatever else is counted.

## 1. Inventory

### The bulk program (modelled)

**Parser** - `BlockProcessor::RunCmds`. State: `cmds_`, the commands of the block
being collected; `block_level`, a `size_t` that counts open braces; and the local
`block_start_index`. Lines come in chunks (one `AddTask`, one `RunCmds` call).
A command is appended, `sz_` commands outside braces make a static block, the
braces `{` and `}` a dynamic one. A finished block is given to every observer
(`event_print_save`), a finished nested block to the savers (`event_save`).
`Stop` flushes a static block in progress.
*Hard:* state that survives a chunk and state that does not; wrap-around of the
level; an index that is kept for one level of nesting only.
*Correct when:* no command is lost, doubled or moved; blocks are those of the
text; `Stop` drops nothing but an open dynamic block.

**Task queues** - `BlockProcessor`, `BlockPrinter` and `BlockSaver` contain the same
queue: `tasks` under `m_mutex`, `m_cv`, the atomic `m_stopped`, one thread or
several in `do_work`. Operations: `AddTask`/`update` push and notify, `Stop` raises
the flag, notifies and joins.
*Hard:* the flag is written without the mutex; `AddTask` tests it before it
locks; spurious wakeups; several workers on one condition variable.
*Correct when:* each task runs once, in order with one worker; what was pushed
before the stop is run; nothing runs after `Stop`; `Stop` returns.

**Pipeline** - the processor's worker calls `update` of the printer and of the saver,
each of which has a queue and threads of its own. The client thread feeds chunks
and finally stops processor, printer and savers.
*Correct when:* every finished block is printed in order and saved once, whoever
stops what; the unguarded fields of the parser are never read while written.

**Library interface** - `async::connect`, `receive`, `disconnect` over the global list
`proc_list`. *Hard:* handles are list iterators; no lock guards the list.
*Correct when:* a stream gets what was sent over its own connection.

**Server** - `Server`, `session`, `AsyncClient`; one `io_context` thread, one
`BlockProcessor` for all sessions. *Hard:* the processor may be stopped while
sockets are served (tests), or the observers destroyed before the processor
(`ServerMain`); one buffer per session; errors of accept and read.
*Correct when:* a session loses no text, no handler runs on what was stopped or
destroyed.

**Files** - `BlockSaver::save_block` names a file by the second and the thread, opens (and
truncates) it, and lets a `BlockPrinter` of its own fill it, which in `11_Async_Cmd_network` sleeps first. *Hard:* two blocks of one
thread in one second; a file that does not open ends the process.
*Correct when:* a block that was saved stays saved.

### Beside it (modelled)

**Thread pool** (`webinar_24`, the same code in `webinar_25`) - the queue above, with the flag
tested and raised under the mutex and the notification after it. Operations: `enqueue`, from the owner and from
running tasks; the destructor. *Hard:* enqueue against destruction; the late notification.
*Correct when:* what was accepted runs, its futures become ready, the destructor returns.

**Active object** (`webinar_24`) - a queue whose worker runs the tasks while it holds the mutex; `stop`
raises an unguarded flag and the worker leaves its loop at once, then runs what is left
*without* the mutex. *Hard:* the lost notification; the queue shared without the mutex.
*Correct when:* `stop` returns and what was queued before it has run, in order.

**Chat server** (`BoostASIO`) - a room with its participants and last messages, a session per
client with a queue of messages to write. Operations: join, read a header, read a body
and deliver it, complete a write, fail. *Hard:* one write at a time, told by the queue; leaving while a
write is under way. *Correct when:* a client hears an unbroken stretch of the room, and the queue never
stalls.

**Chat client** - main reads lines and posts each to the `io_service` that a second thread runs; a line
goes out behind a header with its length. *Hard:* lines posted while a write is under way; `close` posted behind
them; the join after it. *Correct when:* lines arrive in order and once, and the client returns.

**Join server, echo server, HTTP server** - a session reads, answers, reads again; the join server's answers come from
a database each session has for itself, the HTTP server's from the files below a root. *Hard:* requests
that come in pieces or before the answer to the last one; a failing read or write; reads of a closed file.
*Correct when:* who asks gets the answers in the order of the questions, and its own.

**First bulk versions** (`08_Cmd`, `10_Async_Cmd`) - the parser, called once for the whole text.
*Correct when:* as the later ones; only an unfinished dynamic block is dropped at the end of the text.

**MapReduce** - `split_file` computes blocks of lines, mapper threads read from one stream, a merge gives equal keys to one
reducer, reducers run, and `calc_min_prefix` repeats it all with longer prefixes. *Hard:* borders of
blocks; the shared stream; a search that stops on the length of one line.
What the phases hand on is text, written with `<<` and read back with `>>`.
*Correct when:* every line is mapped once, and the answer is the least prefix that tells the lines apart.

**Lecture programs** (`webinar_23` to `25`) - barrier, guarded suspension, read-write lock, singletons, nuclear reaction;
threads, mutexes, condition variables; promises, `async`, packaged tasks and a hand-made promise; two cashiers,
an event loop; and the timers and small clients of `BoostASIO`. Each is a main with a few threads. *Hard:* the
order of flag, notification and wait; a value used before it is set; who runs a handler.
*Correct when:* nothing is lost or early, and the program ends.

**Allocator and vector, sparse matrix, duplicate finder, IP filters and printing** - sequential. *Hard:* the ends of blocks
and ranges, handles that outlive what they were made for, contents that repeat, malformed input.
*Correct when:* each is the abstract thing it stands for: a sequence, a function with a default, a partition of equal files,
a sorted and filtered table.

## 2. Modules

| Module | Models | Used by |
|---|---|---|
| `BulkParser` | `RunCmds`, `notify`, the flush of `Stop` | `MCBulkParser`, `AsyncCmd` |
| `MCBulkParser` | the definition of a text's blocks (of any text, which is a parameter), to compare with | `FirstBulk` |
| `FirstBulk` | the first two versions of `RunCmds`, beside the later one | - |
| `TaskQueue` | the queue, condition variable and `do_work` | `BlockProcessor`, `ThreadPool`, three times in `AsyncCmd` |
| `BlockProcessor` | the queue with threads in `AddTask` and one in `Stop`; with other constants `BlockSaver` | - |
| `TaskService` | abstract: accepted tasks are performed once, in order | `BlockProcessor`, `AsyncCmd` |
| `AsyncCmd`, `MCAsyncCmd` | the pipeline: parser and three queues | - |
| `AsyncApi`, `MCAsyncApi` | `async.cpp` | - |
| `AsyncServer` | `Server.h`, `Client.h`, the two programs | - |
| `SaveFiles` | `save_block`, the clock and the files | `MCData` |
| `ThreadPool` | `thread_pool.cpp` | - |
| `ActiveObject` | `active_object.cpp` | `MCThreads` |
| `StdThread` | threads, mutexes and condition variables of the library | the next five |
| `Patterns` | barrier, guarded suspension, read-write lock, singletons, nuclear reaction | `MCThreads` |
| `Demos` | `01_thread.cpp`, `02_mutex.cpp`, `05_condition.cpp` | `MCThreads` |
| `Futures` | `03_promise.cpp`, `04_async.cpp`, `07_packaged_task.cpp`, `webinar_25/promise.cpp` | `MCThreads` |
| `Cashier` | `cashier_events.cpp`, `cashier_reader.cpp`, `events.cpp`, `threads.cpp` | `MCThreads` |
| `NetDemos` | timers, the asynchronous client, ping and pong, ZeroMQ's hello world | `MCThreads` |
| `MCThreads` | all these programs, one at a time | - |
| `ChatServer` | `chat_server.cpp` | `MCNetwork` |
| `ChatClient` | `chat_client.cpp`, `chat_message.hpp` | `MCNetwork` |
| `AsioSession` | the sessions of `asio_async_server.cpp` and `12_Join_server/Server.h` | `MCNetwork` |
| `DB` | `12_Join_server/DB.h`, as pure operators | `MCNetwork` |
| `HttpServer` | `beast_sync_server.cpp` | `MCNetwork` |
| `MCNetwork` | all these programs, one at a time | - |
| `MapReduce`, `MCMapReduce` | `mapreduce.h`, `client.h` | `MCData` |
| `SparseMatrix` | `06_Matrix/Matrix.h` | `MCData` |
| `Vector` | `vector.h` over `MyAllocator.h` | `MCData` |
| `Duplicates` | `09_Boost` | `MCData` |
| `Algorithms` | IP filters, `print_ip`, `MapReduce.cpp`, as pure operators | `MCData` |
| `MCData` | all these programs, one at a time | - |
| `AsyncCmd_proof` | theorems about the parser, and about the pipeline | - |
| `BlockProcessor_proof`, `ThreadPool_proof` | theorems about the two kinds of queue | - |
| `AsyncApi_proof`, `AsyncServer_proof` | theorems about the library interface and the bulk server | - |
| `Threads_proof`, `Network_proof`, `Data_proof` | theorems about programs of `MCThreads`, `MCNetwork`, `MCData` | - |

Definitions bear the names of the code where they can. Definitions marked *Mutant*
in a module are broken variants of the definition that follows them, each a
plausible slip; they are used by no specification and serve to see that every
property notices such a slip.

### BulkParser

A line is `"open"`, `"close"` or `"cmd"`; a command is the number of its line, so
that no two are alike and a property can tell a moved or doubled command. The branches of
`RunCmds` are actions: `OpenBlock`, `CloseOuter`, `CloseNested`, `Command`, and
`CloseOutOfRange` for a slice that starts past the end, whose vector constructor
throws in the worker. `NextChunk` is the end of one `RunCmds` call: the local index
starts at zero again. `FlushOnStop` is the end of `Stop`. `lines`, `received`, `out`
and `chunk_start` are history. `Wrap` is the modulus of `size_t`; it only has to be larger than
the text, so that a level that wrapped cannot come back to zero by opening.

### TaskQueue and BlockProcessor

A critical section that neither waits nor reads `m_stopped` is one step. `do_work`
is cut where it reads the flag, because `Stop` writes it without the mutex:
`Lock` (lock, evaluate the predicate), `Block` (the wait itself: the mutex is given
up and the thread joins the waiters in one step, as the standard says), `Exit` or `Take`
(the test after the wait), `Finish` (the task has been run). `NotifyOne` wakes any one
waiter and is forgotten when there is none; `SpuriousWake` may happen to any waiter. `AddTask` is
two steps, `TestFlag` without the mutex and `AddTask` under it; `Stop` is three,
`Stop`, `StopWakes`, `StopJoins`. `NotifyAll`, `TestStopped` and the set of `Workers`
are the differences between `BlockProcessor`, `BlockPrinter` and `BlockSaver`.

### AsyncCmd

`P`, `R` and `S` are instances of `TaskQueue` for the three objects; the parser's actions
come from `BulkParser` and run inside the task of the processor's worker. `notify` is cut
into one `update` per observer and event, because each locks a mutex of its own; the parser
waits until both are done (`AllNotified`), as the call does. The client feeds, then
performs the three Stops in the order of `disconnect`. A crash of the worker ends the
process. Saving a block is one step.

### AsyncApi

One action per list operation; a processor is what it was given, because the pipeline
is `AsyncCmd`'s. `Thread` says which connections one thread opens.

### AsyncServer

Sockets carry numbered units; a chunk is a range of them, at most `MaxLength` long, in the session's
one buffer. The network may complete an armed read with any prefix of what has come. The
io thread runs one handler at a time; `AddTask` is again two steps, so that `Stop` in the
main thread may fall between. Two choices are made in `Init` and never changed: `program`, the shutdown
of `tests.cpp` or the destructors of `ServerMain.cpp`, and `mayFail`, whether accept and read
may fail (a `remote_endpoint` of a connection that is broken by then throws out of `run` and so ends the program). The flush of a last block and the notification of a block are a
free choice, since the properties only ask whether the observers are still alive.

### SaveFiles

Time goes by in ticks, `Second` of them to a second; the sleep of `save_block` takes its time at least, and the printer of the file
any time, or none: the printer of `10_Async_Cmd_2` does not sleep and that of `11_Async_Cmd_network` does. A file is a pair of
a name and a block, so that a name used twice replaces what it held. That the queue gives a block to one
saver only is `TaskQueue`'s.

### ThreadPool

Extends `TaskQueue`, whose loop is the pool's word for word. `Accept` and `Refuse` are the critical section of
`enqueue`, `NotifyWorker` its notification after the mutex was given up. The callers are the
owner and every worker that is inside a task. A future is ready when its task has returned, or has thrown because
its own `enqueue` was refused. `DestroyRaise`, `DestroyNotify` and `DestroyJoin` are the destructor.

### ActiveObject

The worker's program counter follows `workerThread` statement by statement where it tests the flag or takes
the mutex, and the mutex is a variable, because tasks run under it. When the worker drains the queue without
the mutex while a caller is inside its guard, the behaviour is undefined (`corrupted`) and the model ends.

### FirstBulk

Extends `MCBulkParser` with `version`, which never changes. Both versions share the branches of a line; the
first has `EndOfText` where the later has `NextChunk` and `FlushOnStop`, and prints at the end of the text
outside braces even if nothing was collected.

### StdThread and the lecture programs

`pc` is the place of each thread, `held` the mutexes with their holders (shared and recursive ones too), `waiting` who waits at a
condition variable, `mem` a record of what the program shares. `Lock`, `Wait`, `NotifyOne`, `Do` and the like are
actions a thread function is a disjunction of, so that it reads like the function it stands for. A wait
is three steps: the predicate under the mutex, the blocking, and the locking when woken; `SpuriousWake` may always happen. A program whose threads share nothing
but atomics (the nuclear reaction) has one step for each atomic access. An unguarded read of a pointer (the naive and the
double-checked singleton) is a step apart from the write, and the history field `raw` tells that an object was used that
was not made yet. The main of `promise.cpp` is a program (`StateMain`) that only hands over a handler and waits; what its class is for, with
a thread that sets the result, is another one (`StateUsers`). `async` without a policy is one of the two the library may choose.

### ChatServer and ChatClient

Handlers of the one `io_service` thread are atomic actions; an outstanding operation is completed or fails at any
time. In the server a message is its number in the order of delivery. The client's main thread is
`GetLine`, `Close`, `JoinThread`; its handlers run in the order they were posted or completed. The headers the server sends may be out of
range or no number, and a line too long for a message is clipped.

### AsioSession, DB, HttpServer

The two session loops have the same shape, so that one module has both; `Exec` says what the answer is, and `NewDb` what
a session starts with. One read may take several messages, or a piece of a statement. A statement is known by what sqlite makes of it: it fails or not,
and `select` has the rows that were inserted; a NULL in one ends the model, since the code makes a string of it. An answer is as long as the lines
it consists of (`AsString`), and one longer than `data_` ends the model too: `copy` writes past the end of the buffer (`Server.h:37`), which is undefined. In
`HttpServer` a session is a thread, a path a sequence of names and separators, and a file one that is there, is a directory,
or cannot be opened; the answer is the whole of `handle_request`.

### MapReduce

`split_file` is `To`, with the subtraction on `size_t`. A mapper's turn is four steps, the two ends of `std::getline` (`GetLine`; `GotLine` or
`GotNone`) and the two ends of `tellg` (`TellG`, `TellGReturns`), so that other mappers may read between a mapper's line and its comparison, which is then
with a position that is not its own. Two mappers inside the stream at once are undefined and end the model (`corrupted`). A mapped line is its number; keys are
compared as strings. The intermediate files are what `operator>>` of `Data` reads back (`ReadBack`): a prefix with white space around its letters
becomes the word between (`Word`); one with white space between them, or with no letters, stops the reading of its mapper's file, and what is sorted behind
it is lost; if nothing at all is read back, `q.top()` of an empty queue is undefined and ends the model. The merge of
the sorted files and the reducers, which share nothing, are a step each, and `Decide` reads the results in
any order, as `directory_iterator` may give them. Two bounds on the files (`InputsAssumption`): letters are no digits, and at most one line is
empty or begins with white space; otherwise counts could be read as the prefix of another line.

### SparseMatrix, Vector, Duplicates, Algorithms

Each action is a whole call. `SparseMatrix` keeps handles across calls; `cells` is the function the matrix should be. In `Vector` an
address is a block and a place in it, and constructors write memory, so that a range that leaves its block
overwrites nothing silently: `fate` tells. `Duplicates` is `main` from the listing to the report, with a step
for each file of each block; a list of files of one size is the set of their places in the listing (`left`: those the block is still to be
read of, in their order), a node of the tree has the set of its files; the buffer is not terminated by a zero, so that the string of a full block without one goes
on with what lies behind it, which is chosen for each block of each file (`behind`, from `Tails`). Files that cannot be read and a block size of 0 are left out. `Algorithms` computes a
result in one step from every small input, and its properties define the same result another way.

## 3. Runs

| Run | Question | Bounds |
|---|---|---|
| `bulk` | Are the blocks those of the text, in the first versions and the later ones, and what survives an unmatched brace? | texts of up to 7 lines, blocks of 2, every cut into chunks |
| `processor` | Does a queue keep its promises under any `Stop`? | 1 worker, 2 clients, 4 tasks, liveness included |
| `stop_hangs` | Does `Stop` return? (it does not always) | 1 worker, 1 task |
| `pipeline` | Is every block printed and saved, once and in order, with and without a disconnect? | 2 savers, 2 chunks, 6 lines, fairness |
| `api_one_thread` | Does a stream get its own text? | 3 connections of one thread |
| `api_two_threads` | ... with a connection per thread? (it does not) | 2 connections |
| `server` | What do the two shutdowns and the failures do to the sessions; is everything sent parsed when nothing fails? | 2 clients, 2 units each, both programs, fairness |
| `pool` | Does a pool run what it accepts, and can it be destroyed? | 2 workers, 4 tasks, fairness |
| `threads` | Does every lecture program hand over what it should, and end? | up to 7 threads beside main, loops of 2 or 3 rounds, 8 elements to sum, fairness |
| `network` | Does a chat client hear the room without gaps, do lines and answers keep their order, does the client come back? | 2 clients, 4 messages (2 recent), 2 lines, 3 or 1 requests, fairness |
| `data` | Is every line mapped once and the prefix no longer than needed; do files, cells, contents, duplicates and results agree with their definitions? | files of up to 4 short lines, empty ones and white space among them, 3 mappers, 2 reducers; 3 blocks; 2 by 3 cells, 2 handles; 4 elements; files of 3 or 4 bytes |
| `min_prefix` | Does the answer tell the lines apart? (it need not) | the same files |

`threads`, `network` and `data` share a form: an MC module has the variables of several programs, its initial
state chooses one, and only that one moves, so that each of their properties is checked on all its states and is
vacuous on the others'.

Why the bounds are enough. Seven lines hold a static block, a full one, a nested
dynamic block with commands around it and an unmatched brace; three lines are enough for the
level to wrap and six for a stale index. Four tasks fill the queue behind a worker that holds one and
let a client be between test and push as the flag is raised; two savers are the least
that can compete for a task. The violation of `StopReturns` needs one worker and no
task. Two clients are enough to mix chunks in one queue and to have a read complete while another
session's `AddTask` is between its two steps. Two pool workers with four tasks let a worker enqueue
while the other looks at the queue and the owner is in the destructor. Three blocks over two savers make one
thread save twice, and nine ticks of half a second are time for that. Four messages with two recent ones make the room forget. A buffer of two lines holds a row of one column and not one of two.
Two threads that count can lose an increment, three at a barrier leave one behind, three workers and two notifications
leave one asleep. Eight elements with a limit of four threads let the reaction split twice and unevenly. Three mappers are one more
than the lines of the smallest files, so that a share is empty; a fourth line lets two reducers get two keys each. Two handles are enough
for one to be made stale by the other, four elements for a vector to grow out of a block; and blocks of two bytes with files of
three or four have a block that repeats, one that is cut, and one that is full. Deadlock checking is off in all
runs: the programs end, and the bounds end them too. Where a state without a
successor would be a fault (a `Stop` that hangs), a liveness property says so.

### What the runs found

* `Stop` can hang (`stop_hangs`, `BlockProcessor.cpp:27`, the same in `BlockPrinter`
  and `BlockSaver`): the flag and the notification fall between the predicate of `wait`
  and its blocking; nobody notifies again. `StopReturnsOutsideWindow`
  holds: that window is the only one.
* Two threads may get one handle from `connect` (`api_two_threads`,
  `10_Async_Cmd_2/async.cpp:13`), as in `Test9` and `main.cpp`.
* In texts with an unmatched `}`, `block_level` wraps and `block_start_index` may lie
  past the end of `cmds_`: the worker dies (`CloseOutOfRange`); never in a text whose braces
  match (theorem `NeverCrashes`), and never before such a brace is read (`CrashesUnmatchedOnly`). No text of the repository promises otherwise, so it is not listed as a
  disagreement.
* `ServerMain` destroys printer and saver before the processor. While accept does not
  fail its `run()` never returns, so the order does not matter; after an accept error a destroyed
  observer may be notified (`NoDanglingObserver` states exactly this border).
* A task whose `AddTask` passed the test before the stop and pushed after it stays in the
  queue: at most one with one io thread (a part of `SessionInOrder`).
* The active object has the same lost notification as `BlockProcessor`
  (`StopReturnsOutsideWindow`, in `ProgramsEnd`, states the border), and a `doSomething` that meets the worker after its loop
  shares the queue with it without a lock. The thread pool has neither: `DestructorReturns` holds without
  exception, and its mutant shows that it is the mutex around the flag that makes the difference.
* Only the sleep of one second in `save_block` keeps a saver thread from truncating its last file:
  `SavedBlocksStay` fails as soon as the name loses the thread, as in `08_Cmd`.
* The prefix `calc_min_prefix` answers need not identify the lines (`min_prefix`, `client.h:83`, against
  `client.cpp:7-8`): the search ends when the one line a reducer kept is not longer than the prefix, although another reducer has found a
  duplicate. `AnswerIsMinimal` says what does hold: at each shorter size two lines were read back as the same word, and the answer is right when
  every line was mapped, no line is that short, and no prefix has white space. A prefix like `p q` is not read back: its mapper's lines behind it
  are lost, and the answer need not tell them apart.
* The mappers' stream is shared without a lock, which is undefined when two are inside it; apart from that every line is
  mapped once, whatever position a mapper compares with its block, but for one in the last bytes, which the division leaves over (`MappedOnce`).
* An answer of the join server that is longer than its buffer of 1024 bytes runs over it (`12_Join_server/Server.h:37`), and a NULL in a row is made a
  `std::string` (`DB.h:23`); up to such a step the answers are in order (`AnswersInOrder`).
* Of the lecture programs three may not end, each in one case that `ProgramsEnd` names: guarded suspension when all three
  workers wait for the two notifications, the consumer of `05_condition.cpp` when the flag is raised between its test and its wait, and the event
  loop without a quit. A fourth never ends: the main of `webinar_25_async/promise.cpp` waits (line 144) for a result that nobody sets, which is a part
  of `ProgramsEnd` too. The cashier's worker may leave before its buyers come (`cashier_events.cpp:72`), and a
  double-checked lock may hand out an object that is not made yet.
* A handler set with `Then` after the result is there is never called (`promise.cpp:62`); `NobodyEarly` says so.
* A vector that is resized to 0 does not end, and a request that does not fit in what is left of a block leaves it; a row handle
  made before its row asserts. `ContentsKept` and `CellsAgree` hold outside exactly these cases.
* Of equal files not all are found. A full block without a zero byte, as any text of a block or more has, is hashed together with what lies
  behind the buffer (`FileScanner.cpp:42`, `61`), so that equal files may get different hashes and be missed. Files that did give the same strings
  are reported together, unless their last two blocks gave the same one: then the file is in no node (line 67). `DuplicatesFound` says this of
  files that are not empty and are listed once each.
* The small algorithms differ from their references for four kinds of input that `AgreesWithReference` names: a malformed address (`02_IP_filter`), a negative
  `long long` (`05_Print_IP`), only the largest int, and a text without words (both in `13_BigData/MapReduce.cpp`), for which the classical count prints
  nothing and `almost_big_data` an empty word and 0 (line 131).

No text of the repository says otherwise of what the last three points tell, so they are not listed as disagreements.

### Fairness

Weak fairness for the steps of `do_work`, for running a task and for the thread inside
`Stop`: threads that are not blocked run. Nobody is obliged to call `AddTask` or `Stop`, and no spurious
wakeup is promised. In `AsyncCmd` the notifying thread has strong fairness, because it competes
for the observers' mutexes with workers that may wake spuriously without bound; a mutex that is free again and
again is obtained in the end. In `AsyncServer` the io thread runs ready handlers, the network delivers what has
come to an armed read, and the worker parses; clients need not send. The pool adds the notification
a caller owes after its push. In `threads` every thread has strong fairness, for the reason of the pipeline: a mutex is shared with threads
that may wake spuriously, or lock it in a loop, without bound; that a thread that finds it free again and again gets it is what a
scheduler that suspends nobody for ever gives. Wakeups and timers that nobody owes are not promised. The active object owes the
steps of its worker and of whoever is inside a guard or in `stop`. In `network` the chat's network completes an
outstanding write, well or not, and whatever is outstanding on a closed socket; the client's threads run what they
can; nobody has to enter a line or send a message.

## 4. Proofs

A theorem holds for every value of the constants that the named assumptions of its module allow. They
are weak: counts and bounds are numbers, markers such as `NoTask` are no value, `Wrap` exceeds the
text, a mapper count is positive, chunks are sequences of lines, at most one line of a file is empty or begins with white space and a last line without a newline is not empty, what is listed is files that are there, the cashier's calls
and the loop's events are the ones those programs know, the threads include those a program starts. Where a theorem
needs more it says so in its statement: `OneCaller` (connects do not overlap), `Workers # {}` (somebody runs the
tasks), `BulkSize > 0` (the definition of a text's blocks divides by it), `Roomy` or `Space` (a thread for each that is started).
Every invariant proved here holds in the checked instances too.

The parts of an inductive invariant are named for what they say; each proof has one step (or lemma) for each
action. A number of lemmas are about sequences (what `Tail`, `Append`, `RemoveAt`, `SubSeq` and `IsPrefix` leave) and one is about
minima: a set of numbers that is not empty has a least one (`LeastOne`, by well-founded induction on `<`). It takes the place of
induction on a text: a function defined by recursion along a text, such as the depth of braces, is unique because two such functions would differ
first somewhere.

### The bulk program

`AsyncCmd_proof`, the parser. `IInv` is type correctness with the two order
properties, the bound of a static block, the bound of `block_start_index` and
`LevelBounded`: in texts whose braces match the level is at most the number of lines,
so that it does not wrap (`Wrap > MaxLines`). Without it the induction for
`StaticBlockBounded` fails at `}`: from level 0 the level would wrap. From `IInv` follow `TypeCorrect`, `PrintsInOrderOnce`,
`StopFlushes`, `StaticBlocksBounded`, `SlicesInBounds`, and `NeverCrashes`.
Three more theorems compare the parser with the text, through what `MCBulkParser` defines without following the code.
`DepthInv`: as long as no brace closes what is not open, `block_level` is the depth of the text and the slice of a nested block lies in
`cmds_` (`CrashesUnmatchedOnly`). `NestInv` and `NestedSavesInv`: after an opening brace of this chunk, followed by commands
only, those commands are the end of `cmds_` from `block_start_index` on (`NestedSavesWhole`). `TextInv` is about texts alone, how one
more line changes the blocks and the commands that are collected; `BlockInv` says that what was printed are the
finished blocks and `cmds_` is the one being collected (`PrintsTheBlocks`).

`AsyncCmd_proof`, the pipeline. `RunsParser`: each of its steps is one of the parser's or leaves the parser alone, so that all of
the above holds in it. `PipeInv` adds what threads and queues do: `StageInv` (which flags are up, and who has left
`do_work`, at each stage of the client), `LockInv` (who is past a wait has a reason to be), `FeedInv` (the text fed is the lines read, the rest of the chunk at hand
and the chunks queued), `PrintInv` (the printed blocks, the one at hand and those queued are the finished blocks, in order), `SaveInv`
(each block given to the savers is queued, in the hand of one, or saved once). From it follow `PipelineTypes`, `NothingLostAtDisconnect`
and `EveryBlockSavedOnce`. `PrinterServes`: the printer is a `TaskService` to the parser, every step being an `Accept`, a `Perform`, its stop or a
stutter. It needs `ServiceInv` (what went to the printer is a function of the events it has seen) and `EventsInv` (a line
makes at most one event). This is the safety half of `ImplementsPrinter`.

`BlockProcessor_proof` - `TypeCorrect`; `TasksOnce` (each task is in the queue, in one
worker's hands or run); `OneWorkerInOrder`; `StopDrains`, which needs that a worker exits only
with an empty queue, that early tasks precede the queue, and that there is a
worker at all; `QuietAfter`, since after the join every worker is at `"exited"`;
and `Refinement`: with one worker each step is a step of `TaskService` or a stutter (a push is `Accept`, `RunTask`
is `Perform`, by the order of the tasks).

`AsyncApi_proof` - under `OneCaller`. `BusyInv` (one call is under way), `ListInv` (a node for each connection that is open, the
last one that of the connect under way), `HandleInv` (a handle is that of its own node) and `TextInv` give `HandlesLive`, `StreamsApart` and
`ListExact`. The run `api_two_threads` shows that `OneCaller` is needed.

`AsyncServer_proof` - `ReadInv` (a completed chunk stays in the buffer until it is copied), `ChunkInv` (a client's chunks cover what was handed on,
one behind the other), `WorkerInv` (behind a worker that has left, at most one chunk can come) and `MainInv` (which observers live at each
stage of the two shutdowns) give `SessionsInOrder` and `ObserversLive`.

`Data_proof`, the savers - `NamesInv`: the files of a thread are of earlier seconds than any it may open now, since it
sleeps for a second first; `ClosedInv`: the file of a saved block is open to nobody. Hence `SavedStay`.

### Pools and threads

`ThreadPool_proof` - the invariants of the queue with the flag under the mutex: `LockInv` (who is about to wait has an empty queue and a
pool that is up, which is what `BlockProcessor` lacks), `DataInv` (where each task is), `LifeInv`. `Drains` and
`NoTaskLost` follow; so does `NoLostWakeup`: once the destructor has notified, nobody sleeps (`AwakeInv`, with `NotifyAll`), which is the safety half of
`DestructorReturns`.

`Threads_proof` - the active object. `QueueInv`: what ran and what is queued are the pushed tasks, in order; `EarlyInv`: the worker leaves only behind the flag
and with an empty queue, so that `StopRunsThem`. Then `NobodyIsEarly`, with one invariant for each program in which a thread must not
run ahead (`InTimeInv`): `BarrierInv`, the counter is the number of threads that have not come, so that it is 0 when one is past, for any number of
threads; `MutexSingletonInv` and `OnceInv`, what the instance and its flag are at each place of the one thread that makes it; `StateInv`, what is set of
a `TaskState` at each place of `SetResult`, and that whoever looks with the mutex held finds its setter at the end; `TimersInv`, a handler that was started was
started once and by a runner, and behind a runner that returned all are done. The lemmas about mutexes (`LockTaken`, `LockGiven`) and about
threads that were not spawned yet (`UnstartedStep`) serve all of them.

`SumsExact` is about three programs. Of the two with a counter, `MutexInv` and `CounterInv` say what each thread has added by its place and its
rounds, and that the counter is the sum of the two: who is between the read and the write of `++` holds the mutex (for the shared mutex `SharedLock`, a
reader shuts out the writers), so that what it read is still the counter. Of the nuclear reaction, `NuclearInv` has two parts. `Tree`: a thread
has the two threads after it start one by one, each with the range it was given, so that a range whose thread has not begun belongs to
one that has not ended. `Divided`: the parts of the threads (the whole range before the split, `mine` of it after) and the values already counted are disjoint and
make up `0..ValuesCount - 1`, and `sum` is how many were counted; the test of `threadCount`, which two threads may pass at once, is not used. In the
end no part is left. Threads have numbers in the model, and a thread `t` that splits needs `2t` and `2t + 1`: `RoomyMeansExact` takes this
(`Roomy`, which the run's eight threads satisfy) as its hypothesis, and `SumsAreExact` derives it from `Space`, which the code's 1000 values and
ranges of 10 satisfy as soon as `Threads` has the numbers up to 4000 (`RoomInv`: the number of a thread grows as its range shrinks).

`EverythingArrives` is about the fourteen programs of `HandedOver`, with an invariant for each (`HandedInv`). They come in a few kinds. *Counts*: what was
pushed is what was taken and what is there, wherever the threads are (`RealInv`, `ReaderInv`); in `GuardedInv` the sum is
what main has pushed at its place, and who is to pop has the mutex and a message. *Places*: what a thread has done follows from where it is (`HelloInv`, `EmployeesInv`,
`ThreadsInv`), and main is past a join only when the thread is at its end; in `SimpleInv` main writes its data only before the flag, and the worker only behind it, and in `RecursiveInv`
what the outer function sees after the inner one is its own. *Futures*: `FuturesAt` (a value that is set is the one its promise
was to give, and main has got the values it is past) serves the three programs that have some. *Queues*: in `LoopInv` n events were taken, none of the first
n - 1 a quit, and what is left is the rest of what was sent; in `WorldInv` a client that waits has exactly one request, in the queue, with the
server or replied to. `CashierInv` joins a queue and a count: of k events posted n are taken, the rest is queued in order, the buyers among
the k have come and those among the n are served but for the one at the till (`Pending`); so one more taken than served is one that is there, and
`assert(!m_buyers.empty())` holds. Posting the event and the buyer in one critical section is what makes this inductive.

### Network programs

`Network_proof` - the three properties of `MCNetwork`. The room: `RecentInv` (the recent messages are the last ones) and `StretchInv` (what a client got, heard or queued, is one
stretch of the messages, up to the last one while it is in the room) give `StretchesHeard`. The chat client: `LinesInv` (the lines are those sent, queued and posted, in
this order, with `close` behind all) and `ShownInv` (one operation reads the socket, for the first message not shown; `body_length` is
that of its header) give `LinesArriveInOrder`. The servers: `HttpInv` (a session owes one answer, to the request it holds, or none) and
`SessionsInv` (what a client got is a prefix of the answers its own database gives to what was read, one read after the other) give
`AnswersComeInOrder`.

### Data

`Data_proof` - `MapInv`: each line the stream has passed is with one mapper, in one place, and when all have written, little is left; with the
arithmetic of the shares (`LastShare`) `LinesMappedOnce`. `AnswerInv`, round by round: at each shorter size two lines were read back as one word, the merged
data is what was read back, in order, and what the reducers wrote tells whether their keys differ. It needs that the order of strings is one, so that equal
keys are neighbours in what was merged (`EqualAreNeighbours`), that they come to the same reducer (`SameFile`), and that the one datum a reducer
keeps tells of all it was given (`AccumulatedTells`). Hence `AnswerMinimal`, for any number of mappers and reducers. `VecInv`: the ranges the allocator has given lie in their blocks and do not meet (`AllocatorInv`), and
the vector's elements are in memory from `data` on (`VectorHolds`); only with `allowAllocks` does one leave its block. Hence `VectorKeeps`. `MatrixInv`, from `MatrixAssumption` (finitely
many rows and columns, which are numbers): rows and elements are sorted, a handle that was told of a row goes on having it (rows are never removed), the elements
are the cells that are set, and `cur_size` counts them. A loop is a way from place to place (`After`): it goes forward (`WayForward`), so that it is at the end after as many
steps as there are cells (`WayEnds`, by the pigeonhole principle), and it leaves no place out (`WayVisits`). Hence `MatrixIsItsCells`.

`EqualFilesFound` follows two files whose blocks gave the same strings, block by block (`FinderInv`). `ListsInv`: the lists are whole classes of files of one size, each
read once, until its files have no more. `TreeInv`: a node is the path of keys to it, and there is one root. `FileInv`: after n blocks a file has the key of block n - 1
and is in its node, and in no other, unless block n - 2 had the same key. `PairInv`: two files of one size with the same strings (`SameStrings`) have the
same node when as much was read of both, and the one ahead has the node the other one will reach from its own. That needs that the
node reached is determined by the node before and the key (`ReachedIs`), whatever nodes other files add in between.

### Only model-checked

Everything under fairness needs ENABLED and is out of the prover's reach: `StopReturnsOutsideWindow`, `ImplementsPrinter` (its fairness; the
steps are `PrinterServes`), `ParsedAndSaved`, `EverythingParsed`, `DestructorReturns`, `FutureReady`, `Heard`, `ClientReturns`,
`ProgramsEnd`. `AgreesWithReference` compares recursive algorithms with a second definition of their result (induction over
data), over the inputs `MCJobs` lists, which TLC goes through. Every other invariant and action property that a run checks is a theorem.

## 5. What is abstracted, and what is not modelled

Abstracted: text inside a command, wording and the log; the sleeps but for that of `SaveFiles` (any delay is allowed); what a block's text looks like in its file;
a line cut in two by a read; memory effects of unguarded list operations beyond their order; the columns of a row (one or two); hash collisions; files of `09_Boost` and of the phases of MapReduce that cannot be opened, and a block size of 0.

Not modelled: the editor skeleton (`06_Editor`), whose methods are empty, and the version number of `01_Github_actions`; the
resolver, the publisher and subscriber and `poco_big.cpp`, one blocking library call after the other; `test3_deadlock` of
`02_mutex.cpp`, which returns before it starts a thread; the copies of code modelled elsewhere (`04_IP_filter_ranges`, the queues of
`10_Async_Cmd`, the second thread pool); the dispatch at compile time of `print_ip` for
containers, strings and tuples; the `Logger` of the bulk server; `deallocate` and `ShutDown` of the allocator, which only return
memory; the build.

## 6. Plan

Extend: lines cut in two by a read, as units of `AsyncServer` that are pieces of lines.
