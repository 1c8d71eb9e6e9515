# Formal models of belt.pp

belt.pp is a C++ library: an HTTP/JSON messaging stack over TCP sockets, an
in-process counterpart of the sockets, thread pools, a parser framework and a
code generator for messages.  This directory holds TLA+ models of the parts
whose correctness depends on interleaving, ordering or failure, the TLC
configurations that check them, and TLAPS proofs about them.  Line numbers are
those of the repository; paths are below `src/`.

Sections: [inventory](#inventory), [plan](#plan), [the modules](#the-modules),
[runs](#runs), [bounds](#bounds), [fairness](#fairness), [proofs](#proofs),
[findings](#findings), [observations](#observations), [not modelled](#not-modelled).

## Inventory

| component | state | operations | what is hard | what makes it correct |
|---|---|---|---|---|
| worker pool `processor_old` (`libprocessor/processor.cpp` 1-210) | queue of tasks, wanted and actual threads, busy count, task count, two condition variables | `run`, `wait(n)`, `setCoreCount`, destructor, the worker's `loop` | notifications outside the mutex, workers that retire while tasks arrive, waiters woken one at a time | no wake-up lost, each task once and in order, `wait` returns exactly when all is done, shrinking drains |
| header-only pool (`belt.pp/async/processor.h`) | the same without the task count | the same | the same | the same |
| strands (`belt.pp/async/multithreading.h`) | per strand a task list and an exception; a set of finished strands | `thread::run/wait`, `thread_pool::wait(all, any)` | batches handed from worker to worker, exceptions, a strand destroyed while a worker leaves it | one worker per strand, submission order, an exception seen once |
| `processor_ex` and its event handler (`libprocessor/processor.cpp` 210-560) | input and output queues, on-demand flag | `send`, `receive`, `wait`, `wake` | results, wake-ups and a waiter on one condition variable | each packet answered, no wake-up lost |
| ring queue (`belt.pp/queue.hpp`) | buffer, start, size, number of rounds | `push`, `pop`, `reserve`, `operator[]`, `get_free_range` | indices that survive growth, wrap and overflow | an element keeps its index, FIFO order |
| direct stream (`libdirect_stream`) | streams by id, each with a queue per sender | constructor, destructor, `send`, `receive` | join and drop against messages, one wake-up per packet, a constructor that throws half-way | complete sessions in order, no packet without a wake-up |
| socket (`libsocket/socket.cpp`, `native.cpp`) | table of channels, buffers per channel | `listen`, `open`, `send`, `receive`, drop, retry | ids and slots through failed calls, retries and reused descriptors | an event reaches the channel it is for, join means connected, output leaves |
| event handler (`libsocket/event.cpp`, `event_impl.hpp`, `poll_master.hpp`) | slots, registrations, synchronous results, wake pipe, timer | `add`, `remove`, `wait`, `wake`, `set_timer` | slots reused while events are under way, a full pipe, an expired timer | as above; every wake-up ends a wait |
| the same on Windows (`poll_master.hpp` 460-903, `native.cpp`) | per id two buffers, flags of what is under way, a shared result | `add`, `remove`, `wait`, `wake`, `recv`, `async_send`, `send`, `accept` | operations that end after the entry was removed, both directions sharing one result | no buffer in use twice, bytes in order, everything dealt with |
| timer (`belt.pp/timer.hpp`) | last expiry, period | `set`, `update`, `expired` | period of zero, clock far ahead | expiries one period apart |
| HTTP framing (`belt.pp/http.hpp`, `tls.hpp`) | scan state and session data of a channel | the message loader called by `receive` | requests in any number of chunks, automatic replies | the same message for every way of cutting the input |
| parser framework, math and JSON (`belt.pp/parser.hpp`, `math_expression.hpp`, `json.hpp`) | expression tree in one vector, path to the current node, what is not parsed yet | `parse_stream`, `parse_full`, `encode`, `decode` | relinking by priorities, tokens cut by the end of a piece, limits on depth and size, surrogate pairs | the tree of the grammar, or an error, wherever the pieces end |
| IDL grammar, code generator (`idl_parser.hpp`, `idl/`) | none | a batch program | - | - |
| packets, logging, utilities | none, or output only | - | - | - |

Interaction.  A socket registers each descriptor with the event handler, which
hands out a slot; `wait()` turns what epoll reports into sets of channel ids per
socket; the user then calls `receive()` of those sockets, which visits the ids
and may call `add_channel`, `delete_channel` and the event handler again.  Each
channel reads into and writes from a ring queue, and the tables of channels and
of slots are themselves lists of ring queues.  A direct stream calls `wake()` of
the event handlers of its peers.  The strands run batches on the worker pool.

Hard behaviours, by line, are the `hazards` of `PROJECT.json`.

## Plan

Written, in this order:

1. `TaskPool` (abstract), `Processor`, `Processor_proofs`: the pool is the base
   of everything that runs concurrently.
2. `DirectStream`, and its theorems in `EventHandlers_proofs`.
3. `Queue`, `IndexedFifo` (abstract), `RingQueue`: the container of every buffer
   and table of the socket.
4. `SlotList`, `SocketEvents`: sockets composed with the event handler.
5. `Strand`: sequential batches on the promise of the pool.
6. `RequestStream` (abstract), `ProcessorStream`.
7. `EventLoop`: rounds of `wait()` with pipe and timer.
8. `HttpSession`: the scan over pieces and the receive loop.
9. `Lexers`, `ExpressionTree`, `Parser`, and `JsonString`, `Meaning` (the reference)
   and `ParserMeaning`, which compares the parser with it.
10. `CompletionPort`: the Windows event loop.

11. Theorems about `ProcessorStream`, `Strand`, `EventLoop`, `CompletionPort`,
    `RingQueue`, `SocketEvents`, `HttpSession` and `Parser`.

To come, in this order:

12. `SocketEvents` with a failing re-registration.
13. Theorems about the parts of `SocketEvents` that survive a failing
    re-registration.

## The modules

### TaskPool, Processor

`Processor` has one action per critical section of `processor.cpp`.  Variables
have the names of the members; `workerPc`, `clientPc` and `ownerPc` say where in
`loop`, `run`/`wait` and `setCoreCount` each thread is, and a condition variable
is the set of threads that are `asleep` at it.  `notify_one` wakes any one of
them; any of them may also wake spuriously.  What the code does outside the
mutex is a step of its own: the `notify_one` of `run` (line 131), the task, the
spawning, `notify_all` and joining of `setCoreCount`.  Tasks may themselves call
`run`.  `accepted`, `done` and `owed` are history.  `m_policy` is always
`allow_new`: no function sets it.  A task that throws is a task that finishes
(the loop catches everything).

`TaskPool` is what a user of `iprocessor_old` may rely on: accepted tasks start
in order and once, and `wait` is left at a moment when everything has finished.

### DirectStream

Every member function of `direct_stream.cpp` holds the channel's mutex, so each
is one action.  The peers' event loops interleave: `wakes[p]` are wake-ups that
`p`'s event handler has yet to report, `woken` the peers whose `wait()` has
returned and who have yet to call `receive()`.  `Construct` includes the
exception half-way, when a peer still holds a queue of an earlier stream of the
same id.  `sent` and `view` are history.

### Queue, IndexedFifo, RingQueue

`Queue` are the values of `beltpp::queue` and its functions, with arithmetic
modulo `Word`.  `RingQueue` is one queue used as a socket uses it: pushes, pops,
`get_free_range` written in place by `recv` (`Receive`) followed by a push of each
element (`PushReceived`, while `chunk` says what is left of the loop), and
assignment of a new queue.  An element is the index it was given, so a lost,
duplicated or misplaced element shows.  A slot that was popped is shown as
`Unset`.  `aborted` is set where an assertion of `reserve` fails.

`IndexedFifo` is a sequence and the index of its first element; each of its steps
adds one element, removes the first or starts afresh.

### SlotList, SocketEvents

`SlotList` are the operations on a list of queues that socket and event handler
share in form (`add_channel` 1160-1180 and `event_handler_impl::add`; the pops
and erasures of `delete_channel` and `remove`).  `PopClosed` is what the loop of
pops comes to: `ClosedFirst` counts the closed items at the front, and the start
moves on by as many.

`SocketEvents` composes the two tables with epoll.  `m_lst_channels` and `m_ids`
are the tables; `epoll` the kernel's registrations; `sync_eh_ids` the slots
whose `connect` ended at once; `m_event_item_ids` the result of the last
`wait`; `todo` the ids a running `receive` has not visited; `net` the state of
each descriptor.  A handler that calls others is written as an operator on a
record of all tables (`AddChannel`, `Deleted`, `Rewatched`), so that, say, a
refused connection deletes and reopens in one step.  `Listen`, `Open`, `Send`,
`Drop`, `Wait` and `Receive` are the user's calls; `Visit` is one iteration of
the loop of `receive`, with an alternative for each of its branches; `Network`
is the outside.  Only one thread calls, as the README of the repository suggests
("multithreading necessary? nope").  It is the Linux build.

`Failures` names the calls that may fail: `epoll_ctl` of a new descriptor, and
`getsockname` behind `add_channel`; with the latter `JoinMeansConnected` does not
hold (see observations), so the passing run has only the former.  `EarlySend` says whether users send to a
peer before its join.

### Strand

`Strand` has the members of `async::thread` as functions of the strand and those
of `thread_pool` as sets.  Of the pool below it uses the promise of `TaskPool`,
a queue of batches that start in order.  `workerPc` follows `thread_task`: `get`,
the test of the exception, each task (which may call `run` of any strand, and
may throw), the advance of `it_last` (outside the mutex, line 209), the critical
section that erases the batch, and the two notifications.  The mutex of a strand
is held across `submitting` and `notifyPool`, where the code takes the mutex of
the `thread_pool` inside; `Locked` says so, and every other critical section of
that strand waits for it.  `waitsFor` is a strand (`thread::wait`) or an option
(`thread_pool::wait`).  Tasks of a strand are numbered in the order they came, so
that an iterator into the list is a number: `Place` is where it is, `Following`
the task after it, `From` what follows it on the list.

### RequestStream, ProcessorStream

`ProcessorStream` is the pool of `processor_ex` (`processor.cpp` 210-555), which
differs from the other in what goes in and out: `send` queues a request and
notifies after it has released the mutex (`SendNotify`), a worker function may
call `async_result_ex::send` any number of times (`MaxAnswers`), each of which
notifies the event handler, and the thread of the event loop waits for output or
for `on_demand_wakeup` at the same condition variable (`WaitEvent`,
`WaitOnDemand`, `WaitSleep`), then calls `receive()`.  Both condition variables
may wake spuriously.  `RequestStream` is what a user sees: requests start in
order and once, answers come in the order they were given, each `wake()` is
reported once.

### EventLoop

One round of `event_handler_ex::wait` after another: `WaitBegins` (timer tested
before anything is polled), `TakeSync` (one completed connection), the poll with
its timeout, the mapping of ids to items, and the handling by the user.  `poll`
is the build: `epoll` or `kqueue`, whose timeouts differ.  Time passes in ticks,
of which `TicksPerMs` make a millisecond, so that the truncation of the timeout
shows; the timer is the time `left` to its expiry.  The pipe of `wake()` has
`PipeSize` bytes and is drained by a read of up to as many as the code's buffer
has; a `wake()` into a full pipe throws (`WakeThrows`).  The specification is
called `LoopSpec`, its parts `LoopInit` and `LoopNext`, as `EventHandlers_proofs`
has it beside that of `DirectStream`.

### HttpSession

A connection delivers messages in pieces of any size (`Deliver`); `receive()`
hands all that has been received to the message loader, which calls
`http::protocol` (`Load` and its steps), pops what was consumed and goes on as
long as there is a packet, an error or a reply (`Continues`).  The scan state
`ssd` is what is kept in the session between two calls.  A symbol of a text
stands for a word the scan does not look into; methods and line endings keep
the symbols that make them hard to find across pieces.  Of a URL the model has whether
`request::set` refuses it (`BadUrls`).

No file under `src/` calls `http::protocol`: the loader in between is the
program's.  The one modelled does with the result what the generated loader of
`idl/resources.cpp` (279-345) does with that of its parser: after an error it
drops the rest of the input.  Like that one it leaves `autoreply` alone, to which
`http.hpp` 422-429 appends and which nothing under `src/` empties.  `Reply` is the
branch of `socket.cpp` 688-699 behind each call without packet or error: it sends
all that `autoreply` has, sent before or not, and goes round, or leaves the loop
if there is nothing.  So `receive()` that waits behind an OPTIONS answers it again
and again (`Resending`); what is true
nevertheless is said of the states in which it has returned or waits that way
(`Settled`): each OPTIONS has been answered, once or more, and nothing else has.

### Lexers, ExpressionTree, Parser, JsonString, Meaning, ParserMeaning

`Lexers` are the lexers of the math and the JSON grammar with what they read of
a text: success, an attempt that needs more, or an error; `check_number` is the
automaton of `parser.hpp` 1223-1310, and `strtod` is external.  `ExpressionTree`
is the tree in one vector linked by indices, and `parse_helper`, which climbs
from the current node by priorities and inserts, extends or appends.
`Parser` is `readers::parse` step by step: `Call`, `Try` a lexer, `GiveUp` at the
end of the list, `Return`; a text arrives in pieces, and is then parsed once more
at one go (`AtOneGo`), by `parse_stream` or `parse_full`.  `Exceeded` are the
limits that a placed token breaks; the tree keeps the token all the same, and the
later lexers are tried on that tree.  `refused` is history: the limits that have
refused something.  The specification is called `ParserSpec`, its parts
`ParserInit` and `ParserNext`, as `IndexedStructures_proofs` has it beside that of
`RingQueue`.

`JsonString` is `value_string::encode` and `decode` over code units.  `Meaning` is
the reference: the tokens and the tree of a text by the rules of the grammar
(priorities, lists, brackets) and the characters of a string, without any of the
parser's tree operations.  `ParserMeaning` has the two properties that compare
`Parser` with them.  These three are recursive, so they are for TLC only.  57,684
texts were also given to the compiled headers: verdict and tree agreed with
`Parser` for each.

### CompletionPort

The `poll_master` of the Windows build with `native::recv`, `async_send`, `send`
and `accept`, and what `receive()`, `send()` and `delete_channel()` make of
them.  `m_events[id]` are the `details` of an id: `running` is
`async_task_running`, and the buffers hold the numbers of the bytes, so that a
lost, repeated or overwritten byte shows.  `wait()` is two steps: what it does
before it blocks (`WaitBlocks`, or `WaitFindsUnread` and `WaitFails`, which end
it at once), and the packet it takes (`WaitTakes`).  The completion port is a
sequence of packets; the system ends what it has been given (`ops`) when the
network lets it.  The program reads `1..left` bytes at a time, as the receive
stream may have less room than the buffer holds.  One descriptor has one id;
retries, slots and the timeout are the other modules'.

## Runs

| run | configuration | question | states |
|---|---|---|---|
| `pool` | Pool.cfg | With a waiter that also submits, another submitter, tasks that submit and an owner that resizes between 0, 1 and 3: is a task or a wake-up ever lost, does `wait` return early, does shrinking drop tasks?  Do accepted tasks run, and `wait` and `setCoreCount` return, without help of spurious wake-ups?  Does the pool implement `TaskPool`? | 271,406 |
| `direct_stream` | DirectStream.cfg | With two peers that leave and rejoin, is each packet covered by a wake-up and received in the end, and each stream's view a sequence of sessions? | 359,958 |
| `ring_queue` | RingQueue.cfg | Does a ring queue with a 5-bit index implement `IndexedFifo`? | 67,021 |
| `socket_events` | SocketEvents.cfg | Two sockets on one event handler, through opens, retries, joins, drops and failures of `epoll_ctl`: do events reach their channels, are ids unique, is a join a connection, is pending output watched for when users send after a join? | 431,374 |
| `strand` | Strand.cfg | Has each strand one batch, run in order, at most once and not beyond a failure; does `wait(all)` wait for all; is a lone waiter woken, and does it get out, without spurious wake-ups? | 488,569 |
| `processor_stream` | ProcessorStream.cfg | Do requests start in order and once, are answers received in order and once, is every wake-up reported, and does nobody sleep on work or output? | 193,719 |
| `event_loop` | EventLoop.cfg | Is every wake-up, event, completed connection and expiry told, none twice, and does the timer keep its phase when the loop is late? | 204,532 |
| `http_session` | HttpSession.cfg | Do requests come out the same however they are cut, is each OPTIONS answered and nothing else, is what must be refused refused, and does `receive()` return unless it waits behind an OPTIONS? | 149,524 |
| `parser` | Parser.cfg | Is the tree the one the grammar gives, wherever the pieces end; do refusals and limits end in errors; are strings and numbers read as written? | 385,904 |
| `completion_port` | CompletionPort.cfg | Do the flags say what the system has been given, do bytes keep their order both ways, and is everything sent, received, ended, removed or woken for dealt with? | 65,656 |
| `socket_lost_output` | SocketLostOutput.cfg | Is pending output watched for also when users send before the join? | **no** |
| `strand_lost_task` | StrandLostTask.cfg | Does every task of a strand without failures run? | **no** |

The answers are the good ones except for the last two, which are counterexamples
(see [findings](#findings)).

Deadlock is checked in the runs of pool, strands, processor stream, event loop,
HTTP session and completion port: somebody can always go on, or the module says
when all is done.  It is not checked where a bound on ids, joins, sends or texts
may leave nothing to do, nor after an abort.

The first invariant of a run (`PoolConsistent`, `TablesConsistent`, ...) is the
conjunction of type correctness and of the parts that say how the tables of the
module agree; some temporal properties (`PoolProgress`, `EverythingIsReported`,
...) are conjunctions as well.  The parts are defined and explained one by one
above them, and are called by their own names below.

Each property of a passing run has a mutant: a variant of one definition, kept
next to it in the module (`LoopFinishTestsFirst`, `SlotLeft`, ...), that is a
plausible mistake in that code.  With it the property fails.

## Bounds

* Pool: two tasks, two clients, up to three workers.  A lost wake-up needs a
  notification, a worker that takes its task and one that sleeps; the retirement
  test needs a worker that stays and one that goes.  Each task is submitted
  once.  Two waiters are covered by the theorems only.
* Direct stream: two peers, five constructions so that both ids are used again,
  three messages.  A constructor that fails after it has told a first peer, and
  queues of two senders at one peer, need a third: the theorems, which hold for
  any number of peers, cover them.
* Ring queue: `Word = 32`, `MinReserve = 4`, at most 16 elements (`MaxCapacity`, a
  power of two short of `Word`, which no allocation reaches): from the given
  shapes (empty, first buffer, a continued index, one near the overflow) the
  buffer grows twice, wraps and overflows; `Word` is a power of two like the real
  one, and so is every capacity, which is what the arithmetic needs.
* Socket: tables whose first queue holds 1 instead of 4 and 16 and whose next
  holds 2, so that the second channel already lies in another queue; two
  descriptors, so that one is reused while another is open; three ids per table;
  two attempts, so that there is one retry; up to two unsent messages (the code
  only distinguishes none, some and the last).  The next id never comes near the
  overflow that `RingQueue` checks.
* Strands: two on two workers, so that batches of both run side by side and one
  batch can follow another of the same strand on another worker; two tasks each,
  so that a batch holds both or leaves the second to the next batch.
* Processor stream: two requests, two workers, one answer a request and two
  wake-ups, so that answers and wake-ups wait together.
* Event loop: two items with an id each, a pipe of two bytes, periods of 2 and 3
  ticks of half a millisecond, a loop at most 3 ticks late and one connection
  that completes at once.  Rounds take at most one tick outside the poll: when
  they take longer than the period, the timer is all that `wait()` ever tells.
* HTTP session: every sequence of up to two of eleven messages, and of three of
  those with a body or a reply, in pieces of any size.  Six of the eleven have to
  be refused: for their method, their URL, a header that is too long, and a length
  that is missing, empty or too large.  `EnoughLength`,
  `HeaderMaxSize` and `ContentMaxSize` are just large enough for the good ones.
* Parser: math texts of up to 5 symbols over six (two operators of one priority,
  one of another and the implied product between them, brackets, a prefix);
  JSON texts of up to 4 or 5 pieces over brackets, separators, words cut in two,
  numbers and strings with escapes and surrogates, among them the code units at
  both sides of each limit of `Utf8` and `Utf16Check` (`Units`); limits that some of the texts
  pass and others exceed, among them a depth of 3 for signs, of which a fifth
  symbol finds the path short again, and a `not_yet` limit that words cut in two
  exceed.  Two operators in a row with three operands are what the relinking of a
  tree distinguishes.
* Completion port: a connection that is opened, or a listening channel and one
  connection accepted from it; buffers of two bytes, messages of one and three,
  up to four bytes sent, two received, one wake-up.  Three bytes are cut to one
  (one less than the buffer) and then two, which is every case of `Chunk` and
  `SentSoFar`.

## Fairness

`Processor`'s `FairSpec`: each thread that can take its next step does so (the
scheduler), and tasks return.  Spurious wake-ups and new calls are not required,
and a client that never calls is allowed.  That accepted tasks run and `wait`
returns is claimed only if the owner does not leave the pool without workers
(`Staffed`), as `setCoreCount(0)` stops it on purpose.  `DirectStream`'s: a peer
whose wait can return returns from it, and then calls `receive`, as every event
loop of the repository does.  `Strand`'s is that of the pool, for a lone waiter.
The number of messages is bounded in the run, so the property says that what is
queued is received when senders pause.  Every wake-up counted by the model stays
until it is reported: the pipe holds a byte for each.

`ProcessorStream`: threads outside the mutex get on, the worker function
returns, and the thread of the event loop goes from `wait` to `receive` and
back.  `EventLoop`: the thread of the loop gets on unless it is blocked in the
poll, and time passes; nobody has to wake, and no event has to come.
`HttpSession`: `receive()` gets on, its answers included; nothing has to be
delivered.
`CompletionPort`: the thread of the loop gets on (including the `receive()` that
follows a `wait()`), and the system ends each operation that can end; timeouts,
failures, peers, drops and further sends are not required.

## Proofs

TLAPS checks these for every value of the constants, under the assumptions
named in the modules (`PoolAssumption`, `ChannelAssumption`: finite sets of
clients and peers, natural bounds).  Any number of workers, clients and tasks,
any sequence of resizes, any number of peers and messages.

`Processor_proofs`.

* `TypeInv`, the base of all: `TypeOK`, which threads exist for each phase of the
  owner (`ThreadTable`), that exactly the running workers hold a task
  (`JobHeld`) and `BusyIsRunning`.  `BusyIsRunning` alone is not inductive: a
  worker can only leave the count right if it is known to have been counted.
  Gives `TypeCorrect`, `BusyCountCorrect`, `SizeCorrect`.
* `NoLostWakeUp`: `NoIdleWorker` is a counting argument - the tasks in the queue
  are at most the workers about to look plus the notifications owed - and is
  inductive on top of `TypeInv`.
* `TasksRunOnce`: the three places of a task, with the queue free of repetitions.
* `WaitCorrect`, an action property: when a wait ends, the queue is empty and
  the busy count 0, so by `BusyIsRunning` and `EachTaskOnce` all is done.
* `ShrinkCorrect`: no worker is left means that `owed`, what had been accepted when
  the last `setCoreCount` that found workers was called, has been run.  Only a
  join leaves no workers (`ShrinkStep`), and `LastJoinDrained` needs `OwedTaken`:
  once a worker has left, no task accepted before the resize is still queued.
* `WaiterNotLost` needs `WaiterInv`: only waiters sleep at the second condition
  variable, so that with one of them `notify_one` wakes the right one.
* `PoolRefinement`: `Init` and each action map to `TaskPool`'s or to a stutter;
  `LoopTake` is `Start`, `LoopFinish` is `Finish`, a `wait` that returns `Leave`.
* `BooksAgree` and `NobodySleepsOnWork` put the invariants together as the run
  `pool` checks them (`PoolConsistent`, `WakeUpsSuffice`).

`EventHandlers_proofs`, on `DirectStream`.

* `TypeCorrect`.
* `WakesSuffice`: the non-empty queues of a peer are at most its wake-ups plus a
  `receive` that is due.  `Construct` is the hard case: it adds one for each
  peer it has told, also when it stops half-way.
* `ChannelsConsistent`: both, as the run `direct_stream` checks them.
* `SessionsInOrder`: `SessionOrder` with `TypeOK` is inductive; `InOrder` of a
  queue with a packet appended is split in `InOrderAppend`.

`SocketEvents_proofs`.  Assumed: `Word` and the first capacities are powers of two
(`CapacityAssumption`), descriptors are numbers and `None` is not one
(`HandlesAssumption`), and no table gives out as many ids as an index has values
(`BoundsAssumption`; what happens then is `RingQueue`'s).  Any sockets,
descriptors and attempts.

* Lemmas about one queue (`Rows`: a buffer of capacity `c`, where `c` divides `Word`)
  give those about a list of queues (`Lists`: indices go up from queue to queue),
  and these say what setting, adding and closing an item does to the items that
  are open (`OpenSet`, `OpenAdd`, `OpenClose`): nothing to the others, although closed
  ones are popped and queues erased.
* What `WithChannel`, `Rewatched`, `Deleted` and the two outcomes of `AddChannel` do
  to the tables is stated once each (`IsWritten`, `IsRewatched`, `IsDeleted`, `IsAdded`,
  `IsNotAdded`), and each invariant is proved for those five.  `Step` collects what a
  handler keeps, and `StepTwice` composes it for handlers that call others, as
  `delete_channel` followed by a new `open`.
* `SoundInv` is inductive: each registration `Leads` over an open slot to an open
  channel that has its descriptor and knows its slot, each open channel and each
  open slot has a registration, no descriptor has two, and a watched one is not
  free.  `SocketTables` follows by counting (`AsMany`).  `SocketIds` is
  what each step keeps (`Kept`), composed like the rest.
* `SocketJoins` needs `JoinInv`: `JoinMeansConnected` is not inductive, as an event is
  visited after it was reported and the channel may have been retried in
  between.  It adds what is known of reported ids (`Reports`), of slots that
  `connect` has ended at once (`SyncEnded`) and of closed slots that still lead to an
  id (`SlotsLead`).  It fails when `getsockname` throws (see
  [observations](#observations)), so that is its hypothesis.
* `SocketPending` needs that a peer before its join has nothing pending, which is
  its hypothesis on `EarlySend`; without it the run `socket_lost_output` shows the
  counterexample.

`IndexedStructures_proofs`, on `RingQueue`.  Assumed: `Word` is a power of two (`WordAssumption`), the
largest buffer a smaller one (`CapacityAssumption`), and new queues ask for no
more (`ShapesAssumption`).

* `QueueInv` says that for some capacity `c` the buffer has the slots `0..c-1`,
  that `c` divides `Word` (so that an index modulo the capacity is a slot also
  after the index has overflowed: `SlotOfIndex` and the lemmas on `%` before it),
  and that the slot `k` after the start holds the element with the index `k`
  after `begin_index`, for `k` up to the size *and* what `recv` has written
  (`Written`).  The last part is what makes `PushReceived` a push like any other.
* Growth is the hard case: the new queue has the same two indices unless
  `end_index` is 0 (then `aborted`, and `AbortsAtOverflow` says that nothing else
  makes the assertions fail), and the copy puts each element where its index
  leads in the larger buffer.
* `QueueCorrect` follows; `QueueRefinement` maps `Push` and `PushReceived` to `Add`,
  `Pop` to `Remove`, `Reset` to `Clear`, and `Receive` to a stutter, as what it
  writes has no index yet and growth moves elements without changing theirs.

`Strand_proofs`.  Assumed: finitely many strands and clients, and names that do not
collide (`StrandAssumption`).

* `IInv` has, next to the types, where each strand is: queued once, served by one
  worker, or without tasks (so `OneBatch`); that a strand with tasks is pending and
  not done unless a `run` is submitting it; that a worker's
  `it_last` is on the list (the list is only appended to while a batch runs); and
  who is on the way to a lone waiter that sleeps (`WokenInv`).
* `OrderCorrect` adds `OrderInv`: what has run precedes what is on the list,
  except the part of the list the running batch has gone through.
* `WaitAllCorrect`: when the sizes of the two sets agree the sets do, since done
  strands are pending ones.

`ProcessorStream_proofs`.  As for the pool; `Attended` is inductive on top of
`TypeInv`, `OnceInv` says where each request is, and `StreamRefinement` maps
`Send` to the abstract acceptance, `LoopTake` to a start, `WorkerSend` to an
answer and `receive()` to the delivery of what is queued.

`EventHandlers_proofs`, on `EventLoop`.  `LoopInv` adds to `LoopConsistent` what each point of a round
has and has not looked at (`RoundInv`).  `TimerCorrect` and `TimerOnce` rest on
lemmas about the number of periods `update()` skips.

`CompletionPort_proofs`.

* `PortInv` has for every entry: when it exists (`LifeOf`), what each action of the
  entry allows to be under way (`TurnsOf`), and where in the streams of bytes its
  two buffers are (`InputOf`, `OutputOf`, `BytesOf`), and that an operation is
  either with the system or a packet of the port (`PortOnce`).  `BytesInOrder`
  alone is not inductive: a buffer is written and taken in parts, and only their
  positions say that a part is the next one.
* `PortBytes` and `PortTyped` hold whatever fails at once.  `PortCorrect` does not
  when a `WSASend` fails at once (see [observations](#observations)), so that is its
  hypothesis; `OpenMarks` says what remains without it: the entry of a channel that
  has not been closed is marked truly.

`HttpSession_proofs`.  Assumed: the scripts consist of messages as `IsMessage` has
them, good ones and ones to refuse, over any set of symbols with those of the
methods and endings (`ScriptsAssumption`, `SymbolsAssumption`); the limits are
numbers and `HeaderMaxSize` is not 0 (`LimitsAssumption`).  Any messages, any number
of them, any pieces, any set of refused URLs.  The argument in four parts:

* Texts: `PartNext`, `PartAt` and `WireIs` say where each line lies in its message and
  each message in the wire.
* Matching: `LineFound` and `LineAwaited` say what `check_end` makes of a whole line
  and of a beginning of one, with whatever comes behind it; `BegunIs` and
  `RequestFirst` the same of the methods, two of which begin alike.
* The scan: `RequestLineRead`, `RequestLineBad` and `NextLineRead` say that a line is
  read when it is there, or refused for its URL (`UrlBad`), and awaited until then,
  for any part of it.  They need
  that `long_enough_message` is only true of what is longer than `EnoughLength`,
  which `Scanning` has.
* `IInv` says that what is left of the text ends where the text that has arrived
  ends (`EndsAt`), and, if the last error was told between two messages, that the
  scan is at a message `i` or behind one of its lines (`At`: status, length and the
  count against `HeaderMaxSize` are those of the lines before), that messages
  before `i` have been told (`Told`), and where the scan has come to its end for
  now (`Waiting`) that message `i` has not arrived as a whole (`Waits`).  `Answering`
  says that what `autoreply` has is what has been answered, but for the OPTIONS
  whose answer is about to be sent; an answer that is
  sent again changes neither.  `PiecesDoNotMatter` alone is not inductive: it says
  nothing in the middle of a message.  One lemma per action keeps it; the
  result of a call splits into `LoadedAttempt` (the same `i`), `LoadedWhole` (the
  next one) and an error, which no good message causes (`ErrorAt`).  TLC finds
  `IInv` true in all states of the run `http_session`.

`IndexedStructures_proofs`, on `Parser`.  Assumed: the grammars are the two that
are modelled, pieces are not empty, and limits are numbers (`LimitAssumption`).
Any texts, any pieces, any limits.

* `TreeConsistent` speaks of `child()`, which walks back along the peers.  The
  proof abstracts the tree to a function `K` from each node to the sequence of its
  children: `Links` says that the members of the nodes are those of `K`, that
  every node but the root is in one place of one sequence (`Once`, `Rooted`), and
  `Path` that the path goes down the last children.  `Whole` adds that what has
  left the path is complete.  `Tied` and `Whole` are inductive, and `Linked` gives
  the property from them (`ChildIs`: the walk back finds `K`).
* Each way of placing a token gives another `K`: `Extend` the same one, `Insert`
  puts the new node where its child was (`InsertWhole` and what comes before it),
  `AppendChild` adds at the end of one sequence.  `CurrentIs` says that where
  `parse_helper` stops the nodes below are complete (`WholeBeyond`), and `HelperIs`
  puts the halves of `parse_helper` together.  `TriedIs` needs that a lexer that
  succeeds reads at least one character and no more than there are (`ReadIs`), for
  which the automata of numbers and strings are followed through every text.
* `RefusedOK` has what `RefusedIsAnError` leaves out, why no later lexer accepts:
  a json text of which a limit has refused the token is read by the one lexer
  that has been tried (`OneReads`), since no two lexers read anything from texts
  that begin with the same character (`OneOwner`); a math text may be read
  otherwise, but its nodes do not become fewer, and its characters are the same
  in the tree and the rest together.
* `WaysAgree` compares two parses of a JSON text, of which the first has seen the text
  in pieces.  `Trail` is what they have in common: a sequence of trees from the
  empty one on, each the one before it with one more token (`Moves`), where a run
  of white space counts as so many blanks, since it may be cut anywhere.  A trail
  depends on the text only, and stays one when the text goes on (`TrailOn`): a
  lexer that reads a token off the beginning of a text reads the same token off
  all of it (`ReadsOn`), which is shown along the automata of numbers and strings
  and is why a number at the end of a piece has to wait.  `WaysOK` is inductive:
  while the text arrives, the parser is at the end of a trail and has tried in
  vain what it has tried there (`StandsAt`); the verdict at the end (`Verdict`) is
  that the text is used up, that the rest waits, or that nothing goes on (`Stuck`);
  and the second parse is somewhere on the trail of the first.  Where it goes on
  it stays on it (`Follow`), and where it does not the first has not gone further
  than into the white space (`Blocked`).  That what a limit refuses is not placed
  in another way is needed from `RefusedOK`.  As in the property, texts are left
  out in which a piece ended in too much of a token that goes on.

Model-checked only: liveness (`AcceptedIsRun`, `WaitReturns`, `ResizeReturns`,
`QueuedIsReceived`, `RequestsAreServed` and the like), which is outside what the
prover handles; of `Parser`, `TreeIsAsWritten` and `WordsAreRead`, whose reference
is recursive.
Facts about data that take an induction are proved by the least
counterexample instead (`Least` of `HttpSession_proofs`, and the like of
`IndexedStructures_proofs` and `SocketEvents_proofs`, from the well-foundedness of
`<` on the numbers), but that is out of reach for
a definition that is itself `RECURSIVE`.

## Findings

* `socket_lost_output`: output sent before the join is watched for by nobody.
* `strand_lost_task`: `thread_task` advances `it_last` before it locks the strand; a
  task submitted in between is erased with the batch and never runs.

## Observations

Seen while modelling; the passing runs leave these cases out, or the models show
them as the code has them, and no run is kept for them.

* `direct_stream.cpp` 41: a stream that leaves and is constructed again before a
  peer has received its drop makes the constructor throw its `logic_error`
  (`ConstructThrows`); the id stays registered without a stream.
* `queue.hpp` 46: an index of 0 that is the result of an overflow is taken for
  "no index" and the assertions of `reserve` (222-223) fail (`aborted` of
  `RingQueue`).  It takes as many pushes as `size_t` has values, and is the only
  case in which they fail (`AbortsAtOverflow`).
* `socket.cpp` 1205: an `add_channel` that fails behind an immediate `connect`,
  in `getsockname`, leaves its synchronous result behind, which is delivered to
  the next channel; with `"getsockname"` in `Failures`, `JoinMeansConnected`
  fails.
* `poll_master.hpp` 387-395 (kqueue): the comment says the timeout should at
  least be 0, but no timeout is passed when less than a millisecond remains, so
  that the timer is told when the next event comes; `TimerIsReported` is about
  epoll for that reason.  On Windows (797-806) a `DWORD` is tested for `< 0`.
* `poll_master.hpp` 744-758 (Windows): a `WSASend` that fails at once while a
  `WSARecv` is under way leaves `result_receive_send` at true, so `recv()` takes
  the error, clears the flag of the receive and sets the entry up afresh: the
  entry may then be erased, or a second `WSARecv` begun, while the system has
  the first.  `RunningIsTrue` fails with `"send"` in `FailAtOnce`, and the run
  leaves it out.  The comment at 829 ("seems to happen commonly") fits it.
* `poll_master.hpp` 654-669 (Windows): when `CreateIoCompletionPort` fails the
  entry stays, and each later `add()` of the id throws.  A channel that is dropped with
  unread bytes keeps its flag and its entry for good.
* `socket.cpp` 746: `session_specal_handler` is one slot; requests that come
  before the reply to an earlier one share it.
* `http.hpp` 87-112: `percent_decode` repeats the tail after a malformed escape.
* `socket.cpp` 688-699: an incomplete request behind an OPTIONS keeps `receive()` in
  its loop.  `autoreply` is not empty, so the answer is sent again and the same text
  handed over once more, without end, although `http.hpp` 341 says "that's ok, wait
  for more data".  `(pc # "idle") ~> (pc = "idle")` fails for `HttpSession`;
  `ReceiveReturns` says that nothing else keeps `receive()` from returning.  A loader
  that empties `autoreply` itself would avoid it.
* `parser.hpp` 1223-1310 and `strtod` stop at different places in "0e1", which
  `check_number` ends after the 0, and in "1e1-1", which it takes whole: behind the E
  it stays in its state after a digit, where its comment (1233-1235) has another
  without signs.  `OddNumber` excepts both; `test_parser/main.cpp` 255-263 compares
  the two functions for its own list of texts.
* `parser.hpp` 629-645: a token that `depth_limit` refuses stays in the tree, and
  the lexers that follow are tried on that tree, although the comment at 625 has
  a token placed "on success and checks".  "++++1" with a limit of 3 is accepted
  as "+++(+1)" times "+1" (`dump()` of the compiled header says the same).  A
  default operator is needed to make the path short again, so JSON texts are
  safe, and so are the other two limits: `RefusedIsAnError`, which excepts the
  depth of math texts.
* `processor.cpp` 83-107: a pool that is already empty promises nothing.
  `setCoreCount(0)`, and the destructor, return at once and leave what has been
  accepted in the queue; the tasks of a pool that is destroyed then never run.
  `ShrinkDrains` is about calls that find workers.
* `parser.hpp` 820-845: a closing bracket that closes nothing is inserted as an
  operator and a second one completes it: "1))" and "[1}}]" are accepted, and
  `Meaning` has the rule.  An operator that is repeated before its operand counts
  once: "1**1", "[1,,1]".

## Not modelled

* `getCoreCount` beside `setCoreCount`, two owners that resize at once,
  `wait` called by a task: no code of the repository does it.
* Contents of messages, addresses, names, logging.  `SocketEvents`' `VisitData`
  stands for whatever `receive` makes of data, with at most one automatic reply
  counted among the sends; what it makes of them is `HttpSession`.
* `epoll_ctl` failing when a known descriptor is registered again, a peer that
  resets the connection before the join, and an exception of `getsockname` after
  a join: listed as hazards or with the next version of `SocketEvents`.
* Destruction of a strand: `~thread` returns from `wait(false)` while the worker that
  ended the last batch has yet to call `notify()`; several waiters of one strand.
* In `HttpSession`: request lines with an empty URL (`request::set` then reads the
  `front()` of an empty vector, which is undefined), lines longer than
  `enough_length` (where the result depends on the pieces), the URL helpers of
  `http.hpp` 24-185.  `tls.hpp` is included by no source file.
* In `CompletionPort`: a send before the join, a `receive()` that is skipped
  after a `wait()` that reported its id, `AcceptEx` that completes at once.
* `belt.pp/async/processor.h`: the same algorithm as `processor_old`, see
  `Processor` with `WaitCounts = {0}`.
* The IDL grammar and the code generator: a batch program from text to text; its
  grammar uses an interface that the parser framework no longer has.
* Packets, logging and utilities: ownership and output, without protocol.
