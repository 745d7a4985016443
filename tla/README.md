# Formal models of communicate-between-processes

The repository is a set of C++23 header libraries for talking between processes and
threads (System V and POSIX IPC wrappers, lock-free structures) and programs that use
them or try out something else: a logger, a database client, a parser, a text editor.
This directory holds TLA+ models of all of them that have behaviour of their own, the TLC
runs that check them, and TLAPS proofs of the properties that matter most.

Paths below are relative to `src/`; `lock_free/` stands for
`libs/lock_free/include/lock_free/`, `system_v/` for
`libs/unix/include/unix/ipc/system_v/`, `buffering/` for
`apps/consumer_producer_problem/include/buffering/`, `barber/` for
`apps/sleeping_barber_problem/include/barber/`, and `kaleidoscope/` for
`apps/create_language/include/kaleidoscope/`.

## 1. Inventory

| Component | State | Operations | Interacts with | Hard behaviour | What makes it correct |
|---|---|---|---|---|---|
| `lock_free/ring_buffer.hpp` | `data_`, atomic `read_idx_`, `write_idx_` | `try_push`, `try_pop`, `push`, `pop`, `empty`, `full` | both applications keep one in shared memory; their semaphores count its slots | index advanced before the element is copied; tests on indices loaded earlier; full with `Capacity` elements looks empty | never more elements in it than slots; FIFO, each element once; push does not retry for ever |
| `system_v/semaphore_set.hpp` | counters in the kernel | change value by n (waits), by 0 (waits for zero), without waiting, set, remove | all processes of a program | waiting callers woken by removal, interrupted calls | a decrement is applied as a whole and only when it fits |
| `system_v/group_notifier.hpp` | a semaphore and a group size | `wait_for_one/all`, `notify_one/all`, `wait_till_none`, `try_waiting_for_one` | semaphore_set | the group size is a number, not a set of processes | used so that the number fits the group |
| `consumer_producer_problem` | `shared_data` (done flag, two counters, ring buffer), 4 semaphores, one role per process | fork, construct, barrier, produce, consume, finalise, stop, exit | ring buffer, group notifiers, `libs/common` | every process constructs the same memory; flag and counters read outside any lock; shutdown by tokens; every call may fail | nobody constructs late; consumed <= produced, counters never reset; bounded backlog; the shutdown reaches everybody |
| `sleeping_barber_problem` | `shared_data` (closed flag, three counters, ring buffer), 3 semaphores | fork, construct, readiness, generate, serve, close, drain, exit | the same | children start without waiting for the others; closing races arrivals; draining an ambiguous ring | no customer lost or invented; chairs accounted for; the shop closes |
| `lock_free/message_ring_buffer.hpp` | array of units, two atomic indices | `try_push`, `try_pop` of length-prefixed messages | asynchronous_logger | as above, with lengths and bodies that wrap and a length read before the message is owned | a message comes out whole or not at all, in order |
| `lock_free/group_notifier.hpp`, `spin_lock.hpp` | one atomic | wait and notify; lock and unlock | asynchronous_logger; nothing uses the lock | exchange with a value loaded before sleeping | a token is taken once |
| `asynchronous_logger` | message ring buffer, a semaphore of free bytes, a notifier of messages, writer threads and their buffers | `log`, `wait_till_all_popped`, writer loop, stop, destruction | message ring buffer, both group notifiers | refused pushes, failed calls, stop racing writing, reused buffers | what is logged is printed, in order, once, when it was waited for; the logger ends |
| `use_sqlite` | database file, in-memory copy, connections, statement, backups | create, load, bind, execute, flush, destroy | SQLite; other runs through the file | every call may fail or be the last before a crash; runs overlap | a person reported as written stays; the table is never lost; everything is released |
| `apps/create_language` | reader, last character, current token, trees | lexers, parsers, main loops, of the program and of the tutorial it follows | - | end of the text, precedences, recovery after errors | same tokens and trees as the tutorial; main loop ends |
| `libs/disk_scheduling` | head position and direction, requests | `compute_seek_distance`, `select_next` on arrays and on sets | `use_scan.cpp` | requests at the head itself, arrivals while serving | nothing passed or starved; distance is the way travelled |
| `use_semaphores.cpp` | buffer of five, two named semaphores, a mutex | produce, consume | POSIX semaphores, mutex | order of three waits | bounded stack: no overrun, no lost item, no deadlock |
| `apps/threading` | levels of mutexes and threads; queue, mutex, condition | lock, try_lock, unlock; push, try_pop, wait_and_pop | - | lock order, lost wake-ups | no circular wait; nobody sleeps over a chunk |
| `apps/text_editor` | document, mode, terminal mode | process keys, ask for the position of the cursor | user and terminal on one input | answers arrive among keys | each key counts once, in order; answers never count |
| `create_logger`, `gui_app`, `test_ground`, small examples, other threading exercises, thin wrappers, `libs/core` | little or none | sequential | - | none | - |

`PROJECT.json` lists every component with its sources and status, and every hazard with
the line where it bites and the properties that watch it.

## 2. Plan

Order: first the structure both applications of processes stand on, then these
applications, then the logger with its own ring, then the rest by what can go wrong in it.

1. *Done.* `RingReservation`, `RingBuffer` with the abstract `FifoQueue`;
   `SemaphoreSet`, `SystemVGroupNotifier`; `ConsumerProducer` with the abstract
   `MessageAccount`; `SleepingBarber`. Proofs on `Counting`: `RingBufferProofs`,
   `ConsumerProducerProofs`, `SleepingBarberProofs`.
2. *Done.* `MessageRingBuffer`, `LockFreeGroupNotifier` and `AsyncLogger` composed of them.
3. *Done.* `UseSqlite` with `UseSqliteProofs`.
4. *Done.* The sequential programs: the two lexers and parsers of `create_language`,
   `Scan`, `TextEditor`. The threads: `BoundedBuffer` with the abstract `BoundedStack`,
   `HierarchicalMutex`, `ThreadsafeQueue`, each with its proofs.
5. *Done.* The FIFO refinement of the ring buffer, the account of the barber's customers
   with its indices modulo the number of chairs, `AsyncLoggerProofs` and
   `SequentialProofs`.
6. *Done.* The lexers of `create_language` as a state machine of passes, without
   `RECURSIVE`, and the proof that they agree on texts of any length. Every safety property
   of the runs is a theorem but the two about the parsers' trees.
7. *Left.* Larger instances of the logger with failures.

Modules are written to be proved about: parameters are `CONSTANTS` with named
assumptions, every handler or atomic step is an action, invariants are conjunctions of
named parts, and only the parsers of `create_language` (`KaleidoscopeParser`,
`OriginalKaleidoscope`, and `Kaleidoscope`, which extends them) declare `RECURSIVE`
operators.

## 3. Modules

```
RingReservation  <-- RingBuffer --(refines)--> FifoQueue
      ^                  ^
      |                  MCRingBuffer, RingBufferProofs
      |
      +------ ConsumerProducer --(refines)--> MessageAccount
      |           ^      |    MCConsumerProducer, ConsumerProducerProofs
      |           |      v
      |           |  SystemVGroupNotifier --> SemaphoreSet
      |                  ^        ^
      |                  |        +---- AsyncLogger --> MessageRingBuffer
      |                  |                   ^    \---> LockFreeGroupNotifier
      |                  |                   AsyncLoggerProofs
      +------ SleepingBarber  <-- MCSleepingBarber, SleepingBarberProofs
                                                         Counting <-- the proofs
UseSqlite  <-- UseSqliteProofs

MCSmallPrograms --> Kaleidoscope --> KaleidoscopeParser, OriginalKaleidoscope
               |                |         \--> KaleidoscopeTrees
               |                \--> KaleidoscopeLexers --> OriginalLexer --> KaleidoscopeLexer
               |                           ^---- SequentialProofs
               +--> Scan, TextEditor         <-- SequentialProofs
               +--> BoundedBuffer --(refines)--> BoundedStack   \
               +--> HierarchicalMutex                            } <-- ThreadingProofs
               \--> ThreadsafeQueue                             /
```

**RingReservation** is what `push` and `pop` do to the shared buffer, in the two steps
other processes can tell apart. `ReserveWrite` and `ReserveRead` are the successful
compare-exchange of lines 65 and 81, `WriteSlot` and `ReadSlot` the copy of lines 70 and
86. Between the two `writing[p]` and `reading[p]` remember the slot. The copy is not
atomic: a read that meets a write may deliver the old element, the new one or a mix
(`Torn`), and overlapping writes may leave a mix (`clashed`). `Construct` is
`new (memory) ring_buffer{}`. Both applications instantiate this module, which lets them
go without the retry loop: a failed exchange changes nothing but a local index.

**RingBuffer** has every load, test and exchange of all four member functions as a step
of its own, with the loaded index in `seen[p]`. A constant set `Usages` says which
process calls what. `push` and `pop` test for neither full nor empty; `free` and
`filled` are the semaphores with which their callers make that unnecessary. `held` is a
history variable, the number of successful write exchanges minus read exchanges.

**FifoQueue** is what one producer and one consumer may rely on. The refinement mapping
(`Announced`) reads the queue out of the slots: from the slot the consumer reads next,
as many as have been announced by a token.

**SemaphoreSet, SystemVGroupNotifier.** A call that waits is a step that is not enabled
yet. Every call has an error branch `CallFails`: always possible once the set has been
removed, otherwise counted by `faults` up to `MaxFaults`. A caller asleep on a set that
is removed wakes with an error, as in the kernel.

**ConsumerProducer** is the program from the first fork to the last exit. `pc[p]` names
the line a process is at. Where the code is and what the actions are called:
`create_child_processes` (`CreateProcess`, `CreateProcessFails`, `CheckCreated`), `main`
(`AttachAndConstruct`, `LeaveMain`), `libs/common/process.hpp` (`SignalReadiness`,
`WaitTillAllChildrenReady`, `WaitTillAllChildrenTerminate`), `producer.hpp`
(`AwaitStart`, `CreateMessageFails`, `PushReserve`, `PushWrite`, `CountProduced`, `NotifyWritten`, `WaitRead`,
`NotifyCompletion`), `consumer.hpp` (`WaitMessage`, `CheckDone`, `PopReserve`,
`PopRead`, `CountConsumed`, `NotifyRead`), `parent.hpp` (`StartProduction`,
`WaitTillProductionComplete`, `WaitTillAllMessagesConsumed`, `LoadConsumed`,
`AssertCounts`, `StoreDone`, `NotifyStop`). Details kept on purpose:

- The loop of `create_child_processes` runs its first round, over
  `child_producer_count`, with `is_producer = false`: the first children are consumers.
  With the constants of `main.cpp` there are 2 consumers and 11 producers, and notifier
  groups of 10 and 3. The constants keep the names of `main.cpp`, so
  `ChildProducerCount` is the number of consumers.
- `return EXIT_FAILURE` in a function returning `bool` (`producer.hpp:100`,
  `parent.hpp:75` and `:82`) is `true`: these error branches report success.
- A failed fork leaves only the inner loop.
- `done_flag` is looked at before the result of the wait for a message.
- An assert that fails ends the parent without its destructors (`"aborted"`): the
  semaphores stay.
- Only the parent's `group_id` is ever assigned, so messages of different children with
  one id are the same message.

**MessageAccount** is what the program promises about its counters: they advance one
message at a time, nothing is consumed that was not produced, and the backlog is
bounded.

**SleepingBarber** is the other program in the same way: `generate_customers` (`Arrive`
to `NotifyWaiting`), `serve_customer` (`WaitForCustomer` to `NotifyChair`), the drain
loop (`DrainLoad`, `DrainEmpty`, `DrainCas`), and the parent's closing
(`CloseShop`, `NotifyChairs`, `NotifyBarbers`). `answer[p]` is the result of the last
wait, which both loops keep across their look at `shop_closed`. `disturbed` is a history
variable: a process has constructed `shared_data` when a child was already at work.

**MessageRingBuffer** has one operator per access of `try_push` and `try_pop` to shared
memory: loading the own index, comparing with the other side's, exchanging, and copying
the length and the body, which wrap separately. `message_t` is `aligned_storage` for the
most aligned type, so a unit of the buffer is larger than a byte, while lengths and
distances count units and `memcpy` counts bytes; the model has one slot per unit counted.
`try_push` moves the index before it copies, `try_pop` reads the length before it
exchanges.

**LockFreeGroupNotifier** has `wait_for_one` in three steps: load, sleep until the counter
is positive or negative, exchange with the value loaded before.

**AsyncLogger** is `logger` and `writer_group`. `Log` to `NotifyWritten` are `log`,
`WaitTillAllPopped` and `AllPopped` the wait of the client, `Destroy` to
`RemoveSemaphores` the destructor, `WaitLoad` to `Format` the loop of a writer. A message
is its number and its size. `printed` keeps for each message what was printed: its own
units, then what an earlier one has left behind in the writer's buffer (`Overwrite`).
What lies there is all that could be printed; printf stops at the first zero. `starts` is
a history variable: where each message would start in a ring without an end. The client
may call `wait_till_all_popped` or not, as `main.cpp` holds that call in a comment.

**UseSqlite** is one `main` per run, on one file. A database's content is the set of the
table and the persons in it. `copy_content` is three steps, and a step that fails leaves
any part of the copy in memory; a backup into the file is a transaction of SQLite, which a
crash does not leave half done. `Succeeds`, `Fails` and `Crash` are SQLite and the system,
modelled from what the program distinguishes. `met` remembers which runs were at work
together, `misloaded` which have gone on after a failed load.

**KaleidoscopeLexer, OriginalLexer** are `lexer.hpp` on a `buffer_reader` and the
tutorial's `original/lexer.hpp` on the standard input. A character of a text stands for its
class; a keyword is one character. The state of the one is `index_` of its reader, as
`last_` is what was read last, and of the other the place of `LastChar`. `GetToken` and
`GetTok` are one pass: up to a token, to the end, or behind a comment, where both call
themselves. Loops are given by the index they stop at (`ReadWhile`, `Past`).

**KaleidoscopeLexers** lets the program's lexer read a text while the tutorial's reads it
twice: the whole of it, up to its EOF character, and without its last character. The three
share nothing, so the order of their passes does not matter, and in each step each makes
one; when the program has ended, the others go on alone.

**KaleidoscopeParser, OriginalKaleidoscope** are the two parsers as functions from tokens to
trees (`KaleidoscopeTrees`). **Kaleidoscope** runs the two main loops on what the lexers
have found, one round a step, one after the other: they share nothing, and a parser cannot
influence its lexer.

**Scan** has `compute_seek_distance` and `select_next` for arrays and for sets, and as a
program the scheduler of `use_scan.cpp`: requests arrive and `SelectNext` serves them.

**TextEditor** is `run` with its environment: `TypeKey` and `AnswerRequest` append to the
one input. Both changes of the terminal's mode discard what has not been read (`TCSAFLUSH`):
`EnableRawMode` takes away all keys typed before it, and the histories start anew there. What
the program writes on the screen is left out. Each item of the input carries the number of
the typed key, or zero in an answer, and the history `meant` holds what the keys typed make
of an editor, from none of them on: with both, `KeysInOrder` says which key the editor has
come to.

**BoundedBuffer** is `producer` and `consumer` of `use_semaphores.cpp`, one call a step;
`back` and `pop_back` are two. **BoundedStack** is what the threads see: a stack from
which each item is taken once, and never more than the size in it.

**HierarchicalMutex** has `lock`, `try_lock` and `unlock` for any threads and mutexes; a
call that would throw is not a step, as it changes nothing. Only a mutex that is held is
unlocked (anything else is undefined in `std::mutex`).

**ThreadsafeQueue** is the queue of `threadsafe_queue.hpp` with the threads of
`use_threadsafe_queue.hpp`, and the same program without the class in
`wait_for_condition.hpp`. The one notifies before it unlocks, the other after;
here a preparation thread may do either at each chunk. `try_pop` is there as well.

Operators marked *Variant* are wrong versions of the definition that follows them. They
belong to no specification; a property is tried against one of them to see that it can
fail.

## 4. What the runs check

| Run | Instance | States | Shows |
|---|---|---|---|
| `ring` | 3 slots, 2 values, five usages | 58,000 | `IInv`, `SoleOccupancy`, `CountedOccupancy`, refinement of `FifoQueue`, `PushLockFree` |
| `cp_safety` | 2 consumers, a child producer and the parent, 3 messages each, 2 slots, no failure | 643,000 | `IInv`, `NoLateConstruction`, `ConsumedAtMostProduced`, `BacklogBound`, refinement of `MessageAccount` |
| `cp_shutdown` | 1 consumer, a child producer and the parent, 2 messages each, one failure | 65,000 | `ParentGoneReleasesChildren` through every error branch, `ShutdownCompletes` |
| `barber_open` | 2 generators, 1 barber, 2 chairs, 5 customers, no failure | 194,000 | `CustomerAccount` |
| `barber_closing` | 1 generator, 1 barber, 2 chairs, 2 customers, one failure | 275,000 | `IInv` through every error branch and order of construction, `ShopCloses` |
| `logger` | 1 writer, 13 slots, lengths of 2 slots, 5 messages of 2 or 3, one failure | 43,000 | `IInv`, `ByteAccount`, `SlotsApart`, `PrintedInOrder`, `OwnTextOnly`, `AllPrintedAfterWait`, `RefusedOnlyWhenNoByteLeft`, `LoggerEnds` |
| `sqlite` | 3 runs, two failures or crashes | 1,982,000 | `IInv`, `PersonKept`, `EverythingReleased`, `TableNeverLost` |
| `small_programs` | see below | 595,000 | `LexersAgree`, `OnlyTheLastCharacterIsLost`, `ReadingsAgree`, `TreeFollowsPrecedence`, `MainLoopEnds`; `SeekDistanceIsTravelled`, `SelectionsAgree`, `NothingIsPassed`, `EveryRequestServed`; `KeysInOrder`; `NoCircularWait`; `NoLostWakeup`; refinement of `BoundedStack` |
| `cp_final_assert`, `cp_producers_done`, `barber_last_customers`, `logger_two_writers` | smallest instance that shows it | - | disagreements, see section 6 |

`small_programs` checks programs that have nothing to do with each other side by side, in
one run: a behaviour picks one of them (`part`) and leaves the others in an initial state.
The texts are all strings of up to four characters out of nine, all sequences of up to four
fragments (`def`, a call, a prototype, separators, ...), and all expressions of up to
five operands. The disk has five tracks. Two threads share three mutexes, two of them on
one level; two producers and two consumers a buffer of two; two preparation and three
processing threads a queue, with two chunks each. The editor's user types up to four keys before
raw mode is set and four after it, and its buffer for an answer has seven places.

**Bounds.** `Capacity`/`Chairs` of 2 is the smallest the `static_assert` admits and 3 the
smallest in which a partly filled ring differs from an empty and a full one; indices
wrap several times in every run. Two processes on a side are what a lost exchange, a
swapped order of announcements or a shared token needs. Three messages per producer
exceed the slots, so producers wait. `MaxFaults = 1` lets every call fail in every
state, one per behaviour; that the invariant of `cp_safety` holds on these branches too is
proved. `MaxCustomers` is the number after which generators sleep on
until closing time; five customers on two chairs fill, refuse and wrap.
In the logger, 13 slots let messages of four and five slots wrap inside lengths and
inside bodies, and let the semaphore and the ring disagree about the last slot; one
writer is what `main.cpp` starts. Three runs of `use_sqlite` are a run that fails, one
that goes on from what it left, and one that overlaps with either.
Four characters hold a number with two points, a comment with its end, and a word after
either; four operators and all their orders reach every branch of the climbing of
precedences. Three of the editor's keys are what begins an answer, the fourth makes it ask.
Symmetry is not used: processes have different roles, and with liveness it would not be
sound.

`CHECK_DEADLOCK FALSE` is stated for the two applications of processes, the logger and
`use_sqlite`: they end, and some of their behaviours really hang (section 6, and
`LoggerEnds` where it says so). The ring has no final state and is checked for deadlock.
So are the small programs: `MCEnd` names the states they may stop in, so that the run
shows that threads on hierarchical mutexes never wait for each other for good, that the
threads of the bounded buffer stop only when all have exited, and that processing threads
are left asleep only when all preparation threads have stopped.

The constraint `Undisturbed` of `barber_open` and `barber_last_customers` cuts behaviours
at a construction that disturbs a running child. `CustomerAccount` says nothing about
them, as they may indeed lose customers; `barber_closing` explores all of them.

**Fairness.** `FairSpec` asks weak fairness of each process as a whole: the kernel
schedules every process and thread that can run. No fairness is asked of any single
branch, and none of failures: the fair step is `Step(p) /\ faults' = faults`, so that
nothing that follows depends on a failure being injected. A semaphore call is fair only
while it can go through, which makes no assumption about who is woken first.
`PushLockFree` is the lock-free guarantee, for the processes together and not for each:
a single process may lose its exchange for ever. The usage in
which two processes push until no slot is freed any more leaves one of them alone with a
failed exchange, which it must be able to finish. `ShutdownCompletes` and `ShopCloses`
are about behaviours without failures, as a stop signal that fails to be sent wakes
nobody. In the logger, each thread is a process in this sense; that a writer's exchange of the counter goes
through when it can again and again (`TakeToken`) is asked strongly, as
`compare_exchange_weak` may fail for no reason, but not for ever. `MainLoopEnds` needs weak
fairness of the main loop only (that the lexers end is `EveryPassReadsOn`, see below), and `EveryRequestServed` of `SelectNext`: the user of the
scheduler goes on serving while requests arrive. `ParentGoneReleasesChildren` holds with failures: removing the set releases them.

## 5. What is proved

`tlapm` checks all proofs. They hold for every value of the constants that meets the
named assumptions: any finite set of processes, any capacity above one, at most
`Capacity` slots handed out, any numbers of children, messages and failures.

**RingBufferProofs.** The invariant is
`IInv = TypeOK /\ InPlace /\ SoleAccount /\ CountedAccount /\ SlotsKnown`.
`SoleOccupancy` alone is not inductive: that `try_push` does not overrun the ring depends
on what the process has *seen*. `SoleAccount` adds that the index seen is still the
current one, as nobody else moves it, and that once the test has passed there is room,
because the other side only makes more. `CountedOccupancy` needs `CountedAccount`: free
slots, those on the way in, in the ring and on the way out add up to `MaxHeld`.
For the refinement of `FifoQueue`, where one process pushes and one pops on counted slots,
`SlotsKnown` says that the slot each of them copies is the one before its index, and that
no copy met another. The slots that hold the queue are then a window that ends at the
writer's index and is shorter than the ring: the slot written is not in it, so that a copy
changes nothing announced, and a token announces exactly the slot behind its end. Theorems:
`TypeCorrect`, `Invariance`, `SoleOccupancyHolds`, `CountedOccupancyHolds`, `FifoRefinement`.

**ConsumerProducerProofs.** `IInv` has, besides types,

- `ForkOrder`: children beyond `forked` are unborn;
- `Barrier`: as long as a child is not ready, or the parent has not constructed, nothing
  that production needs has happened (`Quiet`). It rests on
  `sem["readiness"] <= Cardinality(ReadyChildren)`: the parent's wait for all is worth
  all children. `Quiet` is what a construction may reset without anybody noticing;
- `WrittenAccount`: tokens of the written semaphore, consumers holding one and messages
  counted as consumed are covered by messages counted as produced. Stop tokens break the
  first half, so it carries `~done_flag`; the second half, about consumers that
  have passed the look at the flag, survives the shutdown. `DoneStored` says that the flag is
  stored before the tokens come;
- `ReadAccount`: produced messages and free tokens are covered by capacity, consumed
  messages and the producers that have yet to pay.

Theorems: `TypeCorrect`, `Invariance`, `NoLateConstructionHolds`,
`ConsumedAtMostProducedHolds`, `BacklogBoundHolds`, and `Refinement`: the program
implements `MessageAccount`, where a construction of `shared_data` is a stutter because
of the barrier. **Counting** holds the lemma the proofs of concurrent programs rest on: when
one process moves between two labels, the number of processes in any set of labels changes by
one, minus one or not at all. It also has the least of some numbers, which stands in for
induction.

**SleepingBarberProofs.** `IInv = TypeOK /\ OpenBeforeClosed /\ ChairAccount /\
CustomersKnown`. The account of the chairs
says that until closing time free chairs, waiting customers and everybody who has taken a
token and not handed it on add up to `Chairs`. It is about the time before closing, so what
has to be excluded is a shop that is open *again*: a child that constructs `shared_data`
late resets `shop_closed`. `OpenBeforeClosed` does it: the parent only sleeps, and later closes, when all
children are ready (`sem["readiness"] <= Cardinality(Ready)`), and no child that is ready
constructs. `CustomersKnown` is about the shops `CustomerAccount` is about: one barber, no
failed call, and no construction of `shared_data` under a running child. It says that the write index is as far
ahead of the read index as customers wait, modulo the number of chairs; that customers waiting
and those on their way in fit the chairs, so that equal indices tell full from empty as long as
the tokens are right; that what the barber has seen while it drains is still the read index; and
that nobody but the parent has gone before closing. Theorems: `Invariance`, `ChairAccountHolds`,
for any number of generators and barbers, with failures, and `CustomerAccountHolds`.

**AsyncLoggerProofs.** The theorems assume `OneWriter`: `main.cpp` starts one, and
`logger_two_writers` shows that with two they are wrong. Capacity, sizes, the number of
messages and of failures are arbitrary. The history `starts` takes the wrapping away: indices
and places of the proof are natural numbers that only grow, and a slot of the ring is such a
number modulo the capacity. `IInv` has, besides types,

- `PlacesInOrder`, `MainInPlace`, `WriterInPlace`: messages lie one behind the other; each index,
  and each index or length loaded earlier, is the start of a known message;
- `TokensAreMessages`: until the logger stops, a token in the counter or in the writer's hand is
  a message that is completely written;
- `BytesAccounted`: until the client has waited for all bytes, those in the semaphore, in the
  hands of either thread, in the ring and lost by failures are the capacity. What is in the
  ring is therefore less than a turn, and places that differ by less than the capacity are
  different slots (`SlotsApart`);
- `MessagesHeld`: every message pushed and not popped is in its slots, whole. A copy into the
  ring leaves the others alone because it goes to other slots, a pop because it copies nothing;
- `PrintedSoFar` with `PrintedInOrder` and `OwnTextOnly`: the buffer of the writer is as long as
  the longest message so far and begins with the one popped last.

`AllPrintedAfterWait` needs besides that the semaphores go only after the writers have been
joined, and that a client which holds all bytes leaves none for a message on its way. Theorems:
`LoggerInvariance`, `ByteAccountHolds`, `SlotsApartHolds`, `PrintedInOrderHolds`,
`OwnTextOnlyHolds`, `RefusedOnlyWhenNoByteLeftHolds`, `AllPrintedAfterWaitHolds`.

**UseSqliteProofs.** `IInv` says per run which handles, statement and backup it has at each
line (`Holds`), that a person nobody has written is nowhere (`Written`), and that a person
flushed by a run that met nobody is in the file and in every memory loaded since
(`Secured`). The last is what makes `PersonKept` inductive: a later run may replace the
file only by a memory that it loaded from it. Theorems: `Invariance`, `PersonKeptHolds`,
`EverythingReleasedHolds`, `TableNeverLostHolds`.

**ThreadingProofs**, the mutex. `Descending(t)`: a thread stands no higher than anything it
holds, what it holds is on different levels, and each mutex remembers a level no higher
than the next one above, so that the level restored is right and only the mutex locked
last can be unlocked. A set of threads that all wait within the set is then refuted by the
thread that waits for the mutex of the least level: its holder is on or below that level
and can only wait for a lower one. Theorems: `MutexInvariance`, `NoCircularWaitHolds`.

The queue. While anybody sleeps, every chunk has somebody to care for it: a
thread about to notify, one awake and not yet through the predicate, or one about to pop.
Theorems: `QueueInvariance`, `NoLostWakeupHolds`.

The buffer. Every slot is empty, reserved, in use or on its way back; every
item is filled, about to be, or claimed; who works on the buffer has locked it. So a push
never overruns, a pop finds an item, and `back` and `pop_back` see the same one. An item
that has been read counts as taken although `pop_back` is yet to come; the refinement
mapping hides it. Theorems: `BufferInvariance`, `StackRefinement`.

**SequentialProofs**, the disk. A disk may have any number of tracks. The extremes `Min` and
`Max` choose exist because there is a least request and a least distance from the last
track; with them `select_next` on arrays and on sets is compared case by case (`SelectionsAgree` names the
one in which they differ: a request at the head itself, with the head moving left), and the
distance computed is shown to be that of one sweep that passes all requests and not longer
than any other. Theorems: `ScanTypeCorrect`, `NothingIsPassedHolds`, `SelectionsAgreeHolds`,
`SeekDistanceIsTravelledHolds`.

The editor. The keys, their number and the size of the buffer are arbitrary. `EditorIInv` says
what is on its way: for some number `n` of processed keys, the items read into the buffer
followed by those in the input are `Expected(n, m, i)`, the keys from `n + 1` on with at most one
answer behind the first `m` of them. `KeysInOrder` alone is not inductive: what matters is
that an answer is accepted only if it starts the buffer (`AcceptedIsAnswer`). With three keys or
more in front of it, the user has typed what an answer begins with; with one or two, the
characters of the answer are not where they would be accepted; and as reading stops at the first
`R`, what is accepted ends with the answer. All this is about keys typed in raw mode: when it
is set, none of the keys kept is processed, for there are none (`EnableRawModeStep`), and no
answer is on its way. Theorems: `EditorInvariance`, `KeysInOrderHolds`.

The lexers. The texts are arbitrary, of any length; an EOF character stands only at their
end (`TextsAssumption`). `LexersAgree` speaks about the end only, and is not inductive. In
`LexersIInv`, `InStep` says that as long as the program has something to read all three are
at the same character with the same tokens, and `AgreesAtTheEnd` that from then on one of
the tutorial's inputs has given the program's tokens and has only spaces left: it may be a
pass or two away from its own end. Which of the two inputs it is depends on whether a token has been made of the
last character or it has only been read ahead. A text with an EOF character has but one
input (`OneSource`), so it does not matter there. The lemmas compare one pass with two of the other (`Agrees`): `WordsAgree`,
`NumbersAgree`, `LastNumberAgrees`, `CommentsAgree`, `OthersAgree`, on top of where the
loops stop (`ReadWhileStops`, `PastStops`, `ShortStops`, `WholeStops`). Theorems:
`LexersStayInStep`, `LexersAgreeHolds`, `OnlyTheLastCharacterIsLostHolds`, and
`EveryPassReadsOn`: a pass that does not end the reading has read at least one character.
They are about `LexersSpec`; the steps of `Kaleidoscope` on the lexers' variables are
`LexersStep`, which is `LexersNext` with the tokens handed on, and `Parse`, which leaves
them alone.

**Only model-checked.** Liveness: `PushLockFree`, `ParentGoneReleasesChildren`,
`ShutdownCompletes`, `ShopCloses`, `LoggerEnds`, `MainLoopEnds`, `EveryRequestServed` (the prover
has no `ENABLED`). And `ReadingsAgree` and `TreeFollowsPrecedence`: the parsers are
recursive, and the prover has neither `RECURSIVE` operators nor induction over data.

## 6. Where code and its own words disagree

Each is a run TLC finds violated, or is visible in the text; `PROJECT.json` quotes the
lines.

- `cp_final_assert`: the written semaphore reaches zero when the last consumer takes its
  token, before it pops and counts. The parent then compares the counters and its
  assert fails (`buffering/role/parent.hpp:89`).
- `cp_producers_done`: start and completion signals share a semaphore. The parent can
  take back start tokens and go on while a producer has never started; that producer
  then waits for ever and so does the parent.
- `barber_last_customers`: a queue with every chair taken looks empty to the barber that
  closes; the customers stay, and the parent's assert fails.
- `logger_two_writers`: of two writers that wake for one message both may go on, and one
  pops a message whose length is not written yet. `main.cpp` starts one writer.
- With two processes in `try_push` the test for full is stale when the
  exchange of `ring_buffer.hpp:28` succeeds. No program of the repository does that; `push` has no test to be stale.
- The roles in `create_child_processes` are swapped with respect to `main.cpp` (see
  above). The group of the stop signal is `child_consumer_count`; with fewer tokens than
  consumers, the shutdown would wait for a consumer that sleeps on.

- Logger: the empty message stops the writer with an assert; formats are stored without
  their final zero, so the end of a longer message can follow a shorter one; the last byte
  of the ring is counted by the semaphore and refused by the ring, and bytes of a refused
  message are never given back; messages not popped at destruction are dropped.
- `create_language`: the last character of a text that is read ahead is never made a token; `0` and `0.5` meet an
  assert; the tutorial's `BinaryExprAST` loses its right operand; a grammar comment leaves
  out the commas.
- `use_sqlite`: a failed load is reported as done; a statement whose execution failed is
  finalized twice; an unfinished backup keeps its connection from being closed; age and name
  are bound to each other's column.
- `use_semaphores.cpp`: the names of the semaphores survive a run that does not end, and
  stop all later ones; all waits and locks are arguments of `assert`.
- `wait_for_condition.hpp:50` lacks the negation of `use_threadsafe_queue.hpp:48`; the
  versions of `try_pop` and `wait_and_pop` that return a pointer cannot be instantiated.
- `text_editor` leaves the terminal in raw mode at every error, one of which is a key typed
  before the terminal has answered.

Behaviour worth knowing that contradicts no stated claim: a producer pushes *before* it
waits for a free slot, so that more than `Capacity` messages can be under way and unread
ones are overwritten (`BacklogBound` says by how many); with several producers, the token
of one may lead a consumer to the unwritten slot of another (the model delivers `Blank`,
an old message, or `Torn` there, and `ImplementsFifo` is claimed for one producer and one
consumer); a generator or barber may be at work when a late sibling constructs
`shared_data`; with more than one barber, one that drains may take the customer another
was woken for; `select_next` on an array can starve requests when others keep arriving
where the head stands while it moves left; keys typed in front of the terminal's answer
that look like its beginning are swallowed with it, and keys typed before the editor has set
raw mode, or when it ends, are discarded by the terminal.

## 7. Abstractions, and what is not modelled

- Steps interleave under sequentially consistent memory. Exchanges are release and loads
  of the other side's index acquire; a relaxed load of the own index can only make the
  exchange that follows fail. Counters and flags are read relaxed after system calls
  that order them.
- A construction of `shared_data` is one step. So are a semaphore operation and a fork.
- Elements are model values or `<<id, group>>`; texts, durations, random numbers and
  printing are left out. Sleeping means that a step may be arbitrarily late.
- The kernel's limit on a semaphore's value (32767) and the order in which it wakes
  sleepers are left out.
- Failures of creating keys, the semaphore set and the shared memory happen before any
  process is forked and end `main` at once; the models start after them.
- A process is not killed from outside. It may fail at every call.
- `use_sqlite`: what a failed load has left in memory, and whether a failing finish has
  done its work, is open in SQLite and nondeterministic here. `sqlite3_close` is busy for
  unfinished backups and statements only.
- `std::mutex` and condition variables are as the standard says: a thread that waits
  unlocks and sleeps in one step, a notification wakes one sleeper if there is one, and a
  sleeper may wake without.
- Numbers, names, persons and chunks have no content beyond what a property tells apart. In
  the lexers a number is its digits. The two numbers of the
  terminal's answer, with their separator, are one item.

Not modelled, as listed in `PROJECT.json`: the thin wrappers of system calls (System V
shared memory, keys and message queue; POSIX queues, pipes, shared memory; processes,
signals, directories), which keep no state of their own and appear as steps of the programs
that use them; the builders of flags and permissions and `libs/core`, which are
compile-time or stateless; `lock_free/spin_lock.hpp`, which nothing uses; the formatters
of tokens and trees and the generation of code, which only print or call LLVM; the small
examples, the other threading exercises and `create_logger`, `gui_app` and `test_ground`, which
are one call after the other.
