# ostep-code in TLA+

The repository holds the programs of the concurrency, virtualisation and
persistence chapters of OSTEP, with C++ re-implementations and exercises added
beside them. It is not one program: its core logic is some sixty small programs,
most of them concurrent and built from mutexes, condition variables, semaphores
and atomics. This directory models those that keep state of their own with a
claim about it, one thread statement or atomic operation at a time, model-checks
them with TLC and proves their safety invariants and refinements, for every value
of the constants, with TLAPS. Only the programs that are a fixed handful of
operations (`Scripts`) are left to TLC alone.

Contents: [inventory](#inventory), [conventions](#how-the-code-is-modelled),
[modules](#modules-and-the-code), [runs](#runs), [fairness](#fairness),
[proofs](#proofs), [findings](#what-the-checks-found),
[what is left](#what-is-not-modelled-and-what-is-left).

## Inventory

`PROJECT.json` lists every component with its files; this is the short form.

| component | state it keeps | operations | what is hard | what makes it correct |
|---|---|---|---|---|
| Zemaphore (`threads-sema/zemaphore.h`, `throttle.c`) | `value`, a mutex, a condition variable | `Zem_wait`, `Zem_post` | barging threads, spurious wake-ups, one signal per post | it is an atomic counting semaphore; no wake-up is lost |
| Reader-writer locks (`rwlock_writer_starvation.cpp`, `rwlock-1writerprogress.cpp`, `rwlock-writer-priority.cpp`) | semaphores, light switches with a counter each, `DB` | reader and writer loops | readers that never stop, two switches that wait for one another | readers share, a writer is alone; the promise of each file about writers |
| No-starvation mutex (`no-starve-mutex.c`) | `room1`, `room2`, `mutex`, `t1`, `t2` | `ns_mutex_acquire`, `ns_mutex_release` | counters guarded by two turnstiles together, both open at the start | how many come in, exact counters, every caller comes in |
| Barrier (`barrier.c`) | `count`, `thread_count`, `sem1`, `sem2` | `barrier` | `sem1` is taken again after the sleep | nobody passes before all have arrived; everybody passes |
| Dining philosophers (four files) | forks, `print_lock` | the philosopher's loop | circular wait, a lock taken inside a lock | stuck only in the full circle, and never with one fork order reversed |
| Rendezvous, join, binary semaphore (`threads-sema`), the bugs of `threads-bugs`, counters (`t1.c`, `intro/threads.c`, `counter.cpp`) | semaphores and mutexes, a pointer, a counter | straight lines of operations | lock order, check then use, load then store | what comes after comes after; locked updates are kept |
| Producer/consumer (`threads-cv/pc*.c`, `producer_consumer_works.c`, the C++ buffers) | ring of items, its two pointers, `num_full`, one or two condition variables or three semaphores | `do_fill`/`do_get`, put/get | lost or misdirected signals, stolen wake-ups, end of the stream | a bounded first-in first-out buffer; everything is consumed |
| Thread pool | job queue, `m_should_terminate`, workers | `QueueJob`, `ThreadLoop`, `Stop` | stop against queued jobs, waiting callers | a job runs at most once and is not lost; `Stop` returns |
| Ring buffer (lock free) | slots with a sequence number, head and tail counters | `enqueue`, `dequeue` | stale loads, publication order | first-in first-out, exclusive access to a slot |
| Two-lock queue (`queue.cpp`) | linked nodes, head, tail | `Queue_Enqueue`, `Queue_Dequeue` | the two ends meet in one node with no common lock; `malloc` reuses | first-in first-out, empty only when it is, no use of a freed node, no leak |
| Lock-free stack (`compare-and-exchange.cpp`) | `_head`, linked nodes | `push`, `pop` | a node another `pop` has deleted, a node that comes back | last-in first-out; no node is lost or deleted twice |
| Locked lists and hash maps (`linkedlist-c.cpp`, `linkedlist.cpp`, `hashmap-c.cpp`, `hashmap-cpp.cpp`) | linked nodes, a lock per list | insert, lookup, destructor | a node made before the lock, `malloc` that fails, a negative key | a lookup finds exactly what was inserted; what the destructor leaves behind |
| Fork/join and one-time signals (`threads-cv/join*.c`, `condition_varaible.cpp`, `conditional_variable.cpp`, `atomic-flag.cpp`, `promise-future.cpp`, `ordering_fixed.c`) | `done` or its like, mutex, condition variable | waiter and signaller | a signal sent before the wait | the waiter waits for the work and returns |
| Odd/even printing (`OddEven.cpp`) | `counter`, two condition variables | two loops | each waits for the other | both loops end |
| UDP client and server (`dist-intro`) | sockets, datagrams in flight | `UDP_Open`, `UDP_Write`, `UDP_Read`, the two programs | loss, duplication, reordering, kills, one port for all clients, no timeout | a client gets the answer to its own request |
| Ping-pong | `dataReady`, `counter`, two condition variables | two loops | the counter is tested outside the lock | it stands still only at the limit |
| Dispatch queue | operation queue, `quit_`, threads | `dispatch`, handler, destructor | notification while all are busy, destruction | operations start once, in order; the destructor returns; nothing runs after it |
| Event queue | `pending_event_`, `halting_`, handlers | `PostEvent`, `SubscribeToEvent`, forwarder, destructor | notification outside the lock, a timer, handlers that expire | a posted event reaches the subscribers |
| Callback after two tasks (`thraed-safe-callback.cpp`) | an atomic counter | `StartTwoTasks`, the tasks | count down and look are two operations | the callback is called once |
| Rate limiter | `available_tokens_`, `lastUpdatedTime_` | `rateLimit` | unsigned arithmetic, rounding of periods, a clock that is set back or forward | never more grants than the bucket allows |
| Lottery scheduler (`lottery.c`) | list of jobs, `gtickets` | `insert`, the draw | the boundary between two jobs, the modulus | every draw has a winner, every ticket the same chance |
| Persistent stack (`pstack.c`) | `n` and `stack` in a mapped file | push, pop | a kill between two stores, buffered output | what one run leaves the next one finds |

The components do not call one another. They interact through the primitives
they share (`include/common_threads.h`, `<semaphore.h>`, `<mutex>`,
`<condition_variable>`), so the models share their idiom and, where the code
does, their modules: `LightSwitch` is used by three locks, `RWClient` is the
reader/writer loop of all three, `Threads` is the semaphore bookkeeping,
`BoundedFifo` is the one promise of four kinds of queue (with `TryFifo` where a
get never waits), `Scripts` runs sixteen
programs that are nothing but sequences of operations.

`PROJECT.json` also has the list of hazards: for each line of this code that a
test would hardly reach, what can go wrong there and the properties that would
show it.

## How the code is modelled

* **One action per statement that another thread can observe.** A thread is a
  `pc` label named for the statement it is about to execute. What a thread does
  between two synchronisation operations while it holds the mutex that guards
  the data is one step with the operation before or after it, except where a
  property is about that very section (the counters of the barrier and of the
  no-starvation mutex, the slots of the ring buffer and the nodes of the
  linked structures are accessed in steps of their own).
* **Semaphores** (`sem_t`) are counters: a wait is enabled when the counter is
  positive. Where the code's claim depends on which waiter gets a unit
  (`NoStarveMutex`), the waiters are explicit.
* **Condition variables** are sets of sleepers. A wait gives up the mutex and
  joins the set in one step; a signal moves one sleeper out, whichever it is, or
  does nothing if there is none; a broadcast moves all; a sleeper then needs the
  mutex again. Spurious wake-ups are actions, at most `MaxSpurious` of them in a
  behaviour.
* **Families of programs** that differ in a few lines (`pc.c` and
  `pc_single_cv.c`, the joins, the four lists and hash maps) are one module whose
  `program` variable holds a record of the differences. Init chooses it and
  nothing changes it: a behaviour runs one program. The same device lets one run
  cover the modules of a family (`MCRWLocks`, `MCQueues`, ...): a selector
  chosen in Init says which of them the behaviour runs, the others stay as
  they were initialised. Programs whose threads are straight lines of operations
  are sequences of records, and `Scripts` has the sequences and their interpreter.
* **Undefined behaviour** is a choice or an end. A read of a deleted node gives
  any pointer (`LFStack`); an access outside the array of a hash map, a
  destructor that walks through a deleted node or a null pointer that is followed
  ends the behaviour in a state the properties can name (`over`, `dead`). The
  order in which C makes the two stores of `p->stack[p->n++] = ...` is open.
* **Faults.** A process can be killed between any two of its stores (`PStack`) or
  while it waits (`UDP`), datagrams are lost, duplicated and overtaken, sockets
  cannot be had, the clock of the rate limiter is set back or
  forward, `malloc` fails. Each
  has a bound, and the properties say what still holds.
* **Data** are abstracted to identities: the n-th item of a producer, the k-th
  operation dispatched, a node. Printing is left out, except the `print_lock` of
  the philosophers, which is a lock.
* **Assumptions on the machine.** Steps are sequentially consistent. For
  the ring buffer this means that the acquire/release pairs of the code order the
  data accesses; its compare-exchange may fail spuriously (`MaxWeak`). For
  `queue.cpp`, whose `next` is a plain pointer written under one lock and read
  under the other, it means the stores of `Queue_Enqueue` become visible in
  program order, as they do on x86. The size of the ring is a power of two of at
  least 2, as its comments require (its assertion does not, see below), and its
  sequence numbers do not wrap.

## Modules and the code

| module | models |
|---|---|
| `Semaphore` | abstract: wait takes a unit when there is one, post adds one, both atomic |
| `Zemaphore` | `Zem_wait` and `Zem_post`; a process runs a script of waits and posts, `ThrottleScript` is that of `throttle.c` |
| `Threads` | semaphore waits and posts, `Goto`, for threads with a `pc` |
| `LightSwitch` | `LightSwitch::lock` and `unlock`: counter under a mutex, first in takes the room, last out gives it back |
| `RWLock` | abstract reader-writer lock over a counter `DB` |
| `RWClient` | the loops of readers and writers, `DB` read and written in separate steps |
| `RWStarvation`, `RWTurnstile`, `RWPriority`, `RWLocksProofs` | the three locks; `MCRWLocks` chooses among them |
| `NoStarveMutex` | `ns_mutex_init`, `_acquire`, `_release` as they are, `t2` open; the rooms are plain ints, an update is a load and a store |
| `Barrier` | `barrier_init`, `barrier` |
| `MCSemaphores`, `SemaphoresProofs` | run one of the Zemaphore, the barrier and the no-starvation mutex; the proofs about them |
| `Scripts` | the philosophers, `rendezvous.c`, `join.c`, `zemaphore.c`, `binary.c`, `t1.c`, `intro/threads.c`, `counter.cpp`, `threads-bugs` as sequences of operations, and the steps of their threads |
| `BoundedFifo` | abstract bounded first-in first-out buffer with atomic put and get |
| `BoundedBuffer` | the condition-variable buffers: `pc.c`, `pc_single_cv.c`, the two files `MultiProducerMultiConsumerBuffer.cpp`, `MpMCSingleCV.cpp`, `SingleProducerSingleConsumer.cpp` |
| `SemBuffer`, `MCBuffers`, `BuffersProofs` | `producer_consumer_works.c`; the MC module defines the program records and chooses |
| `ThreadPool`, `ThreadPoolProofs` | `Start`, `ThreadLoop`, `QueueJob`, `Stop` |
| `TryFifo` | abstract: `BoundedFifo` with a get that answers at once, with the first item or that there is none; an item may have its place before its put returns |
| `LifoStack`, `KeySet` | abstract: a stack with atomic push and pop, which may answer that it is empty; a set of keys with atomic insert and lookup |
| `RingBuffer`, `TwoLockQueue`, `LFStack`, `LockedList`, `MCQueues`, `QueuesProofs` | `ring-buffer.cpp`, `queue.cpp`, `compare-and-exchange.cpp`, the lists and hash maps |
| `Join`, `Turns`, `UDP`, `MCSignals`, `SignalsProofs` | the ten joins and one-time signals; the two pairs of threads that take turns, `ping-pong.cpp` and `OddEven.cpp`; `dist-intro` |
| `DispatchQueue`, `EventQueue`, `TwoTasks`, `MCCallbacks`, `CallbacksProofs` | `dispatch-que.cpp`; `EventQueue.cpp` with the threads of its `main.cpp`; `thraed-safe-callback.cpp` |
| `RateLimiter` | `RateLimiter::rateLimit`, `refillTokensLocked`; a call holds `mutex_` throughout and is one step |
| `Lottery`, `PStack`, `MCSequential`, `SequentialProofs` | `lottery.c`, the draw as a function of the random value; `pstack.c`, store by store; the MC module runs one of these or the rate limiter |

`PROJECT.json` maps each definition to the lines it models. The refinements are
stated in the detailed modules with `INSTANCE ... WITH`: `Zemaphore` implements
`Semaphore`; the three locks implement `RWLock`; the buffers implement
`BoundedFifo`; the ring and the linked queue implement `TryFifo` (`queue.cpp` with
the capacity that the nodes set, and with no item open, which makes it
linearizable), the lock-free stack implements `LifoStack` until the ABA exchange
described below, the lists and hash maps implement `KeySet`. The abstract
containers count the answers of each thread, so that a dequeue or pop that
returns empty is a step of theirs with a guard, and not a stutter. For `MpMCSingleCV.cpp`, whose `put` stores `fill_ptr + 1` and
ignores its argument, only the order of the calls is compared, not the values.

## Runs

`tlc -config <cfg> <module>`; times are for two workers.

| run | instance | shows |
|---|---|---|
| `rw_locks` | 2 readers (one pass, or for ever), 2 writers with 2 passes, the three locks | each implements `RWLock`; in the priority lock no reader enters past a writer that holds the readers off; a writer past the turnstile gets in even when readers never stop; finite threads end |
| `semaphores` | 4 children of `throttle.c`, value 2, 2 spurious wake-ups; barrier with 4 children; 3 threads with 5 calls of the no-starvation mutex, `t2` open as in `ns_mutex_init` | no lost wake-up, refinement of `Semaphore`; the barrier holds and opens with exact counters; never three threads in the critical section (`NeverThree`), `room1` exact (`Room1Exact`), every caller comes in unless an update of `room2` was lost (`EntersUnlessLost`); every child ends |
| `no_starve_mutex_code` | 2 threads, `t2` as in `ns_mutex_init` | expected violation of exclusion (first finding) |
| `buffers` | up to 2 producers and 2 consumers, 3 items each, 1 spurious wake-up, seven programs | first-in first-out; no lost wake-up with two condition variables; the program ends unless both sides sleep on a shared condition variable; the assertions of the program that does not test again can fail only after a spurious wake-up |
| `thread_pool` | 2 workers, 3 callers, queue of 1, both values of `m_block_when_full`, `Stop` at any time | jobs conserved and run (`JobsConserved`, `JobsRun`), callers and `Stop` return (`CallsReturn`) |
| `scripts` | 5 philosophers silent, 3 printing, 2 rounds; twelve other scripts, loops of 2 to 4 | threads are stuck only in the full circle of locks (`OnlyTheCircle`); only the files that show the bug rely on what has not happened (`InOrder`); locked counters keep every update and unlocked ones never end below 2 (`UpdatesKept`); everything that is not meant to show a deadlock ends |
| `queues` | 2 producers, 2 consumers, 2 calls each; ring of 2 slots, 3 nodes that `malloc` reuses (2 for the stack), 2 buckets and keys -1, 2, 3 with one lookup; 1 weak exchange failure | every container implements its abstract container, answers of "empty" included (`ImplementContainers`); slots and nodes have one owner, the linked queue uses no freed node, no node leaks while a container is in use, the destructor leaves the first node of each list, only `hashmap-c.cpp` leaves its array (`MemorySafe`); `dequeue`, `pop` and lookup return |
| `ring_buffer_enqueue` | 2 producers, 1 consumer, ring of 2 | expected violation: `enqueue` can spin for ever (second finding) |
| `signals` | ten joins and one-time signals; ping-pong up to 6; printers of 5 rounds; 3 UDP clients with 3 faults; 2 spurious wake-ups | no early return; the two broken joins hang, and only after a missed signal; a client gets its own answer unless a datagram was duplicated or a client killed (`ReplyIsAnswer`); everything else ends but ping-pong at its limit and a client whose datagram was lost |
| `callbacks` | dispatch queue with 3 threads and 4 operations; event queue with 2 posters, 2 subscribers; the two tasks | started once and in order, run or delivered unless the queue is destroyed, an event that was taken even then; destructors return and nothing runs after; the two tasks call back once |
| `sequential` | capacity 5, interval 3, 3 tokens per period, counts that wrap at 8, times at 32, 12 ticks from 4, the clock set twice to any time up to 10; up to 4 jobs with 1, 2 or 4 tickets, 32 random values; a file of 3 items, 5 pushes, 5 pops, 2 kills | never too many grants; a refusal a period after the refill needs a wrapped count or a clock that was set; the draw is fair; the stack persists and a kill spoils one item at most |

**Why these bounds.** The races here need at most three threads: one inside,
one that has tested and not yet acted, one that overtakes it. Every instance has
two threads of each role, so that threads of one role race with each other as
well as with the other role, and the runs of a symmetric protocol have four. Buffers are smaller than the number of items, so
that pointers wrap and both *full* and *empty* are reached; the ring of two
slots reuses every slot, and three nodes for four items make `malloc` reuse a
node while other threads are still about. Loops run at least twice, so that a
thread that comes back races with those of the previous round. One spurious
wake-up per behaviour is enough to return from a wait whose condition does not
hold; two let a second sleeper do so. `Wrap` stands for 2^32: the instance keeps
`capacity_ + tokens` and the product of the refill on both sides of it; `TimeWrap`
stands for 2^64, and a clock that is set back makes the difference of times wrap;
a clock that is set forward from 4 to 10 counts two periods that did not pass,
enough to fill the bucket.
Two nodes are enough for the ABA of the stack: one that is popped, deleted and
pushed again while another `pop` sleeps, and one that it had read as its `next`.
Three UDP clients let one hold the port, one be refused it and one come later;
three faults let a lost datagram, a kill and a duplicate meet. 32 random values
are no multiple of 3, 5, 6 or 7 tickets, so the cut of the modulus is seen.
`CHECK_DEADLOCK FALSE` is set only where the threads may rightly all rest: idle
workers, programs that end in different states, the broken joins, the circle of
philosophers, the UDP server that waits for ever, callers of the no-starvation mutex behind
the wrong turnstile and the bounds of clock and calls; there the liveness properties say who may
rest and when. In the other runs finished threads stutter explicitly and any
other standstill is an error.

## Fairness

Every liveness property assumes weak fairness of each thread's steps: a thread
that can continue is eventually run. That is what a preemptive scheduler gives,
and no more:

* A semaphore or mutex that is free again and again but never when the thread
  looks is not owed to it. This is why `Termination` of the locks is stated for
  threads with finitely many passes. With readers that go on for ever
  `WriterProgress` is stated for the turnstile and priority locks, from the
  moment the writer has shut the readers out: then the room, once free, stays
  free for it.
* `EntersUnlessLost` of the no-starvation mutex is stated for finitely many calls
  for the same reason. `sem_t` does not give what the file asks of a semaphore (its
  Property 3: if threads wait when a signal is executed, one of them is woken), so
  a thread that comes back may overtake a waiting one as long as it comes back.
* No fairness is assumed of what nobody is obliged to do: calling `Stop`,
  dispatching, posting, subscribing, destroying, a spurious wake-up, a
  compare-exchange failing without reason.
* A datagram in flight arrives eventually, unless it is lost first; the
  processes of `UDP` run. Losses, kills and restarts are never owed.
* In the event queue the timer of `wait_for` fires eventually; a notification
  that falls between the predicate and the sleep is only recovered by it.

## Proofs

TLAPS checks these for every value of the constants; nothing is assumed beyond
the named `ASSUME`s of the modules. They say that sets of threads and nodes are
finite and the sorts of threads disjoint, that no thread, client or node is the value the
code has for nobody (`ClientsAssumption`, `NodesAssumption`), that counts and sizes
are natural numbers, that the callers of the
no-starvation mutex are among the threads (`CallersAssumption`), that a job has at least one ticket (`TicketsAssumption`), and
three things that come from the code: `RetestAssumption` of `BoundedBuffer`, a program
that waits under `if` has one thread on each side (`SingleProducerSingleConsumer.cpp`
is the only one, and with more its assertion would fail); `WorksAssumption` of
`MCBuffers`, the three threads of `producer_consumer_works.c` are among the
threads; and `SizeAssumption` of `RingBuffer`, the size is a power of two of at least
2, since the code masks with `_size - 1` (the proof only uses that it is at least 2: the
mask is modelled as the remainder it then is). TLC evaluates all of them and has
checked every inductive invariant below as an invariant of the run of its module.
Where an MC module chooses among programs, the theorems are about the very
specification its run checks (`RunSpec`): a step of the run is a step or a stutter
of each of the programs.

Three arguments come back. *Ownership*: a mutex or a semaphore that is used as one
is free exactly when no thread is at a label between its wait and its post, so a
sum of a counter and the number of threads at some labels does not change.
*Cover*: what a sleeper waits for (a unit, an item, a free slot) is matched,
while somebody sleeps, by a thread that is awake to take it or about to signal.
*Place*: a thing that may be in one of several places (a job, a ticket, a node) is
in one of them at any time, which is said as disjointness of the places and then
kept step by step.

* **`SemaphoresProofs`, Zemaphore**, for any finite set of processes, any scripts, any
  initial value and any number of spurious wake-ups. The inductive invariant has
  four parts: types; `LockInv`, a process is at a label inside the critical
  section exactly when it owns the mutex; `SleepInv`, the sleepers are the
  processes at the label of the wait; `OpInv`, the label belongs to the
  operation of the script. `TypeCorrect`: the value never goes below zero.
  `WakeupsNeverLost` adds the count that
  makes the one signal per post enough: while somebody sleeps, each unit of
  value is matched by a process already woken or a post about to signal.
  `Refinement` shows that the step `value--` of `Zem_wait` is the abstract wait,
  the step `value++` the abstract post, and every other step a stutter; it needs
  `LockInv`, since the test `value <= 0` is a step earlier than the decrement.
* **`SemaphoresProofs`, no-starvation mutex**, for any number of threads and calls,
  initialised as in the code. The idea is `UnitInv`: the values of `t1` and `t2`
  and the threads that have passed a turnstile and not yet opened one again make
  two, always. Everything between `sem_wait(&m->t1)` and the post of
  `OpenTurnstile`, and everything from `sem_wait(&m->t2)` to the post of
  `ns_mutex_release`, holds one of the two units, whatever `room2` says. With
  `MutexInv` (who holds `mutex`), `RegInv` (what was loaded of `room1` under it is
  still true) and `Room1Inv` it is inductive. Each statement is one case of
  `Settles`: it changes the semaphores and `room1` by what it means to be at the
  next label. `TwoAtMost`: at most two threads are in the critical section.
  `Room1True`: `room1` is the number of threads in room 1. Nothing of the kind is
  true of `room2`.
* **`SemaphoresProofs`, barrier**, for any number of children. `Sem1Inv` and
  `Sem2Inv` say who owns the unit of each semaphore, `ArrivedInv` that the one of
  `sem2` comes into being when everybody has arrived, `CountersExact` that the
  counters are cardinalities of sets of children; each needs the others: the
  counter decides who posts. `NobodyEarly`, `CountersAlone`, `CountersTrue`.
* **`RWLocksProofs`**, for any finite sets of readers and writers and any numbers
  of loops, over the specification that chooses among the three locks.
  `SwitchInv` is stated once for every light switch: its mutex has one owner, its
  counter counts the threads from `counter++` to `counter--`. `Owned` says that
  the semaphore the switch guards is free, or held by one thread that took it
  alone, or held by all that have the switch on together. `LoadInv` says that the
  value a writer has loaded is still the value of `DB`. Each step of each lock is
  classified once (`ReaderStep`, `WriterStep`) by what it does to the semaphores,
  and the preservation lemmas are about the classes. `Refinement`: each lock
  implements `RWLock`, so readers share and a writer is alone between its load
  and its store. `WritersComeFirst`: in the priority lock no reader enters while
  a writer holds the readers off.
* **`BuffersProofs`**, for any finite sets of producers and consumers, any buffer
  size, any number of items and of spurious wake-ups, over the specification
  that chooses among the seven programs. For the condition variables `LockInv`,
  `SleepInv` and `LoopInv` are ownership of the mutex and where sleepers and
  threads are in their loops; `SignalInv` says that what a thread is about to signal,
  an item or a free slot, is still there; `WokenInv` that, without spurious wake-ups, a thread
  that was woken under `if` finds what it waited for. `ConsumersCovered` and
  `ProducersCovered` are the cover on either side. `WakeupsAreKept` is
  `NoLostWakeup`, `AssertionsHold` is `AssertsNeedSignals`. For
  `producer_consumer_works.c` `SlotsInv` divides the slots among `empty`, the
  producers that have one, the values stored and the consumers that have not
  posted yet. `Refinement`: all seven implement `BoundedFifo`. Its lemmas
  `RingPut` and `RingGet` are about the ring alone: writing at `fill` appends to
  the sequence read from `use` modulo the size, and moving `use` takes its head.
* **`ThreadPoolProofs`**, for any numbers of workers and callers, any queue size
  and both values of `m_block_when_full`. `JobsConserved` counts copies; the
  inductive invariant says where they are instead: no two positions of the queue
  and no two workers have one job (`UniqueInv`), a job is in the queue, with a
  worker or already run, in one of these at most (`PlaceInv`), in none before its
  caller has pushed it and somewhere after that (`PushInv`). `Conservation` follows by counting.
* **`CallbacksProofs`**, for any number of operations, handlers, posters and
  subscribers. `OrderInv`: the operations started and those queued are together
  an initial segment of those dispatched, in order. `RunInv`: what was
  started is finished or in the hands of a handler, and the destructor returns
  after all handlers. `OperationsInOrder`, `DestructorIsLast`. `TakenIsDelivered`:
  when the forwarder has returned, a subscriber that is still owed an event has it
  pending; what the forwarder took it has delivered.
  `OneCallback`: the tasks one after the other call back once.
* **`SequentialProofs`, rate limiter**, for every capacity, interval, rate, width of a count
  and of a time, and a clock that is set any number of times to any time. `Astray` says that the
  clock is behind the last refill or shows more time since then than has really
  passed. `Accounted`: that is so only after the clock was set; and the
  tokens granted and those in the bucket are at most the capacity, the tokens of
  the periods up to the last refill and one capacity for each time the clock was
  set, where one capacity does not count yet while the clock is astray: its wrong
  refill is still to come. The lemma
  `DivSum` (the quotients of two spans add up to at most the quotient of their
  sum) is why restarting the clock at the call never grants a period twice.
  `RefusedInTime`: a call that is refused a whole period after the last refill is
  explained by a wrapped count or a clock that was set.

* **`SequentialProofs`, persistent stack**, for a file of any size and any numbers
  of pushes, pops, runs and kills, over the specification that chooses among the
  three sequential programs. `Spoilt` is the set of items in the file that are not
  what was pushed, where the item a push has counted and not yet stored is not
  counted yet. `FileInv`: there are never more of them than kills, and as long as
  nobody was killed what was popped is printed, buffered or in hand, in order.
  `HalfInv` says what the file is between the two stores of a push, in either
  order. `StackPersists`.
* **`SequentialProofs`, lottery**, for any list of jobs with any tickets and any
  number of random values. `LotteryInv`: `gtickets` is the sum with which the walk
  over the list ends. The induction over the list that this takes is done without
  the library's theorems: the lemma `Induction` is about a *set* of numbers, proved
  from the least number outside it, and is applied to the set of positions at which
  the partial sums `Sums` have the property. `WinnerIs`: a number below `gtickets`
  falls between exactly two partial sums. `Chances` counts, by injections from and
  to pairs of quotient and remainder, how many of the values of `random()` fall
  there. `DrawsAreFair`.
* **`SignalsProofs`, joins**, for any number of spurious wake-ups, over the
  specification that chooses among all programs of `MCSignals`. What the signallers
  of the ten programs do is used only through `Shape`: nothing is set or signalled
  before the work is done, the state is set before the signal, and in the working
  programs with a condition variable under the lock. `JoinInv` then says who owns
  the mutex (`OwnerInv`), that `done` is set only by the signaller (`DoneInv`), that
  the waiter leaves its loop only after that (`LeaveInv`), and that in the working
  programs nobody is about to sleep once the state is set (`SleepInv`).
  `WaitsLastLongEnough`, `StuckOnlyWhenMissed`.
* **`SignalsProofs`, UDP**, for any number of clients and faults. `UDPInv`: at most
  one client has the port, and unless a stray may be about everything in flight or
  in the server's hands is about a client that waits, once. `AnswersAreOwn`.
* **`QueuesProofs`, ring buffer**, for any numbers of threads and calls and any ring
  size. `WindowInv`: the tickets from `tail` to `head` have items, at most a ring of them,
  and the sequence number of a slot is one of two values for a ticket that has an
  item and one of two others for a ticket that is free. `HolderInv`: a thread that has claimed a
  ticket and not published its slot has the ticket alone, and the slot says so.
  `TryInv`: what a thread has read of a slot is still true if its exchange succeeds,
  although the two loads are separate. The lemma `Slots` (two tickets less than a
  ring apart have different slots) turns tickets into slots. An enqueue takes
  effect when it claims its ticket, before the item is written: the abstract queue
  has the item of a ticket whose producer is still writing (`Item`), and it is open
  (`Claimed`). That `dequeue` returns `false` only when there is no item or the first
  is open needs one more invariant: `RingPast`, a slot whose ticket was claimed and
  shows the number of a free slot has its producer still at work, and tickets that
  are over have left a larger number behind. The load of `seq` is where the answer
  is true: the comparison with a `tail` loaded before can only be of a ticket that
  is over, which is then not taken for empty.
* **`QueuesProofs`, linked containers**, for any finite set of nodes. Lists are
  described by a witness: `IsChain(N, c, k, h, next)` says that `c[1..k]` are the
  different nodes from `h` along `next` to `NULL`. The lemmas `ChainFront`,
  `ChainRest` and `ChainBack` are the three ways a chain changes, `HopsChain` and
  `ChainReach` say that the modules' definition by following `next` step by step
  agrees with the witness. `QueueInv`: a chain whose last node is `tail`, unless a
  producer is about to move `tail` there; every allocated node is on the chain or has
  one owner; a lock is held between its lock and unlock. `StackInv`, as long as there
  was no ABA exchange: a chain from `_head`; every allocated node is on it or has
  one owner; a `pop` that is about to exchange, whose node has not left the stack
  meanwhile, has the right `next`. `ListInv`, until the program leaves its arrays or ends: a chain per list,
  every node on the list of its key or with its insert; who works on a list has its
  lock, an insert has linked its node to the current head, a lookup has not passed
  its key. `ListOver` says how it ends: the destructors, called when every node is on
  a list, leave the first of each list, and only the index of `hashmap-c.cpp` is
  outside (`IndexInside`). `MemoryIsSafe` and `ContainersImplemented` say this of the specification that
  chooses among the containers; the points at which operations take effect are the
  claim of a ticket, the store to `next` and to `head` of the linked queue, the
  successful exchanges of the stack, the store to `head` and the end of the walk of
  the lists; and, for an answer of "empty", the load of `seq`, the load of `next`
  under the lock and the load of `nullptr` from `_head`.

Only model-checked:

* Everything about liveness and `ENABLED`: fairness is outside the prover's reach.
* `OnlyTheCircle`, `InOrder` and `UpdatesKept` of the scripts. The programs are
  fixed sequences with a fixed number of threads, as in the code, and TLC visits
  all their states; only the loop counts are bounds.

## What the checks found

Two disagreements between the code and its own comments, each with an expected
violation run and the quotation in `PROJECT.json`:

1. `no-starve-mutex.c:30` initialises `t2` to 1. The explanation below in the
   same file needs it locked, and with 1 two threads are in the critical section
   together (`no_starve_mutex_code`). The run `semaphores` and the proofs say what
   the mutex still does as it is.
2. `ring-buffer.cpp:67`: `enqueue` reloads `_head_seq` only inside the branch in
   which the slot was free. A producer overtaken between its two loads tests the
   same stale value for ever (`ring_buffer_enqueue`). `dequeue` has the reload.

Behaviour a reader may not expect, which the properties describe as it is:

* `no-starve-mutex.c`: with both turnstiles open two threads may also update
  `room2` together, at line 47 and at line 65, and lose an update. From then on
  `ns_mutex_release` may open the turnstile nobody waits at, and callers wait for
  ever. `EntersUnlessLost` says that nothing else keeps a caller out.
* `ring-buffer.cpp` is not quite linearizable: when one producer has claimed a
  ticket and not published it and a second has completed the next one, `dequeue`
  returns `false` (lines 114-117) although an `enqueue` has returned and nothing
  was taken. `ImplementContainers` allows exactly this and no other false answer.
* The assertion `(_size & (_size + 1)) == _size` at `ring-buffer.cpp:35` is meant to
  require a power of two and accepts every even number. With 6, for instance, the
  mask is 5 and the slots 2 and 3 are never used, so ticket 2 finds a slot that
  never shows its number. The model and the proofs are of powers of two.
* In `rwlock-1writerprogress.cpp` readers past the turnstile, before the switch,
  can still enter before the writer that has locked it, although the comments at
  lines 61-62 and 91-92 read otherwise; `WriterProgress` holds all the same.
* `pc_single_cv.c` can stop with both sides asleep on the one variable, as OSTEP
  teaches; `Termination` of `buffers` says that this is the only way it stops.
* `SingleProducerSingleConsumer.cpp` waits under `if`; with one thread on each
  side only a spurious wake-up makes its assertions fail (`AssertsNeedSignals`).
* `thread_pool`: with `m_block_when_full` set the code rejects a job when the
  queue is full instead of blocking, and the `-1` it returns converts to `true`,
  so a caller cannot tell. `JobsConserved` counts rejected jobs apart. `busy()`
  returns `m_jobs_que.empty()`.
* `EventQueue`'s forwarder leaves its loop as soon as `halting_` is set: an event
  that was posted before the destructor ran may not be delivered, which
  `CallbacksRun` lets pass.
* `RateLimiter` computes its refill in 32 bits before the cap: after a wrap the
  bucket can have fewer tokens than before, never more than it should. After the
  clock (`system_clock`) was set forward, periods count that did not pass; after it
  was set back the unsigned difference is huge. Either may fill the bucket once;
  `RateLimited` allows one capacity for each time the clock was set.
* `OddEven.cpp`: `printEven` prints the odd numbers, because the counter is
  incremented before it is printed.
* `thraed-safe-callback.cpp`: `asyncCall` throws its future away, whose destructor
  waits, so the tasks run one after the other. `CalledBackOnce` depends on it: side
  by side both could find zero.
* `promise-future.cpp` never sets its promise: the waiter is woken by its
  destruction.
* `compare-and-exchange.cpp`: `pop` reads `next` of a node another `pop` may have
  deleted, and an exchange can succeed on a node that left and came back (ABA). The
  model stops there; up to that step the stack is linearizable and keeps its
  nodes. A `next` that was read of a deleted node is any pointer, and is used only
  if that exchange succeeds; `MemorySafe` does not count the read itself. `pop` returns `false`, which is 0, for an empty stack. `main` does not
  join `t4`.
* `linkedlist.cpp`: the destructor deletes the node behind the current one and goes
  on from it, so it never deletes the first node, and with two nodes or more it
  reads a deleted one. `MemorySafe` says of a destructor that meets no deleted node
  that the first node of each list, and no other, is left; of one that does nothing
  can be said. `hashmap-c.cpp` takes a negative remainder of a negative key as an
  index, and `MemorySafe` says that no other program leaves its array.
* `pstack.c` makes two stores per push and takes no lock on the file; a kill
  between them leaves one item that is counted and not stored, or the reverse, and
  output that was not flushed is gone.
* `udp.c`: `UDP_Open` returns 0 when `socket` fails, which the callers do not take
  for an error, and every client binds the same port, so that a late answer to a
  client that was killed reaches the next one.
* `ping-pong.cpp` may leave one thread waiting at the limit, because the counter
  is tested outside the lock and with `<=` on one side and `<` on the other.

## What is not modelled, and what is left

The order of the work was: the semaphore everything rests on; what is
built from semaphores (locks, mutex, barrier, scripts); the condition-variable
buffers; the structures with stop and destruction (pool, dispatch and event
queues); the lock-free and locked containers; the one-time signals and the
network; the sequential programs. All of them are modelled, and every safety
property the runs check is proved for every value of the constants but the three
of the scripts. What is left would be new questions rather than more of these: a
weaker memory for the ring buffer and the linked queue, whose plain `next` is
shared across two locks, and a proof for the dinners with any number of
philosophers, which would need scripts with a parameter the programs do not have.

Not modelled:

* The demonstrations of `fork`, `exec`, `open`, `malloc` and `pthread_create`
  (`cpu-api`, `vm-intro`, `intro` but `threads.c`, `threads-api`, `t0.c`), which
  are straight-line calls with no state of their own.
* Single atomic operations called once by the only thread
  (`spinlock-test-set.cpp`, `compare-and-swap.c`, `fetch.cpp`), and
  `load-and-store.cpp`, whose point is that every order is possible.
* Single calls of a library or language facility (`basic_callback.cpp`,
  `future.cpp`, `Singleton.cpp`, `ThreadSafeInitialization.cpp`), where there is
  only the facility to check; and `semaphores/semaphore.cpp`, which has no
  operation.
* Weak memory: steps are sequentially consistent, see above. A crash of the
  machine under `pstack.c`, which never calls `msync`: nothing can be said of what
  the disk then holds. Two processes of `pstack.c` on one file at once.
* What the stack of `compare-and-exchange.cpp` does after an ABA exchange, and what
  the programs do after an access outside their objects.
