# A formal model of AsioUring

AsioUring is a proactor for C++ on top of Linux's `io_uring`: a core library
(`src/src/core`) with an execution context, a queue and a pool of completions,
and a layer that offers them as Boost.Asio I/O objects (`src/src/asio`). This
directory holds TLA+ modules of it, the TLC configurations that check them, and
theorems about them that TLAPS proves.

`PROJECT.json` is the index: components, runs, the source lines behind each
definition, the hazards each property is aimed at, the findings and the theorems.

## 1. The system

| Component | State it keeps | Operations | Who it talks to |
| --- | --- | --- | --- |
| `execution_context` | `work_`, `stopped_`, `pending_`, three flags `*_started_`, `tid_`, the ring, a queue and two more eventfds | `restart`, `run`, `run_one`, `poll`, `poll_one`, `stop`; executor: `on_work_started`, `on_work_finished`, `post`, `defer`, `dispatch` | the ring (SQEs, CQEs), its queue, completions |
| `eventfd_queue` | linked list (`head_`, `tail_`), free list, two spin locks, an eventfd | `emplace`, `push`, `pending`, `consume`, `consume_all`, destructor | producers on any thread, one consumer |
| `eventfd` | a kernel counter | blocking `read` (and clear), `write` (add) | the ring polls it |
| `spin_lock` | a flag | `lock`, `try_lock`, `unlock` | the queue |
| `service` (core) | completions in use and free, a list per I/O object, cached `iovec` vectors | `construct`, `destroy`, `move_*`, `initiate`, `shutdown`, completion | the context's ring and executor |
| `uring` | the ring | set up, tear down | kernel |
| `callable_storage` | a function in place or on the heap | construct, invoke (destroys first), destroy | queue and completions |
| `fd`, `accept`, `connect`, `read`, `write` | a descriptor | one system call each | kernel |
| asio `service` | a core service | result conversions, `initiate_*`, `shutdown` | core service |
| `file_object`, `basic_io_object` | a shared descriptor, an implementation handle | `get_implementation`, `reset`, `outstanding` | operations in flight |
| `poll_file`, `accept_file`, `connect_file` | a file object | poll for readiness, then try the call | asio service |
| `async_file` | a file object | read, write, fsync through the ring | asio service |
| `completion_handler`, `fd_completion_*` | handler, two work guards, a descriptor | invocation on the right executor | handlers |
| `iovec`, `read`, `write`, `error_code` | none | conversions and loops | |

**How the context works.** One thread runs it. It sleeps in `io_uring_wait_cqe`;
other threads wake it through eventfds which one-shot polls in the ring watch:
*queue* (a function was posted), *stop*, *zero* (the last unit of work was
finished). A poll that has fired is gone until somebody submits it again; the
flags `q_started_`, `stop_started_`, `zero_started_` remember which are out. A
posted function is linked under a spin lock first and announced with a write to
the queue's eventfd afterwards; the running thread reads how many were announced
into `pending_` and then pops that many.

**What is hard in it.** Two-step signals (`fetch_sub` and then a write, a store and
then a write, a link and then a write) that interleave across threads; events that
are stale when they are handled; one-shot polls that have to be re-armed exactly
once on every path; exceptions from handlers, from the ring and from allocation in
the middle of batches; blocking reads by the only thread that makes progress; a
counter of work that many parties decrement; node reuse between threads. In the I/O objects:
descriptors that are shared with handlers and numbers that the kernel reuses; handlers that change
threads, throw, or destroy their own object; readiness that is gone when it is acted on; partial reads and
writes with an error at the end of them; one connection that wakes several accepts.

**What makes it correct.** *Context*: no wakeup is lost (stop, zero, post), none makes
the running thread block on an eventfd that is not readable, what is announced is
exactly what is queued, the work counter is exactly the work, a stopped context
returns. *Queue*: FIFO, no node in two places, every value constructed and destroyed
once, nothing popped that was not announced. *Service*: a completion is in one place,
released once, with its unit of work. *Functions*: memory is given back once, and before the call. *I/O objects*: a descriptor outlives its
operations; handlers are
called once and by their executor, which has work until then; bytes are counted exactly, connections
delivered once.

## 2. The modules

| Module | What it is |
| --- | --- |
| `ExecutionContext` | the run loop, the executor, the eventfds, the ring as far as the loop uses it |
| `CountedQueue` | abstract: a FIFO and a count of what may be consumed |
| `EventfdQueue` | the linked list, locks, node reuse, exceptions, destructor |
| `Service` | the pool of completions, per-object lists, the cache of vectors, failures of `initiate`, shutdown |
| `CallableStorage` | functions in place and on the heap, with everything in their life that may throw |
| `AsyncOperation` | abstract: what an asynchronous operation promises to who initiates it |
| `FileObject` | I/O objects, shared descriptors, the layers of handlers, work of two executors, shutdown |
| `FileOperations` | the operations of `poll_file` and `async_file`, the asio service's initiating functions and result conversions, the read and write loops |
| `Connections` | `connect_file` and `accept_file` at the two ends of a listening socket |
| `MC<module>` | the instance of each for TLC |
| `<module>_proofs` | theorems about each module but `AsyncOperation` |

How they compose:

- `EventfdQueue` implements `CountedQueue` (producers' and consumer's side), and `ExecutionContext`
  is shown to be a user of `CountedQueue`, with its number `linked` of functions for the queue.
  What the context needs from its queue is what the queue provides.
- `Service` stands on the ring by itself: of the context it keeps the dispatch of a cqe to its
  completion and the service's part of `work_`; `ExecutionContext` in turn keeps of the service
  that an operation is acquired, submitted, completed and released. That a completed operation's
  own function is called, once, is what the layer above takes from it.
- `FileObject` is that layer: it begins with an initiating function, takes the completion of the
  operation as one event, and follows the handler to the thread it belongs to. It implements
  `AsyncOperation`.
- `FileOperations` and `Connections` are what the handlers of these operations do with the file
  between the cqe and the caller's handler. They keep of `FileObject` that this runs once for each
  completion, interleaved with the handlers of other executors, and that its number stays valid.
- `CallableStorage` is what the nodes of the queue and the completions of the service keep
  functions in: `storage` of the one, `wrapped` of the other.

### ExecutionContext

| Variable | Code |
| --- | --- |
| `work`, `stopped`, `pending` | `work_`, `stopped_`, `pending_` |
| `started[e]` | `q_started_`, `stop_started_`, `zero_started_` |
| `efd[e]` | counters of the eventfds of `q_`, `stop_`, `zero_` |
| `linked` | number of nodes in `q_` |
| `call[t]` | what thread t still has to do in `post`, `on_work_finished` or `stop` |
| `guards` | calls of `on_work_started` not yet matched (work guards) |
| `busy`, `submitting` | completions of the service in use; the one in `service::initiate` |
| `pc`, `entry`, `item`, `batch`, `done`, `handlers` | where the running thread is, and its locals |
| `sq[e]`, `polls[e]`, `inflight`, `cq` | the ring: SQEs left by a failed submission, armed polls, user operations, CQEs |
| `failures` | failed submissions so far (bounds them) |

An action is the code between two accesses to state that another thread (or the
kernel) can see. `FinishWork` is the `fetch_sub` and leaves `call = "zero"` if the
eventfd has to be written; `Enter` loads `stopped_`, `CheckWork` loads `work_`,
`ReadEvent` is the read of an eventfd, `DecideStop` and `DecideZero` the load after it.
`Return` is every path that stores `true` to `stopped_`, `Throw` every exception. Reads
and writes are sequentially consistent: the orders that the code relaxes are on
variables that only one thread writes meanwhile (`stopped_`) or that are followed by a
system call.

Abstractions: functions in the queue are counted (their order is `EventfdQueue`'s
business); the stop and zero counters saturate at 1, as their value is thrown away; a
cqe leaves the ring's queue when it is taken, and not after it was handled; the number
of handlers run is 0, 1 or more. `dispatch` from the running thread calls its function
and changes nothing. The model is of a build with `NDEBUG`; assertions are properties.

### EventfdQueue

`head`, `tail`, `free`, `next`, `storage` are the code's pointers and node contents,
`lock` and `freeLock` the owners of the spin locks. A critical section is two actions: the
first takes the lock and does half of the work, the second does the rest and releases it,
so that an interleaving that the lock fails to exclude would show. `queue` and `spare`
record which nodes the two lists should consist of; nothing reads them, and
`ListsWellFormed` says that the pointers spell them. `pending`, `left`, `all`, `lost` belong
to the consumer: what it was told, what is left of a `consume` loop, and what an exception
made `consume_all` forget.

### Service

`inUse`, `free`, `handle`, `wrapped`, `iovs`, `cache` are `in_use_`, `free_`, the list of an object that a
completion is in, `wrapped_` (named by the operation whose function it is), the capacity of `iovs_`
and `iovs_cache_`. The lists are sets, as it does not matter which free completion is taken. `work`
is the service's part of the context's `work_`. In the ring (`prepared`, `inflight`, `completed`) an entry is the address of
a completion, which is all the kernel knows, with the operation it was prepared for, which
nothing in the code sees: the difference is what `CompletesItsOwn` is about. `Initiate` is the call that succeeds, with or without
`iovec`s (`Asked`: an operation may ask for a vector of 0, and takes one from the cache then, too),
`InitiateThrows` the one where memory or an SQE cannot be had, `SubmitFails` the one whose
submission fails, which leaves its SQE in `prepared`. `Complete` enters a function and `HandlerEnds`
leaves it, by return or exception; in between every call of the service is possible. A
completion that has no function to call is undefined behaviour: `HandlerEnds` is disabled there.

### CallableStorage

`life[s]` says how far the construction, the call or the destruction of storage s is, `kind[s]` which
implementation `select` chose, `inner[s]` is `inner_` of an `indirect`, `ptr[s]` the block a `create` or an
invocation has in hand, `heap` and `built` what the allocator has given out and what of it holds an object.
A call is `Take` (`inner_` is swapped out), `MoveOut` or `MoveOutThrows`, `GuardDestroys` (the block goes
back), the call itself and `CallEnds`. `Allocate` and `Construct` are two actions, as the latter may throw.
Several storages share one allocator, so that a block given back too early or twice would be met again.

### FileObject

| Variable | Code |
| --- | --- |
| `owned[o]`, `fd[o]` | the program has object o; its shared pointer `fd_` |
| `handle[f]`, `opened` | `fd::handle_` of an instance of `fd`; the instances that were ever opened |
| `file[op]`, `raw[op]` | `fd_` in the operation's `fd_completion_handler`; the number its calls use |
| `assoc[op]`, `home[op]` | the caller's associated executor; the one the wrappers arrive at |
| `obj[op]` | the object the operation was started on; for an accept also its `self` |
| `work[e]`, `frame[e]` | outstanding work of an executor; the operation its thread is inside of |
| `phase[op]`, `down` | how far an operation is; the context was destroyed |

There are two executors: the context's, whose thread also uses the objects, and another. `handle` and
`raw` differ when the kernel has given a closed number out again, which `Construct` does whenever a number
is free. `Initiate` is `wrap_token`, the capture of the number and the construction of `completion_handler`
(with its unit of work); `Post` is `poll_file::post`, which wraps nothing. `DispatchInline`, `DispatchPosts`
and `DispatchThrows` are `completion_handler::operator()`, `RunPosted` the executor that takes a posted
handler; `InvokeHandler`, `AcceptAgain`, `AcceptInitiated` and `AcceptThrows` are what an
`fd_completion_handler` may do in its call, and `FrameEnds` is the return, or the exception, by which the
wrappers die. `MaybeClose` and `ReleaseObjects` close each action that lets go of something: a shared
pointer that was the last one closes the file. `InCall` is the share that `fd_completion_handler` has
swapped into a local, which lives until the call is over.

### FileOperations

`kind`, `bufs` and `target` are the request, `phase` and `res` how far it is and `cqe.res`; `cur`, `got`,
`ec`, `n` the locals of the read and write loops; `log` lists the places in the buffers of the bytes moved.
`ReadCall` and `WriteCall` are one system call each (one turn of the loop in core), `BufferEnds` one turn of
the loop over the buffers. `avail`, `used`, `inEnd`, `broken` are what the file has and has room for, which the
peer (`Peer`) and the other operation change between any two calls: two handlers on two executors may be
inside the loops at once. After readiness was reported it may be gone, so `ReadCall` may find nothing.
A vectored operation is one call of the kernel over `ToIovecs` of its buffers.

### Connections

`socket[c]`, `sentTo[c]`, `sentErr[c]`, `asked[c]` are a client's socket, its `async_connect` and what that
reports; `queue` holds connections that were made and not accepted; `phase[a]`, `err[a]`, `conn[a]` belong
to an `async_accept`; `stolen` went to another process. `AsyncConnect` calls `connect` and decides between
posting and waiting for POLLOUT. `AcceptCompletes` enters the invoker, which takes (`AcceptTakes`), fails
(`AcceptFails`) or starts again (`AcceptAgain`, `AcceptAgainThrows`).

### AsyncOperation

An operation is initiated with an executor, or refused; then called by that executor, or dropped. Several
may be dropped at once, by the destruction of the context. `FileObject` implements it: `pending` is everything
from the initiation to the call of the caller's own handler, rounds of an accept included.

## 3. Runs

| Run | Instance | Shows |
| --- | --- | --- |
| `context_safety` | 2 workers, 1 operation, work up to 2, 1 failed submission | queue and work accounting, one poll per eventfd, no blocking read, no lost stop or zero, waits are watched, assertions |
| `context_liveness` | 1 worker, 1 operation, work up to 2, no failed submission | `StopReturns`, `ZeroReturns`, `PostedRuns`; refinement of `CountedQueue` |
| `queue_refinement` | 2 producers, 3 values each, 4 nodes | the list properties; `EventfdQueue` implements `CountedQueue` |
| `service_pool` | 3 completions, 2 objects, 2 operations, up to 2 iovecs, 1 failed submission, runs after shutdown | `OneList`, `WorkHeld`, `CompletesItsOwn`, `ReleasedOnce` |
| `callable_storage` | 3 storages, 2 blocks | `MemoryAccounted`, `FreedBeforeCall` |
| `file_objects` | 3 files, 2 numbers, 2 objects and an accepter, 2 operations, 2 executors | `DescriptorValid`, `OutstandingCounts`, `ExecutorsHeld`; `FileObject` implements `AsyncOperation` |
| `file_operations` | 2 operations of any kind, 4 shapes of buffer sequences, 3 bytes to read, room for 2 | `BuffersInOrder`, `ReportsTruthfully`, `AttemptEnds` |
| `connections` | 2 clients, 2 accepts, backlog 1 | `EachDeliveredOnce`, `AttemptTruthful`, `OperationsComplete` |
| `complete_after_failed_submit`, `iovs_from_cache`, `accept_on_other_executor`, `connect_without_room` | minimal | disagreements between the code and what its docs say, section 4 |

**Bounds.** `MaxWork` bounds `work_` and with it the functions queued and the guards held at
once: 2 is the least value at which "the last unit" and "not the last unit" differ, so that a
batch of two, a stale zero event and a post during a drain all occur. Two workers and the main
thread give every pair of concurrent calls plus the running thread; workers are symmetric.
One operation is enough to interleave completions with events, since the properties treat
operations one at a time. `MaxSubmitFailures = 1` lets a failed submission happen at any of the
points where one can; `OnePoll` and `ReadsDontBlock` are claimed only before it, see section 4.
In `EventfdQueue` four nodes and six values make nodes go round the free list several times,
with the free list empty, of one and of several nodes; allocation fails when they are used up
or at any other time. In `Service` two operations in flight and a third completion give a free list
that is empty, of one and of several, and operations are initiated again any number of times;
`OneList` and `WorkHeld` hold after a failed submission too, the other two are claimed before it (finding 1).
In
`CallableStorage` two blocks for three storages make the allocator give a block again and run out.
In `FileObject` two numbers for three files force a number to be given out again while operations
carry it; two plain objects can be moved to and from each other; two operations may be on one object,
on two, or in each other's frames, and each of them inline, posted, or an accept that goes round.
In `FileOperations` the shapes are no buffer, one, two, and an empty one before another; three bytes
and room for two let a read or write end within a buffer, between two and at the end, and two
operations split what there is. In `Connections` a backlog of one makes a local connect fail with
`EAGAIN` (`AttemptTruthful` claims nothing of such a connect: finding 4 is about it), and two accepts are woken by
one connection. The theorems of section 5 hold without bounds.

**Fairness.** `context_liveness` assumes that a thread that can run does (`RunStep`, the rest of
an executor call, a submission), that the kernel completes a poll of a readable file, and that a
handler ends: strongly, as its end is disabled while it makes a call of its own. Nothing is
assumed of callers, of user operations, nor that a wait is ever interrupted.

`file_operations` assumes that a thread inside the read or write loops goes on with them (`Run`); the
kernel and the peer may do nothing for ever. `connections` assumes that a ready socket's poll completes
and that the executors run what they were given (`AcceptRuns`, `ConnectRuns`); nobody has to connect, to accept or to answer.
Weak fairness is enough in both: an operation has one such step at a time, and only its own steps disable it
for good.

**Deadlock** is checked in the runs of the core. A state without steps would be the running thread blocked
in the read of an eventfd while nobody can write it, or threads spinning for one another's locks;
`EventfdQueue` may stop only after its destructor. `file_objects`, `file_operations`, `connections` and
`accept_on_other_executor` say `CHECK_DEADLOCK FALSE`: each operation is initiated once there, so a state in which
everything is finished has no steps.

**Mutants.** Next to the definitions stand faulty variants of some of them (marked *Faulty*),
each a plausible slip in that code; for each property TLC finds the variant that breaks it.
No specification uses them.

## 4. Findings

Each has a run that ends in a counterexample.

1. `complete_after_failed_submit`: when the submission in `service::initiate` fails, the completion is released
   while its SQE waits in the ring for the next submission. The cqe then reaches a completion that is free,
   or that serves another operation.
2. `iovs_from_cache`: a vector from the cache of `iovec`s comes as it was cleared, without regard to how many
   the operation asked for.
3. `accept_on_other_executor`: an accept that finds no connection starts again from the invoker, on the
   handler's executor. If that is not the context's, two threads are in the service, which is not thread safe.
4. `connect_without_room`: `connect` treats `EAGAIN`, which a local socket gives when the backlog is full, like
   `EINPROGRESS` (`connect.cpp:32`). No attempt is under way then; the socket polls as writable and hung up,
   `SO_ERROR` is 0, and `async_connect` reports success (`connect_file.hpp:67-77`) for a socket that is not
   connected, where the docs promise the result of the operation (`ConnectTruthful`).
   `AttemptTruthful`, in the run `connections`, is what holds: the report is right once there is an attempt.

Observations without a run of their own, met while the modules were written:

- After an exception from the first function of a batch `q_started_` is false, as the poll of the queue is armed
  again only after the functions, and the next `run` returns 0 at once although functions wait;
  `execution_context.hpp:158-160` says that no `restart` is needed. What was announced is kept for the call after
  `restart` (`QueueAccounting`).
- `assert(!stopped())` in the run loop does not hold when another thread calls `stop()` meanwhile: the flag is
  stored before the eventfd is written. The other assertions hold (`Assertions`).
- `run_one` handles one cqe. If that is a stale stop or zero event it returns 0 although work is left.
- `run` returns once it has popped the function that held the last unit of work, although that function may
  have posted more.
- When `io_uring_submit` fails while a poll is armed its SQE stays in the ring. The `restart` that the docs ask
  for arms a second poll of the same eventfd; the read of the second cqe blocks `run`, and `stop()` does not
  end it.
- `service::shutdown` destroys the functions of outstanding operations; the docs say these do nothing when they
  complete, but `complete()` would call the function that is gone (`HandlerEnds` is disabled there, and
  `CompletesItsOwn` allows it).
- `consume_all`, which the library does not use, forgets what is left of the count it has read when a callback
  throws (`lost` in `EventfdQueue`).
- A read that finds that its readiness is gone, and one at the end of the file, both report success and 0 bytes.
- `indirect::invoke` in `callable_storage` calls its function without the arguments it was given.
- `poll_file::post`, for operations without bytes, makes no `async_result`: the initiating function returns nothing there.
- The loop of core's `write` has no case for a call that writes 0 bytes.

## 5. Theorems

All are about `Spec` for every finite set of threads, of operations where they are counted, every set of the
other constants and every bound. Together they state every safety property of the passing runs, and the two refinements of
`CountedQueue` and that of `AsyncOperation`. `PROJECT.json` lists the ones to know.

`ExecutionContext_proofs` proves type correctness, `QueueAccounting`, `WorkAccounting`, `Assertions`,
`NoLostStop`, `NoLostZero`, and that the context implements `CountedQueue`. They rest on one inductive
invariant, `AccountInv`:

- `TypeOK` is not inductive alone. `work_` stays a natural number only because each decrement is
  backed by a unit: hence `QueueAccounting` and `WorkAccounting`;
- these balance only because Main completes one executor call before it goes on, and is in a
  call only in certain places (`CallerInv`);
- a pop is covered by `pending_` because a loop never asks for more (`BatchInv`);
- and the assertions need to know which loop may report what (`DoneInv`).

Then `SignalInv` (the two no-lost-wakeup properties) is preserved given `AccountInv` before and
after the step. `QueueStep` maps each action to a step of `CountedQueue` or a stutter.

`ExecutionContext_proofs` also proves `WaitsWatched`, `OnePoll` and `ReadsDontBlock`. `WatchInv` says at which points of
a call a flag may be clear, which is only for the event being handled, until its poll is armed again. `PollInv` says
where the poll of each event is: not armed, queued or being handled while its flag is clear, in exactly one of these while it is
set, and that the eventfd of an event that is queued or being handled is readable, as nothing clears
it but that handling. The cqes of an event are a set of positions in `cq`; that it has one element at most is what
takes the lemmas `HeadTaken` and `Appended`. Like the properties, `PollInv` is claimed until a submission has failed.

`CountedQueue_proofs` proves that the abstract queue never grants more than it holds.

`EventfdQueue_proofs` proves the five invariants of `queue_refinement` and the refinement, from `IInv`. Its parts lean
on one another, so each is shown to be kept given all of them before the step:

- `PlaceInv`: what a thread has at each point of `emplace` and `consume`: a node, one of the locks (`lock = t` exactly
  at the second half of a critical section of the queue, `freeLock = t` at that of the free list), a value to link.
  It is what makes the two halves of a critical section one step for everybody else;
- `CountInv`: `EveryValueAnnounced`, and that the consumer asks for nothing it was not told of. That is
  why `pop_node` finds a node;
- `OwnInv`: an allocated node is in one of the two lists, once, or with one thread. `OneOwner` counts occurrences, which
  `Occurrences` turns into this;
- `SpareInv`, `QueueInv`: what `ListsWellFormed` says between critical sections, and what the pointers spell
  within them: while `tail_` is being set the links already spell the queue with the new node, while a node is put
  on the free list its successor is the old head. The lemmas `ChainHead`, `ChainPush` and `ChainAppend` are what
  taking, pushing and appending do to a chain, `AppendFacts`, `TailFacts` and `PushFacts` to its list;
- `ValueInv`: a node has a value while it is queued or carried, and only then.

`RefinementStep` maps each action to one of the `Moves`, which are the actions of `CountedQueue` on what the
consumer and the eventfd can see, or to a rest: linking a node and taking the lock show nothing, `SetTail` puts the
value, `Signal` announces it.

`FileOperations_proofs` proves the three invariants of `file_operations` for buffer sequences of any number and sizes of buffers.
A byte's `Position` is what `Before` counts plus its place in its buffer. `InPlace` says that each byte of a log is at its
position; such a log is a prefix of `InOrder` (`InPlacePrefix`), as no two places have one position. A
system call that goes on where the last one ended keeps it (`InPlaceMore`), and so does what the kernel does with any
part of what `to_iovecs` describes (`DescribedFacts`: that is the whole sequence, in order). `Before` and
`FlattenSeq` are recursive functions: that the recursion has a solution (`Recursion`), and induction up to a
number (`InductionTo`), are proved from the least element of a set of numbers. `IInv` says of
each operation what it was initiated for (`RequestInv`), that only a vectored call moves bytes before its
completion (`CompletedInv`), and in the loops that `n` counts the buffers before `cur` and the log has `got`
bytes more, with `ec` going by the last call (`MovingInv`); when a loop ends this is `ReportsTruthfully`.

`Service_proofs` proves all five properties of `service_pool` in two layers. `PoolInv` adds to `OneList` and `WorkHeld`
that only a completion in use holds a function: otherwise a release could give back work twice. It
holds whatever fails. `OwnInv` says, while no submission has failed, that an entry is in one place of
the ring, that no two entries name the same completion, and that each completion in use is named by
one: a completion taken from the free list is then named by no old entry, which is what
makes `CompletesItsOwn` survive reuse. A failed submission breaks exactly this (finding 1).

`CallableStorage_proofs` proves all three properties of `callable_storage`. Its `StorageInv` says what a storage
refers to at each point of its life (`LifeInv`), that no two storages refer to one block (`OneOwner`), and that
what is allocated is what they refer to.

`FileObject_proofs` proves all five properties of `file_objects`, from `IInv`:

- `BoundInv`: what an operation carries at each point of its way, and whose frame it may be in. An
  operation that is running is in the frame of its home; one that is not an accept leaves that frame
  only when it is done;
- `FileInv`: a file that an object has is open, no two objects have the same, none but an accepter has an
  accept's, and `DescriptorValid`. A step closes only what nobody holds after it (`KeptOpen`), and a handler
  that is not done with holds its file (`HoldsNow`, `HoldsNext`); so each step is checked against the holders
  after it and not against all the ways of losing one;
- `WorkInv`: the work of an executor *is* the number of handlers that wait for it, plus the guard
  in the context's frame, plus the function in the other executor's. That work never falls
  below zero, part of `TypeOK`, needs this equation; `ExecutorsHeld` is one half of it.

`OutstandingIsCounted` then counts: a waiting handler has its share in the wrapper, a running one in the call's
local, none in both unless it is an accept. `AsyncStep` maps each action to a step of `AsyncOperation` or
a stutter.

`Connections_proofs` proves all of `connections` that is safety, from `IInv`: `ClientInv` says how far an `async_connect` can be in
each state of its socket, `ResultInv` that an accept has a connection or an error when its handler was called and not
before, and `PlaceInv` that an established connection is in the queue, with an accept or stolen, in one of these
only (the lemmas `ConnectionMade` and `HeadLeaves` are about the two kinds of step that move one). What is proved of a
connect is `AttemptTruthful`; `ConnectTruthful` does not hold.

Assumptions used: the named `ASSUME`s on the constants (the main thread is no worker, finite sets,
natural bounds, distinct user data, `Null` different from what it stands beside, some producer, at least one value each, bounds
that are numbers and shapes that are sequences of them), which TLC evaluates in the runs.

Only model-checked: liveness (`StopReturns`, `ZeroReturns`, `PostedRuns`, `AttemptEnds`, `OperationsComplete`), which needs `ENABLED`.

## 6. Not modelled, and what is left

Not modelled, and why:

- memory orders weaker than sequential consistency: `spin_lock`'s flag and the relaxed accesses; the model
  interleaves whole accesses;
- failing reads and writes of eventfds and counters at their 64-bit limits: the context's eventfds never get there;
- construction and destruction of `uring`, `eventfd` and the context, failing halfway: there is no object then;
- allocators associated with handlers: they change where memory comes from and nothing that is followed here;
- the conversion between `std::error_code` and Boost's: one category only arises;
- offsets, flags and the choice between fsync and fdatasync, which are passed on as they are;
- tests, the test allocator, the example and the build files, which are not the library.

Left to prove: what is true of the polls after a failed submission. `PollInv` claims nothing then (section 4 says why it
cannot hold as it is), and a weaker statement, of the events whose own poll was not the one that failed, has to be found with TLC first.
