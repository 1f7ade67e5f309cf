------------------------------ MODULE Service -------------------------------
(***************************************************************************)
(* asio_uring::service (service.cpp, service.hpp): the pool of completions *)
(* and iovecs behind the I/O objects of an execution_context.              *)
(*                                                                         *)
(* Every operation of an I/O object is one call of initiate: a completion  *)
(* taken from the pool keeps the function to call and one unit of work,    *)
(* its address goes to the kernel in an SQE, and when that address comes   *)
(* back in a cqe the function is called and the completion released.       *)
(*                                                                         *)
(* One thread uses a service, between runs and from the functions it       *)
(* calls; the kernel is the other actor.  Which free completion is taken   *)
(* does not matter here, and the free list is a set.                       *)
(***************************************************************************)
EXTENDS Naturals, Sequences, FiniteSets, SequencesExt

CONSTANTS
  Completions,        \* addresses of completions
  Objects,            \* implementation handles of I/O objects
  Ops,                \* operations; a finished one may be initiated again
  Null,               \* no object, no function, no cqe, no vector asked for
  MaxIovs,            \* bound on the iovecs one operation needs
  MaxSubmitFailures,  \* bound on failed submissions
  RunsAfterShutdown   \* whether the context is run after shutdown()

ASSUME CompletionsAssumption == IsFiniteSet(Completions)
ASSUME OpsAssumption         == IsFiniteSet(Ops)
ASSUME NullAssumption        == Null \notin Objects \cup Ops \cup [c : Completions, op : Ops]
                                          \cup 0..MaxIovs
ASSUME MaxIovsAssumption     == MaxIovs \in Nat
ASSUME FailuresAssumption    == MaxSubmitFailures \in Nat
ASSUME RunsAssumption        == RunsAfterShutdown \in BOOLEAN

VARIABLES
  exists,     \* completions that are allocated
  inUse,      \* in_use_
  free,       \* free_
  handle,     \* handle[c]: the object in whose list completion c is
  wrapped,    \* wrapped_: handle of the function, named by its operation
  iovs,       \* capacity of the vector iovs_ of each completion
  need,       \* the iovecs that its operation asked for
  cache,      \* iovs_cache_: capacities of the vectors in it
  work,       \* the context's work_, as far as it is the service's
  alive,      \* objects constructed and not destroyed
  prepared,   \* SQEs that a failed submission left in the ring
  inflight,   \* operations the kernel has
  completed,  \* cqes
  running,    \* the cqe whose function is running
  down,       \* shutdown() has been called
  destroyed,  \* the service is gone
  failures    \* failed submissions

pool == <<exists, inUse, free, handle, wrapped>>
vectors == <<iovs, need, cache>>
ring == <<prepared, inflight, completed>>
vars == <<pool, vectors, work, alive, ring, running, down, destroyed, failures>>

(* The kernel knows a completion by its address alone; the operation it    *)
(* was prepared for is there to tell when the address has changed hands.   *)
Entries == [c : Completions, op : Ops]

TypeOK ==
  /\ exists \in SUBSET Completions
  /\ inUse \in SUBSET Completions
  /\ free \in SUBSET Completions
  /\ handle \in [Completions -> Objects \cup {Null}]
  /\ wrapped \in [Completions -> Ops \cup {Null}]
  /\ iovs \in [Completions -> 0..MaxIovs]
  /\ need \in [Completions -> 0..MaxIovs]
  /\ cache \in Seq(1..MaxIovs)
  /\ work \in Nat
  /\ alive \in SUBSET Objects
  /\ prepared \in SUBSET Entries
  /\ inflight \in SUBSET Entries
  /\ completed \in SUBSET Entries
  /\ running \in Entries \cup {Null}
  /\ down \in BOOLEAN
  /\ destroyed \in BOOLEAN
  /\ failures \in 0..MaxSubmitFailures

Init ==
  /\ exists = {} /\ inUse = {} /\ free = {}
  /\ handle = [c \in Completions |-> Null]
  /\ wrapped = [c \in Completions |-> Null]
  /\ iovs = [c \in Completions |-> 0]
  /\ need = [c \in Completions |-> 0]
  /\ cache = <<>>
  /\ work = 0
  /\ alive = {}
  /\ prepared = {} /\ inflight = {} /\ completed = {}
  /\ running = Null
  /\ down = FALSE
  /\ destroyed = FALSE
  /\ failures = 0

Outstanding == prepared \cup inflight \cup completed

-----------------------------------------------------------------------------
(***************************************************************************)
(* The pool of completions and the cache of vectors.                       *)
(***************************************************************************)

(* maybe_allocate: a free completion if there is one, else a new one.      *)
Available == IF free # {} THEN free ELSE Completions \ exists

(* What an operation asks of the pool of vectors: the initiate without     *)
(* iovecs nothing, the other one a number of them, which may be 0.         *)
Asked == {Null} \cup 0..MaxIovs

(* acquire(n): the vector used last, as it is, or a new one of size n.  An *)
(* operation that asks for none does not touch the one it finds.           *)
Vector(c, n) == IF n = Null THEN iovs[c] ELSE IF cache = <<>> THEN n ELSE Last(cache)
CacheLeft(n) == IF n = Null \/ cache = <<>> THEN cache ELSE Front(cache)

(* release(iovs): capacity k goes to the cache, unless there is no memory  *)
(* for that, and then it stays with the completion.                        *)
GiveVector(c, k, rest) ==
  \/ k = 0 /\ iovs' = [iovs EXCEPT ![c] = 0] /\ cache' = rest
  \/ k > 0 /\ iovs' = [iovs EXCEPT ![c] = 0] /\ cache' = Append(rest, k)
  \/ k > 0 /\ iovs' = [iovs EXCEPT ![c] = k] /\ cache' = rest

(* The units of work of the completions that hold a function: each reset   *)
(* gives one back.                                                         *)
Holders == {c \in inUse : wrapped[c] # Null}

(* Faulty: forgets to unlink the completion from its object. *)
ReleaseLinked(c) ==
  /\ inUse' = inUse \ {c}
  /\ free' = free \cup {c}
  /\ wrapped' = [wrapped EXCEPT ![c] = Null]
  /\ work' = IF wrapped[c] = Null THEN work ELSE work - 1
  /\ GiveVector(c, iovs[c], cache)
  /\ UNCHANGED handle

(* Faulty: destroys the function without finishing its work. *)
ReleaseKeepsWork(c) ==
  /\ inUse' = inUse \ {c}
  /\ free' = free \cup {c}
  /\ handle' = [handle EXCEPT ![c] = Null]
  /\ wrapped' = [wrapped EXCEPT ![c] = Null]
  /\ work' = work
  /\ GiveVector(c, iovs[c], cache)

Release(c) ==
  /\ inUse' = inUse \ {c}
  /\ free' = free \cup {c}
  /\ handle' = [handle EXCEPT ![c] = Null]
  /\ wrapped' = [wrapped EXCEPT ![c] = Null]
  /\ work' = IF wrapped[c] = Null THEN work ELSE work - 1
  /\ GiveVector(c, iovs[c], cache)

-----------------------------------------------------------------------------
(***************************************************************************)
(* initiate.                                                               *)
(***************************************************************************)

CanInitiate(o, i) ==
  /\ ~destroyed
  /\ i \in alive
  /\ o \notin {e.op : e \in Outstanding \cup ({running} \ {Null})}

(* All of it succeeds.  The submission takes every SQE in the ring.        *)
Initiate(o, i, n) ==
  /\ CanInitiate(o, i)
  /\ \E c \in Available :
       /\ exists' = exists \cup {c}
       /\ inUse' = inUse \cup {c}
       /\ free' = free \ {c}
       /\ handle' = [handle EXCEPT ![c] = i]
       /\ wrapped' = [wrapped EXCEPT ![c] = o]
       /\ iovs' = [iovs EXCEPT ![c] = Vector(c, n)]
       /\ need' = [need EXCEPT ![c] = IF n = Null THEN 0 ELSE n]
       /\ inflight' = inflight \cup prepared \cup {[c |-> c, op |-> o]}
  /\ cache' = CacheLeft(n)
  /\ work' = work + 1
  /\ prepared' = {}
  /\ UNCHANGED <<alive, completed, running, down, destroyed, failures>>

(* Faulty: without the release_guard. *)
InitiateThrowsLeaks(i, n) ==
  /\ ~destroyed
  /\ i \in alive
  /\ \E c \in Available :
       /\ exists' = exists \cup {c}
       /\ inUse' = inUse \cup {c}
       /\ free' = free \ {c}
       /\ handle' = [handle EXCEPT ![c] = i]
  /\ UNCHANGED <<wrapped, vectors, work, alive, ring, running, down, destroyed,
                 failures>>

(* The memory of a new vector or of the function, or an SQE, cannot be     *)
(* had: the guard releases the completion, and reset gives its work back.  *)
InitiateThrows(i, n) ==
  /\ ~destroyed
  /\ i \in alive
  /\ \E c \in Available :
       /\ exists' = exists \cup {c}
       /\ free' = free \cup {c}
       /\ \/ GiveVector(c, Vector(c, n), CacheLeft(n))
          \/ n \in 1..MaxIovs /\ cache = <<>> /\ GiveVector(c, iovs[c], cache)
  /\ UNCHANGED <<inUse, handle, wrapped, need, work, alive, ring, running, down,
                 destroyed, failures>>

(* The submission fails: the same, but the SQE is in the ring already.     *)
SubmitFails(o, i, n) ==
  /\ CanInitiate(o, i)
  /\ failures < MaxSubmitFailures
  /\ failures' = failures + 1
  /\ \E c \in Available :
       /\ exists' = exists \cup {c}
       /\ free' = free \cup {c}
       /\ GiveVector(c, Vector(c, n), CacheLeft(n))
       /\ prepared' = prepared \cup {[c |-> c, op |-> o]}
  /\ UNCHANGED <<inUse, handle, wrapped, need, work, alive, inflight, completed,
                 running, down, destroyed>>

-----------------------------------------------------------------------------
(***************************************************************************)
(* completion::complete.                                                   *)
(***************************************************************************)

(* Faulty: the guard goes out of scope before the function is called. *)
CompleteReleasesFirst(e) ==
  /\ ~destroyed
  /\ down => RunsAfterShutdown
  /\ running = Null
  /\ e \in completed
  /\ completed' = completed \ {e}
  /\ running' = e
  /\ Release(e.c)
  /\ UNCHANGED <<exists, need, alive, prepared, inflight, down, destroyed, failures>>

(* The context hands the cqe to the completion it names, which calls its   *)
(* function: that may use the service.                                     *)
Complete(e) ==
  /\ ~destroyed
  /\ down => RunsAfterShutdown
  /\ running = Null
  /\ e \in completed
  /\ completed' = completed \ {e}
  /\ running' = e
  /\ UNCHANGED <<pool, vectors, work, alive, prepared, inflight, down, destroyed,
                 failures>>

(* It returns or throws, and release_guard releases the completion.  (If   *)
(* there was no function to call there is no telling what happens.)        *)
HandlerEnds ==
  /\ running # Null
  /\ wrapped[running.c] # Null
  /\ Release(running.c)
  /\ running' = Null
  /\ UNCHANGED <<exists, need, alive, ring, down, destroyed, failures>>

-----------------------------------------------------------------------------
(***************************************************************************)
(* I/O objects, shutdown and destruction.                                  *)
(***************************************************************************)

Construct(i) ==
  /\ ~destroyed
  /\ i \notin alive
  /\ alive' = alive \cup {i}
  /\ UNCHANGED <<pool, vectors, work, ring, running, down, destroyed, failures>>

(* The list is cleared; the operations in it go on.                        *)
Destroy(i) ==
  /\ i \in alive
  /\ alive' = alive \ {i}
  /\ handle' = [c \in Completions |-> IF handle[c] = i THEN Null ELSE handle[c]]
  /\ UNCHANGED <<exists, inUse, free, wrapped, vectors, work, ring, running, down,
                 destroyed, failures>>

(* move_construct, or move_assign if i is alive, from j: what i had is     *)
(* cleared, what j had is i's.                                             *)
Move(i, j) ==
  /\ ~destroyed
  /\ j \in alive /\ i # j
  /\ alive' = alive \cup {i}
  /\ handle' = [c \in Completions |-> CASE handle[c] = i -> Null
                                        [] handle[c] = j -> i
                                        [] OTHER -> handle[c]]
  /\ UNCHANGED <<exists, inUse, free, wrapped, vectors, work, ring, running, down,
                 destroyed, failures>>

(* Faulty: counts completions that were reset before. *)
ShutdownAgain ==
  /\ ~destroyed
  /\ running = Null
  /\ down' = TRUE
  /\ wrapped' = [c \in Completions |-> IF c \in inUse THEN Null ELSE wrapped[c]]
  /\ work' = work - Cardinality(inUse)
  /\ UNCHANGED <<exists, inUse, free, handle, vectors, alive, ring, running,
                 destroyed, failures>>

(* Destroys the functions; the operations stay outstanding.  May be called *)
(* more than once.                                                         *)
Shutdown ==
  /\ ~destroyed
  /\ running = Null
  /\ down' = TRUE
  /\ wrapped' = [c \in Completions |-> IF c \in inUse THEN Null ELSE wrapped[c]]
  /\ work' = work - Cardinality(Holders)
  /\ UNCHANGED <<exists, inUse, free, handle, vectors, alive, ring, running,
                 destroyed, failures>>

(* ~service, after the objects and while the context is not run any more.  *)
DestroyService ==
  /\ ~destroyed
  /\ running = Null
  /\ alive = {}
  /\ destroyed' = TRUE
  /\ work' = work - Cardinality(Holders)
  /\ exists' = {} /\ inUse' = {} /\ free' = {}
  /\ wrapped' = [c \in Completions |-> Null]
  /\ cache' = <<>>
  /\ UNCHANGED <<handle, iovs, need, alive, ring, running, down, failures>>

-----------------------------------------------------------------------------
(***************************************************************************)
(* The kernel, and the submissions of the context itself (of its polls).   *)
(***************************************************************************)

KernelCompletes(e) ==
  /\ e \in inflight
  /\ inflight' = inflight \ {e}
  /\ completed' = completed \cup {e}
  /\ UNCHANGED <<pool, vectors, work, alive, prepared, running, down, destroyed,
                 failures>>

SubmitOther ==
  /\ prepared # {}
  /\ inflight' = inflight \cup prepared
  /\ prepared' = {}
  /\ UNCHANGED <<pool, vectors, work, alive, completed, running, down, destroyed,
                 failures>>

Next ==
  \/ \E o \in Ops, i \in Objects, n \in Asked :
       Initiate(o, i, n) \/ SubmitFails(o, i, n)
  \/ \E i \in Objects, n \in Asked : InitiateThrows(i, n)
  \/ \E e \in completed : Complete(e)
  \/ HandlerEnds
  \/ \E i \in Objects : Construct(i) \/ Destroy(i)
  \/ \E i, j \in Objects : Move(i, j)
  \/ Shutdown
  \/ DestroyService
  \/ \E e \in inflight : KernelCompletes(e)
  \/ SubmitOther
  \/ destroyed /\ UNCHANGED vars

Spec == Init /\ [][Next]_vars

-----------------------------------------------------------------------------
(***************************************************************************)
(* Properties.                                                             *)
(***************************************************************************)

(* Every completion of the pool is either in use or free, and only one in  *)
(* use is in the list of an object, of one that still exists: so what a    *)
(* file cancels by walking its list are operations that are outstanding.   *)
OneList ==
  /\ inUse \cap free = {}
  /\ exists = inUse \cup free
  /\ ~destroyed => \A c \in Completions :
       handle[c] # Null => c \in inUse /\ handle[c] \in alive

(* A unit of work is held for each function waiting to be called, however  *)
(* operations fail, throw, or are dropped by shutdown, and none remains    *)
(* when the service is gone: the context does not run out of work early,   *)
(* nor wait for what will never come.                                      *)
WorkHeld == work = Cardinality(Holders)

(* The entries that lead to a function, the one whose function runs too.   *)
Claims == Outstanding \cup ({running} \ {Null})

(* Every cqe, now and later, finds the function of the very operation it   *)
(* completes, in a completion that has not been released meanwhile; after  *)
(* shutdown it may find none.                                              *)
CompletesItsOwn ==
  failures = 0 /\ ~destroyed => \A e \in Claims :
    /\ e.c \in inUse
    /\ wrapped[e.c] = e.op \/ (down /\ wrapped[e.c] = Null)

(* A completion in use is waited for by exactly one entry: it is released, *)
(* and not twice.                                                          *)
ReleasedOnce ==
  failures = 0 => \A c \in inUse : Cardinality({e \in Claims : e.c = c}) = 1

-----------------------------------------------------------------------------
(* service.cpp:21, which asserts that a completion that completes has its  *)
(* function, here of the operation that completes.                         *)
CompleteFindsItsFunction == running # Null => wrapped[running.c] = running.op

(* service.hpp:329-332: the pool makes as many iovecs available as the     *)
(* operation asks for.                                                     *)
VectorsSuffice == \A c \in inUse : need[c] <= iovs[c]
=============================================================================
