---------------------------- MODULE EventfdQueue ----------------------------
(***************************************************************************)
(* asio_uring::eventfd_queue (eventfd_queue.hpp), the queue of functions   *)
(* of an execution_context, with its spin locks and its eventfd.           *)
(*                                                                         *)
(* Producers call emplace; the Consumer, one thread, calls pending,        *)
(* consume and consume_all, and never asks consume for more values than    *)
(* pending has announced.  A callback of consume that calls emplace itself *)
(* is a producer that runs while the Consumer is in its callback.          *)
(*                                                                         *)
(* A critical section has two steps: the first takes the spin lock (the    *)
(* thread spins while it cannot) and does the first half of the work, the  *)
(* second does the rest and gives the lock back.                           *)
(***************************************************************************)
EXTENDS Naturals, Sequences, FiniteSets

CONSTANTS
  Producers,   \* threads that call emplace
  Consumer,    \* the thread that consumes
  Nodes,       \* addresses the allocator can return
  Null,        \* nullptr, the empty storage and the owner of a free lock
  MaxEmplace   \* bound on the values one producer links

ASSUME ConsumerAssumption   == Consumer \notin Producers
ASSUME NullAssumption       == Null \notin Nodes /\ Null \notin Producers \cup {Consumer}
ASSUME ProducersAssumption  == IsFiniteSet(Producers) /\ Producers # {}
ASSUME MaxEmplaceAssumption == MaxEmplace \in Nat \ {0}

Threads == Producers \cup {Consumer}

(* The values of one producer are distinct, so that their order shows.     *)
Values == Producers \X (1..MaxEmplace)

ASSUME ValuesAssumption == Null \notin Values

VARIABLES
  head, tail, free,   \* head_, tail_ and free_
  next,               \* next[n]: the link of node n
  storage,            \* storage[n]: the value constructed in node n
  lock, freeLock,     \* the owners of lock_ and free_lock_
  efd,                \* counter of the eventfd e_
  allocated,          \* the nodes that are allocated
  pc,                 \* where each thread is
  node,               \* the local node of each thread
  posted,             \* how many values each producer has linked
  \* the consumer
  pending,            \* announced to it by pending() and not consumed
  left,               \* iterations left of the loop in consume
  all,                \* it is in consume_all
  unwinding,          \* the callback threw
  lost,               \* announcements dropped by consume_all
  taken,              \* the value the callback was last given
  \* what the links spell: auxiliary, nothing reads them
  queue, spare        \* the nodes from head_ to tail_, and from free_

lists     == <<head, tail, free, next>>
locks     == <<lock, freeLock>>
accounts  == <<pending, left, all, lost>>
auxiliary == <<queue, spare>>
vars == <<lists, storage, locks, efd, allocated, pc, node, posted, accounts,
          unwinding, taken, auxiliary>>

Labels == {"idle", "get", "getNext", "allocate", "construct", "link", "setTail",
           "signal", "pop", "popTail", "call", "callback", "put", "putHead",
           "destroy"}

TypeOK ==
  /\ head \in Nodes \cup {Null}
  /\ tail \in Nodes \cup {Null}
  /\ free \in Nodes \cup {Null}
  /\ next \in [Nodes -> Nodes \cup {Null}]
  /\ storage \in [Nodes -> Values \cup {Null}]
  /\ lock \in Threads \cup {Null}
  /\ freeLock \in Threads \cup {Null}
  /\ efd \in Nat
  /\ allocated \in SUBSET Nodes
  /\ pc \in [Threads -> Labels]
  /\ node \in [Threads -> Nodes \cup {Null}]
  /\ posted \in [Producers -> 0..MaxEmplace]
  /\ pending \in Nat
  /\ left \in Nat
  /\ all \in BOOLEAN
  /\ unwinding \in BOOLEAN
  /\ lost \in Nat
  /\ taken \in Values
  /\ queue \in Seq(Nodes)
  /\ spare \in Seq(Nodes)

Init ==
  /\ head = Null
  /\ tail = Null
  /\ free = Null
  /\ next = [n \in Nodes |-> Null]
  /\ storage = [n \in Nodes |-> Null]
  /\ lock = Null
  /\ freeLock = Null
  /\ efd = 0
  /\ allocated = {}
  /\ pc = [t \in Threads |-> "idle"]
  /\ node = [t \in Threads |-> Null]
  /\ posted = [p \in Producers |-> 0]
  /\ pending = 0
  /\ left = 0
  /\ all = FALSE
  /\ unwinding = FALSE
  /\ lost = 0
  /\ taken = CHOOSE v \in Values : TRUE
  /\ queue = <<>>
  /\ spare = <<>>

Goes(t, from, to) == pc[t] = from /\ pc' = [pc EXCEPT ![t] = to]

-----------------------------------------------------------------------------
(***************************************************************************)
(* emplace.                                                                *)
(***************************************************************************)

Emplace(p) ==
  /\ Goes(p, "idle", "get")
  /\ pc[Consumer] # "destroy"
  /\ posted[p] < MaxEmplace
  /\ UNCHANGED <<lists, storage, locks, efd, allocated, node, posted, accounts,
                 unwinding, taken, auxiliary>>

(* get_node: the first free node, or if there is none a new one.           *)
GetFree(p) ==
  /\ freeLock = Null
  /\ \/ /\ free = Null
        /\ Goes(p, "get", "allocate")
        /\ UNCHANGED <<freeLock, node>>
     \/ /\ free # Null
        /\ Goes(p, "get", "getNext")
        /\ freeLock' = p
        /\ node' = [node EXCEPT ![p] = free]
  /\ UNCHANGED <<lists, storage, lock, efd, allocated, posted, accounts,
                 unwinding, taken, auxiliary>>

GetNext(p) ==
  /\ Goes(p, "getNext", "construct")
  /\ free' = next[node[p]]
  /\ next' = [next EXCEPT ![node[p]] = Null]
  /\ freeLock' = Null
  /\ spare' = Tail(spare)
  /\ UNCHANGED <<head, tail, storage, lock, efd, allocated, node, posted,
                 accounts, unwinding, taken, queue>>

Allocate(p) ==
  /\ \E n \in Nodes \ allocated :
       /\ allocated' = allocated \cup {n}
       /\ next' = [next EXCEPT ![n] = Null]
       /\ node' = [node EXCEPT ![p] = n]
  /\ Goes(p, "allocate", "construct")
  /\ UNCHANGED <<head, tail, free, storage, locks, efd, posted, accounts,
                 unwinding, taken, auxiliary>>

AllocateThrows(p) ==
  /\ Goes(p, "allocate", "idle")
  /\ UNCHANGED <<lists, storage, locks, efd, allocated, node, posted, accounts,
                 unwinding, taken, auxiliary>>

Construct(p) ==
  /\ Goes(p, "construct", "link")
  /\ storage' = [storage EXCEPT ![node[p]] = <<p, posted[p] + 1>>]
  /\ UNCHANGED <<lists, locks, efd, allocated, node, posted, accounts,
                 unwinding, taken, auxiliary>>

(* Faulty: no handler, the node is forgotten. *)
ConstructThrowsLeaks(p) ==
  /\ Goes(p, "construct", "idle")
  /\ node' = [node EXCEPT ![p] = Null]
  /\ UNCHANGED <<lists, storage, locks, efd, allocated, posted, accounts,
                 unwinding, taken, auxiliary>>

(* The constructor of the value throws: the node goes to the free list.    *)
ConstructThrows(p) ==
  /\ Goes(p, "construct", "put")
  /\ UNCHANGED <<lists, storage, locks, efd, allocated, node, posted, accounts,
                 unwinding, taken, auxiliary>>

(* The first half of the insertion. *)
Attach(p) ==
  IF tail = Null
  THEN head' = node[p] /\ UNCHANGED next
  ELSE next' = [next EXCEPT ![tail] = node[p]] /\ UNCHANGED head

(* Faulty: inserts without the lock. *)
LinkUnlocked(p) ==
  /\ Goes(p, "link", "setTail")
  /\ Attach(p)
  /\ UNCHANGED <<tail, free, storage, locks, efd, allocated, node, posted,
                 accounts, unwinding, taken, auxiliary>>

Link(p) ==
  /\ Goes(p, "link", "setTail")
  /\ lock = Null
  /\ lock' = p
  /\ Attach(p)
  /\ UNCHANGED <<tail, free, storage, freeLock, efd, allocated, node, posted,
                 accounts, unwinding, taken, auxiliary>>

SetTail(p) ==
  /\ Goes(p, "setTail", "signal")
  /\ tail' = node[p]
  /\ lock' = Null
  /\ queue' = Append(queue, node[p])
  /\ node' = [node EXCEPT ![p] = Null]
  /\ posted' = [posted EXCEPT ![p] = @ + 1]
  /\ UNCHANGED <<head, free, next, storage, freeLock, efd, allocated, accounts,
                 unwinding, taken, spare>>

(* Faulty: one announcement for all the values queued. *)
SignalOnce(p) ==
  /\ Goes(p, "signal", "idle")
  /\ efd' = 1
  /\ UNCHANGED <<lists, storage, locks, allocated, node, posted, accounts,
                 unwinding, taken, auxiliary>>

Signal(p) ==
  /\ Goes(p, "signal", "idle")
  /\ efd' = efd + 1
  /\ UNCHANGED <<lists, storage, locks, allocated, node, posted, accounts,
                 unwinding, taken, auxiliary>>

-----------------------------------------------------------------------------
(***************************************************************************)
(* pending, consume, consume_all and consume_one.  e_.read() blocks while  *)
(* the counter is zero.                                                    *)
(***************************************************************************)

Pending ==
  /\ pc[Consumer] = "idle"
  /\ efd > 0
  /\ pending' = pending + efd
  /\ efd' = 0
  /\ UNCHANGED <<lists, storage, locks, allocated, pc, node, posted, left, all,
                 lost, unwinding, taken, auxiliary>>

Consume(n) ==
  /\ Goes(Consumer, "idle", "pop")
  /\ n <= pending
  /\ pending' = pending - n
  /\ left' = n
  /\ all' = FALSE
  /\ UNCHANGED <<lists, storage, locks, efd, allocated, node, posted, lost,
                 unwinding, taken, auxiliary>>

ConsumeAll ==
  /\ Goes(Consumer, "idle", "pop")
  /\ efd > 0
  /\ left' = efd
  /\ efd' = 0
  /\ all' = TRUE
  /\ UNCHANGED <<lists, storage, locks, allocated, node, posted, pending, lost,
                 unwinding, taken, auxiliary>>

(* pop_node: the head leaves, ... (Were there none the code would follow a *)
(* null pointer; ListsWellFormed says there is one.)                       *)
Pop ==
  /\ Goes(Consumer, "pop", "popTail")
  /\ lock = Null
  /\ head # Null
  /\ lock' = Consumer
  /\ node' = [node EXCEPT ![Consumer] = head]
  /\ head' = next[head]
  /\ left' = left - 1
  /\ queue' = Tail(queue)
  /\ UNCHANGED <<tail, free, next, storage, freeLock, efd, allocated, posted,
                 pending, all, lost, unwinding, taken, spare>>

(* ... and takes the tail with it if it was the last. *)
PopTail ==
  /\ Goes(Consumer, "popTail", "call")
  /\ tail' = IF head = Null THEN Null ELSE tail
  /\ lock' = Null
  /\ UNCHANGED <<head, free, next, storage, freeLock, efd, allocated, node,
                 posted, accounts, unwinding, taken, auxiliary>>

Call ==
  /\ Goes(Consumer, "call", "callback")
  /\ taken' = storage[node[Consumer]]
  /\ UNCHANGED <<lists, storage, locks, efd, allocated, node, posted, accounts,
                 unwinding, auxiliary>>

(* Faulty: does not destroy the value. *)
CallbackEndsUndestroyed ==
  /\ Goes(Consumer, "callback", "put")
  /\ unwinding' \in BOOLEAN
  /\ UNCHANGED <<lists, storage, locks, efd, allocated, node, posted, accounts,
                 taken, auxiliary>>

(* It returns or throws; the value is destroyed either way.                *)
CallbackEnds ==
  /\ Goes(Consumer, "callback", "put")
  /\ storage' = [storage EXCEPT ![node[Consumer]] = Null]
  /\ unwinding' \in BOOLEAN
  /\ UNCHANGED <<lists, locks, efd, allocated, node, posted, accounts, taken,
                 auxiliary>>

-----------------------------------------------------------------------------
(***************************************************************************)
(* release_node, by either side.                                           *)
(***************************************************************************)

Put(t) ==
  /\ Goes(t, "put", "putHead")
  /\ freeLock = Null
  /\ freeLock' = t
  /\ next' = [next EXCEPT ![node[t]] = free]
  /\ UNCHANGED <<head, tail, free, storage, lock, efd, allocated, node, posted,
                 accounts, unwinding, taken, auxiliary>>

(* Faulty: does not look at the count. *)
LoopEndless == ~unwinding

(* The loop in consume goes on, or ends with its count or with the         *)
(* exception: the caller of consume knows from its callback what was not   *)
(* consumed, the caller of consume_all never knew how much was announced.  *)
LoopContinues == ~unwinding /\ left > 0

AfterNode(t) == IF t = Consumer /\ LoopContinues THEN "pop" ELSE "idle"

PutHead(t) ==
  /\ Goes(t, "putHead", AfterNode(t))
  /\ free' = node[t]
  /\ freeLock' = Null
  /\ node' = [node EXCEPT ![t] = Null]
  /\ spare' = <<node[t]>> \o spare
  /\ IF t = Consumer /\ ~LoopContinues
     THEN /\ pending' = IF all THEN pending ELSE pending + left
          /\ lost' = IF all THEN lost + left ELSE lost
          /\ left' = 0
          /\ all' = FALSE
          /\ unwinding' = FALSE
     ELSE UNCHANGED <<accounts, unwinding>>
  /\ UNCHANGED <<head, tail, next, storage, lock, efd, allocated, posted, taken,
                 queue>>

-----------------------------------------------------------------------------
(***************************************************************************)
(* The destructor, when every call has returned.                           *)
(***************************************************************************)

Destroy ==
  /\ \A t \in Threads : pc[t] = "idle"
  /\ pc' = [pc EXCEPT ![Consumer] = "destroy"]
  /\ efd' = 0
  /\ pending' = 0
  /\ lost' = 0
  /\ UNCHANGED <<lists, storage, locks, allocated, node, posted, left, all,
                 unwinding, taken, auxiliary>>

DestroyLinked ==
  /\ pc[Consumer] = "destroy"
  /\ head # Null
  /\ head' = next[head]
  /\ storage' = [storage EXCEPT ![head] = Null]
  /\ allocated' = allocated \ {head}
  /\ queue' = Tail(queue)
  /\ UNCHANGED <<tail, free, next, locks, efd, pc, node, posted, accounts,
                 unwinding, taken, spare>>

DestroyFree ==
  /\ pc[Consumer] = "destroy"
  /\ head = Null
  /\ free # Null
  /\ free' = next[free]
  /\ allocated' = allocated \ {free}
  /\ spare' = Tail(spare)
  /\ UNCHANGED <<head, tail, next, storage, locks, efd, pc, node, posted,
                 accounts, unwinding, taken, queue>>

Destroyed == pc[Consumer] = "destroy" /\ head = Null /\ free = Null

-----------------------------------------------------------------------------
Produce(p) == \/ Emplace(p)
              \/ GetFree(p)
              \/ GetNext(p)
              \/ Allocate(p)
              \/ AllocateThrows(p)
              \/ Construct(p)
              \/ ConstructThrows(p)
              \/ Link(p)
              \/ SetTail(p)
              \/ Signal(p)

ConsumeStep == \/ Pending
               \/ \E n \in 1..pending : Consume(n)
               \/ ConsumeAll
               \/ Pop
               \/ PopTail
               \/ Call
               \/ CallbackEnds

Next == \/ \E p \in Producers : Produce(p)
        \/ ConsumeStep
        \/ \E t \in Threads : Put(t) \/ PutHead(t)
        \/ Destroy
        \/ DestroyLinked
        \/ DestroyFree
        \/ Destroyed /\ UNCHANGED vars

Spec == Init /\ [][Next]_vars

-----------------------------------------------------------------------------
(***************************************************************************)
(* Properties.                                                             *)
(***************************************************************************)

At(label) == {t \in Threads : pc[t] = label}

(* A critical section of the queue, or of the free list, is in progress.   *)
Linking  == At("setTail") \cup At("popTail")
Freeing  == At("getNext") \cup At("putHead")

(* The nodes of s, in order, are what a walk over the links from `first'   *)
(* meets, down to the null of the last.                                    *)
Spells(s, first, links) ==
  IF s = <<>> THEN first = Null
  ELSE /\ first = s[1]
       /\ \A i \in 1..Len(s) : links[s[i]] = IF i < Len(s) THEN s[i + 1] ELSE Null

(* Between critical sections both lists are well formed: the queue runs    *)
(* from head_ to tail_, and nothing is lost from the free list, whichever  *)
(* way threads that insert, pop, reuse and release nodes interleave; and   *)
(* the assertions of emplace and pop_node: a node about to be inserted has *)
(* no successor, and pop_node finds a node.                                *)
ListsWellFormed ==
  /\ Linking = {} =>
       /\ Spells(queue, head, next)
       /\ pc[Consumer] # "destroy" =>
            tail = IF queue = <<>> THEN Null ELSE queue[Len(queue)]
  /\ Freeing = {} => Spells(spare, free, next)
  /\ \A p \in Producers : pc[p] \in {"construct", "link"} => next[node[p]] = Null
  /\ pc[Consumer] = "pop" /\ lock = Null => head # Null

Owned(t) == IF pc[t] = "getNext" THEN {} ELSE {node[t]} \ {Null}

(* Every node the queue has allocated is in one place and in one only: the *)
(* queue, the free list, or the hands of one thread.  So no node is        *)
(* linked twice, freed while somebody uses it, or leaked; and the          *)
(* destructor, which frees what it finds in the two lists, frees them all. *)
OneOwner ==
  LET Where(n) == Cardinality({i \in 1..Len(queue) : queue[i] = n})
                  + Cardinality({i \in 1..Len(spare) : spare[i] = n})
                  + Cardinality({t \in Threads : n \in Owned(t)})
  IN  \A n \in Nodes : Where(n) = IF n \in allocated THEN 1 ELSE 0

(* A node holds a value exactly from the constructor of the value to its   *)
(* destructor: every value in the queue is there to be given to a          *)
(* callback, none survives in a free node (where the next emplace would    *)
(* construct over it), none is destroyed twice.                            *)
HoldsValue(n) ==
  \/ \E i \in 1..Len(queue) : queue[i] = n
  \/ \E t \in Threads :
       /\ node[t] = n
       /\ pc[t] \in {"link", "setTail", "popTail", "call", "callback"}

ValuesLive == \A n \in Nodes : storage[n] # Null <=> HoldsValue(n)

(* The queue behaves as CountedQueue: values come out in the order their   *)
(* nodes were linked, each once, and only announced ones.  A value is in   *)
(* the abstract queue from SetTail to Pop.                                 *)
Abstract == INSTANCE CountedQueue WITH
  items       <- IF pc[Consumer] = "destroy" THEN <<>>
                 ELSE [i \in 1..Len(queue) |-> storage[queue[i]]],
  unannounced <- Cardinality(At("signal")),
  announced   <- efd,
  granted     <- pending + left,
  taken       <- IF pc[Consumer] \in {"popTail", "call"}
                 THEN storage[node[Consumer]] ELSE taken

ImplementsCountedQueue == Abstract!Spec

(* Nothing is in the queue that is not announced, or about to be, or given *)
(* up by a consume_all that ended in an exception.                         *)
EveryValueAnnounced ==
  pc[Consumer] # "destroy" =>
    Len(queue) = Cardinality(At("signal")) + efd + pending + left + lost
=============================================================================
