-------------------------- MODULE CallableStorage ---------------------------
(***************************************************************************)
(* asio_uring::callable_storage (callable_storage.hpp): what the queue and *)
(* the completions keep their functions in.                                *)
(*                                                                         *)
(* A function that fits the buffer is constructed in it (direct); any      *)
(* other goes to a block of memory from an allocator (indirect).  Such a   *)
(* function is moved out of its block, and the block given back, before    *)
(* it is called, so that what it does may use the block again.             *)
(*                                                                         *)
(* Each storage is used by one thread at a time; the allocator is shared.  *)
(* Allocation, and every move of the function, may throw.  Where nothing   *)
(* changes then (allocation, a direct construction) there is no action.    *)
(***************************************************************************)
EXTENDS FiniteSets

CONSTANTS
  Storages,  \* places for a callable_storage: of a queue node, of a completion
  Blocks,    \* addresses the allocator gives out
  Null       \* the null pointer

ASSUME NullAssumption == Null \notin Blocks

VARIABLES
  life,   \* life[s]: how far construction, invocation, destruction are
  kind,   \* kind[s]: which implementation of base the storage has
  inner,  \* inner[s]: inner_ of an indirect
  ptr,    \* ptr[s]: the block that a create or an invoke has in hand
  heap,   \* blocks allocated
  built,  \* blocks with an allocator_indirect constructed in them
  result  \* storages whose function was moved out and is still there

vars == <<life, kind, inner, ptr, heap, built, result>>

Lives == {"none", "creating", "stored", "taken", "moved", "calling", "spent"}

TypeOK ==
  /\ life \in [Storages -> Lives]
  /\ kind \in [Storages -> {"direct", "indirect"}]
  /\ inner \in [Storages -> Blocks \cup {Null}]
  /\ ptr \in [Storages -> Blocks \cup {Null}]
  /\ heap \in SUBSET Blocks
  /\ built \in SUBSET Blocks
  /\ result \in SUBSET Storages

Init ==
  /\ life = [s \in Storages |-> "none"]
  /\ kind = [s \in Storages |-> "direct"]
  /\ inner = [s \in Storages |-> Null]
  /\ ptr = [s \in Storages |-> Null]
  /\ heap = {} /\ built = {} /\ result = {}

Go(s, from, to) == life[s] = from /\ life' = [life EXCEPT ![s] = to]

(* select: a function is stored in place unless it is larger than the      *)
(* buffer or its alignment is extended.                                    *)
Select(large, overaligned) ==
  IF large \/ overaligned THEN "indirect" ELSE "direct"

-----------------------------------------------------------------------------
(***************************************************************************)
(* Construction.                                                           *)
(***************************************************************************)

StoreDirect(s) ==
  /\ Go(s, "none", "stored")
  /\ kind' = [kind EXCEPT ![s] = Select(FALSE, FALSE)]
  /\ UNCHANGED <<inner, ptr, heap, built, result>>

(* Faulty: takes a failure to allocate for a block. *)
AllocateUnchecked(s) ==
  /\ Go(s, "none", "creating")
  /\ kind' = [kind EXCEPT ![s] = "indirect"]
  /\ \E b \in (Blocks \ heap) \cup {Null} :
       ptr' = [ptr EXCEPT ![s] = b] /\ heap' = heap \cup ({b} \ {Null})
  /\ UNCHANGED <<inner, built, result>>

(* create allocates memory first.                                          *)
Allocate(s) ==
  /\ Go(s, "none", "creating")
  /\ \E large, overaligned \in BOOLEAN :
       /\ Select(large, overaligned) = "indirect"
       /\ kind' = [kind EXCEPT ![s] = Select(large, overaligned)]
  /\ \E b \in Blocks \ heap :
       ptr' = [ptr EXCEPT ![s] = b] /\ heap' = heap \cup {b}
  /\ UNCHANGED <<inner, built, result>>

(* The constructor constructs the type that select has chosen.             *)
Store(s) == StoreDirect(s) \/ Allocate(s)

(* Once there is memory, the function is constructed in it ...             *)
Construct(s) ==
  /\ Go(s, "creating", "stored")
  /\ built' = built \cup {ptr[s]}
  /\ inner' = [inner EXCEPT ![s] = ptr[s]]
  /\ ptr' = [ptr EXCEPT ![s] = Null]
  /\ UNCHANGED <<kind, heap, result>>

(* Faulty: rethrows without giving the memory back. *)
ConstructThrowsLeaks(s) ==
  /\ Go(s, "creating", "none")
  /\ ptr' = [ptr EXCEPT ![s] = Null]
  /\ UNCHANGED <<kind, inner, heap, built, result>>

(* ... and if that throws the memory goes back.                            *)
ConstructThrows(s) ==
  /\ Go(s, "creating", "none")
  /\ heap' = heap \ {ptr[s]}
  /\ ptr' = [ptr EXCEPT ![s] = Null]
  /\ UNCHANGED <<kind, inner, built, result>>

-----------------------------------------------------------------------------
(***************************************************************************)
(* Invocation.                                                             *)
(***************************************************************************)

(* allocator_indirect::destroy: the object and then its memory.            *)
DestroyBlock(b) == built' = built \ {b} /\ heap' = heap \ {b}

CallDirect(s) ==
  /\ kind[s] = "direct"
  /\ Go(s, "stored", "calling")
  /\ UNCHANGED <<kind, inner, ptr, heap, built, result>>

(* indirect::invoke takes the block, whose destructor is then its own ...  *)
Take(s) ==
  /\ kind[s] = "indirect"
  /\ Go(s, "stored", "taken")
  /\ ptr' = [ptr EXCEPT ![s] = inner[s]]
  /\ inner' = [inner EXCEPT ![s] = Null]
  /\ UNCHANGED <<kind, heap, built, result>>

(* operator() goes to the implementation's invoke.                         *)
Invoke(s) == CallDirect(s) \/ Take(s)

(* Faulty: calls the function where it is and destroys it afterwards. *)
MoveOutCalls(s) ==
  /\ Go(s, "taken", "calling")
  /\ UNCHANGED <<kind, inner, ptr, heap, built, result>>

(* ... and moves the function out of it.                                   *)
MoveOut(s) ==
  /\ Go(s, "taken", "moved")
  /\ result' = result \cup {s}
  /\ UNCHANGED <<kind, inner, ptr, heap, built>>

(* The move throws: the guard destroys the block all the same.             *)
MoveOutThrows(s) ==
  /\ Go(s, "taken", "spent")
  /\ DestroyBlock(ptr[s])
  /\ ptr' = [ptr EXCEPT ![s] = Null]
  /\ UNCHANGED <<kind, inner, result>>

(* The guard destroys the block, and what was moved out is called.         *)
GuardDestroys(s) ==
  /\ Go(s, "moved", "calling")
  /\ DestroyBlock(ptr[s])
  /\ ptr' = [ptr EXCEPT ![s] = Null]
  /\ UNCHANGED <<kind, inner, result>>

(* It returns, or throws; a function that was moved out is destroyed.      *)
CallEnds(s) ==
  /\ Go(s, "calling", "spent")
  /\ result' = result \ {s}
  /\ UNCHANGED <<kind, inner, ptr, heap, built>>

-----------------------------------------------------------------------------
(* The destructor: inner_ is destroyed if no call has taken it.            *)
Destroy(s) ==
  /\ life[s] \in {"stored", "spent"}
  /\ life' = [life EXCEPT ![s] = "none"]
  /\ IF kind[s] = "indirect" /\ inner[s] # Null
     THEN DestroyBlock(inner[s]) /\ inner' = [inner EXCEPT ![s] = Null]
     ELSE UNCHANGED <<heap, built, inner>>
  /\ UNCHANGED <<kind, ptr, result>>

Next ==
  \E s \in Storages :
    \/ Store(s) \/ Construct(s) \/ ConstructThrows(s)
    \/ Invoke(s) \/ MoveOut(s) \/ MoveOutThrows(s)
    \/ GuardDestroys(s) \/ CallEnds(s) \/ Destroy(s)

Spec == Init /\ [][Next]_vars

-----------------------------------------------------------------------------
(***************************************************************************)
(* Properties.                                                             *)
(***************************************************************************)

References(s) == {inner[s], ptr[s]} \ {Null}

(* Whatever throws, each allocated block belongs to one storage, by one    *)
(* pointer, and the rest are free; a block has an object in it exactly     *)
(* from its construction to its release.  A block given back twice, or     *)
(* never, or while another storage uses it, breaks this.                   *)
MemoryAccounted ==
  /\ heap = UNION {References(s) : s \in Storages}
  /\ \A s, t \in Storages : s # t => References(s) \cap References(t) = {}
  /\ \A s \in Storages : inner[s] = Null \/ ptr[s] = Null
  /\ built = heap \ {ptr[s] : s \in {t \in Storages : life[t] = "creating"}}

(* "that storage is deallocated before the callable object is invoked"     *)
(* (callable_storage.hpp:225): from the call on, until the storage is used *)
(* again, it refers to no block, so that its destructor destroys none      *)
(* either, although the block may by then be somebody else's.              *)
FreedBeforeCall ==
  \A s \in Storages : life[s] \in {"calling", "spent"} => References(s) = {}
=============================================================================
