------------------------ MODULE CallableStorage_proofs ------------------------
(***************************************************************************)
(* For any number of storages and blocks, and whatever throws: the memory  *)
(* of functions is accounted for, and given back before a call.            *)
(***************************************************************************)
EXTENDS CallableStorage, TLAPS

(* The pointers a storage has at each point of its life.                   *)
LifeInv ==
  \A s \in Storages :
    /\ life[s] \in {"none", "calling", "spent"} => inner[s] = Null /\ ptr[s] = Null
    /\ life[s] = "stored" =>
         ptr[s] = Null /\ (kind[s] = "indirect" <=> inner[s] # Null)
    /\ life[s] \in {"creating", "taken", "moved"} =>
         inner[s] = Null /\ ptr[s] # Null /\ kind[s] = "indirect"

(* MemoryAccounted, block by block.                                        *)
Owns(s, b) == inner[s] = b \/ ptr[s] = b
Allocated == \A b \in Blocks : b \in heap <=> \E s \in Storages : Owns(s, b)
OneOwner ==
  \A b \in Blocks : \A s, t \in Storages : Owns(s, b) /\ Owns(t, b) => s = t
Constructed ==
  \A b \in Blocks :
    b \in built <=> b \in heap
                 /\ ~\E s \in Storages : life[s] = "creating" /\ ptr[s] = b

StorageInv == TypeOK /\ LifeInv /\ Allocated /\ OneOwner /\ Constructed

LEMMA StorageInit == Init => StorageInv
BY NullAssumption DEF Init, StorageInv, TypeOK, Lives, LifeInv, Allocated,
   OneOwner, Constructed, Owns

LEMMA StorageStep == StorageInv /\ [Next]_vars => StorageInv'
<1> SUFFICES ASSUME StorageInv, [Next]_vars PROVE StorageInv'
    OBVIOUS
<1> USE NullAssumption DEF StorageInv, TypeOK, Lives, LifeInv, Allocated,
                           OneOwner, Constructed, Owns, Go, Select
<1>1. ASSUME NEW s \in Storages, StoreDirect(s) PROVE StorageInv'
      BY <1>1 DEF StoreDirect
<1>2. ASSUME NEW s \in Storages, Allocate(s) PROVE StorageInv'
      BY <1>2 DEF Allocate
<1>3. ASSUME NEW s \in Storages, Construct(s) PROVE StorageInv'
      BY <1>3 DEF Construct
<1>4. ASSUME NEW s \in Storages, ConstructThrows(s) PROVE StorageInv'
      BY <1>4 DEF ConstructThrows
<1>5. ASSUME NEW s \in Storages, Invoke(s) PROVE StorageInv'
  <2>1. CASE CallDirect(s)
        BY <2>1 DEF CallDirect
  <2>2. CASE Take(s)
        BY <2>2 DEF Take
  <2>3. QED BY <1>5, <2>1, <2>2 DEF Invoke
<1>6. ASSUME NEW s \in Storages, MoveOut(s) PROVE StorageInv'
      BY <1>6 DEF MoveOut
<1>7. ASSUME NEW s \in Storages, MoveOutThrows(s) PROVE StorageInv'
      BY <1>7 DEF MoveOutThrows, DestroyBlock
<1>8. ASSUME NEW s \in Storages, GuardDestroys(s) PROVE StorageInv'
      BY <1>8 DEF GuardDestroys, DestroyBlock
<1>9. ASSUME NEW s \in Storages, CallEnds(s) PROVE StorageInv'
      BY <1>9 DEF CallEnds
<1>10. ASSUME NEW s \in Storages, Destroy(s) PROVE StorageInv'
      BY <1>10 DEF Destroy, DestroyBlock
<1>11. CASE UNCHANGED vars
      BY <1>11 DEF vars
<1>12. QED
  BY <1>1, <1>2, <1>3, <1>4, <1>5, <1>6, <1>7, <1>8, <1>9, <1>10, <1>11
  DEF Next, Store

LEMMA StorageInvariant == Spec => []StorageInv
BY StorageInit, StorageStep, PTL DEF Spec

(* Every variable of the storages and of their allocator keeps its type.   *)
THEOREM TypeCorrect == Spec => []TypeOK
<1>1. StorageInv => TypeOK
      BY DEF StorageInv
<1>2. QED BY <1>1, StorageInvariant, PTL

(* Each block is allocated exactly while one storage owns it, and has an   *)
(* object in it from construction to release, whatever throws.             *)
THEOREM MemoryIsAccounted == Spec => []MemoryAccounted
<1>1. StorageInv => MemoryAccounted
  <2> SUFFICES ASSUME StorageInv PROVE MemoryAccounted
      OBVIOUS
  <2>1. heap = UNION {References(s) : s \in Storages}
        BY NullAssumption DEF StorageInv, TypeOK, Allocated, Owns, References
  <2>2. \A s, t \in Storages : s # t => References(s) \cap References(t) = {}
        BY NullAssumption DEF StorageInv, TypeOK, OneOwner, Owns, References
  <2>3. \A s \in Storages : inner[s] = Null \/ ptr[s] = Null
        BY DEF StorageInv, TypeOK, Lives, LifeInv
  <2>4. built = heap \ {ptr[s] : s \in {t \in Storages : life[t] = "creating"}}
        BY DEF StorageInv, TypeOK, Constructed
  <2>5. QED BY <2>1, <2>2, <2>3, <2>4 DEF MemoryAccounted
<1>2. QED BY <1>1, StorageInvariant, PTL

(* From the call of a function on, its storage refers to no memory.        *)
THEOREM MemoryFreedBeforeCall == Spec => []FreedBeforeCall
<1>1. StorageInv => FreedBeforeCall
      BY DEF StorageInv, LifeInv, FreedBeforeCall, References
<1>2. QED BY <1>1, StorageInvariant, PTL
=============================================================================
