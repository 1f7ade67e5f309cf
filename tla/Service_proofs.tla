--------------------------- MODULE Service_proofs ---------------------------
(***************************************************************************)
(* Theorems about Service, for every set of completions, objects and       *)
(* operations and every bound.                                             *)
(*                                                                         *)
(* PoolInv, on the lists and the work, holds whatever fails; OwnInv, on    *)
(* what the ring refers to, builds on it while no submission has failed.   *)
(***************************************************************************)
EXTENDS Service, FiniteSetTheorems, SequenceTheorems, TLAPS

(* A function is held by a completion in use only. *)
FunctionsHeld == \A c \in Completions : wrapped[c] # Null => c \in inUse

PoolInv == TypeOK /\ OneList /\ WorkHeld /\ FunctionsHeld

-----------------------------------------------------------------------------
(* A vector taken from the cache is one of those in it. *)
LEMMA VectorTaken ==
  ASSUME TypeOK, NEW c \in Completions, NEW n \in Asked
  PROVE  Vector(c, n) \in 0..MaxIovs /\ CacheLeft(n) \in Seq(1..MaxIovs)
<1>1. CASE n = Null \/ cache = <<>>
  BY <1>1 DEF TypeOK, Vector, CacheLeft, Asked
<1>2. CASE n # Null /\ cache # <<>>
  <2>1. cache \in Seq(1..MaxIovs) /\ Len(cache) \in 1..Len(cache)
    BY <1>2 DEF TypeOK
  <2>2. Last(cache) \in 1..MaxIovs
    <3>1. cache[Len(cache)] \in 1..MaxIovs
      BY <2>1, ElementOfSeq
    <3> QED
      BY <3>1 DEF Last
  <2>3. Front(cache) \in Seq(1..MaxIovs)
    <3>1. ASSUME NEW k \in 1..(Len(cache) - 1)
          PROVE  cache[k] \in 1..MaxIovs
      <4>1. k \in 1..Len(cache)
        BY <2>1
      <4> QED
        BY <2>1, <4>1, ElementOfSeq
    <3>2. SubSeq(cache, 1, Len(cache) - 1) \in Seq(1..MaxIovs)
      BY <2>1, <3>1, SubSeqProperties
    <3> QED
      BY <3>2 DEF Front
  <2> QED
    BY <1>2, <2>2, <2>3, MaxIovsAssumption DEF Vector, CacheLeft
<1> QED
  BY <1>1, <1>2

(* A vector given back is in the cache or stays. *)
LEMMA VectorGiven ==
  ASSUME TypeOK, NEW c \in Completions, NEW k \in 0..MaxIovs,
         NEW rest \in Seq(1..MaxIovs), GiveVector(c, k, rest)
  PROVE  iovs' \in [Completions -> 0..MaxIovs] /\ cache' \in Seq(1..MaxIovs)
<1>1. CASE k = 0 /\ iovs' = [iovs EXCEPT ![c] = 0] /\ cache' = rest
  BY <1>1, MaxIovsAssumption DEF TypeOK
<1>2. CASE k > 0 /\ iovs' = [iovs EXCEPT ![c] = 0] /\ cache' = Append(rest, k)
  <2>1. k \in 1..MaxIovs
    BY <1>2
  <2> QED
    BY <1>2, <2>1, MaxIovsAssumption DEF TypeOK
<1>3. CASE k > 0 /\ iovs' = [iovs EXCEPT ![c] = k] /\ cache' = rest
  BY <1>3 DEF TypeOK
<1> QED
  BY <1>1, <1>2, <1>3 DEF GiveVector

(* The functions waiting to be called can be counted. *)
LEMMA HoldersCounted ==
  ASSUME TypeOK
  PROVE  IsFiniteSet(Holders) /\ Cardinality(Holders) \in Nat
BY CompletionsAssumption, FS_Subset, FS_CardinalityType DEF TypeOK, Holders

(* A completion that is available is not in use and in no list. *)
LEMMA AvailableUnused ==
  ASSUME PoolInv, NEW c \in Available
  PROVE  /\ c \in Completions /\ c \notin inUse /\ wrapped[c] = Null
         /\ ~destroyed => handle[c] = Null
BY DEF PoolInv, TypeOK, OneList, FunctionsHeld, Available

(* What release does to the lists and the work. *)
LEMMA ReleaseKeepsPool ==
  ASSUME PoolInv, NEW c \in Completions, c \in inUse, Release(c),
         UNCHANGED <<exists, alive, destroyed>>
  PROVE  /\ iovs' \in [Completions -> 0..MaxIovs] /\ cache' \in Seq(1..MaxIovs)
         /\ inUse' \in SUBSET Completions /\ free' \in SUBSET Completions
         /\ handle' \in [Completions -> Objects \cup {Null}]
         /\ wrapped' \in [Completions -> Ops \cup {Null}]
         /\ work' \in Nat
         /\ OneList' /\ WorkHeld' /\ FunctionsHeld'
<1> USE DEF PoolInv
<1>1. iovs' \in [Completions -> 0..MaxIovs] /\ cache' \in Seq(1..MaxIovs)
  <2>1. iovs[c] \in 0..MaxIovs /\ cache \in Seq(1..MaxIovs)
    BY DEF TypeOK
  <2>2. GiveVector(c, iovs[c], cache)
    BY DEF Release
  <2> QED
    BY <2>1, <2>2, VectorGiven
<1>2. /\ inUse' \in SUBSET Completions /\ free' \in SUBSET Completions
      /\ handle' \in [Completions -> Objects \cup {Null}]
      /\ wrapped' \in [Completions -> Ops \cup {Null}]
  BY DEF TypeOK, Release
<1>3. OneList' /\ FunctionsHeld'
  BY DEF TypeOK, Release, OneList, FunctionsHeld
<1>4. WorkHeld' /\ work' \in Nat
  <2>1. Holders' = Holders \ {c}
    BY DEF TypeOK, Release, Holders
  <2>2. c \in Holders <=> wrapped[c] # Null
    BY DEF Holders
  <2>3. /\ IsFiniteSet(Holders \ {c})
        /\ Cardinality(Holders \ {c}) =
             IF c \in Holders THEN Cardinality(Holders) - 1 ELSE Cardinality(Holders)
    BY HoldersCounted, FS_RemoveElement
  <2>4. Cardinality(Holders \ {c}) \in Nat
    BY <2>3, FS_CardinalityType
  <2>5. work' = IF wrapped[c] = Null THEN work ELSE work - 1
    BY DEF Release
  <2> QED
    BY <2>1, <2>2, <2>3, <2>4, <2>5 DEF WorkHeld
<1> QED
  BY <1>1, <1>2, <1>3, <1>4

-----------------------------------------------------------------------------
LEMMA PoolInit == Init => PoolInv
<1> SUFFICES ASSUME Init
             PROVE  PoolInv
  OBVIOUS
<1>1. TypeOK
  <2>1. /\ iovs \in [Completions -> 0..MaxIovs]
        /\ need \in [Completions -> 0..MaxIovs]
        /\ failures \in 0..MaxSubmitFailures
    BY MaxIovsAssumption, FailuresAssumption DEF Init
  <2>2. cache \in Seq(1..MaxIovs)
    BY DEF Init
  <2> QED
    BY <2>1, <2>2 DEF Init, TypeOK
<1>2. OneList /\ FunctionsHeld
  BY DEF Init, OneList, FunctionsHeld
<1>3. Holders = {}
  BY DEF Init, Holders
<1>4. WorkHeld
  BY <1>3, FS_EmptySet DEF Init, WorkHeld
<1> QED
  BY <1>1, <1>2, <1>4 DEF PoolInv

(* initiate, when all of it succeeds. *)
LEMMA InitiateKeepsPool ==
  ASSUME PoolInv, NEW o \in Ops, NEW i \in Objects, NEW n \in Asked,
         Initiate(o, i, n)
  PROVE  PoolInv'
<1>1. PICK c \in Available :
        /\ exists' = exists \cup {c}
        /\ inUse' = inUse \cup {c}
        /\ free' = free \ {c}
        /\ handle' = [handle EXCEPT ![c] = i]
        /\ wrapped' = [wrapped EXCEPT ![c] = o]
        /\ iovs' = [iovs EXCEPT ![c] = Vector(c, n)]
        /\ need' = [need EXCEPT ![c] = IF n = Null THEN 0 ELSE n]
        /\ inflight' = inflight \cup prepared \cup {[c |-> c, op |-> o]}
  BY DEF Initiate
<1>2. /\ c \in Completions /\ c \notin inUse /\ wrapped[c] = Null
      /\ ~destroyed => handle[c] = Null
  BY AvailableUnused
<1>3. TypeOK /\ OneList /\ WorkHeld /\ FunctionsHeld
  BY DEF PoolInv
<1>4. o # Null
  BY NullAssumption
<1>5. Vector(c, n) \in 0..MaxIovs /\ CacheLeft(n) \in Seq(1..MaxIovs)
  BY <1>2, <1>3, VectorTaken
<1>6. /\ ~destroyed /\ i \in alive
      /\ cache' = CacheLeft(n) /\ work' = work + 1 /\ prepared' = {}
      /\ UNCHANGED <<alive, completed, running, down, destroyed, failures>>
  BY DEF Initiate, CanInitiate
<1>7. TypeOK'
  <2>1. inflight' \in SUBSET Entries
    BY <1>1, <1>2, <1>3 DEF TypeOK, Entries
  <2>2. (IF n = Null THEN 0 ELSE n) \in 0..MaxIovs
    BY MaxIovsAssumption DEF Asked
  <2> QED
    BY <1>1, <1>2, <1>3, <1>5, <1>6, <2>1, <2>2 DEF TypeOK
<1>8. OneList' /\ FunctionsHeld'
  BY <1>1, <1>2, <1>3, <1>6 DEF TypeOK, OneList, FunctionsHeld, Available
<1>9. WorkHeld'
  <2>1. Holders' = Holders \cup {c} /\ c \notin Holders
    BY <1>1, <1>2, <1>3, <1>4 DEF TypeOK, Holders
  <2>2. Cardinality(Holders') = Cardinality(Holders) + 1
    BY <2>1, <1>3, HoldersCounted, FS_AddElement
  <2> QED
    BY <1>3, <1>6, <2>2 DEF WorkHeld
<1> QED
  BY <1>7, <1>8, <1>9 DEF PoolInv

(* initiate, when it fails: the completion it took is free again. *)
LEMMA FailureKeepsPool ==
  ASSUME PoolInv, NEW c \in Available, ~destroyed,
         exists' = exists \cup {c}, free' = free \cup {c},
         iovs' \in [Completions -> 0..MaxIovs], cache' \in Seq(1..MaxIovs),
         prepared' \in SUBSET Entries, failures' \in 0..MaxSubmitFailures,
         UNCHANGED <<inUse, handle, wrapped, need, work, alive, inflight,
                     completed, running, down, destroyed>>
  PROVE  PoolInv'
<1>1. c \in Completions /\ c \notin inUse
  BY AvailableUnused
<1>2. TypeOK'
  BY <1>1 DEF PoolInv, TypeOK
<1>3. OneList' /\ FunctionsHeld'
  BY <1>1 DEF PoolInv, OneList, FunctionsHeld
<1>4. Holders' = Holders
  BY DEF Holders
<1>5. WorkHeld'
  BY <1>4 DEF PoolInv, WorkHeld
<1> QED
  BY <1>2, <1>3, <1>5 DEF PoolInv

LEMMA InitiateThrowsKeepsPool ==
  ASSUME PoolInv, NEW i \in Objects, NEW n \in Asked, InitiateThrows(i, n)
  PROVE  PoolInv'
<1>1. PICK c \in Available :
        /\ exists' = exists \cup {c}
        /\ free' = free \cup {c}
        /\ \/ GiveVector(c, Vector(c, n), CacheLeft(n))
           \/ n \in 1..MaxIovs /\ cache = <<>> /\ GiveVector(c, iovs[c], cache)
  BY DEF InitiateThrows
<1>2. c \in Completions /\ TypeOK
  BY AvailableUnused DEF PoolInv
<1>3. iovs' \in [Completions -> 0..MaxIovs] /\ cache' \in Seq(1..MaxIovs)
  <2>1. CASE GiveVector(c, Vector(c, n), CacheLeft(n))
    BY <1>2, <2>1, VectorTaken, VectorGiven
  <2>2. CASE GiveVector(c, iovs[c], cache)
    <3>1. iovs[c] \in 0..MaxIovs /\ cache \in Seq(1..MaxIovs)
      BY <1>2 DEF TypeOK
    <3> QED
      BY <1>2, <2>2, <3>1, VectorGiven
  <2> QED
    BY <1>1, <2>1, <2>2
<1>4. /\ ~destroyed
      /\ UNCHANGED <<inUse, handle, wrapped, need, work, alive, inflight,
                     completed, running, down, destroyed>>
      /\ UNCHANGED <<prepared, failures>>
  BY DEF InitiateThrows, ring
<1>5. prepared' \in SUBSET Entries /\ failures' \in 0..MaxSubmitFailures
  BY <1>2, <1>4 DEF TypeOK
<1> QED
  BY <1>1, <1>3, <1>4, <1>5, FailureKeepsPool

LEMMA SubmitFailsKeepsPool ==
  ASSUME PoolInv, NEW o \in Ops, NEW i \in Objects, NEW n \in Asked,
         SubmitFails(o, i, n)
  PROVE  PoolInv'
<1>1. PICK c \in Available :
        /\ exists' = exists \cup {c}
        /\ free' = free \cup {c}
        /\ GiveVector(c, Vector(c, n), CacheLeft(n))
        /\ prepared' = prepared \cup {[c |-> c, op |-> o]}
  BY DEF SubmitFails
<1>2. c \in Completions /\ TypeOK
  BY AvailableUnused DEF PoolInv
<1>3. iovs' \in [Completions -> 0..MaxIovs] /\ cache' \in Seq(1..MaxIovs)
  BY <1>1, <1>2, VectorTaken, VectorGiven
<1>4. /\ ~destroyed
      /\ failures < MaxSubmitFailures /\ failures' = failures + 1
      /\ UNCHANGED <<inUse, handle, wrapped, need, work, alive, inflight,
                     completed, running, down, destroyed>>
  BY DEF SubmitFails, CanInitiate
<1>5. prepared' \in SUBSET Entries
  BY <1>1, <1>2 DEF TypeOK, Entries
<1>6. failures' \in 0..MaxSubmitFailures
  BY <1>2, <1>4, FailuresAssumption DEF TypeOK
<1> QED
  BY <1>1, <1>3, <1>4, <1>5, <1>6, FailureKeepsPool

LEMMA HandlerEndsKeepsPool ==
  ASSUME PoolInv, HandlerEnds
  PROVE  PoolInv'
<1>1. TypeOK /\ FunctionsHeld
  BY DEF PoolInv
<1>2. running.c \in Completions /\ running.c \in inUse
  BY <1>1 DEF HandlerEnds, TypeOK, Entries, FunctionsHeld
<1>3. /\ Release(running.c) /\ running' = Null
      /\ UNCHANGED <<exists, need, alive, destroyed>>
      /\ UNCHANGED <<prepared, inflight, completed, down, failures>>
  BY DEF HandlerEnds, ring
<1>4. /\ iovs' \in [Completions -> 0..MaxIovs] /\ cache' \in Seq(1..MaxIovs)
      /\ inUse' \in SUBSET Completions /\ free' \in SUBSET Completions
      /\ handle' \in [Completions -> Objects \cup {Null}]
      /\ wrapped' \in [Completions -> Ops \cup {Null}]
      /\ work' \in Nat
      /\ OneList' /\ WorkHeld' /\ FunctionsHeld'
  BY <1>2, <1>3, ReleaseKeepsPool
<1>5. TypeOK'
  BY <1>1, <1>3, <1>4 DEF TypeOK
<1> QED
  BY <1>4, <1>5 DEF PoolInv

(* shutdown and the destructor give back the work of every function. *)
LEMMA ShutdownKeepsPool ==
  ASSUME PoolInv, Shutdown
  PROVE  PoolInv'
<1>1. TypeOK /\ OneList /\ WorkHeld /\ FunctionsHeld
  BY DEF PoolInv
<1>2. Holders' = {}
  BY <1>1 DEF Shutdown, Holders, TypeOK
<1>3. work' = 0
  BY <1>1, HoldersCounted DEF Shutdown, WorkHeld
<1>4. WorkHeld'
  BY <1>2, <1>3, FS_EmptySet DEF WorkHeld
<1>5. TypeOK'
  BY <1>1, <1>3 DEF Shutdown, TypeOK, vectors, ring
<1>6. OneList' /\ FunctionsHeld'
  BY <1>1 DEF Shutdown, TypeOK, OneList, FunctionsHeld
<1> QED
  BY <1>4, <1>5, <1>6 DEF PoolInv

LEMMA DestroyServiceKeepsPool ==
  ASSUME PoolInv, DestroyService
  PROVE  PoolInv'
<1>1. TypeOK /\ OneList /\ WorkHeld /\ FunctionsHeld
  BY DEF PoolInv
<1>2. Holders' = {}
  BY DEF DestroyService, Holders
<1>3. work' = 0
  BY <1>1, HoldersCounted DEF DestroyService, WorkHeld
<1>4. WorkHeld'
  BY <1>2, <1>3, FS_EmptySet DEF WorkHeld
<1>5. TypeOK'
  BY <1>1, <1>3 DEF DestroyService, TypeOK, ring
<1>6. OneList' /\ FunctionsHeld'
  BY <1>1 DEF DestroyService, TypeOK, OneList, FunctionsHeld
<1> QED
  BY <1>4, <1>5, <1>6 DEF PoolInv

(* Objects come, go and move: only the lists they own change. *)
LEMMA ObjectsKeepPool ==
  ASSUME PoolInv, NEW i \in Objects, NEW j \in Objects,
         Construct(i) \/ Destroy(i) \/ Move(i, j)
  PROVE  PoolInv'
<1>1. TypeOK /\ OneList /\ WorkHeld /\ FunctionsHeld
  BY DEF PoolInv
<1>2. /\ UNCHANGED <<exists, inUse, free, wrapped, work, destroyed>>
      /\ UNCHANGED <<iovs, need, cache, prepared, inflight, completed, running,
                     down, failures>>
  BY DEF Construct, Destroy, Move, pool, vectors, ring
<1>3. handle' \in [Completions -> Objects \cup {Null}] /\ alive' \in SUBSET Objects
  <2>1. CASE Construct(i)
    BY <1>1, <2>1 DEF Construct, pool, TypeOK
  <2>2. CASE Destroy(i)
    BY <1>1, <2>2 DEF Destroy, TypeOK
  <2>3. CASE Move(i, j)
    BY <1>1, <2>3 DEF Move, TypeOK
  <2> QED
    BY <2>1, <2>2, <2>3
<1>4. OneList'
  <2>1. CASE Construct(i)
    BY <1>1, <1>2, <2>1 DEF Construct, pool, OneList
  <2>2. CASE Destroy(i)
    BY <1>1, <1>2, <2>2 DEF Destroy, OneList
  <2>3. CASE Move(i, j)
    <3>1. /\ handle' = [c \in Completions |-> CASE handle[c] = i -> Null
                                              [] handle[c] = j -> i
                                              [] OTHER -> handle[c]]
          /\ alive' = alive \cup {i} /\ j \in alive /\ i # j /\ ~destroyed
      BY <2>3 DEF Move
    <3>2. ASSUME NEW c \in Completions, handle'[c] # Null
          PROVE  c \in inUse /\ handle'[c] \in alive'
      <4>1. handle'[c] = IF handle[c] = i THEN Null
                         ELSE IF handle[c] = j THEN i ELSE handle[c]
        BY <3>1
      <4>2. handle[c] # Null
        BY <3>2, <4>1, NullAssumption
      <4>3. c \in inUse /\ handle[c] \in alive
        BY <1>1, <3>1, <4>2 DEF OneList
      <4> QED
        BY <3>1, <3>2, <4>1, <4>3
    <3> QED
      BY <1>1, <1>2, <3>2 DEF OneList
  <2> QED
    BY <2>1, <2>2, <2>3
<1>5. TypeOK'
  BY <1>1, <1>2, <1>3 DEF TypeOK
<1>6. FunctionsHeld' /\ Holders' = Holders
  BY <1>1, <1>2 DEF FunctionsHeld, Holders
<1>7. WorkHeld'
  BY <1>1, <1>2, <1>6 DEF WorkHeld
<1> QED
  BY <1>4, <1>5, <1>6, <1>7 DEF PoolInv

(* Steps of the ring leave the pool alone. *)
LEMMA RingKeepsPool ==
  ASSUME PoolInv, UNCHANGED <<pool, vectors, work, alive, down, destroyed, failures>>,
         prepared' \in SUBSET Entries, inflight' \in SUBSET Entries,
         completed' \in SUBSET Entries, running' \in Entries \cup {Null}
  PROVE  PoolInv'
<1>1. TypeOK'
  BY DEF PoolInv, TypeOK, pool, vectors
<1>2. OneList' /\ FunctionsHeld' /\ Holders' = Holders
  BY DEF PoolInv, OneList, FunctionsHeld, Holders, pool
<1>3. WorkHeld'
  BY <1>2 DEF PoolInv, WorkHeld
<1> QED
  BY <1>1, <1>2, <1>3 DEF PoolInv

LEMMA PoolStep == PoolInv /\ [Next]_vars => PoolInv'
<1> SUFFICES ASSUME PoolInv, [Next]_vars
             PROVE  PoolInv'
  OBVIOUS
<1>0. TypeOK
  BY DEF PoolInv
<1>1. ASSUME NEW o \in Ops, NEW i \in Objects, NEW n \in Asked,
             Initiate(o, i, n) \/ SubmitFails(o, i, n)
      PROVE  PoolInv'
  BY <1>1, InitiateKeepsPool, SubmitFailsKeepsPool
<1>2. ASSUME NEW i \in Objects, NEW n \in Asked, InitiateThrows(i, n)
      PROVE  PoolInv'
  BY <1>2, InitiateThrowsKeepsPool
<1>3. ASSUME NEW e \in completed, Complete(e)
      PROVE  PoolInv'
  <2>1. UNCHANGED <<pool, vectors, work, alive, down, destroyed, failures>>
    BY <1>3 DEF Complete
  <2>2. /\ prepared' \in SUBSET Entries /\ inflight' \in SUBSET Entries
        /\ completed' \in SUBSET Entries /\ running' \in Entries \cup {Null}
    BY <1>0, <1>3 DEF Complete, TypeOK
  <2> QED
    BY <2>1, <2>2, RingKeepsPool
<1>4. CASE HandlerEnds
  BY <1>4, HandlerEndsKeepsPool
<1>5. ASSUME NEW i \in Objects, NEW j \in Objects,
             Construct(i) \/ Destroy(i) \/ Move(i, j)
      PROVE  PoolInv'
  BY <1>5, ObjectsKeepPool
<1>6. CASE Shutdown
  BY <1>6, ShutdownKeepsPool
<1>7. CASE DestroyService
  BY <1>7, DestroyServiceKeepsPool
<1>8. ASSUME NEW e \in inflight, KernelCompletes(e)
      PROVE  PoolInv'
  <2>1. UNCHANGED <<pool, vectors, work, alive, down, destroyed, failures>>
    BY <1>8 DEF KernelCompletes
  <2>2. /\ prepared' \in SUBSET Entries /\ inflight' \in SUBSET Entries
        /\ completed' \in SUBSET Entries /\ running' \in Entries \cup {Null}
    BY <1>0, <1>8 DEF KernelCompletes, TypeOK
  <2> QED
    BY <2>1, <2>2, RingKeepsPool
<1>9. CASE SubmitOther
  <2>1. UNCHANGED <<pool, vectors, work, alive, down, destroyed, failures>>
    BY <1>9 DEF SubmitOther
  <2>2. /\ prepared' \in SUBSET Entries /\ inflight' \in SUBSET Entries
        /\ completed' \in SUBSET Entries /\ running' \in Entries \cup {Null}
    BY <1>0, <1>9 DEF SubmitOther, TypeOK
  <2> QED
    BY <2>1, <2>2, RingKeepsPool
<1>10. CASE UNCHANGED vars
  <2>1. UNCHANGED <<pool, vectors, work, alive, down, destroyed, failures>>
    BY <1>10 DEF vars
  <2>2. /\ prepared' \in SUBSET Entries /\ inflight' \in SUBSET Entries
        /\ completed' \in SUBSET Entries /\ running' \in Entries \cup {Null}
    BY <1>0, <1>10 DEF vars, ring, TypeOK
  <2> QED
    BY <2>1, <2>2, RingKeepsPool
<1> QED
  BY <1>1, <1>2, <1>3, <1>4, <1>5, <1>6, <1>7, <1>8, <1>9, <1>10 DEF Next

LEMMA PoolInvariant == Spec => []PoolInv
BY PoolInit, PoolStep, PTL DEF Spec

(* The types of the service; the context's unsigned count, in particular,  *)
(* never goes below zero on the service's account.                         *)
THEOREM TypeCorrect == Spec => []TypeOK
<1>1. PoolInv => TypeOK
  BY DEF PoolInv
<1> QED
  BY <1>1, PoolInvariant, PTL

(* Whatever fails, a completion is in use or free, and in the list of an   *)
(* object only while it is in use and the object exists.                   *)
THEOREM ListsSeparate == Spec => []OneList
<1>1. PoolInv => OneList
  BY DEF PoolInv
<1> QED
  BY <1>1, PoolInvariant, PTL

(* Whatever fails, the service holds a unit of work for each function that *)
(* waits to be called, and no more.                                        *)
THEOREM WorkIsHeld == Spec => []WorkHeld
<1>1. PoolInv => WorkHeld
  BY DEF PoolInv
<1> QED
  BY <1>1, PoolInvariant, PTL

-----------------------------------------------------------------------------
(***************************************************************************)
(* What the ring refers to.                                                *)
(***************************************************************************)

(* An entry is in one place, no two entries name the same completion, and  *)
(* every completion in use is named by one.                                *)
OneEntry ==
  /\ prepared = {}
  /\ inflight \cap completed = {}
  /\ running # Null => running \notin inflight \cup completed
  /\ \A e, f \in Claims : e.c = f.c => e = f
  /\ \A c \in inUse : \E e \in Claims : e.c = c

(* It finds its completion in use, and its function there until shutdown.  *)
Finds(e) ==
  /\ e.c \in inUse
  /\ wrapped[e.c] = e.op \/ (down /\ wrapped[e.c] = Null)

OwnInv == failures = 0 => OneEntry /\ (~destroyed => \A e \in Claims : Finds(e))

LEMMA OwnInit == Init => OwnInv
BY DEF Init, OwnInv, OneEntry, Claims, Outstanding

(* The claims are entries. *)
LEMMA ClaimsTyped ==
  ASSUME TypeOK
  PROVE  Claims \subseteq Entries
BY DEF TypeOK, Claims, Outstanding

(* The new entry names a completion that no other one names, since those   *)
(* that others name are in use.                                            *)
LEMMA InitiateKeepsOwn ==
  ASSUME PoolInv, OwnInv, NEW o \in Ops, NEW i \in Objects, NEW n \in Asked,
         Initiate(o, i, n)
  PROVE  OwnInv'
<1> SUFFICES ASSUME failures = 0
             PROVE  OneEntry' /\ (~destroyed' => \A e \in Claims' : Finds(e)')
  BY DEF OwnInv, Initiate
<1>1. PICK c \in Available :
        /\ inUse' = inUse \cup {c}
        /\ wrapped' = [wrapped EXCEPT ![c] = o]
        /\ inflight' = inflight \cup prepared \cup {[c |-> c, op |-> o]}
  BY DEF Initiate
<1>2. c \in Completions /\ c \notin inUse
  BY AvailableUnused
<1>3. /\ ~destroyed
      /\ prepared' = {}
      /\ UNCHANGED <<completed, running, down, destroyed, failures>>
  BY DEF Initiate, CanInitiate
<1>4. OneEntry /\ (\A e \in Claims : Finds(e)) /\ TypeOK
  BY <1>3 DEF OwnInv, PoolInv
<1> DEFINE new == [c |-> c, op |-> o]
<1>5. new.c = c /\ new.op = o
  OBVIOUS
<1>6. \A e \in Claims : e.c \in Completions /\ e.c \in inUse /\ e.c # c
  BY <1>2, <1>4, ClaimsTyped DEF Finds, Entries
<1>7. new \notin Claims
  BY <1>5, <1>6
<1> HIDE DEF new
<1>8. inflight' = inflight \cup {new} /\ Claims' = Claims \cup {new}
  BY <1>1, <1>3, <1>4 DEF new, OneEntry, Claims, Outstanding
<1>9. OneEntry'
  <2>1. inflight' \cap completed' = {}
    BY <1>3, <1>4, <1>7, <1>8 DEF OneEntry, Claims, Outstanding
  <2>2. running' # Null => running' \notin inflight' \cup completed'
    BY <1>3, <1>4, <1>7, <1>8 DEF OneEntry, Claims, Outstanding
  <2>3. \A e, f \in Claims' : e.c = f.c => e = f
    BY <1>4, <1>5, <1>6, <1>8 DEF OneEntry
  <2>4. \A d \in inUse' : \E e \in Claims' : e.c = d
    BY <1>1, <1>4, <1>5, <1>8 DEF OneEntry
  <2> QED
    BY <1>3, <2>1, <2>2, <2>3, <2>4 DEF OneEntry
<1>10. \A e \in Claims' : Finds(e)'
  <2>1. Finds(new)'
    BY <1>1, <1>2, <1>4, <1>5 DEF Finds, TypeOK
  <2>2. ASSUME NEW e \in Claims
        PROVE  Finds(e)'
    BY <1>1, <1>2, <1>3, <1>4, <1>6, <2>2 DEF Finds, TypeOK
  <2> QED
    BY <1>8, <2>1, <2>2
<1> QED
  BY <1>9, <1>10

(* The completion released is the one of the entry that goes. *)
LEMMA HandlerEndsKeepsOwn ==
  ASSUME PoolInv, OwnInv, HandlerEnds
  PROVE  OwnInv'
<1> SUFFICES ASSUME failures = 0
             PROVE  OneEntry' /\ (~destroyed' => \A e \in Claims' : Finds(e)')
  BY DEF OwnInv, HandlerEnds
<1>1. /\ running # Null /\ running' = Null
      /\ UNCHANGED <<prepared, inflight, completed, down, destroyed, failures>>
      /\ Release(running.c)
  BY DEF HandlerEnds, ring
<1>2. OneEntry /\ TypeOK /\ (~destroyed => \A e \in Claims : Finds(e))
  BY DEF OwnInv, PoolInv
<1>3. running \in Claims /\ Claims' = Claims \ {running}
  BY <1>1, <1>2 DEF OneEntry, Claims, Outstanding
<1>4. /\ inUse' = inUse \ {running.c}
      /\ wrapped' = [wrapped EXCEPT ![running.c] = Null]
  BY <1>1 DEF Release
<1>5. \A e \in Claims' : e \in Claims /\ e.c # running.c /\ e.c \in Completions
  BY <1>2, <1>3, ClaimsTyped DEF OneEntry, Entries
<1>6. OneEntry'
  <2>1. \A c \in inUse' : \E e \in Claims' : e.c = c
    <3>1. ASSUME NEW c \in inUse'
          PROVE  \E e \in Claims' : e.c = c
      <4>1. PICK e \in Claims : e.c = c
        BY <1>2, <1>4 DEF OneEntry
      <4> QED
        BY <1>3, <1>4, <4>1
    <3> QED
      BY <3>1
  <2>2. \A e, f \in Claims' : e.c = f.c => e = f
    BY <1>2, <1>5 DEF OneEntry
  <2> QED
    BY <1>1, <1>2, <2>1, <2>2 DEF OneEntry
<1>7. ~destroyed' => \A e \in Claims' : Finds(e)'
  BY <1>1, <1>2, <1>4, <1>5 DEF Finds, TypeOK
<1> QED
  BY <1>6, <1>7

(* A step that neither claims nor uses or releases a completion. *)
LEMMA SameClaimsKeepOwn ==
  ASSUME OwnInv, Claims' = Claims, failures' = failures, prepared' = prepared,
         inUse' = inUse, destroyed' = destroyed,
         failures = 0 => /\ inflight' \cap completed' = {}
                         /\ running' # Null => running' \notin inflight' \cup completed',
         ~destroyed => \A e \in Claims : Finds(e) => Finds(e)'
  PROVE  OwnInv'
<1>1. failures = 0 => OneEntry'
  BY DEF OwnInv, OneEntry
<1> QED
  BY <1>1 DEF OwnInv

LEMMA OwnStep == PoolInv /\ OwnInv /\ [Next]_vars => OwnInv'
<1> SUFFICES ASSUME PoolInv, OwnInv, [Next]_vars
             PROVE  OwnInv'
  OBVIOUS
<1>0. TypeOK
  BY DEF PoolInv
<1>a. ASSUME UNCHANGED <<inUse, wrapped, ring, running, down, destroyed, failures>>
      PROVE  OwnInv'
  BY <1>a DEF OwnInv, OneEntry, Finds, Claims, Outstanding, ring
<1>1. ASSUME NEW o \in Ops, NEW i \in Objects, NEW n \in Asked,
             Initiate(o, i, n)
      PROVE  OwnInv'
  BY <1>1, InitiateKeepsOwn
<1>2. ASSUME NEW o \in Ops, NEW i \in Objects, NEW n \in Asked,
             SubmitFails(o, i, n)
      PROVE  OwnInv'
  <2>1. failures' # 0
    BY <1>0, <1>2, FailuresAssumption DEF SubmitFails, TypeOK
  <2> QED
    BY <2>1 DEF OwnInv
<1>3. ASSUME NEW i \in Objects, NEW n \in Asked, InitiateThrows(i, n)
      PROVE  OwnInv'
  BY <1>3, <1>a DEF InitiateThrows
<1>4. ASSUME NEW e \in completed, Complete(e)
      PROVE  OwnInv'
  <2>1. /\ e \in completed /\ running = Null /\ running' = e
        /\ completed' = completed \ {e} /\ e # Null
        /\ UNCHANGED <<inUse, wrapped, prepared, inflight, down, destroyed, failures>>
    <3>1. e # Null
      BY <1>0, <1>4, NullAssumption DEF TypeOK, Entries
    <3> QED
      BY <1>4, <3>1 DEF Complete, pool
  <2>2. Claims' = Claims
    BY <2>1 DEF Claims, Outstanding
  <2>3. failures = 0 => /\ inflight' \cap completed' = {}
                        /\ running' # Null => running' \notin inflight' \cup completed'
    BY <2>1 DEF OwnInv, OneEntry
  <2>4. \A f \in Claims : Finds(f) => Finds(f)'
    BY <2>1 DEF Finds
  <2> QED
    BY <2>1, <2>2, <2>3, <2>4, SameClaimsKeepOwn
<1>5. CASE HandlerEnds
  BY <1>5, HandlerEndsKeepsOwn
<1>6. ASSUME NEW i \in Objects, NEW j \in Objects,
             Construct(i) \/ Destroy(i) \/ Move(i, j)
      PROVE  OwnInv'
  BY <1>6, <1>a DEF Construct, Destroy, Move, pool
<1>7. CASE Shutdown
  <2>1. /\ down' = TRUE /\ running' = running
        /\ wrapped' = [c \in Completions |-> IF c \in inUse THEN Null ELSE wrapped[c]]
        /\ UNCHANGED <<inUse, prepared, inflight, completed, destroyed, failures>>
    BY <1>7 DEF Shutdown, ring
  <2>2. Claims' = Claims
    BY <2>1 DEF Claims, Outstanding
  <2>3. \A f \in Claims : Finds(f) => Finds(f)'
    BY <1>0, <2>1, ClaimsTyped DEF Finds, Entries
  <2>4. failures = 0 => /\ inflight' \cap completed' = {}
                        /\ running' # Null => running' \notin inflight' \cup completed'
    BY <2>1 DEF OwnInv, OneEntry
  <2> QED
    BY <2>1, <2>2, <2>3, <2>4, SameClaimsKeepOwn
<1>8. CASE DestroyService
  <2>1. /\ destroyed' = TRUE /\ inUse' = {}
        /\ UNCHANGED <<prepared, inflight, completed, running, failures>>
    BY <1>8 DEF DestroyService, ring
  <2>2. failures = 0 => OneEntry'
    BY <2>1 DEF OwnInv, OneEntry, Claims, Outstanding
  <2> QED
    BY <2>1, <2>2 DEF OwnInv
<1>9. ASSUME NEW e \in inflight, KernelCompletes(e)
      PROVE  OwnInv'
  <2>1. /\ e \in inflight /\ inflight' = inflight \ {e}
        /\ completed' = completed \cup {e}
        /\ UNCHANGED <<inUse, wrapped, prepared, running, down, destroyed, failures>>
    BY <1>9 DEF KernelCompletes, pool
  <2>2. Claims' = Claims
    BY <2>1 DEF Claims, Outstanding
  <2>3. failures = 0 => /\ inflight' \cap completed' = {}
                        /\ running' # Null => running' \notin inflight' \cup completed'
    BY <2>1 DEF OwnInv, OneEntry
  <2>4. \A f \in Claims : Finds(f) => Finds(f)'
    BY <2>1 DEF Finds
  <2> QED
    BY <2>1, <2>2, <2>3, <2>4, SameClaimsKeepOwn
<1>10. CASE SubmitOther
  BY <1>10 DEF SubmitOther, OwnInv, OneEntry
<1>11. CASE UNCHANGED vars
  BY <1>11, <1>a DEF vars, pool
<1> QED
  BY <1>1, <1>2, <1>3, <1>4, <1>5, <1>6, <1>7, <1>8, <1>9, <1>10, <1>11 DEF Next

LEMMA OwnInvariant == Spec => [](PoolInv /\ OwnInv)
BY PoolInit, PoolStep, OwnInit, OwnStep, PTL DEF Spec

(* While no submission failed, every cqe reaches the function of its own   *)
(* operation, in a completion not released in between.                     *)
THEOREM EachCompletesItsOwn == Spec => []CompletesItsOwn
<1>1. PoolInv /\ OwnInv => CompletesItsOwn
  BY DEF OwnInv, CompletesItsOwn, Finds
<1> QED
  BY <1>1, OwnInvariant, PTL

(* While no submission failed, a completion in use is released by exactly  *)
(* one cqe.                                                                *)
THEOREM EachReleasedOnce == Spec => []ReleasedOnce
<1>1. PoolInv /\ OwnInv => ReleasedOnce
  <2> SUFFICES ASSUME OwnInv, failures = 0, NEW c \in inUse
               PROVE  Cardinality({e \in Claims : e.c = c}) = 1
    BY DEF ReleasedOnce
  <2>1. PICK e \in Claims : e.c = c
    BY DEF OwnInv, OneEntry
  <2>2. {f \in Claims : f.c = c} = {e}
    BY <2>1 DEF OwnInv, OneEntry
  <2> QED
    BY <2>2, FS_Singleton
<1> QED
  BY <1>1, OwnInvariant, PTL
=============================================================================
