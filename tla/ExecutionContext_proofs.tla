------------------------ MODULE ExecutionContext_proofs ---------------------
(***************************************************************************)
(* Theorems about ExecutionContext, for every set of workers and of        *)
(* operations and every bound.                                             *)
(*                                                                         *)
(* None of the properties is inductive alone: the counter of work only     *)
(* stays natural because it is accounted for unit by unit, the accounts    *)
(* only balance because Main finishes a call before it goes on, and what   *)
(* service_queue reports as done depends on all of them.  AccountInv puts  *)
(* the accounts together, SignalInv adds the wakeups.                      *)
(***************************************************************************)
EXTENDS ExecutionContext, FiniteSetTheorems, TLAPS

(* Main is in one call at a time, and a completion is submitted from       *)
(* outside a run or from a handler.                                        *)
CallerInv ==
  /\ submitting # {} => call[Main] = "none" /\ pc \in {"idle", "handler"}
  /\ submitting = {} \/ \E o \in busy : submitting = {o}
  /\ pc \notin {"idle", "handler"} => call[Main] \in {"none", "zero"}

(* A consume loop asks for no more than is pending; the one at the loop    *)
(* head asks for exactly that; none runs for the cqe of an operation.      *)
BatchInv ==
  /\ batch <= pending
  /\ pc \in {"drain", "popped"} => item \notin Ops
  /\ item = "loop" /\ entry.all /\ pc \in {"drain", "popped", "handler"}
       => batch = pending

(* Once the last unit of work is gone nothing is left to consume. *)
DoneInv ==
  done => pc \in {"handler", "drain"} /\ item \notin Ops /\ pending = 0 /\ batch = 0

AccountInv ==
  /\ TypeOK
  /\ QueueAccounting
  /\ WorkAccounting
  /\ CallerInv
  /\ BatchInv
  /\ DoneInv

SignalInv == NoLostStop /\ NoLostZero

-----------------------------------------------------------------------------
(* The threads and the completions in use are finite sets, so that the     *)
(* sums of the accounts are sums of natural numbers.                       *)
LEMMA FiniteCounts ==
  ASSUME TypeOK
  PROVE  /\ \A c : IsFiniteSet(InState(c)) /\ Cardinality(InState(c)) \in Nat
         /\ IsFiniteSet(busy) /\ Cardinality(busy) \in Nat
<1>1. IsFiniteSet(Threads)
  BY WorkersAssumption, FS_AddElement DEF Threads
<1>2. \A c : InState(c) \in SUBSET Threads
  BY DEF InState
<1>3. \A c : IsFiniteSet(InState(c))
  BY <1>1, <1>2, FS_Subset
<1>4. IsFiniteSet(busy)
  BY OpsAssumption, FS_Subset DEF TypeOK
<1> QED
  BY <1>3, <1>4, FS_CardinalityType

(* A step that moves one thread from one state of its call to another      *)
(* takes it out of one count and puts it into the other.                   *)
LEMMA CallMoves ==
  ASSUME TypeOK, NEW t \in Threads, NEW d \in Calls,
         call' = [call EXCEPT ![t] = d], NEW c \in Calls
  PROVE  Cardinality(InState(c)') = Cardinality(InState(c))
            + (IF d = c THEN 1 ELSE 0) - (IF call[t] = c THEN 1 ELSE 0)
<1>0. IsFiniteSet(InState(c)) /\ Cardinality(InState(c)) \in Nat
  BY FiniteCounts
<1>1. CASE d = c
  <2>1. InState(c)' = InState(c) \cup {t}
    BY <1>1 DEF TypeOK, InState
  <2>2. t \in InState(c) <=> call[t] = c
    BY DEF InState
  <2>3. Cardinality(InState(c) \cup {t})
          = IF t \in InState(c) THEN Cardinality(InState(c))
                                ELSE Cardinality(InState(c)) + 1
    BY <1>0, FS_AddElement
  <2> QED
    BY <1>0, <1>1, <2>1, <2>2, <2>3
<1>2. CASE d # c
  <2>1. InState(c)' = InState(c) \ {t}
    BY <1>2 DEF TypeOK, InState
  <2>2. t \in InState(c) <=> call[t] = c
    BY DEF InState
  <2>3. Cardinality(InState(c) \ {t})
          = IF t \in InState(c) THEN Cardinality(InState(c)) - 1
                                ELSE Cardinality(InState(c))
    BY <1>0, FS_RemoveElement
  <2> QED
    BY <1>0, <1>2, <2>1, <2>2, <2>3
<1> QED
  BY <1>1, <1>2

(* A step that moves no thread changes no count. *)
LEMMA CallStays ==
  ASSUME call' = call
  PROVE  \A c : InState(c)' = InState(c)
BY DEF InState

(* A thread in a call is counted. *)
LEMMA Counted ==
  ASSUME TypeOK, NEW t \in Threads
  PROVE  Cardinality(InState(call[t])) >= 1
<1>1. t \in InState(call[t])
  BY DEF InState
<1> QED
  BY <1>1, FiniteCounts, FS_EmptySet

-----------------------------------------------------------------------------
LEMMA AccountInit == Init => AccountInv
<1> SUFFICES ASSUME Init PROVE AccountInv
  OBVIOUS
<1>1. \A c \in {"link", "signal"} : Cardinality(InState(c)) = 0
  <2>1. \A c \in {"link", "signal"} : InState(c) = {}
    BY DEF Init, InState
  <2> QED
    BY <2>1, FS_EmptySet
<1>2. Cardinality(busy) = 0
  BY FS_EmptySet DEF Init
<1>3. TypeOK
  <2>1. stopped \in BOOLEAN /\ done \in BOOLEAN
    BY DEF Init
  <2>2. entry \in EntryPoints
    BY DEF Init, EntryPoints
  <2> QED
    BY <2>1, <2>2 DEF Init, TypeOK, Calls, PCs, Items
<1> QED
  BY <1>1, <1>2, <1>3
     DEF Init, AccountInv, QueueAccounting, WorkAccounting, CallerInv, BatchInv,
         DoneInv, Events

-----------------------------------------------------------------------------
(* The part of TypeOK about where the running thread is. *)
ControlOK ==
  /\ pc \in PCs
  /\ stopped \in BOOLEAN
  /\ entry \in EntryPoints
  /\ item \in Items
  /\ batch \in Nat
  /\ done \in BOOLEAN
  /\ handlers \in 0..2

(* Every way of going on from a step of the running thread keeps it.       *)
LEMMA ControlTypes ==
  ASSUME TypeOK
  PROVE  /\ Return => ControlOK'
         /\ Throw => ControlOK'
         /\ \A l \in PCs : Goto(l) => ControlOK'
         /\ \A n \in Nat : ServiceQueue(n) => ControlOK'
         /\ NextIteration => ControlOK'
<1>1. LocalsDie => entry' \in EntryPoints /\ item' \in Items /\ batch' \in Nat
                   /\ handlers' \in 0..2
  BY DEF LocalsDie, EntryPoints, Items
<1>2. LocalsDie => done' \in BOOLEAN
  BY DEF LocalsDie
<1>3. Return => stopped' \in BOOLEAN
  BY DEF Return
<1>4. Return => ControlOK'
  BY <1>1, <1>2, <1>3 DEF Return, ControlOK, PCs
<1>5. Throw => ControlOK'
  BY <1>1, <1>2 DEF Throw, ControlOK, PCs, TypeOK
<1>6. \A l \in PCs : Goto(l) => ControlOK'
  BY DEF Goto, locals, ControlOK, TypeOK
<1>7. ASSUME NEW n \in Nat, ServiceQueue(n) PROVE ControlOK'
  <2>1. done' \in BOOLEAN
    BY <1>7 DEF ServiceQueue
  <2> QED
    BY <1>7, <2>1 DEF ServiceQueue, ControlOK, TypeOK, PCs, Items
<1>8. NextIteration => ControlOK'
  BY <1>4, <1>7 DEF NextIteration, TypeOK
<1> QED
  BY <1>4, <1>5, <1>6, <1>7, <1>8

(* The counters stay natural numbers wherever a step takes a unit away:    *)
(* the accounts say that there is one.                                     *)
LEMMA UnitsToTake ==
  ASSUME AccountInv
  PROVE  /\ guards > 0 => work > 0
         /\ \A t \in Threads : call[t] = "link" => work > 0
         /\ busy # {} => work > 0
         /\ pc = "popped" => work > 0
         /\ linked > 0 => work > 0
<1>1. busy # {} => Cardinality(busy) > 0
  BY FiniteCounts, FS_EmptySet DEF AccountInv
<1>2. ASSUME NEW t \in Threads, call[t] = "link"
      PROVE  Cardinality(InState("link")) >= 1
  BY <1>2, Counted DEF AccountInv
<1> QED
  BY <1>1, <1>2, FiniteCounts DEF AccountInv, WorkAccounting, TypeOK

(* Arming a poll, or failing to, keeps the type of what it changes. *)
LEMMA ArmTypes ==
  ASSUME TypeOK, NEW e \in Items, Arm(e) \/ ArmFails(e)
  PROVE  /\ started' \in [Events -> BOOLEAN]
         /\ sq' \in [Events -> Nat]
         /\ polls' \in [Events -> Nat]
         /\ failures' \in Nat
<1>1. CASE Arm(e)
  <2>1. started' \in [Events -> BOOLEAN]
    BY <1>1 DEF Arm, TypeOK
  <2>2. sq' \in [Events -> Nat] /\ polls' \in [Events -> Nat]
    BY <1>1 DEF Arm, TypeOK
  <2> QED
    BY <1>1, <2>1, <2>2 DEF Arm, TypeOK
<1>2. CASE ArmFails(e)
  <2>1. sq' \in [Events -> Nat]
    BY <1>2 DEF ArmFails, TypeOK
  <2>2. failures' \in Nat
    BY <1>2 DEF ArmFails, TypeOK
  <2> QED
    BY <1>2, <2>1, <2>2 DEF ArmFails, TypeOK
<1> QED
  BY <1>1, <1>2

LEMMA TypeStep == AccountInv /\ [Next]_vars => TypeOK'
<1> SUFFICES ASSUME AccountInv, [Next]_vars PROVE TypeOK'
  OBVIOUS
<1> USE DEF owned, ring, Calls
<1>0. TypeOK /\ Main \in Threads
  BY DEF AccountInv, Threads
<1>1. ASSUME NEW t \in Threads, WorkStarted(t) PROVE TypeOK'
  BY <1>0, <1>1 DEF WorkStarted, locals, TypeOK
<1>2. ASSUME NEW t \in Threads, WorkFinished(t) PROVE TypeOK'
  BY <1>0, <1>2, UnitsToTake DEF WorkFinished, FinishWork, locals, TypeOK
<1>3. ASSUME NEW t \in Threads, SignalZero(t) PROVE TypeOK'
  BY <1>0, <1>3 DEF SignalZero, locals, TypeOK
<1>4. ASSUME NEW t \in Threads, Post(t) PROVE TypeOK'
  BY <1>0, <1>4 DEF Post, locals, TypeOK
<1>5. ASSUME NEW t \in Threads, PostFails(t) PROVE TypeOK'
  BY <1>0, <1>5, UnitsToTake DEF PostFails, FinishWork, locals, TypeOK
<1>6. ASSUME NEW t \in Threads, Link(t) PROVE TypeOK'
  BY <1>0, <1>6 DEF Link, locals, TypeOK
<1>7. ASSUME NEW t \in Threads, SignalQueue(t) PROVE TypeOK'
  BY <1>0, <1>7 DEF SignalQueue, locals, TypeOK, Events
<1>8. ASSUME NEW t \in Threads, Stop(t) PROVE TypeOK'
  <2>1. stopped' \in BOOLEAN
    BY <1>8 DEF Stop
  <2> QED
    BY <1>0, <1>8, <2>1 DEF Stop, locals, TypeOK
<1>9. ASSUME NEW t \in Threads, SignalStop(t) PROVE TypeOK'
  BY <1>0, <1>9 DEF SignalStop, locals, TypeOK
<1>10. ASSUME NEW o \in Ops, Initiate(o) PROVE TypeOK'
  BY <1>0, <1>10 DEF Initiate, locals, TypeOK
<1>11. CASE Submit
  BY <1>0, <1>11 DEF Submit, shared, locals, TypeOK
<1>12. CASE InitiateFails
  <2>1. busy # {}
    BY <1>12 DEF InitiateFails, AccountInv, CallerInv
  <2> QED
    BY <1>0, <1>12, <2>1, UnitsToTake DEF InitiateFails, FinishWork, locals, TypeOK
<1>13. CASE Restart
  BY <1>0, <1>13 DEF Restart, shared, locals, TypeOK, PCs
<1>14. CASE RestartArms
  <2>1. FirstMissing \in Items
    BY DEF FirstMissing, Events, Items
  <2>2. Arm(FirstMissing) \/ ArmFails(FirstMissing)
    BY <1>14 DEF RestartArms
  <2> QED
    BY <1>0, <1>14, <2>1, <2>2, ArmTypes DEF RestartArms, shared, locals, TypeOK, PCs
<1>15. CASE RestartEnds
  <2>1. stopped' \in BOOLEAN
    BY <1>15 DEF RestartEnds
  <2> QED
    BY <1>0, <1>15, <2>1 DEF RestartEnds, locals, TypeOK, PCs
<1>16. ASSUME NEW m \in EntryPoints, Enter(m) PROVE TypeOK'
  <2>1. ControlOK'
    BY <1>0, <1>16, ControlTypes DEF Enter, ControlOK, TypeOK, PCs
  <2> QED
    BY <1>0, <1>16, <2>1 DEF Enter, ControlOK, TypeOK
<1>17. CASE CheckWork
  <2>1. ControlOK'
    BY <1>0, <1>17, ControlTypes DEF CheckWork, TypeOK, PCs
  <2> QED
    BY <1>0, <1>17, <2>1 DEF CheckWork, ControlOK, TypeOK
<1>18. CASE Pop
  <2>1. pending - 1 \in Nat /\ linked - 1 \in Nat /\ batch - 1 \in Nat
    BY <1>0, <1>18 DEF Pop, AccountInv, BatchInv, TypeOK
  <2> QED
    BY <1>0, <1>18, <2>1 DEF Pop, TypeOK, PCs
<1>19. CASE FinishBeforeRun
  <2>1. done' \in BOOLEAN
    BY <1>19 DEF FinishBeforeRun
  <2>2. work - 1 \in Nat
    BY <1>0, <1>19, UnitsToTake DEF FinishBeforeRun, TypeOK
  <2> QED
    BY <1>0, <1>19, <2>1, <2>2 DEF FinishBeforeRun, CountHandler, TypeOK, PCs
<1>20. CASE Drained
  <2>1. ControlOK'
    BY <1>0, <1>20, ControlTypes DEF Drained, PCs
  <2> QED
    BY <1>0, <1>20, <2>1 DEF Drained, ControlOK, TypeOK
<1>21. CASE HandlerReturns
  BY <1>0, <1>21 DEF HandlerReturns, shared, locals, TypeOK, PCs
<1>22. CASE HandlerThrows
  <2>1. ControlOK'
    BY <1>0, <1>22, ControlTypes DEF HandlerThrows, PCs
  <2> QED
    BY <1>0, <1>22, <2>1 DEF HandlerThrows, ControlOK, TypeOK
<1>23. CASE Release
  BY <1>0, <1>23, UnitsToTake DEF Release, FinishWork, locals, TypeOK
<1>24. CASE Released
  <2>1. ControlOK'
    BY <1>0, <1>24, ControlTypes DEF Released
  <2> QED
    BY <1>0, <1>24, <2>1 DEF Released, ControlOK, TypeOK
<1>25. CASE TakeCqe
  <2>1. Head(cq) \in Events \cup Ops /\ Tail(cq) \in Seq(Events \cup Ops)
    BY <1>0, <1>25 DEF TakeCqe, TypeOK
  <2> QED
    BY <1>0, <1>25, <2>1 DEF TakeCqe, CountHandler, shared, TypeOK, PCs, Items
<1>26. CASE NothingReady
  <2>1. ControlOK'
    BY <1>0, <1>26, ControlTypes DEF NothingReady
  <2> QED
    BY <1>0, <1>26, <2>1 DEF NothingReady, ControlOK, TypeOK
<1>27. CASE WaitFails
  <2>1. ControlOK'
    BY <1>0, <1>27, ControlTypes DEF WaitFails
  <2> QED
    BY <1>0, <1>27, <2>1 DEF WaitFails, ControlOK, TypeOK
<1>28. CASE HandleQueue
  <2>1. done' \in BOOLEAN
    BY <1>28 DEF HandleQueue
  <2>2. pending' \in Nat
    BY <1>0, <1>28 DEF HandleQueue, TypeOK, Events
  <2> QED
    BY <1>0, <1>28, <2>1, <2>2 DEF HandleQueue, ReadEvent, TypeOK, PCs
<1>29. CASE HandleStop
  BY <1>0, <1>29 DEF HandleStop, ReadEvent, TypeOK, PCs
<1>30. CASE HandleZero
  BY <1>0, <1>30 DEF HandleZero, ReadEvent, TypeOK, PCs
<1>31. CASE DecideStop
  <2>1. ControlOK'
    BY <1>0, <1>31, ControlTypes DEF DecideStop, PCs
  <2> QED
    BY <1>0, <1>31, <2>1 DEF DecideStop, ControlOK, TypeOK
<1>32. CASE DecideZero
  <2>1. ControlOK'
    BY <1>0, <1>32, ControlTypes DEF DecideZero, PCs
  <2> QED
    BY <1>0, <1>32, <2>1 DEF DecideZero, ControlOK, TypeOK
<1>33. CASE Rearm
  <2>1. ControlOK'
    BY <1>0, <1>33, ControlTypes DEF Rearm
  <2>2. item \in Items /\ (Arm(item) \/ ArmFails(item))
    BY <1>0, <1>33 DEF Rearm, TypeOK
  <2> QED
    BY <1>0, <1>33, <2>1, <2>2, ArmTypes DEF Rearm, ControlOK, TypeOK
<1>34. ASSUME NEW e \in Events, PollFires(e) PROVE TypeOK'
  BY <1>0, <1>34 DEF PollFires, shared, locals, TypeOK
<1>35. ASSUME NEW o \in Ops, OpCompletes(o) PROVE TypeOK'
  BY <1>0, <1>35 DEF OpCompletes, shared, locals, TypeOK
<1>36. CASE UNCHANGED vars
  BY <1>0, <1>36 DEF vars, shared, locals, TypeOK
<1> QED
  BY <1>1, <1>2, <1>3, <1>4, <1>5, <1>6, <1>7, <1>8, <1>9, <1>10, <1>11, <1>12,
     <1>13, <1>14, <1>15, <1>16, <1>17, <1>18, <1>19, <1>20, <1>21, <1>22, <1>23,
     <1>24, <1>25, <1>26, <1>27, <1>28, <1>29, <1>30, <1>31, <1>32, <1>33, <1>34,
     <1>35, <1>36
     DEF Next, StartCall, FinishCall, RunStep, HandlerEnds

-----------------------------------------------------------------------------
(* The terms of the accounts that are cardinalities. *)
Linking    == Cardinality(InState("link"))
Signalling == Cardinality(InState("signal"))
InUse      == Cardinality(busy)
Popped     == IF pc = "popped" THEN 1 ELSE 0

QueueBalance == linked = pending + efd["queue"] + Signalling
WorkBalance  == work = linked + guards + Linking + InUse + Popped

LEMMA BalancesAreAccounts ==
  /\ QueueAccounting <=> QueueBalance
  /\ WorkAccounting <=> WorkBalance
  /\ QueueAccounting' <=> QueueBalance'
  /\ WorkAccounting' <=> WorkBalance'
BY DEF QueueAccounting, WorkAccounting, QueueBalance, WorkBalance, Linking,
       Signalling, InUse, Popped

LEMMA TermsAreNatural ==
  ASSUME TypeOK
  PROVE  /\ work \in Nat /\ linked \in Nat /\ guards \in Nat /\ pending \in Nat
         /\ efd["queue"] \in Nat /\ Linking \in Nat /\ Signalling \in Nat
         /\ InUse \in Nat /\ Popped \in Nat
BY FiniteCounts DEF TypeOK, Events, Linking, Signalling, InUse, Popped

(* Thread t goes on to state d of its call. *)
Moves(t, d) == call' = [call EXCEPT ![t] = d]

(* What a step does to the calls of the threads, as the accounts see it.   *)
LEMMA CallTerms ==
  ASSUME TypeOK
  PROVE  /\ call' = call => Linking' = Linking /\ Signalling' = Signalling
         /\ \A t \in Threads, d \in Calls :
              Moves(t, d) =>
                /\ Linking' = Linking + (IF d = "link" THEN 1 ELSE 0)
                                      - (IF call[t] = "link" THEN 1 ELSE 0)
                /\ Signalling' = Signalling + (IF d = "signal" THEN 1 ELSE 0)
                                            - (IF call[t] = "signal" THEN 1 ELSE 0)
<1>1. call' = call => Linking' = Linking /\ Signalling' = Signalling
  BY CallStays DEF Linking, Signalling
<1>2. ASSUME NEW t \in Threads, NEW d \in Calls, Moves(t, d)
      PROVE  /\ Linking' = Linking + (IF d = "link" THEN 1 ELSE 0)
                                   - (IF call[t] = "link" THEN 1 ELSE 0)
             /\ Signalling' = Signalling + (IF d = "signal" THEN 1 ELSE 0)
                                         - (IF call[t] = "signal" THEN 1 ELSE 0)
  <2>1. "link" \in Calls /\ "signal" \in Calls
    BY DEF Calls
  <2>2. Linking' = Linking + (IF d = "link" THEN 1 ELSE 0)
                           - (IF call[t] = "link" THEN 1 ELSE 0)
    BY <1>2, <2>1, CallMoves DEF Linking, Moves
  <2>3. Signalling' = Signalling + (IF d = "signal" THEN 1 ELSE 0)
                                 - (IF call[t] = "signal" THEN 1 ELSE 0)
    BY <1>2, <2>1, CallMoves DEF Signalling, Moves
  <2> QED
    BY <2>2, <2>3
<1> QED
  BY <1>1, <1>2

(* A fetch_sub by a thread that is not between linking a function and      *)
(* announcing it.                                                          *)
LEMMA FinishWorkTerms ==
  ASSUME TypeOK, NEW t \in Threads, FinishWork(t), call[t] # "signal"
  PROVE  /\ Signalling' = Signalling
         /\ Linking' = Linking - (IF call[t] = "link" THEN 1 ELSE 0)
         /\ work' = work - 1
<1>1. PICK d \in {"zero", "none"} : Moves(t, d)
  BY DEF FinishWork, Moves
<1>2. d \in Calls /\ d # "link" /\ d # "signal"
  BY DEF Calls
<1> QED
  BY <1>1, <1>2, CallTerms, TermsAreNatural DEF FinishWork

(* The steps that move no function, no guard, no completion and no thread  *)
(* of the accounts.                                                        *)
LEMMA AccountsFrame ==
  ASSUME AccountInv, UNCHANGED <<work, linked, call, guards, pending, busy>>,
         efd'["queue"] = efd["queue"], pc' = "popped" <=> pc = "popped"
  PROVE  QueueAccounting' /\ WorkAccounting'
BY CallStays DEF AccountInv, QueueAccounting, WorkAccounting

LEMMA AccountsStep ==
  AccountInv /\ [Next]_vars => QueueAccounting' /\ WorkAccounting'
<1> SUFFICES ASSUME AccountInv, [Next]_vars
             PROVE  QueueAccounting' /\ WorkAccounting'
  OBVIOUS
<1> USE DEF owned, ring, locals, shared
<1>0. TypeOK /\ Main \in Threads
  BY DEF AccountInv, Threads
<1>a. /\ work \in Nat /\ linked \in Nat /\ guards \in Nat /\ pending \in Nat
      /\ efd["queue"] \in Nat /\ Linking \in Nat /\ Signalling \in Nat
      /\ InUse \in Nat /\ Popped \in Nat
      /\ QueueBalance /\ WorkBalance
  BY <1>0, TermsAreNatural, BalancesAreAccounts DEF AccountInv
<1>b. pc' = pc => Popped' = Popped
  BY DEF Popped
<1>c. busy' = busy => InUse' = InUse
  BY DEF InUse
<1>1. ASSUME NEW t \in Threads, WorkStarted(t) PROVE QueueBalance' /\ WorkBalance'
  BY <1>0, <1>1, <1>a, <1>b, <1>c, CallTerms
     DEF WorkStarted, QueueBalance, WorkBalance
<1>2. ASSUME NEW t \in Threads, WorkFinished(t) PROVE QueueBalance' /\ WorkBalance'
  <2>1. call[t] = "none" /\ FinishWork(t)
    BY <1>2 DEF WorkFinished, CanCall, MainReady
  <2> QED
    BY <1>0, <1>2, <1>a, <1>b, <1>c, <2>1, FinishWorkTerms
       DEF WorkFinished, QueueBalance, WorkBalance
<1>3. ASSUME NEW t \in Threads, SignalZero(t) PROVE QueueBalance' /\ WorkBalance'
  <2>0. "none" \in Calls /\ Moves(t, "none")
    BY <1>3 DEF SignalZero, Moves, Calls
  <2>1. Linking' = Linking /\ Signalling' = Signalling
    BY <1>0, <1>3, <2>0, <1>a, CallTerms DEF SignalZero
  <2>2. efd'["queue"] = efd["queue"]
    BY <1>0, <1>3 DEF SignalZero, TypeOK, Events
  <2> QED
    BY <1>3, <1>a, <1>b, <1>c, <2>1, <2>2 DEF SignalZero, QueueBalance, WorkBalance
<1>4. ASSUME NEW t \in Threads, Post(t) PROVE QueueBalance' /\ WorkBalance'
  <2>0. "link" \in Calls /\ Moves(t, "link")
    BY <1>4 DEF Post, Moves, Calls
  <2>1. call[t] = "none"
    BY <1>4 DEF Post, CanCall, MainReady
  <2>2. Linking' = Linking + 1 /\ Signalling' = Signalling
    BY <1>0, <1>4, <2>0, <1>a, <2>1, CallTerms
  <2> QED
    BY <1>4, <1>a, <1>b, <1>c, <2>2 DEF Post, QueueBalance, WorkBalance
<1>5. ASSUME NEW t \in Threads, PostFails(t) PROVE QueueBalance' /\ WorkBalance'
  <2>1. call[t] = "link" /\ FinishWork(t)
    BY <1>5 DEF PostFails
  <2> QED
    BY <1>0, <1>5, <1>a, <1>b, <1>c, <2>1, FinishWorkTerms
       DEF PostFails, QueueBalance, WorkBalance
<1>6. ASSUME NEW t \in Threads, Link(t) PROVE QueueBalance' /\ WorkBalance'
  <2>0. "signal" \in Calls /\ Moves(t, "signal")
    BY <1>6 DEF Link, Moves, Calls
  <2>1. Linking' = Linking - 1 /\ Signalling' = Signalling + 1
    BY <1>0, <1>6, <2>0, <1>a, CallTerms DEF Link
  <2> QED
    BY <1>6, <1>a, <1>b, <1>c, <2>1 DEF Link, QueueBalance, WorkBalance
<1>7. ASSUME NEW t \in Threads, SignalQueue(t) PROVE QueueBalance' /\ WorkBalance'
  <2>0. "none" \in Calls /\ Moves(t, "none")
    BY <1>7 DEF SignalQueue, Moves, Calls
  <2>1. Linking' = Linking /\ Signalling' = Signalling - 1
    BY <1>0, <1>7, <2>0, <1>a, CallTerms DEF SignalQueue
  <2>2. efd'["queue"] = efd["queue"] + 1
    BY <1>0, <1>7 DEF SignalQueue, TypeOK, Events
  <2> QED
    BY <1>7, <1>a, <1>b, <1>c, <2>1, <2>2 DEF SignalQueue, QueueBalance, WorkBalance
<1>8. ASSUME NEW t \in Threads, Stop(t) PROVE QueueBalance' /\ WorkBalance'
  <2>0. "stop" \in Calls /\ Moves(t, "stop")
    BY <1>8 DEF Stop, Moves, Calls
  <2>1. call[t] = "none"
    BY <1>8 DEF Stop, CanCall, MainReady
  <2>2. Linking' = Linking /\ Signalling' = Signalling
    BY <1>0, <1>8, <2>0, <1>a, <2>1, CallTerms
  <2> QED
    BY <1>8, <1>a, <1>b, <1>c, <2>2 DEF Stop, QueueBalance, WorkBalance
<1>9. ASSUME NEW t \in Threads, SignalStop(t) PROVE QueueBalance' /\ WorkBalance'
  <2>0. "none" \in Calls /\ Moves(t, "none")
    BY <1>9 DEF SignalStop, Moves, Calls
  <2>1. Linking' = Linking /\ Signalling' = Signalling
    BY <1>0, <1>9, <2>0, <1>a, CallTerms DEF SignalStop
  <2>2. efd'["queue"] = efd["queue"]
    BY <1>0, <1>9 DEF SignalStop, TypeOK, Events
  <2> QED
    BY <1>9, <1>a, <1>b, <1>c, <2>1, <2>2 DEF SignalStop, QueueBalance, WorkBalance
<1>10. ASSUME NEW o \in Ops, Initiate(o) PROVE QueueBalance' /\ WorkBalance'
  <2>1. InUse' = InUse + 1
    BY <1>0, <1>10, FiniteCounts, FS_AddElement DEF Initiate, InUse
  <2> QED
    BY <1>0, <1>10, <1>a, <1>b, <2>1, CallTerms
       DEF Initiate, QueueBalance, WorkBalance
<1>11. ASSUME InitiateFails PROVE QueueBalance' /\ WorkBalance'
  <2>1. PICK o \in busy : submitting = {o}
    BY <1>11 DEF InitiateFails, AccountInv, CallerInv
  <2>2. InUse' = InUse - 1
    BY <1>0, <1>11, <2>1, FiniteCounts, FS_RemoveElement DEF InitiateFails, InUse
  <2>3. call[Main] = "none" /\ FinishWork(Main)
    BY <1>11 DEF InitiateFails, AccountInv, CallerInv
  <2> QED
    BY <1>0, <1>11, <1>a, <1>b, <2>2, <2>3, FinishWorkTerms
       DEF InitiateFails, QueueBalance, WorkBalance
<1>12. ASSUME Release PROVE QueueBalance' /\ WorkBalance'
  <2>1. InUse' = InUse - 1
    BY <1>0, <1>12, FiniteCounts, FS_RemoveElement DEF Release, InUse
  <2>2. call[Main] \in {"none", "zero"} /\ FinishWork(Main)
    BY <1>12 DEF Release, AccountInv, CallerInv
  <2> QED
    BY <1>0, <1>12, <1>a, <1>b, <2>1, <2>2, FinishWorkTerms
       DEF Release, QueueBalance, WorkBalance
<1>13. ASSUME Pop PROVE QueueBalance' /\ WorkBalance'
  <2>1. Popped = 0 /\ Popped' = 1
    BY <1>13 DEF Pop, Popped
  <2> QED
    BY <1>0, <1>13, <1>a, <1>c, <2>1, CallTerms DEF Pop, QueueBalance, WorkBalance
<1>14. ASSUME FinishBeforeRun PROVE QueueBalance' /\ WorkBalance'
  <2>1. Popped = 1 /\ Popped' = 0
    BY <1>14 DEF FinishBeforeRun, Popped
  <2> QED
    BY <1>0, <1>14, <1>a, <1>c, <2>1, CallTerms
       DEF FinishBeforeRun, QueueBalance, WorkBalance
<1>15. ASSUME HandleQueue PROVE QueueBalance' /\ WorkBalance'
  <2>1. Popped = 0 /\ Popped' = 0
    BY <1>15 DEF HandleQueue, ReadEvent, Popped
  <2>2. efd'["queue"] = 0
    BY <1>0, <1>15 DEF HandleQueue, ReadEvent, TypeOK, Events
  <2> QED
    BY <1>0, <1>15, <1>a, <1>c, <2>1, <2>2, CallTerms
       DEF HandleQueue, ReadEvent, QueueBalance, WorkBalance
<1>16. CASE Submit \/ Restart \/ RestartArms \/ RestartEnds
  BY <1>0, <1>16, AccountsFrame DEF Submit, Restart, RestartArms, RestartEnds
<1>17. CASE (\E m \in EntryPoints : Enter(m)) \/ CheckWork \/ Drained
  BY <1>0, <1>17, AccountsFrame
     DEF Enter, CheckWork, Drained, Return, Goto, ServiceQueue
<1>18. CASE HandlerEnds \/ Released
  BY <1>0, <1>18, AccountsFrame
     DEF HandlerEnds, HandlerReturns, HandlerThrows, Released, Return, Throw, Goto,
         NextIteration, ServiceQueue
<1>19. CASE TakeCqe \/ NothingReady \/ WaitFails
  BY <1>0, <1>19, AccountsFrame
     DEF TakeCqe, NothingReady, WaitFails, Return, Throw
<1>20. CASE HandleStop \/ HandleZero
  BY <1>0, <1>20, AccountsFrame DEF HandleStop, HandleZero, ReadEvent, TypeOK, Events
<1>21. CASE DecideStop \/ DecideZero \/ Rearm
  BY <1>0, <1>21, AccountsFrame
     DEF DecideStop, DecideZero, Rearm, Return, Throw, Goto, NextIteration,
         ServiceQueue
<1>22. CASE \/ \E e \in Events : PollFires(e)
            \/ \E o \in Ops : OpCompletes(o)
  BY <1>0, <1>22, AccountsFrame DEF PollFires, OpCompletes
<1>23. CASE UNCHANGED vars
  BY <1>0, <1>23, AccountsFrame DEF vars
<1> QED
  BY <1>1, <1>2, <1>3, <1>4, <1>5, <1>6, <1>7, <1>8, <1>9, <1>10, <1>11, <1>12,
     <1>13, <1>14, <1>15, <1>16, <1>17, <1>18, <1>19, <1>20, <1>21, <1>22, <1>23,
     BalancesAreAccounts
     DEF Next, StartCall, FinishCall, RunStep

-----------------------------------------------------------------------------
(* Where the running thread is agrees with what it has left to consume,    *)
(* with what it reports as done and with the calls it makes.               *)
LEMMA ControlStep ==
  AccountInv /\ [Next]_vars => CallerInv' /\ BatchInv' /\ DoneInv'
<1> SUFFICES ASSUME AccountInv, [Next]_vars
             PROVE  CallerInv' /\ BatchInv' /\ DoneInv'
  OBVIOUS
<1> USE DEF owned, ring, locals, shared, CallerInv, BatchInv, DoneInv, CanCall,
            MainReady
<1>0. /\ "loop" \notin Ops /\ "queue" \notin Ops
      /\ TypeOK /\ CallerInv /\ BatchInv /\ DoneInv /\ Main \in Threads
      /\ batch \in Nat /\ pending \in Nat /\ efd["queue"] \in Nat
      /\ call \in [Threads -> Calls]
  BY UserDataAssumption DEF AccountInv, TypeOK, Threads, Events
<1>1. ASSUME NEW t \in Threads, WorkStarted(t)
      PROVE  CallerInv' /\ BatchInv' /\ DoneInv'
  BY <1>0, <1>1 DEF WorkStarted
<1>2. ASSUME NEW t \in Threads, WorkFinished(t)
      PROVE  CallerInv' /\ BatchInv' /\ DoneInv'
  BY <1>0, <1>2 DEF WorkFinished, FinishWork
<1>3. ASSUME NEW t \in Threads, SignalZero(t)
      PROVE  CallerInv' /\ BatchInv' /\ DoneInv'
  BY <1>0, <1>3 DEF SignalZero
<1>4. ASSUME NEW t \in Threads, Post(t)
      PROVE  CallerInv' /\ BatchInv' /\ DoneInv'
  BY <1>0, <1>4 DEF Post
<1>5. ASSUME NEW t \in Threads, PostFails(t)
      PROVE  CallerInv' /\ BatchInv' /\ DoneInv'
  BY <1>0, <1>5 DEF PostFails, FinishWork
<1>6. ASSUME NEW t \in Threads, Link(t)
      PROVE  CallerInv' /\ BatchInv' /\ DoneInv'
  BY <1>0, <1>6 DEF Link
<1>7. ASSUME NEW t \in Threads, SignalQueue(t)
      PROVE  CallerInv' /\ BatchInv' /\ DoneInv'
  BY <1>0, <1>7 DEF SignalQueue
<1>8. ASSUME NEW t \in Threads, Stop(t)
      PROVE  CallerInv' /\ BatchInv' /\ DoneInv'
  BY <1>0, <1>8 DEF Stop
<1>9. ASSUME NEW t \in Threads, SignalStop(t)
      PROVE  CallerInv' /\ BatchInv' /\ DoneInv'
  BY <1>0, <1>9 DEF SignalStop
<1>10. ASSUME NEW o \in Ops, Initiate(o)
       PROVE  CallerInv' /\ BatchInv' /\ DoneInv'
  BY <1>0, <1>10 DEF Initiate
<1>11. CASE Submit
  BY <1>0, <1>11 DEF Submit
<1>12. CASE InitiateFails
  BY <1>0, <1>12 DEF InitiateFails, FinishWork
<1>13. CASE Restart
  BY <1>0, <1>13 DEF Restart
<1>14. CASE RestartArms
  BY <1>0, <1>14 DEF RestartArms
<1>15. CASE RestartEnds
  BY <1>0, <1>15 DEF RestartEnds
<1>16. ASSUME NEW m \in EntryPoints, Enter(m)
       PROVE  CallerInv' /\ BatchInv' /\ DoneInv'
  BY <1>0, <1>16 DEF Enter, Return, LocalsDie
<1>17. CASE CheckWork
  BY <1>0, <1>17 DEF CheckWork, Return, LocalsDie, Goto, ServiceQueue
<1>18. CASE Pop
  BY <1>0, <1>18 DEF Pop
<1>19. CASE FinishBeforeRun
  <2>1. work = 1 => pending = 0
    BY <1>0, <1>19, TermsAreNatural, BalancesAreAccounts
       DEF FinishBeforeRun, AccountInv, QueueBalance, WorkBalance, Popped
  <2>2. ~done
    BY <1>0, <1>19 DEF FinishBeforeRun
  <2>3. done' => work = 1
    BY <1>19, <2>2 DEF FinishBeforeRun
  <2>4. DoneInv'
    BY <1>0, <1>19, <2>1, <2>3 DEF FinishBeforeRun
  <2> QED
    BY <1>0, <1>19, <2>4 DEF FinishBeforeRun
<1>20. CASE Drained
  BY <1>0, <1>20 DEF Drained, Return, LocalsDie, Goto
<1>21. CASE HandlerReturns
  BY <1>0, <1>21 DEF HandlerReturns
<1>22. CASE HandlerThrows
  BY <1>0, <1>22 DEF HandlerThrows, Throw, LocalsDie, Goto
<1>23. CASE Release
  BY <1>0, <1>23 DEF Release, FinishWork
<1>24. CASE Released
  BY <1>0, <1>24
     DEF Released, Throw, Return, LocalsDie, NextIteration, ServiceQueue
<1>25. CASE TakeCqe
  <2>1. item' \in Events \cup Ops
    BY <1>0, <1>25 DEF TakeCqe, TypeOK
  <2>2. item' # "loop"
    BY <2>1, UserDataAssumption DEF Events
  <2> QED
    BY <1>0, <1>25, <2>2 DEF TakeCqe
<1>26. CASE NothingReady
  BY <1>0, <1>26 DEF NothingReady, Return, LocalsDie
<1>27. CASE WaitFails
  BY <1>0, <1>27 DEF WaitFails, Throw, LocalsDie
<1>28. CASE HandleQueue
  BY <1>0, <1>28 DEF HandleQueue, ReadEvent, Events
<1>29. CASE HandleStop
  BY <1>0, <1>29 DEF HandleStop, ReadEvent
<1>30. CASE HandleZero
  BY <1>0, <1>30 DEF HandleZero, ReadEvent
<1>31. CASE DecideStop
  BY <1>0, <1>31 DEF DecideStop, Return, LocalsDie, Goto
<1>32. CASE DecideZero
  BY <1>0, <1>32 DEF DecideZero, Return, LocalsDie, Goto
<1>33. CASE Rearm
  BY <1>0, <1>33
     DEF Rearm, Throw, Return, LocalsDie, NextIteration, ServiceQueue
<1>34. ASSUME NEW e \in Events, PollFires(e)
       PROVE  CallerInv' /\ BatchInv' /\ DoneInv'
  BY <1>0, <1>34 DEF PollFires
<1>35. ASSUME NEW o \in Ops, OpCompletes(o)
       PROVE  CallerInv' /\ BatchInv' /\ DoneInv'
  BY <1>0, <1>35 DEF OpCompletes
<1>36. CASE UNCHANGED vars
  BY <1>0, <1>36 DEF vars
<1> QED
  BY <1>1, <1>2, <1>3, <1>4, <1>5, <1>6, <1>7, <1>8, <1>9, <1>10, <1>11,
     <1>12, <1>13, <1>14, <1>15, <1>16, <1>17, <1>18, <1>19, <1>20, <1>21,
     <1>22, <1>23, <1>24, <1>25, <1>26, <1>27, <1>28, <1>29, <1>30, <1>31,
     <1>32, <1>33, <1>34, <1>35, <1>36
     DEF Next, StartCall, FinishCall, RunStep, HandlerEnds

LEMMA AccountStep == AccountInv /\ [Next]_vars => AccountInv'
BY TypeStep, AccountsStep, ControlStep DEF AccountInv

(* The inductive invariant of the accounts. *)
LEMMA AccountsAlways == Spec => []AccountInv
<1> QED
  BY AccountInit, AccountStep, PTL DEF Spec

(* Every variable keeps its type.  In particular none of the counters that *)
(* the code decrements, work_, pending_ and the length of the queue, ever  *)
(* goes below zero.                                                        *)
THEOREM TypeCorrect == Spec => []TypeOK
<1>1. AccountInv => TypeOK
  BY DEF AccountInv
<1> QED
  BY <1>1, AccountsAlways, PTL

(* Every function in the queue is announced exactly once, with any number  *)
(* of producers: the precondition of consume.                              *)
THEOREM QueueAccounted == Spec => []QueueAccounting
<1>1. AccountInv => QueueAccounting
  BY DEF AccountInv
<1> QED
  BY <1>1, AccountsAlways, PTL

(* work_ counts exactly the functions posted, the guards and the           *)
(* operations in use.                                                      *)
THEOREM WorkAccounted == Spec => []WorkAccounting
<1>1. AccountInv => WorkAccounting
  BY DEF AccountInv
<1> QED
  BY <1>1, AccountsAlways, PTL

(* No consume loop asks for more functions than were announced, and when   *)
(* service_queue reports that the work has run out nothing that was        *)
(* announced is left unconsumed.                                           *)
THEOREM AssertionsHold == Spec => []Assertions
<1>1. AccountInv => DrainWithinPending
  BY DEF AccountInv, BatchInv, DrainWithinPending
<1>2. AccountInv => DoneMeansDrained
  BY DEF AccountInv, DoneInv, DoneMeansDrained
<1>3. AccountInv => Assertions
  BY <1>1, <1>2 DEF Assertions
<1> QED
  BY <1>3, AccountsAlways, PTL

-----------------------------------------------------------------------------
(* A thread about to write stop_ or zero_ goes on to do so, and only the   *)
(* running thread's read, which is followed by a look at the state that    *)
(* the event is about, takes the signal back.                              *)
LEMMA SignalInit == Init => SignalInv
BY DEF Init, SignalInv, NoLostStop, NoLostZero, Running, Looping

LEMMA SignalStep ==
  AccountInv /\ AccountInv' /\ SignalInv /\ [Next]_vars => SignalInv'
<1> SUFFICES ASSUME AccountInv, AccountInv', SignalInv, [Next]_vars
             PROVE  NoLostStop' /\ NoLostZero'
  BY DEF SignalInv
<1> USE DEF owned, ring, locals, shared, NoLostStop, NoLostZero, Running, Looping,
            InState, CanCall, MainReady
<1>0. /\ NoLostStop /\ NoLostZero /\ Main \in Threads
      /\ call \in [Threads -> Calls] /\ efd \in [Events -> Nat] /\ work \in Nat
      /\ CallerInv /\ BatchInv /\ DoneInv /\ work' \in Nat
      /\ "queue" \in Events /\ "stop" \in Events /\ "zero" \in Events
  BY DEF AccountInv, SignalInv, TypeOK, Threads, Events
<1>1. ASSUME NEW t \in Threads, WorkStarted(t) PROVE NoLostStop' /\ NoLostZero'
  BY <1>0, <1>1 DEF WorkStarted
<1>2. ASSUME NEW t \in Threads, WorkFinished(t)
      PROVE  NoLostStop' /\ NoLostZero'
  BY <1>0, <1>2 DEF WorkFinished, FinishWork
<1>3. ASSUME NEW t \in Threads, SignalZero(t) PROVE NoLostStop' /\ NoLostZero'
  BY <1>0, <1>3 DEF SignalZero
<1>4. ASSUME NEW t \in Threads, Post(t) PROVE NoLostStop' /\ NoLostZero'
  BY <1>0, <1>4 DEF Post
<1>5. ASSUME NEW t \in Threads, PostFails(t) PROVE NoLostStop' /\ NoLostZero'
  BY <1>0, <1>5 DEF PostFails, FinishWork
<1>6. ASSUME NEW t \in Threads, Link(t) PROVE NoLostStop' /\ NoLostZero'
  BY <1>0, <1>6 DEF Link
<1>7. ASSUME NEW t \in Threads, SignalQueue(t) PROVE NoLostStop' /\ NoLostZero'
  BY <1>0, <1>7 DEF SignalQueue
<1>8. ASSUME NEW t \in Threads, Stop(t) PROVE NoLostStop' /\ NoLostZero'
  BY <1>0, <1>8 DEF Stop
<1>9. ASSUME NEW t \in Threads, SignalStop(t) PROVE NoLostStop' /\ NoLostZero'
  BY <1>0, <1>9 DEF SignalStop
<1>10. ASSUME NEW o \in Ops, Initiate(o) PROVE NoLostStop' /\ NoLostZero'
  BY <1>0, <1>10 DEF Initiate, CallerInv
<1>11. CASE Submit
  BY <1>0, <1>11 DEF Submit
<1>12. CASE InitiateFails
  BY <1>0, <1>12 DEF InitiateFails, FinishWork, CallerInv
<1>13. CASE Restart
  BY <1>0, <1>13 DEF Restart
<1>14. CASE RestartArms
  BY <1>0, <1>14 DEF RestartArms
<1>15. CASE RestartEnds
  BY <1>0, <1>15 DEF RestartEnds
<1>16. ASSUME NEW m \in EntryPoints, Enter(m) PROVE NoLostStop' /\ NoLostZero'
  BY <1>0, <1>16 DEF Enter, Return, LocalsDie
<1>17. CASE CheckWork
  BY <1>0, <1>17 DEF CheckWork, Return, LocalsDie, Goto, ServiceQueue
<1>18. CASE Pop
  BY <1>0, <1>18 DEF Pop, BatchInv, DoneInv
<1>19. CASE FinishBeforeRun
  <2>1. work = 1 => done'
    BY <1>19 DEF FinishBeforeRun
  <2>2. work' = 0 => work = 1
    BY <1>0, <1>19 DEF FinishBeforeRun
  <2> QED
    BY <1>0, <1>19, <2>1, <2>2 DEF FinishBeforeRun
<1>20. CASE Drained
  BY <1>0, <1>20 DEF Drained, Return, LocalsDie, Goto, BatchInv, DoneInv
<1>21. CASE HandlerReturns
  BY <1>0, <1>21 DEF HandlerReturns, BatchInv, DoneInv
<1>22. CASE HandlerThrows
  BY <1>0, <1>22 DEF HandlerThrows, Throw, LocalsDie, Goto, BatchInv, DoneInv
<1>23. CASE Release
  BY <1>0, <1>23 DEF Release, FinishWork, CallerInv
<1>24. CASE Released
  BY <1>0, <1>24
     DEF Released, Throw, Return, LocalsDie, NextIteration, ServiceQueue,
         BatchInv, DoneInv
<1>25. CASE TakeCqe
  BY <1>0, <1>25 DEF TakeCqe, BatchInv, DoneInv
<1>26. CASE NothingReady
  BY <1>0, <1>26 DEF NothingReady, Return, LocalsDie
<1>27. CASE WaitFails
  BY <1>0, <1>27 DEF WaitFails, Throw, LocalsDie
<1>28. CASE HandleQueue
  BY <1>0, <1>28 DEF HandleQueue, ReadEvent, BatchInv, DoneInv
<1>29. CASE HandleStop
  BY <1>0, <1>29 DEF HandleStop, ReadEvent, BatchInv, DoneInv
<1>30. CASE HandleZero
  BY <1>0, <1>30 DEF HandleZero, ReadEvent, BatchInv, DoneInv
<1>31. CASE DecideStop
  BY <1>0, <1>31 DEF DecideStop, Return, LocalsDie, Goto
<1>32. CASE DecideZero
  BY <1>0, <1>32 DEF DecideZero, Return, LocalsDie, Goto
<1>33. CASE Rearm
  BY <1>0, <1>33
     DEF Rearm, Throw, Return, LocalsDie, NextIteration, ServiceQueue,
         BatchInv, DoneInv
<1>34. ASSUME NEW e \in Events, PollFires(e) PROVE NoLostStop' /\ NoLostZero'
  BY <1>0, <1>34 DEF PollFires
<1>35. ASSUME NEW o \in Ops, OpCompletes(o) PROVE NoLostStop' /\ NoLostZero'
  BY <1>0, <1>35 DEF OpCompletes
<1>36. CASE UNCHANGED vars
  BY <1>0, <1>36 DEF vars
<1> QED
  BY <1>1, <1>2, <1>3, <1>4, <1>5, <1>6, <1>7, <1>8, <1>9, <1>10, <1>11,
     <1>12, <1>13, <1>14, <1>15, <1>16, <1>17, <1>18, <1>19, <1>20, <1>21,
     <1>22, <1>23, <1>24, <1>25, <1>26, <1>27, <1>28, <1>29, <1>30, <1>31,
     <1>32, <1>33, <1>34, <1>35, <1>36
     DEF Next, StartCall, FinishCall, RunStep, HandlerEnds

LEMMA SignalsAlways == Spec => [](AccountInv /\ SignalInv)
<1>1. AccountInv /\ SignalInv /\ [Next]_vars => (AccountInv /\ SignalInv)'
  BY AccountStep, SignalStep
<1> QED
  BY AccountInit, SignalInit, <1>1, PTL DEF Spec

(* A stop() that lands during a call is never forgotten, with any number   *)
(* of threads stopping, posting and finishing work at once.                *)
THEOREM StopNotLost == Spec => []NoLostStop
<1>1. SignalInv => NoLostStop
  BY DEF SignalInv
<1> QED
  BY <1>1, SignalsAlways, PTL

(* The work cannot run out during a call unnoticed.                        *)
THEOREM ZeroNotLost == Spec => []NoLostZero
<1>1. SignalInv => NoLostZero
  BY DEF SignalInv
<1> QED
  BY <1>1, SignalsAlways, PTL

-----------------------------------------------------------------------------
(***************************************************************************)
(* The context uses its queue as CountedQueue allows.  What the steps do   *)
(* to the four numbers that the abstract queue sees is one of these.       *)
(***************************************************************************)
Puts ==
  /\ linked' = linked + 1 /\ Signalling' = Signalling + 1
  /\ efd'["queue"] = efd["queue"] /\ pending' = pending

Announces ==
  /\ Signalling > 0 /\ Signalling' = Signalling - 1
  /\ efd'["queue"] = efd["queue"] + 1
  /\ linked' = linked /\ pending' = pending

Collects ==
  /\ efd["queue"] > 0 /\ efd'["queue"] = 0
  /\ pending' = pending + efd["queue"]
  /\ linked' = linked /\ Signalling' = Signalling

Takes ==
  /\ linked > 0 /\ linked' = linked - 1
  /\ pending > 0 /\ pending' = pending - 1
  /\ Signalling' = Signalling /\ efd'["queue"] = efd["queue"]

Rests ==
  /\ linked' = linked /\ pending' = pending
  /\ Signalling' = Signalling /\ efd'["queue"] = efd["queue"]

(* The queue's contents are as many equal values as functions are linked.  *)
LEMMA FunctionsInQueue ==
  ASSUME NEW n \in Nat
  PROVE  LET items == [i \in 1..n |-> "function"]
         IN  /\ items \in Seq({"function"})
             /\ Append(items, "function") = [i \in 1..(n + 1) |-> "function"]
             /\ n > 0 => /\ Head(items) = "function"
                         /\ Tail(items) = [i \in 1..(n - 1) |-> "function"]
<1> DEFINE items == [i \in 1..n |-> "function"]
<1>1. items \in Seq({"function"}) /\ Len(items) = n
  OBVIOUS
<1>2. Append(items, "function") = [i \in 1..(n + 1) |-> "function"]
  <2>1. Append(items, "function")
          = [i \in 1..(n + 1) |-> IF i \in 1..n THEN items[i] ELSE "function"]
    BY <1>1
  <2> QED
    BY <2>1
<1>3. ASSUME n > 0
      PROVE  Head(items) = "function" /\ Tail(items) = [i \in 1..(n - 1) |-> "function"]
  <2>1. items # <<>>
    BY <1>1, <1>3
  <2>2. Head(items) = items[1]
    BY <1>1, <2>1
  <2>3. Tail(items) = [i \in 1..(n - 1) |-> items[i + 1]]
    BY <1>1, <2>1
  <2> QED
    BY <1>3, <2>2, <2>3
<1> QED
  BY <1>1, <1>2, <1>3

LEMMA QueueMoves ==
  ASSUME linked \in Nat, Puts \/ Announces \/ Collects \/ Takes \/ Rests
  PROVE  [Queue!Next]_(Queue!queueVars)
<1> USE DEF Queue!queueVars, Queue!Next, Signalling
<1>1. CASE Puts
  <2>1. Queue!Put("function")
    BY <1>1, FunctionsInQueue DEF Puts, Queue!Put
  <2> QED
    BY <2>1
<1>2. CASE Announces
  BY <1>2 DEF Announces, Queue!Announce
<1>3. CASE Collects
  BY <1>3 DEF Collects, Queue!Collect
<1>4. CASE Takes
  BY <1>4, FunctionsInQueue DEF Takes, Queue!Take
<1>5. CASE Rests
  BY <1>5 DEF Rests
<1> QED
  BY <1>1, <1>2, <1>3, <1>4, <1>5

LEMMA QueueStep ==
  AccountInv /\ [Next]_vars => [Queue!Next]_(Queue!queueVars)
<1> SUFFICES ASSUME AccountInv, [Next]_vars
             PROVE  Puts \/ Announces \/ Collects \/ Takes \/ Rests
  BY QueueMoves DEF AccountInv, TypeOK
<1> USE DEF owned, ring, locals, shared
<1>0. TypeOK /\ Main \in Threads
  BY DEF AccountInv, Threads
<1>a. /\ linked \in Nat /\ pending \in Nat /\ efd["queue"] \in Nat
      /\ Signalling \in Nat /\ efd \in [Events -> Nat]
      /\ {"queue", "stop", "zero"} = Events
  BY <1>0, TermsAreNatural DEF TypeOK, Events
(* The steps that leave the calls, the queue and its eventfd alone.        *)
<1>b. UNCHANGED <<linked, pending, call, efd>> => Rests
  BY <1>0, CallTerms DEF Rests
<1>1. ASSUME NEW t \in Threads, WorkStarted(t) PROVE Rests
  BY <1>1, <1>b DEF WorkStarted
<1>2. ASSUME NEW t \in Threads, WorkFinished(t) PROVE Rests
  <2>1. call[t] = "none" /\ FinishWork(t)
    BY <1>2 DEF WorkFinished, CanCall, MainReady
  <2> QED
    BY <1>0, <1>a, <1>2, <2>1, FinishWorkTerms DEF WorkFinished, Rests
<1>3. ASSUME NEW t \in Threads, SignalZero(t) PROVE Rests
  <2>1. "none" \in Calls /\ Moves(t, "none")
    BY <1>3 DEF SignalZero, Moves, Calls
  <2> QED
    BY <1>0, <1>a, <1>3, <2>1, CallTerms DEF SignalZero, Rests
<1>4. ASSUME NEW t \in Threads, Post(t) PROVE Rests
  <2>1. call[t] = "none"
    BY <1>4 DEF Post, CanCall, MainReady
  <2>2. "link" \in Calls /\ Moves(t, "link")
    BY <1>4 DEF Post, Moves, Calls
  <2> QED
    BY <1>0, <1>a, <1>4, <2>1, <2>2, CallTerms DEF Post, Rests
<1>5. ASSUME NEW t \in Threads, PostFails(t) PROVE Rests
  <2>1. call[t] = "link" /\ FinishWork(t)
    BY <1>5 DEF PostFails
  <2> QED
    BY <1>0, <1>a, <1>5, <2>1, FinishWorkTerms DEF PostFails, Rests
<1>6. ASSUME NEW t \in Threads, Link(t) PROVE Puts
  <2>1. "signal" \in Calls /\ Moves(t, "signal")
    BY <1>6 DEF Link, Moves, Calls
  <2> QED
    BY <1>0, <1>a, <1>6, <2>1, CallTerms DEF Link, Puts
<1>7. ASSUME NEW t \in Threads, SignalQueue(t) PROVE Announces
  <2>1. "none" \in Calls /\ Moves(t, "none")
    BY <1>7 DEF SignalQueue, Moves, Calls
  <2>2. Signalling > 0
    BY <1>0, <1>a, <1>7, Counted DEF SignalQueue, Signalling
  <2> QED
    BY <1>0, <1>a, <1>7, <2>1, <2>2, CallTerms DEF SignalQueue, Announces
<1>8. ASSUME NEW t \in Threads, Stop(t) PROVE Rests
  <2>1. call[t] = "none"
    BY <1>8 DEF Stop, CanCall, MainReady
  <2>2. "stop" \in Calls /\ Moves(t, "stop")
    BY <1>8 DEF Stop, Moves, Calls
  <2> QED
    BY <1>0, <1>a, <1>8, <2>1, <2>2, CallTerms DEF Stop, Rests
<1>9. ASSUME NEW t \in Threads, SignalStop(t) PROVE Rests
  <2>1. "none" \in Calls /\ Moves(t, "none")
    BY <1>9 DEF SignalStop, Moves, Calls
  <2> QED
    BY <1>0, <1>a, <1>9, <2>1, CallTerms DEF SignalStop, Rests
<1>10. ASSUME NEW o \in Ops, Initiate(o) PROVE Rests
  BY <1>10, <1>b DEF Initiate
<1>11. CASE Submit
  BY <1>11, <1>b DEF Submit
<1>12. CASE InitiateFails
  <2>1. call[Main] = "none" /\ FinishWork(Main)
    BY <1>12 DEF InitiateFails, AccountInv, CallerInv
  <2> QED
    BY <1>0, <1>a, <1>12, <2>1, FinishWorkTerms DEF InitiateFails, Rests
<1>13. CASE Restart
  BY <1>13, <1>b DEF Restart
<1>14. CASE RestartArms
  BY <1>14, <1>b DEF RestartArms
<1>15. CASE RestartEnds
  BY <1>15, <1>b DEF RestartEnds
<1>16. ASSUME NEW m \in EntryPoints, Enter(m) PROVE Rests
  BY <1>16, <1>b DEF Enter
<1>17. CASE CheckWork
  BY <1>17, <1>b DEF CheckWork
<1>18. CASE Pop
  <2>1. pending > 0
    BY <1>a, <1>18 DEF Pop, AccountInv, TypeOK, BatchInv
  <2>2. Signalling' = Signalling
    BY <1>0, <1>18, CallTerms DEF Pop
  <2> QED
    BY <1>a, <1>18, <2>1, <2>2 DEF Pop, Takes
<1>19. CASE FinishBeforeRun
  BY <1>19, <1>b DEF FinishBeforeRun
<1>20. CASE Drained
  BY <1>20, <1>b DEF Drained
<1>21. CASE HandlerReturns
  BY <1>21, <1>b DEF HandlerReturns
<1>22. CASE HandlerThrows
  BY <1>22, <1>b DEF HandlerThrows
<1>23. CASE Release
  <2>1. FinishWork(Main) /\ call[Main] # "signal"
    BY <1>23 DEF Release, AccountInv, CallerInv
  <2> QED
    BY <1>0, <1>a, <1>23, <2>1, FinishWorkTerms DEF Release, Rests
<1>24. CASE Released
  BY <1>24, <1>b DEF Released
<1>25. CASE TakeCqe
  BY <1>25, <1>b DEF TakeCqe
<1>26. CASE NothingReady
  BY <1>26, <1>b DEF NothingReady
<1>27. CASE WaitFails
  BY <1>27, <1>b DEF WaitFails
<1>28. CASE HandleQueue
  <2>1. Signalling' = Signalling
    BY <1>0, <1>28, CallTerms DEF HandleQueue, ReadEvent
  <2> QED
    BY <1>a, <1>28, <2>1 DEF HandleQueue, ReadEvent, Collects
<1>29. CASE HandleStop
  <2>1. Signalling' = Signalling
    BY <1>0, <1>29, CallTerms DEF HandleStop, ReadEvent
  <2> QED
    BY <1>a, <1>29, <2>1 DEF HandleStop, ReadEvent, Rests
<1>30. CASE HandleZero
  <2>1. Signalling' = Signalling
    BY <1>0, <1>30, CallTerms DEF HandleZero, ReadEvent
  <2> QED
    BY <1>a, <1>30, <2>1 DEF HandleZero, ReadEvent, Rests
<1>31. CASE DecideStop
  BY <1>31, <1>b DEF DecideStop
<1>32. CASE DecideZero
  BY <1>32, <1>b DEF DecideZero
<1>33. CASE Rearm
  BY <1>33, <1>b DEF Rearm
<1>34. ASSUME NEW e \in Events, PollFires(e) PROVE Rests
  BY <1>34, <1>b DEF PollFires
<1>35. ASSUME NEW o \in Ops, OpCompletes(o) PROVE Rests
  BY <1>35, <1>b DEF OpCompletes
<1>36. CASE UNCHANGED vars
  BY <1>36, <1>b DEF vars
<1> QED
    BY <1>1, <1>2, <1>3, <1>4, <1>5, <1>6, <1>7, <1>8, <1>9, <1>10, <1>11,
     <1>12, <1>13, <1>14, <1>15, <1>16, <1>17, <1>18, <1>19, <1>20, <1>21,
     <1>22, <1>23, <1>24, <1>25, <1>26, <1>27, <1>28, <1>29, <1>30, <1>31,
     <1>32, <1>33, <1>34, <1>35, <1>36
     DEF Next, StartCall, FinishCall, RunStep, HandlerEnds

(* The context implements the abstract queue: every step of a producer or  *)
(* of the running thread is a step of CountedQueue or leaves it alone, so  *)
(* that what CountedQueue guarantees its consumer holds for the context.   *)
THEOREM UsesQueueAsAllowed == Spec => UsesCountedQueue
<1>1. Init => Queue!Init
  <2>1. ASSUME Init PROVE Cardinality(InState("signal")) = 0
    <3>1. InState("signal") = {}
      BY <2>1 DEF Init, InState
    <3> QED
      BY <3>1, FS_EmptySet
  <2>2. ASSUME Init PROVE [i \in 1..linked |-> "function"] = <<>>
    BY <2>2 DEF Init
  <2> QED
    BY <2>1, <2>2 DEF Init, Queue!Init, Events
<1> QED
  BY <1>1, QueueStep, AccountsAlways, PTL DEF Spec, UsesCountedQueue, Queue!Spec

-----------------------------------------------------------------------------
(***************************************************************************)
(* The one-shot polls: where the poll of each event is (PollInv), and that *)
(* the running thread waits with all of them armed (WatchInv).             *)
(***************************************************************************)

(* An event's flag is clear only outside of a call, or while its own cqe   *)
(* is being handled, and then it is until the poll is armed again.         *)
AfterRead == {"drain", "popped", "handler", "stopRead", "zeroRead", "rearm"}
WatchInv ==
  /\ \A e \in Events :
       started[e] \/ pc \in {"idle", "restart", "unwind"} \/ (item = e /\ pc \in AfterRead)
  /\ \A e \in Events : item = e /\ pc \in AfterRead => ~started[e]
  /\ pc \in {"drain", "popped"} => item \in {"loop", "queue"}
  /\ pc = "handler" => item \in {"loop", "queue"} \cup Ops
  /\ pc \in {"release", "unwind"} => item \in Ops
  /\ pc \in {"event", "rearm"} => item \in Events
  /\ pc = "stopRead" => item = "stop"
  /\ pc = "zeroRead" => item = "zero"

(* The completion queue has a cqe of e, and none has two.                  *)
Queued(e) == \E i \in 1..Len(cq) : cq[i] = e
OneEntry == \A i, j \in 1..Len(cq) : cq[i] = cq[j] /\ cq[i] \in Events => i = j

(* The poll of e is in one place, which is no place while the flag of e is *)
(* clear; and nothing but the handling of its cqe clears the eventfd.      *)
EventInv(e) ==
  /\ sq[e] = 0 /\ polls[e] \in {0, 1}
  /\ started[e] <=> polls[e] = 1 \/ Queued(e) \/ Handling(e)
  /\ polls[e] = 1 => ~Queued(e) /\ ~Handling(e)
  /\ ~(Queued(e) /\ Handling(e))
  /\ Queued(e) \/ Handling(e) => efd[e] > 0

PollInv == failures = 0 => OneEntry /\ \A e \in Events : EventInv(e)

-----------------------------------------------------------------------------
LEMMA WatchStep == TypeOK /\ WatchInv /\ [Next]_vars => WatchInv'
<1> SUFFICES ASSUME TypeOK, WatchInv, [Next]_vars PROVE WatchInv'
  OBVIOUS
<1> USE UserDataAssumption
    DEF owned, ring, locals, shared, CanCall, MainReady, WatchInv, AfterRead
<1>0. /\ started \in [Events -> BOOLEAN] /\ item \in Items
      /\ cq \in Seq(Events \cup Ops)
      /\ Events = {"queue", "stop", "zero"}
  BY DEF TypeOK, Events
<1>1. ASSUME NEW t \in Threads, WorkStarted(t) PROVE WatchInv'
  BY <1>0, <1>1 DEF WorkStarted
<1>2. ASSUME NEW t \in Threads, WorkFinished(t) PROVE WatchInv'
  BY <1>0, <1>2 DEF WorkFinished, FinishWork
<1>3. ASSUME NEW t \in Threads, SignalZero(t) PROVE WatchInv'
  BY <1>0, <1>3 DEF SignalZero
<1>4. ASSUME NEW t \in Threads, Post(t) PROVE WatchInv'
  BY <1>0, <1>4 DEF Post
<1>5. ASSUME NEW t \in Threads, PostFails(t) PROVE WatchInv'
  BY <1>0, <1>5 DEF PostFails, FinishWork
<1>6. ASSUME NEW t \in Threads, Link(t) PROVE WatchInv'
  BY <1>0, <1>6 DEF Link
<1>7. ASSUME NEW t \in Threads, SignalQueue(t) PROVE WatchInv'
  BY <1>0, <1>7 DEF SignalQueue
<1>8. ASSUME NEW t \in Threads, Stop(t) PROVE WatchInv'
  BY <1>0, <1>8 DEF Stop
<1>9. ASSUME NEW t \in Threads, SignalStop(t) PROVE WatchInv'
  BY <1>0, <1>9 DEF SignalStop
<1>10. ASSUME NEW o \in Ops, Initiate(o) PROVE WatchInv'
  BY <1>0, <1>10 DEF Initiate
<1>11. CASE Submit
  BY <1>0, <1>11 DEF Submit
<1>12. CASE InitiateFails
  BY <1>0, <1>12 DEF InitiateFails, FinishWork
<1>13. CASE Restart
  BY <1>0, <1>13 DEF Restart
<1>14. CASE RestartArms
  BY <1>0, <1>14 DEF RestartArms, Arm, ArmFails, FirstMissing, AllStarted
<1>15. CASE RestartEnds
  BY <1>0, <1>15 DEF RestartEnds
<1>16. ASSUME NEW m \in EntryPoints, Enter(m) PROVE WatchInv'
  BY <1>0, <1>16 DEF Enter, Return, LocalsDie, AllStarted
<1>17. CASE CheckWork
  BY <1>0, <1>17 DEF CheckWork, Return, LocalsDie, Goto, ServiceQueue
<1>18. CASE Pop
  BY <1>0, <1>18 DEF Pop
<1>19. CASE FinishBeforeRun
  BY <1>0, <1>19 DEF FinishBeforeRun
<1>20. CASE Drained
  BY <1>0, <1>20 DEF Drained, Return, LocalsDie, Goto
<1>21. CASE HandlerReturns
  BY <1>0, <1>21 DEF HandlerReturns
<1>22. CASE HandlerThrows
  BY <1>0, <1>22 DEF HandlerThrows, Throw, LocalsDie, Goto
<1>23. CASE Release
  BY <1>0, <1>23 DEF Release, FinishWork
<1>24. CASE Released
  BY <1>0, <1>24 DEF Released, Throw, Return, LocalsDie, NextIteration, ServiceQueue
<1>25. CASE TakeCqe
  BY <1>0, <1>25 DEF TakeCqe
<1>26. CASE NothingReady
  BY <1>0, <1>26 DEF NothingReady, Return, LocalsDie
<1>27. CASE WaitFails
  BY <1>0, <1>27 DEF WaitFails, Throw, LocalsDie
<1>28. CASE HandleQueue
  BY <1>0, <1>28 DEF HandleQueue, ReadEvent
<1>29. CASE HandleStop
  BY <1>0, <1>29 DEF HandleStop, ReadEvent
<1>30. CASE HandleZero
  BY <1>0, <1>30 DEF HandleZero, ReadEvent
<1>31. CASE DecideStop
  BY <1>0, <1>31 DEF DecideStop, Return, LocalsDie, Goto
<1>32. CASE DecideZero
  BY <1>0, <1>32 DEF DecideZero, Return, LocalsDie, Goto
<1>33. CASE Rearm
  BY <1>0, <1>33
     DEF Rearm, Arm, ArmFails, Throw, Return, LocalsDie, NextIteration,
         ServiceQueue
<1>34. ASSUME NEW e \in Events, PollFires(e) PROVE WatchInv'
  BY <1>0, <1>34 DEF PollFires
<1>35. ASSUME NEW o \in Ops, OpCompletes(o) PROVE WatchInv'
  BY <1>0, <1>35 DEF OpCompletes
<1>36. CASE UNCHANGED vars
  BY <1>0, <1>36 DEF vars
<1> QED
  BY <1>1, <1>2, <1>3, <1>4, <1>5, <1>6, <1>7, <1>8, <1>9, <1>10, <1>11,
     <1>12, <1>13, <1>14, <1>15, <1>16, <1>17, <1>18, <1>19, <1>20, <1>21,
     <1>22, <1>23, <1>24, <1>25, <1>26, <1>27, <1>28, <1>29, <1>30, <1>31,
     <1>32, <1>33, <1>34, <1>35, <1>36
     DEF Next, StartCall, FinishCall, RunStep, HandlerEnds

-----------------------------------------------------------------------------
(* The steps that leave the polls alone ...                                *)
LEMMA PollsKept ==
  ASSUME PollInv, UNCHANGED cq,
         failures' = 0 => failures = 0 /\ \A e \in Events :
           sq'[e] = sq[e] /\ polls'[e] = polls[e] /\ started'[e] = started[e],
         \A e \in Events : Handling(e)' <=> Handling(e),
         \A e \in Events : efd[e] > 0 => efd'[e] > 0
  PROVE  PollInv'
BY DEF PollInv, EventInv, OneEntry, Queued

(* ... that arm one that is not there ...                                  *)
LEMMA PollArmed ==
  ASSUME TypeOK, PollInv, NEW e \in Events, ~started[e], Arm(e),
         UNCHANGED <<cq, efd>>,
         \A x \in Events : ~Handling(x) /\ ~Handling(x)'
  PROVE  PollInv'
<1>1. /\ failures' = failures
      /\ \A x \in Events : polls'[x] = polls[x] + sq[x] + (IF x = e THEN 1 ELSE 0)
      /\ \A x \in Events : sq'[x] = 0
      /\ started'[e] = TRUE
      /\ \A x \in Events : x # e => started'[x] = started[x]
  BY DEF Arm, TypeOK
<1>2. \A x \in Events : Queued(x)' <=> Queued(x)
  BY DEF Queued
<1>3. OneEntry => OneEntry'
  BY DEF OneEntry
<1>4. ASSUME failures = 0, NEW x \in Events PROVE EventInv(x)'
  <2>1. EventInv(x) /\ started[x] \in BOOLEAN
    BY <1>4 DEF PollInv, TypeOK
  <2>2. sq'[x] = 0 /\ polls'[x] = IF x = e THEN polls[x] + 1 ELSE polls[x]
    BY <1>1, <2>1 DEF EventInv
  <2>3. UNCHANGED efd /\ ~Handling(x) /\ ~Handling(x)' /\ (Queued(x)' <=> Queued(x))
    BY <1>2
  <2>4. CASE x = e
    <3>1. ~started[x] /\ polls[x] = 0 /\ ~Queued(x)
      BY <2>1, <2>4 DEF EventInv
    <3>2. polls'[x] = 1
      BY <2>2, <2>4, <3>1
    <3>3. started'[x] = TRUE
      BY <1>1, <2>4, Zenon
    <3>4. ~Queued(x)'
      BY <2>3, <3>1, SMT
    <3>5. QED BY <2>2, <2>3, <3>2, <3>3, <3>4, SMT DEF EventInv
  <2>5. CASE x # e
    <3>1. polls'[x] = polls[x]
      BY <2>2, <2>5
    <3>2. started'[x] = started[x]
      BY <1>1, <2>5, Zenon
    <3>3. efd'[x] = efd[x]
      BY <2>3
    <3>4. QED BY <2>1, <2>2, <2>3, <3>1, <3>2, <3>3, SMT DEF EventInv
  <2>6. QED BY <2>4, <2>5
<1>5. QED BY <1>1, <1>3, <1>4 DEF PollInv

(* ... and that take the first entry of the queue, or append one.          *)
LEMMA HeadTaken ==
  ASSUME TypeOK, cq # <<>>, cq' = Tail(cq), OneEntry
  PROVE  /\ OneEntry'
         /\ \A x \in Events : Queued(x)' <=> Queued(x) /\ x # Head(cq)
         /\ \A x \in Events : x = Head(cq) => Queued(x)
<1>1. /\ Len(cq) \in Nat \ {0} /\ Len(cq') = Len(cq) - 1
      /\ \A i \in 1..Len(cq') : cq'[i] = cq[i + 1]
      /\ Head(cq) = cq[1]
  BY DEF TypeOK
<1>2. \A i \in 1..Len(cq') : i + 1 \in 1..Len(cq) /\ i \in Int /\ i + 1 # 1
  BY <1>1
<1>3. \A i \in 1..Len(cq) : i # 1 => i - 1 \in 1..Len(cq') /\ (i - 1) + 1 = i
  BY <1>1
<1>4. 1 \in 1..Len(cq)
  BY <1>1
<1>5. OneEntry'
  <2> SUFFICES ASSUME NEW i \in 1..Len(cq'), NEW j \in 1..Len(cq'),
                      cq'[i] = cq'[j], cq'[i] \in Events
               PROVE  i = j
    BY DEF OneEntry
  <2>1. cq[i + 1] = cq[j + 1] /\ cq[i + 1] \in Events
    BY <1>1
  <2>2. i + 1 = j + 1
    BY <1>2, <2>1 DEF OneEntry
  <2>3. QED BY <1>2, <2>2
<1>6. ASSUME NEW x \in Events PROVE Queued(x)' <=> Queued(x) /\ x # Head(cq)
  <2>1. ASSUME Queued(x)' PROVE Queued(x) /\ x # Head(cq)
    <3>1. PICK i \in 1..Len(cq') : cq'[i] = x
      BY <2>1 DEF Queued
    <3>2. i + 1 \in 1..Len(cq) /\ cq[i + 1] = x /\ i + 1 # 1
      BY <1>1, <1>2, <3>1
    <3>3. QED BY <1>1, <1>4, <3>2 DEF Queued, OneEntry
  <2>2. ASSUME Queued(x), x # Head(cq) PROVE Queued(x)'
    <3>1. PICK i \in 1..Len(cq) : cq[i] = x
      BY <2>2 DEF Queued
    <3>2. i # 1
      BY <1>1, <2>2, <3>1
    <3>3. i - 1 \in 1..Len(cq') /\ cq'[i - 1] = x
      BY <1>1, <1>3, <3>1, <3>2
    <3>4. QED BY <3>3 DEF Queued
  <2>3. QED BY <2>1, <2>2
<1>7. \A x \in Events : x = Head(cq) => Queued(x)
  BY <1>1, <1>4 DEF Queued
<1>8. QED BY <1>5, <1>6, <1>7

LEMMA Appended ==
  ASSUME TypeOK, NEW u \in Events \cup Ops, cq' = Append(cq, u)
  PROVE  /\ \A x \in Events : Queued(x)' <=> Queued(x) \/ x = u
         /\ OneEntry /\ (u \in Events => ~Queued(u)) => OneEntry'
<1>1. Len(cq') = Len(cq) + 1 /\ Len(cq) \in Nat
  BY DEF TypeOK
<1>2. \A i \in 1..Len(cq') : cq'[i] = IF i = Len(cq) + 1 THEN u ELSE cq[i]
  BY <1>1 DEF TypeOK
<1>3. \A i \in 1..Len(cq') : i # Len(cq) + 1 => i \in 1..Len(cq)
  BY <1>1
<1>4. \A x \in Events : Queued(x)' <=> Queued(x) \/ x = u
  BY <1>1, <1>2 DEF Queued
<1>5. ASSUME OneEntry, u \in Events => ~Queued(u) PROVE OneEntry'
  BY <1>2, <1>3, <1>5 DEF OneEntry, Queued
<1>6. QED BY <1>4, <1>5

LEMMA PollStep == TypeOK /\ WatchInv /\ PollInv /\ [Next]_vars => PollInv'
<1> SUFFICES ASSUME TypeOK, WatchInv, PollInv, [Next]_vars PROVE PollInv'
  OBVIOUS
<1> USE DEF owned, ring, locals, shared, CanCall, MainReady
<1>0. /\ TypeOK /\ PollInv /\ WatchInv
      /\ started \in [Events -> BOOLEAN] /\ efd \in [Events -> Nat]
      /\ sq \in [Events -> Nat] /\ polls \in [Events -> Nat] /\ failures \in Nat
      /\ "queue" \in Events /\ "stop" \in Events /\ "zero" \in Events
  BY DEF TypeOK, Events
<1>1. ASSUME NEW t \in Threads, WorkStarted(t) PROVE PollInv'
  BY <1>0, <1>1, PollsKept DEF WorkStarted, Handling
<1>2. ASSUME NEW t \in Threads, WorkFinished(t) PROVE PollInv'
  BY <1>0, <1>2, PollsKept DEF WorkFinished, FinishWork, Handling
<1>3. ASSUME NEW t \in Threads, SignalZero(t) PROVE PollInv'
  BY <1>0, <1>3, PollsKept DEF SignalZero, Handling
<1>4. ASSUME NEW t \in Threads, Post(t) PROVE PollInv'
  BY <1>0, <1>4, PollsKept DEF Post, Handling
<1>5. ASSUME NEW t \in Threads, PostFails(t) PROVE PollInv'
  BY <1>0, <1>5, PollsKept DEF PostFails, FinishWork, Handling
<1>6. ASSUME NEW t \in Threads, Link(t) PROVE PollInv'
  BY <1>0, <1>6, PollsKept DEF Link, Handling
<1>7. ASSUME NEW t \in Threads, SignalQueue(t) PROVE PollInv'
  BY <1>0, <1>7, PollsKept DEF SignalQueue, Handling
<1>8. ASSUME NEW t \in Threads, Stop(t) PROVE PollInv'
  BY <1>0, <1>8, PollsKept DEF Stop, Handling
<1>9. ASSUME NEW t \in Threads, SignalStop(t) PROVE PollInv'
  BY <1>0, <1>9, PollsKept DEF SignalStop, Handling
<1>10. ASSUME NEW o \in Ops, Initiate(o) PROVE PollInv'
  BY <1>0, <1>10, PollsKept DEF Initiate, Handling
<1>11. CASE Submit
  <2>1. \A e \in Events : failures = 0 => polls'[e] = polls[e] /\ sq'[e] = sq[e]
    BY <1>0, <1>11 DEF Submit, PollInv, EventInv
  <2>2. /\ UNCHANGED <<started, cq, efd, pc, item, failures>>
    BY <1>11 DEF Submit
  <2>3. QED BY <1>0, <2>1, <2>2, PollsKept DEF Handling
<1>12. CASE InitiateFails
  BY <1>0, <1>12, PollsKept DEF InitiateFails, FinishWork, Handling
<1>13. CASE Restart
  BY <1>0, <1>13, PollsKept DEF Restart, Handling
<1>14. CASE RestartArms
  <2>1. PICK e \in Events : e = FirstMissing /\ ~started[e]
    BY <1>0, <1>14 DEF RestartArms, FirstMissing, AllStarted, Events
  <2>2. CASE Arm(FirstMissing)
    BY <1>0, <1>14, <2>1, <2>2, PollArmed DEF RestartArms, Handling
  <2>3. CASE ArmFails(FirstMissing)
    <3>1. failures' # 0 \/ UNCHANGED <<sq, failures>>
      BY <1>0, <2>3 DEF ArmFails
    <3>2. /\ UNCHANGED <<polls, started, cq, efd>>
          /\ \A x \in Events : ~Handling(x) /\ ~Handling(x)'
      BY <1>0, <1>14, <2>3 DEF ArmFails, RestartArms, Handling
    <3>3. QED BY <1>0, <3>1, <3>2, PollsKept
  <2>4. QED BY <1>14, <2>2, <2>3 DEF RestartArms
<1>15. CASE RestartEnds
  BY <1>0, <1>15, PollsKept DEF RestartEnds, Handling
<1>16. ASSUME NEW m \in EntryPoints, Enter(m) PROVE PollInv'
  BY <1>0, <1>16, PollsKept DEF Enter, Return, LocalsDie, AllStarted, Handling
<1>17. CASE CheckWork
  BY <1>0, <1>17, PollsKept
     DEF CheckWork, Return, LocalsDie, Goto, ServiceQueue, Handling
<1>18. CASE Pop
  BY <1>0, <1>18, PollsKept DEF Pop, Handling
<1>19. CASE FinishBeforeRun
  BY <1>0, <1>19, PollsKept DEF FinishBeforeRun, Handling
<1>20. CASE Drained
  BY <1>0, <1>20, PollsKept DEF Drained, Return, LocalsDie, Goto, Handling
<1>21. CASE HandlerReturns
  BY <1>0, <1>21, PollsKept DEF HandlerReturns, Handling
<1>22. CASE HandlerThrows
  BY <1>0, <1>22, PollsKept DEF HandlerThrows, Throw, LocalsDie, Goto, Handling
<1>23. CASE Release
  BY <1>0, <1>23, PollsKept DEF Release, FinishWork, Handling
<1>24. CASE Released
  BY <1>0, <1>24, PollsKept
     DEF Released, Throw, Return, LocalsDie, NextIteration, ServiceQueue,
         Handling
<1>25. CASE TakeCqe
  <2>1. cq # <<>> /\ cq' = Tail(cq) /\ UNCHANGED <<started, efd, polls, sq, failures>>
    BY <1>25 DEF TakeCqe
  <2>2. \A e \in Events : ~Handling(e) /\ (Handling(e)' <=> Head(cq) = e)
    BY <1>0, <1>25, UserDataAssumption DEF TakeCqe, Handling
  <2>3. QED BY <1>0, <2>1, <2>2, HeadTaken DEF PollInv, EventInv
<1>26. CASE NothingReady
  BY <1>0, <1>26, PollsKept DEF NothingReady, Return, LocalsDie, Handling
<1>27. CASE WaitFails
  BY <1>0, <1>27, PollsKept DEF WaitFails, Throw, LocalsDie, Handling
<1>28. CASE HandleQueue
  <2>1. /\ efd' = [efd EXCEPT !["queue"] = 0] /\ started' = [started EXCEPT !["queue"] = FALSE]
        /\ UNCHANGED <<cq, polls, sq, failures>>
        /\ Handling("queue") /\ \A e \in Events : ~Handling(e)'
    BY <1>28 DEF HandleQueue, ReadEvent, Handling
  <2>2. \A e \in Events \ {"queue"} : ~Handling(e)
    BY <1>28 DEF HandleQueue, ReadEvent, Handling
  <2>3. \A e \in Events : Queued(e)' <=> Queued(e)
    BY <2>1 DEF Queued
  <2>4. OneEntry => OneEntry'
    BY <2>1 DEF OneEntry
  <2>5. ASSUME failures = 0, NEW e \in Events PROVE EventInv(e)'
    <3>1. EventInv(e) /\ efd'[e] = (IF e = "queue" THEN 0 ELSE efd[e])
          /\ started'[e] = IF e = "queue" THEN FALSE ELSE started[e]
      BY <1>0, <2>1, <2>5 DEF PollInv
    <3>2. CASE e = "queue"
      BY <2>1, <2>3, <3>1, <3>2 DEF EventInv
    <3>3. CASE e # "queue"
      BY <2>1, <2>2, <2>3, <3>1, <3>3 DEF EventInv
    <3>4. QED BY <3>2, <3>3
  <2>6. QED BY <1>0, <2>1, <2>4, <2>5 DEF PollInv
<1>29. CASE HandleStop
  <2>1. /\ efd' = [efd EXCEPT !["stop"] = 0] /\ started' = [started EXCEPT !["stop"] = FALSE]
        /\ UNCHANGED <<cq, polls, sq, failures>>
        /\ Handling("stop") /\ \A e \in Events : ~Handling(e)'
    BY <1>29 DEF HandleStop, ReadEvent, Handling
  <2>2. \A e \in Events \ {"stop"} : ~Handling(e)
    BY <1>29 DEF HandleStop, ReadEvent, Handling
  <2>3. \A e \in Events : Queued(e)' <=> Queued(e)
    BY <2>1 DEF Queued
  <2>4. OneEntry => OneEntry'
    BY <2>1 DEF OneEntry
  <2>5. ASSUME failures = 0, NEW e \in Events PROVE EventInv(e)'
    <3>1. EventInv(e) /\ efd'[e] = (IF e = "stop" THEN 0 ELSE efd[e])
          /\ started'[e] = IF e = "stop" THEN FALSE ELSE started[e]
      BY <1>0, <2>1, <2>5 DEF PollInv
    <3>2. CASE e = "stop"
      BY <2>1, <2>3, <3>1, <3>2 DEF EventInv
    <3>3. CASE e # "stop"
      BY <2>1, <2>2, <2>3, <3>1, <3>3 DEF EventInv
    <3>4. QED BY <3>2, <3>3
  <2>6. QED BY <1>0, <2>1, <2>4, <2>5 DEF PollInv
<1>30. CASE HandleZero
  <2>1. /\ efd' = [efd EXCEPT !["zero"] = 0] /\ started' = [started EXCEPT !["zero"] = FALSE]
        /\ UNCHANGED <<cq, polls, sq, failures>>
        /\ Handling("zero") /\ \A e \in Events : ~Handling(e)'
    BY <1>30 DEF HandleZero, ReadEvent, Handling
  <2>2. \A e \in Events \ {"zero"} : ~Handling(e)
    BY <1>30 DEF HandleZero, ReadEvent, Handling
  <2>3. \A e \in Events : Queued(e)' <=> Queued(e)
    BY <2>1 DEF Queued
  <2>4. OneEntry => OneEntry'
    BY <2>1 DEF OneEntry
  <2>5. ASSUME failures = 0, NEW e \in Events PROVE EventInv(e)'
    <3>1. EventInv(e) /\ efd'[e] = (IF e = "zero" THEN 0 ELSE efd[e])
          /\ started'[e] = IF e = "zero" THEN FALSE ELSE started[e]
      BY <1>0, <2>1, <2>5 DEF PollInv
    <3>2. CASE e = "zero"
      BY <2>1, <2>3, <3>1, <3>2 DEF EventInv
    <3>3. CASE e # "zero"
      BY <2>1, <2>2, <2>3, <3>1, <3>3 DEF EventInv
    <3>4. QED BY <3>2, <3>3
  <2>6. QED BY <1>0, <2>1, <2>4, <2>5 DEF PollInv
<1>31. CASE DecideStop
  BY <1>0, <1>31, PollsKept DEF DecideStop, Return, LocalsDie, Goto, Handling
<1>32. CASE DecideZero
  BY <1>0, <1>32, PollsKept DEF DecideZero, Return, LocalsDie, Goto, Handling
<1>33. CASE Rearm
  <2>1. PICK e \in Events : e = item /\ ~started[e]
    BY <1>0, <1>33 DEF Rearm, WatchInv, AfterRead
  <2>2. CASE Arm(item) /\ NextIteration
    BY <1>0, <1>33, <2>1, <2>2, PollArmed
       DEF Rearm, NextIteration, Return, LocalsDie, ServiceQueue, Handling
  <2>3. CASE ArmFails(item) /\ Throw
    <3>1. failures' # 0 \/ UNCHANGED <<sq, failures>>
      BY <1>0, <2>3 DEF ArmFails
    <3>2. /\ UNCHANGED <<polls, started, cq, efd>>
          /\ \A x \in Events : ~Handling(x) /\ ~Handling(x)'
      BY <1>0, <1>33, <2>3 DEF ArmFails, Rearm, Throw, LocalsDie, Handling
    <3>3. QED BY <1>0, <3>1, <3>2, PollsKept
  <2>4. QED BY <1>33, <2>2, <2>3 DEF Rearm
<1>34. ASSUME NEW e \in Events, PollFires(e) PROVE PollInv'
  <2>1. /\ polls[e] > 0 /\ efd[e] > 0 /\ polls' = [polls EXCEPT ![e] = @ - 1]
        /\ cq' = Append(cq, e) /\ UNCHANGED <<started, efd, sq, failures, pc, item>>
    BY <1>34 DEF PollFires
  <2>2. failures = 0 => ~Queued(e)
    BY <1>0, <2>1 DEF PollInv, EventInv
  <2>3. /\ \A x \in Events : Queued(x)' <=> Queued(x) \/ x = e
        /\ failures = 0 => OneEntry'
    BY <1>0, <2>1, <2>2, Appended DEF PollInv
  <2>4. QED BY <1>0, <2>1, <2>2, <2>3 DEF PollInv, EventInv, Handling
<1>35. ASSUME NEW o \in Ops, OpCompletes(o) PROVE PollInv'
  <2>1. /\ cq' = Append(cq, o) /\ UNCHANGED <<polls, started, efd, sq, failures, pc, item>>
    BY <1>35 DEF OpCompletes
  <2>2. o \notin Events
    BY UserDataAssumption
  <2>3. /\ \A x \in Events : Queued(x)' <=> Queued(x)
        /\ failures = 0 => OneEntry'
    BY <1>0, <2>1, <2>2, Appended DEF PollInv
  <2>4. QED BY <1>0, <2>1, <2>3 DEF PollInv, EventInv, Handling
<1>36. CASE UNCHANGED vars
  BY <1>0, <1>36, PollsKept DEF vars, Handling
<1> QED
  BY <1>1, <1>2, <1>3, <1>4, <1>5, <1>6, <1>7, <1>8, <1>9, <1>10, <1>11,
     <1>12, <1>13, <1>14, <1>15, <1>16, <1>17, <1>18, <1>19, <1>20, <1>21,
     <1>22, <1>23, <1>24, <1>25, <1>26, <1>27, <1>28, <1>29, <1>30, <1>31,
     <1>32, <1>33, <1>34, <1>35, <1>36
     DEF Next, StartCall, FinishCall, RunStep, HandlerEnds

-----------------------------------------------------------------------------
LEMMA PollsAlways == Spec => [](AccountInv /\ WatchInv /\ PollInv)
<1>1. Init => WatchInv /\ PollInv
  <2> SUFFICES ASSUME Init PROVE WatchInv /\ PollInv
    OBVIOUS
  <2>1. cq = <<>> /\ Len(cq) = 0
    BY DEF Init
  <2>2. WatchInv
    BY DEF Init, WatchInv, AfterRead
  <2>3. PollInv
    BY <2>1 DEF Init, PollInv, EventInv, OneEntry, Queued, Handling
  <2>4. QED BY <2>2, <2>3
<1>2. AccountInv => TypeOK
  BY DEF AccountInv
<1>3. AccountInv /\ WatchInv /\ PollInv /\ [Next]_vars
        => (AccountInv /\ WatchInv /\ PollInv)'
  BY <1>2, AccountStep, WatchStep, PollStep
<1>4. QED BY <1>1, <1>3, AccountInit, PTL DEF Spec

(* The running thread sleeps only with the three polls armed or fired.     *)
THEOREM WaitsAreWatched == Spec => []WaitsWatched
<1>1. WatchInv => WaitsWatched
  BY DEF WatchInv, AfterRead, WaitsWatched, AllStarted
<1>2. QED BY <1>1, PollsAlways, PTL

(* Before a submission has failed, each event has one poll exactly while   *)
(* its flag is set, on whatever path of the run loop it is armed again.    *)
THEOREM OnePollEach == Spec => []OnePoll
<1>1. TypeOK /\ PollInv => OnePoll
  <2> SUFFICES ASSUME TypeOK, PollInv, failures = 0, NEW e \in Events
               PROVE  polls[e] + Cardinality({i \in 1..Len(cq) : cq[i] = e})
                        + (IF Handling(e) THEN 1 ELSE 0)
                        = (IF started[e] THEN 1 ELSE 0)
    BY DEF OnePoll
  <2> DEFINE Q == {i \in 1..Len(cq) : cq[i] = e}
  <2>1. EventInv(e) /\ OneEntry
    BY DEF PollInv
  <2>2. Cardinality(Q) = IF Queued(e) THEN 1 ELSE 0
    <3>1. CASE Queued(e)
      <4>1. PICK i \in 1..Len(cq) : cq[i] = e
        BY <3>1 DEF Queued
      <4>2. Q = {i}
        BY <2>1, <4>1 DEF OneEntry
      <4>3. QED BY <3>1, <4>2, FS_Singleton
    <3>2. CASE ~Queued(e)
      <4>1. Q = {}
        BY <3>2 DEF Queued
      <4>2. QED BY <3>2, <4>1, FS_EmptySet
    <3>3. QED BY <3>1, <3>2
  <2> HIDE DEF Q
  <2>3. started[e] \in BOOLEAN
    BY DEF TypeOK
  <2>4. polls[e] + Cardinality(Q) + (IF Handling(e) THEN 1 ELSE 0)
          = (IF started[e] THEN 1 ELSE 0)
    BY <2>1, <2>2, <2>3 DEF EventInv
  <2>5. QED BY <2>4 DEF Q
<1>2. AccountInv => TypeOK
  BY DEF AccountInv
<1>3. QED BY <1>1, <1>2, PollsAlways, PTL

(* No read of an eventfd by the running thread blocks it, whatever other   *)
(* threads and stale events do between the firing of the poll and it.      *)
THEOREM ReadsNeverBlock == Spec => []ReadsDontBlock
<1>1. TypeOK /\ PollInv => ReadsDontBlock
  <2> SUFFICES ASSUME TypeOK, PollInv, failures = 0, NEW e \in Events,
                      Handling(e) \/ e \in Range(cq)
               PROVE  efd[e] > 0
    BY DEF ReadsDontBlock
  <2>1. DOMAIN cq = 1..Len(cq)
    BY DEF TypeOK
  <2>2. e \in Range(cq) => Queued(e)
    BY <2>1 DEF Range, Queued
  <2>3. QED BY <2>2 DEF PollInv, EventInv
<1>2. AccountInv => TypeOK
  BY DEF AccountInv
<1>3. QED BY <1>1, <1>2, PollsAlways, PTL
=============================================================================
