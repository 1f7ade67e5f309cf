------------------------- MODULE CountedQueue_proofs ------------------------
(***************************************************************************)
(* What CountedQueue guarantees whoever uses it, for every set of values.  *)
(***************************************************************************)
EXTENDS CountedQueue, TLAPS

Inv == TypeOK /\ NeverShort

LEMMA InvInit == Init => Inv
BY DEF Init, Inv, TypeOK, NeverShort

(* Only Put adds to the queue, and owes an announcement for it; the others *)
(* pass the claims on, one value leaves with each claim.                   *)
LEMMA InvStep == Inv /\ [Next]_queueVars => Inv'
<1> SUFFICES ASSUME Inv, [Next]_queueVars
             PROVE  Inv'
  OBVIOUS
<1> USE DEF Inv, TypeOK, NeverShort
<1>1. ASSUME NEW v \in Values, Put(v) PROVE Inv'
  BY <1>1 DEF Put
<1>2. CASE Announce
  BY <1>2 DEF Announce
<1>3. CASE Collect
  BY <1>3 DEF Collect
<1>4. CASE Take
  <2>1. Len(items) > 0 /\ items # <<>>
    BY <1>4 DEF Take
  <2>2. Head(items) \in Values /\ Tail(items) \in Seq(Values)
        /\ Len(Tail(items)) = Len(items) - 1
    BY <2>1
  <2> QED
    BY <1>4, <2>2 DEF Take
<1>5. CASE Forfeit
  BY <1>5 DEF Forfeit
<1>6. CASE Close
  BY <1>6 DEF Close
<1>7. CASE UNCHANGED queueVars
  BY <1>7 DEF queueVars
<1> QED
  BY <1>1, <1>2, <1>3, <1>4, <1>5, <1>6, <1>7 DEF Next

(* There is a value in the queue for every claim on one: a consumer that   *)
(* holds a grant need not look whether the queue is empty, which is why    *)
(* pop_node only asserts it (eventfd_queue.hpp:302).                       *)
THEOREM NeverRunsShort == Spec => []NeverShort
<1>1. Inv => NeverShort
  BY DEF Inv
<1> QED
  BY <1>1, InvInit, InvStep, PTL DEF Spec
=============================================================================
