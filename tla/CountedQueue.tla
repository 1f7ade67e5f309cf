---------------------------- MODULE CountedQueue ----------------------------
(***************************************************************************)
(* What eventfd_queue promises the thread that consumes from it: a FIFO    *)
(* queue and, beside it, a count of the values that may be consumed.  A    *)
(* value is put first and announced afterwards; the consumer collects the  *)
(* announcements and takes one value for each, and need not look whether   *)
(* there is one.                                                           *)
(*                                                                         *)
(* EventfdQueue implements this with a linked list, two spin locks and an  *)
(* eventfd; ExecutionContext is such a consumer.                           *)
(***************************************************************************)
EXTENDS Naturals, Sequences

CONSTANT Values

VARIABLES
  items,        \* the values in the queue
  unannounced,  \* how many were put and not announced yet
  announced,    \* announcements that the consumer has not collected
  granted,      \* values the consumer may still take
  taken         \* the value it took last

queueVars == <<items, unannounced, announced, granted, taken>>

Init ==
  /\ items = <<>>
  /\ unannounced = 0
  /\ announced = 0
  /\ granted = 0
  /\ taken \in Values

Put(v) ==
  /\ items' = Append(items, v)
  /\ unannounced' = unannounced + 1
  /\ UNCHANGED <<announced, granted, taken>>

Announce ==
  /\ unannounced > 0
  /\ unannounced' = unannounced - 1
  /\ announced' = announced + 1
  /\ UNCHANGED <<items, granted, taken>>

Collect ==
  /\ announced > 0
  /\ granted' = granted + announced
  /\ announced' = 0
  /\ UNCHANGED <<items, unannounced, taken>>

Take ==
  /\ granted > 0
  /\ granted' = granted - 1
  /\ taken' = Head(items)
  /\ items' = Tail(items)
  /\ UNCHANGED <<unannounced, announced>>

(* An exception loses what is left of a grant; the values stay.            *)
Forfeit ==
  /\ granted' \in 0..granted
  /\ UNCHANGED <<items, unannounced, announced, taken>>

(* The end of the queue, which nobody uses any more.                       *)
Close ==
  /\ unannounced = 0
  /\ items' = <<>>
  /\ announced' = 0
  /\ granted' = 0
  /\ UNCHANGED <<unannounced, taken>>

Next == \/ \E v \in Values : Put(v)
        \/ Announce
        \/ Collect
        \/ Take
        \/ Forfeit
        \/ Close

Spec == Init /\ [][Next]_queueVars

-----------------------------------------------------------------------------
TypeOK ==
  /\ items \in Seq(Values)
  /\ unannounced \in Nat
  /\ announced \in Nat
  /\ granted \in Nat
  /\ taken \in Values

(* No more values are announced or granted than there are: the values that *)
(* Take hands out exist (eventfd_queue.hpp:211-222).                       *)
NeverShort == unannounced + announced + granted <= Len(items)
=============================================================================
