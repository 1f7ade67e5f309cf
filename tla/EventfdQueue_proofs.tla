------------------------- MODULE EventfdQueue_proofs ------------------------
(***************************************************************************)
(* Theorems about EventfdQueue, for every set of producers and of nodes    *)
(* and every number of values: what its runs check of its lists, nodes and *)
(* values, and that it implements CountedQueue.                            *)
(***************************************************************************)
EXTENDS EventfdQueue, FiniteSetTheorems, TLAPS

(* The nodes of a list, which no list has twice.                           *)
In(n, s) == \E i \in 1..Len(s) : s[i] = n
Inj(s)   == \A i, j \in 1..Len(s) : s[i] = s[j] => i = j

-----------------------------------------------------------------------------
(* Where the threads are, and what they have there: a node, a lock, a      *)
(* value to link.                                                          *)
ProducerLabels == {"idle", "get", "getNext", "allocate", "construct", "link",
                   "setTail", "signal", "put", "putHead"}
ConsumerLabels == {"idle", "pop", "popTail", "call", "callback", "put",
                   "putHead", "destroy"}
WithNode == {"getNext", "construct", "link", "setTail", "popTail", "call",
             "callback", "put", "putHead"}
WithValue == {"link", "setTail", "popTail", "call", "callback"}
ToLink == {"get", "getNext", "allocate", "construct", "link", "setTail"}

PlaceInv ==
  /\ \A p \in Producers : pc[p] \in ProducerLabels
  /\ pc[Consumer] \in ConsumerLabels
  /\ pc[Consumer] = "destroy" => \A p \in Producers : pc[p] = "idle"
  /\ \A t \in Threads : node[t] # Null <=> pc[t] \in WithNode
  /\ \A t \in Threads : lock = t <=> pc[t] \in {"setTail", "popTail"}
  /\ \A t \in Threads : freeLock = t <=> pc[t] \in {"getNext", "putHead"}
  /\ \A p \in Producers : pc[p] \in ToLink => posted[p] < MaxEmplace

(* The consumer never asks for more than was announced to it.              *)
CountInv ==
  /\ pc[Consumer] = "pop" => left > 0
  /\ pc[Consumer] = "idle" => left = 0
  /\ EveryValueAnnounced

(* Every allocated node is in one place.                                   *)
OwnInv ==
  /\ Inj(queue) /\ Inj(spare)
  /\ \A n \in Nodes : ~(In(n, queue) /\ In(n, spare))
  /\ \A t \in Threads : \A n \in Owned(t) :
       /\ ~In(n, queue) /\ ~In(n, spare)
       /\ \A u \in Threads : n \in Owned(u) => u = t
  /\ \A n \in Nodes :
       n \in allocated <=>
         In(n, queue) \/ In(n, spare) \/ \E t \in Threads : n \in Owned(t)

(* The links at each point of the critical sections.                       *)
SpareInv ==
  /\ Spells(spare, free, next)
  /\ \A t \in Threads : pc[t] = "getNext" => node[t] = free
  /\ \A t \in Threads : pc[t] = "putHead" => next[node[t]] = free

QueueInv ==
  /\ \A t \in Threads : pc[t] \in {"construct", "link"} => next[node[t]] = Null
  /\ \A t \in Threads :
       pc[t] = "setTail" => Spells(Append(queue, node[t]), head, next)
  /\ (\A t \in Threads : pc[t] # "setTail") => Spells(queue, head, next)
  /\ pc[Consumer] # "destroy" =>
       tail = IF queue # <<>> THEN queue[Len(queue)]
              ELSE IF pc[Consumer] = "popTail" THEN node[Consumer] ELSE Null

(* The values.                                                             *)
Carries(t) == IF pc[t] \in WithValue THEN {node[t]} ELSE {}
Full(n) == In(n, queue) \/ \E t \in Threads : n \in Carries(t)
ValueInv == \A n \in Nodes : storage[n] # Null <=> Full(n)

IInv == /\ TypeOK /\ PlaceInv /\ CountInv /\ OwnInv
        /\ SpareInv /\ QueueInv /\ ValueInv

-----------------------------------------------------------------------------
(* The operations on lists: append, take the head, put before the head.    *)
LEMMA AppendFacts ==
  ASSUME NEW S, NEW s \in Seq(S), NEW n \in S
  PROVE  /\ Append(s, n) \in Seq(S) /\ Len(Append(s, n)) = Len(s) + 1
         /\ Append(s, n) # <<>>
         /\ \A i \in 1..Len(s) : Append(s, n)[i] = s[i]
         /\ Append(s, n)[Len(s) + 1] = n
         /\ \A m : In(m, Append(s, n)) <=> In(m, s) \/ m = n
         /\ Inj(s) /\ ~In(n, s) => Inj(Append(s, n))
<1> DEFINE a == Append(s, n)
<1>1. /\ a \in Seq(S) /\ Len(a) = Len(s) + 1 /\ Len(s) \in Nat
      /\ \A i \in 1..Len(s) : a[i] = s[i]
      /\ a[Len(s) + 1] = n
  OBVIOUS
<1>2. \A i \in 1..Len(a) : i = Len(s) + 1 \/ i \in 1..Len(s)
  BY <1>1
<1>3. \A i \in 1..Len(s) : i \in 1..Len(a)
  BY <1>1
<1>4. Len(s) + 1 \in 1..Len(a)
  BY <1>1
<1> HIDE DEF a
<1>5. ASSUME NEW m PROVE In(m, a) <=> In(m, s) \/ m = n
  BY <1>1, <1>2, <1>3, <1>4 DEF In
<1>6. ASSUME Inj(s), ~In(n, s) PROVE Inj(a)
  BY <1>1, <1>2, <1>6 DEF In, Inj
<1>7. a # <<>>
  BY <1>1
<1>8. QED BY <1>1, <1>5, <1>6, <1>7 DEF a

LEMMA TailFacts ==
  ASSUME NEW S, NEW s \in Seq(S), s # <<>>
  PROVE  /\ Tail(s) \in Seq(S) /\ Len(Tail(s)) = Len(s) - 1
         /\ Len(s) \in Nat \ {0}
         /\ Head(s) = s[1] /\ s[1] \in S /\ In(s[1], s)
         /\ \A i \in 1..(Len(s) - 1) : Tail(s)[i] = s[i + 1]
         /\ Inj(s) => /\ Inj(Tail(s))
                      /\ \A m : In(m, Tail(s)) <=> In(m, s) /\ m # s[1]
<1> DEFINE a == Tail(s)
<1>1. /\ a \in Seq(S) /\ Len(a) = Len(s) - 1 /\ Len(s) \in Nat \ {0}
      /\ Head(s) = s[1] /\ s[1] \in S
      /\ \A i \in 1..Len(a) : a[i] = s[i + 1]
  OBVIOUS
<1>2. \A i \in 1..Len(a) : i + 1 \in 1..Len(s) /\ i \in Int /\ i + 1 # 1
  BY <1>1
<1>3. \A i \in 1..Len(s) : i # 1 => i - 1 \in 1..Len(a) /\ (i - 1) + 1 = i
  BY <1>1
<1>4. 1 \in 1..Len(s)
  BY <1>1
<1> HIDE DEF a
<1>5. ASSUME Inj(s) PROVE Inj(a)
  <2> SUFFICES ASSUME NEW i \in 1..Len(a), NEW j \in 1..Len(a), a[i] = a[j]
               PROVE  i = j
    BY DEF Inj
  <2>1. s[i + 1] = s[j + 1]
    BY <1>1
  <2>2. i + 1 = j + 1
    BY <1>2, <1>5, <2>1 DEF Inj
  <2>3. QED BY <1>2, <2>2
<1>6. ASSUME Inj(s), NEW m PROVE In(m, a) <=> In(m, s) /\ m # s[1]
  <2>1. ASSUME In(m, a) PROVE In(m, s) /\ m # s[1]
    <3>1. PICK i \in 1..Len(a) : a[i] = m
      BY <2>1 DEF In
    <3>2. i + 1 \in 1..Len(s) /\ s[i + 1] = m /\ i + 1 # 1
      BY <1>1, <1>2, <3>1
    <3>3. QED BY <1>4, <1>6, <3>2 DEF In, Inj
  <2>2. ASSUME In(m, s), m # s[1] PROVE In(m, a)
    <3>1. PICK i \in 1..Len(s) : s[i] = m
      BY <2>2 DEF In
    <3>2. i - 1 \in 1..Len(a) /\ a[i - 1] = m
      BY <1>1, <1>3, <2>2, <3>1
    <3>3. QED BY <3>2 DEF In
  <2>3. QED BY <2>1, <2>2
<1>7. In(s[1], s)
  BY <1>4 DEF In
<1>8. QED BY <1>1, <1>5, <1>6, <1>7 DEF a

LEMMA PushFacts ==
  ASSUME NEW S, NEW s \in Seq(S), NEW n \in S
  PROVE  /\ <<n>> \o s \in Seq(S) /\ Len(<<n>> \o s) = Len(s) + 1
         /\ <<n>> \o s # <<>>
         /\ (<<n>> \o s)[1] = n
         /\ \A i \in 1..Len(s) : (<<n>> \o s)[i + 1] = s[i]
         /\ \A m : In(m, <<n>> \o s) <=> In(m, s) \/ m = n
         /\ Inj(s) /\ ~In(n, s) => Inj(<<n>> \o s)
<1> DEFINE a == <<n>> \o s
<1>1. /\ a \in Seq(S) /\ Len(a) = Len(s) + 1 /\ Len(s) \in Nat
      /\ a[1] = n
      /\ \A i \in 1..Len(s) : a[i + 1] = s[i]
  OBVIOUS
<1>2. \A i \in 1..Len(a) : i = 1 \/ (i - 1 \in 1..Len(s) /\ (i - 1) + 1 = i)
  BY <1>1
<1>3. \A i \in 1..Len(s) : i + 1 \in 1..Len(a)
  BY <1>1
<1>4. 1 \in 1..Len(a)
  BY <1>1
<1> HIDE DEF a
<1>5. ASSUME NEW m PROVE In(m, a) <=> In(m, s) \/ m = n
  <2>1. ASSUME In(m, a) PROVE In(m, s) \/ m = n
    <3>1. PICK i \in 1..Len(a) : a[i] = m
      BY <2>1 DEF In
    <3>2. CASE i = 1
      BY <1>1, <3>1, <3>2
    <3>3. CASE i # 1
      <4>1. i - 1 \in 1..Len(s) /\ s[i - 1] = m
        BY <1>1, <1>2, <3>1, <3>3
      <4>2. QED BY <4>1 DEF In
    <3>4. QED BY <3>2, <3>3
  <2>2. ASSUME In(m, s) PROVE In(m, a)
    <3>1. PICK i \in 1..Len(s) : s[i] = m
      BY <2>2 DEF In
    <3>2. i + 1 \in 1..Len(a) /\ a[i + 1] = m
      BY <1>1, <1>3, <3>1
    <3>3. QED BY <3>2 DEF In
  <2>3. In(n, a)
    BY <1>1, <1>4 DEF In
  <2>4. QED BY <2>1, <2>2, <2>3
<1>6. ASSUME Inj(s), ~In(n, s) PROVE Inj(a)
  <2> SUFFICES ASSUME NEW i \in 1..Len(a), NEW j \in 1..Len(a), a[i] = a[j]
               PROVE  i = j
    BY DEF Inj
  <2>1. ASSUME NEW k \in 1..Len(a), k # 1 PROVE a[k] = s[k - 1] /\ a[k] # n
    <3>1. k - 1 \in 1..Len(s) /\ a[(k - 1) + 1] = s[k - 1] /\ (k - 1) + 1 = k
      BY <1>1, <1>2, <2>1
    <3>2. QED BY <1>6, <3>1 DEF In
  <2>2. CASE i = 1 \/ j = 1
    BY <1>1, <2>1, <2>2
  <2>3. CASE i # 1 /\ j # 1
    <3>1. s[i - 1] = s[j - 1] /\ i - 1 \in 1..Len(s) /\ j - 1 \in 1..Len(s)
      BY <1>2, <2>1, <2>3
    <3>2. i - 1 = j - 1
      BY <1>6, <3>1 DEF Inj
    <3>3. QED BY <3>2
  <2>4. QED BY <2>2, <2>3
<1>7. a # <<>>
  BY <1>1
<1>8. QED BY <1>1, <1>5, <1>6, <1>7 DEF a

(* What these operations do to the chain of links of a list.               *)
LEMMA ChainKept ==
  ASSUME NEW s, NEW f, NEW x, NEW y, Spells(s, f, x),
         \A i \in 1..Len(s) : y[s[i]] = x[s[i]]
  PROVE  Spells(s, f, y)
BY DEF Spells

LEMMA ChainHead ==
  ASSUME NEW s \in Seq(Nodes), NEW f, NEW x, Spells(s, f, x)
  PROVE  /\ f = Null <=> s = <<>>
         /\ s # <<>> => f = s[1] /\ f \in Nodes /\ Spells(Tail(s), x[f], x)
<1>1. CASE s = <<>>
  BY <1>1 DEF Spells
<1>2. CASE s # <<>>
  <2>1. /\ Len(s) \in Nat \ {0} /\ s[1] \in Nodes /\ Len(Tail(s)) = Len(s) - 1
        /\ \A i \in 1..(Len(s) - 1) : Tail(s)[i] = s[i + 1]
    BY <1>2, TailFacts
  <2>2. f = s[1] /\ \A i \in 1..Len(s) : x[s[i]] = IF i < Len(s) THEN s[i + 1] ELSE Null
    BY <1>2 DEF Spells
  <2>3. x[f] = IF 1 < Len(s) THEN s[2] ELSE Null
    BY <2>1, <2>2
  <2>4. Tail(s) = <<>> <=> Len(s) = 1
    <3>1. \A z \in Seq(Nodes) : z = <<>> <=> Len(z) = 0
      OBVIOUS
    <3>2. Tail(s) = <<>> <=> Len(Tail(s)) = 0
      BY <1>2, <3>1, TailFacts
    <3>3. QED BY <2>1, <3>2
  <2>5. ASSUME Len(s) = 1 PROVE Spells(Tail(s), x[f], x)
    <3>1. Tail(s) = <<>> /\ x[f] = Null
      BY <2>3, <2>4, <2>5
    <3>2. Spells(<<>>, Null, x)
      BY DEF Spells
    <3>3. QED BY <3>1, <3>2
  <2>6. ASSUME Len(s) # 1 PROVE Spells(Tail(s), x[f], x)
    <3>1. x[f] = Tail(s)[1]
      BY <2>1, <2>3, <2>6
    <3>2. ASSUME NEW i \in 1..Len(Tail(s))
          PROVE  x[Tail(s)[i]] = IF i < Len(Tail(s)) THEN Tail(s)[i + 1] ELSE Null
      <4>1. i \in 1..(Len(s) - 1) /\ i + 1 \in 1..Len(s)
        BY <2>1
      <4>2. x[Tail(s)[i]] = IF i + 1 < Len(s) THEN s[(i + 1) + 1] ELSE Null
        BY <2>1, <2>2, <4>1
      <4>3. i + 1 < Len(s) => Tail(s)[i + 1] = s[(i + 1) + 1]
        BY <2>1, <4>1
      <4>4. i < Len(Tail(s)) <=> i + 1 < Len(s)
        BY <2>1, <4>1
      <4>5. QED BY <4>2, <4>3, <4>4
    <3>3. Tail(s) # <<>>
      BY <2>4, <2>6
    <3>4. QED BY <3>1, <3>2, <3>3 DEF Spells
  <2>7. QED BY <1>2, <2>1, <2>2, <2>5, <2>6, NullAssumption
<1>3. QED BY <1>1, <1>2

LEMMA ChainPush ==
  ASSUME NEW s \in Seq(Nodes), NEW f, NEW x, NEW n \in Nodes,
         Spells(s, f, x), x[n] = f
  PROVE  Spells(<<n>> \o s, n, x)
<1> DEFINE a == <<n>> \o s
<1>1. /\ Len(a) = Len(s) + 1 /\ a # <<>> /\ a[1] = n /\ Len(s) \in Nat
      /\ \A i \in 1..Len(s) : a[i + 1] = s[i]
  BY PushFacts
<1> HIDE DEF a
<1>2. s = <<>> <=> Len(s) = 0
  OBVIOUS
<1>3. ASSUME NEW i \in 1..Len(a)
      PROVE  x[a[i]] = IF i < Len(a) THEN a[i + 1] ELSE Null
  <2>1. CASE i = 1
    <3>1. CASE s = <<>>
      BY <1>1, <1>2, <2>1, <3>1 DEF Spells
    <3>2. CASE s # <<>>
      <4>1. f = s[1] /\ a[2] = s[1] /\ i < Len(a)
        BY <1>1, <1>2, <2>1, <3>2 DEF Spells
      <4>2. QED BY <1>1, <2>1, <4>1
    <3>3. QED BY <3>1, <3>2
  <2>2. CASE i # 1
    <3>1. i - 1 \in 1..Len(s) /\ a[i] = s[i - 1] /\ s # <<>>
      <4>1. i - 1 \in 1..Len(s) /\ (i - 1) + 1 = i
        BY <1>1, <2>2
      <4>2. QED BY <1>1, <1>2, <4>1
    <3>2. x[a[i]] = IF i - 1 < Len(s) THEN s[i] ELSE Null
      <4>1. x[s[i - 1]] = IF i - 1 < Len(s) THEN s[(i - 1) + 1] ELSE Null
        BY <3>1 DEF Spells
      <4>2. (i - 1) + 1 = i
        BY <1>1
      <4>3. QED BY <3>1, <4>1, <4>2
    <3>3. i - 1 < Len(s) <=> i < Len(a)
      BY <1>1
    <3>4. i < Len(a) => i \in 1..Len(s) /\ a[i + 1] = s[i]
      BY <1>1
    <3>5. QED BY <3>2, <3>3, <3>4
  <2>3. QED BY <2>1, <2>2
<1>4. QED BY <1>1, <1>3 DEF Spells, a

LEMMA ChainAppend ==
  ASSUME NEW s \in Seq(Nodes), NEW f, NEW x \in [Nodes -> Nodes \cup {Null}],
         NEW n \in Nodes,
         Spells(s, f, x), x[n] = Null, Inj(s), ~In(n, s)
  PROVE  /\ s = <<>> => Spells(Append(s, n), n, x)
         /\ s # <<>> => Spells(Append(s, n), f, [x EXCEPT ![s[Len(s)]] = n])
<1> DEFINE a == Append(s, n)
<1>1. /\ Len(a) = Len(s) + 1 /\ a # <<>> /\ Len(s) \in Nat
      /\ \A i \in 1..Len(s) : a[i] = s[i]
      /\ a[Len(s) + 1] = n
  BY AppendFacts
<1> HIDE DEF a
<1>2. s = <<>> <=> Len(s) = 0
  OBVIOUS
<1>3. CASE s = <<>>
  <2>1. a[1] = n /\ Len(a) = 1
    BY <1>1, <1>2, <1>3
  <2>2. QED BY <1>1, <1>3, <2>1 DEF Spells, a
<1>4. CASE s # <<>>
  <2> DEFINE y == [x EXCEPT ![s[Len(s)]] = n]
  <2>1. Len(s) \in 1..Len(s) /\ s[Len(s)] \in Nodes
    BY <1>1, <1>2, <1>4
  <2>2. /\ y[s[Len(s)]] = n
        /\ \A m \in Nodes : m # s[Len(s)] => y[m] = x[m]
    BY <2>1
  <2> HIDE DEF y
  <2>3. ASSUME NEW i \in 1..Len(a)
        PROVE  y[a[i]] = IF i < Len(a) THEN a[i + 1] ELSE Null
    <3>1. CASE i = Len(s) + 1
      BY <1>1, <2>1, <2>2, <3>1 DEF In
    <3>2. CASE i = Len(s)
      BY <1>1, <2>1, <2>2, <3>2
    <3>3. CASE i < Len(s)
      <4>1. i \in 1..Len(s) /\ i + 1 \in 1..Len(s) /\ i # Len(s)
        BY <1>1, <3>3
      <4>2. s[i] # s[Len(s)] /\ s[i] \in Nodes
        BY <2>1, <4>1 DEF Inj
      <4>3. x[s[i]] = s[i + 1]
        BY <1>4, <3>3, <4>1 DEF Spells
      <4>4. QED BY <1>1, <2>2, <3>3, <4>1, <4>2, <4>3
    <3>4. QED BY <1>1, <3>1, <3>2, <3>3
  <2>4. f = a[1]
    BY <1>1, <1>2, <1>4 DEF Spells
  <2>5. QED BY <1>1, <1>4, <2>3, <2>4 DEF Spells, a, y
<1>5. QED BY <1>3, <1>4

-----------------------------------------------------------------------------
LEMMA TypeFacts ==
  ASSUME TypeOK
  PROVE  /\ pc \in [Threads -> Labels] /\ node \in [Threads -> Nodes \cup {Null}]
         /\ Producers \subseteq Threads /\ Consumer \in Threads
         /\ Threads = Producers \cup {Consumer}
         /\ Consumer \notin Producers /\ Null \notin Threads /\ Null \notin Nodes
         /\ posted \in [Producers -> 0..MaxEmplace] /\ MaxEmplace \in Nat
BY ConsumerAssumption, NullAssumption, MaxEmplaceAssumption DEF TypeOK, Threads

LEMMA PlaceStep == IInv /\ [Next]_vars => PlaceInv'
<1> SUFFICES ASSUME IInv, [Next]_vars PROVE PlaceInv'
  OBVIOUS
<1> USE DEF Goes, PlaceInv, ProducerLabels, ConsumerLabels, WithNode, ToLink,
            lists, locks, accounts, auxiliary
<1>0. /\ TypeOK /\ PlaceInv
      /\ pc \in [Threads -> Labels] /\ node \in [Threads -> Nodes \cup {Null}]
      /\ Producers \subseteq Threads /\ Consumer \in Threads
      /\ Threads = Producers \cup {Consumer}
      /\ Consumer \notin Producers /\ Null \notin Threads /\ Null \notin Nodes
      /\ posted \in [Producers -> 0..MaxEmplace] /\ MaxEmplace \in Nat
      /\ head \in Nodes \cup {Null} /\ free \in Nodes \cup {Null}
  BY TypeFacts DEF IInv, TypeOK
<1>1. ASSUME NEW p \in Producers, Emplace(p) PROVE PlaceInv'
  BY <1>0, <1>1 DEF Emplace
<1>2. ASSUME NEW p \in Producers, GetFree(p) PROVE PlaceInv'
  BY <1>0, <1>2 DEF GetFree
<1>3. ASSUME NEW p \in Producers, GetNext(p) PROVE PlaceInv'
  BY <1>0, <1>3 DEF GetNext
<1>4. ASSUME NEW p \in Producers, Allocate(p) PROVE PlaceInv'
  BY <1>0, <1>4 DEF Allocate
<1>5. ASSUME NEW p \in Producers, AllocateThrows(p) PROVE PlaceInv'
  BY <1>0, <1>5 DEF AllocateThrows
<1>6. ASSUME NEW p \in Producers, Construct(p) PROVE PlaceInv'
  BY <1>0, <1>6 DEF Construct
<1>7. ASSUME NEW p \in Producers, ConstructThrows(p) PROVE PlaceInv'
  BY <1>0, <1>7 DEF ConstructThrows
<1>8. ASSUME NEW p \in Producers, Link(p) PROVE PlaceInv'
  BY <1>0, <1>8 DEF Link, Attach
<1>9. ASSUME NEW p \in Producers, SetTail(p) PROVE PlaceInv'
  BY <1>0, <1>9 DEF SetTail
<1>10. ASSUME NEW p \in Producers, Signal(p) PROVE PlaceInv'
  BY <1>0, <1>10 DEF Signal
<1>11. CASE Pending
  BY <1>0, <1>11 DEF Pending
<1>12. ASSUME NEW n \in 1..pending, Consume(n) PROVE PlaceInv'
  BY <1>0, <1>12 DEF Consume
<1>13. CASE ConsumeAll
  BY <1>0, <1>13 DEF ConsumeAll
<1>14. CASE Pop
  BY <1>0, <1>14 DEF Pop
<1>15. CASE PopTail
  BY <1>0, <1>15 DEF PopTail
<1>16. CASE Call
  BY <1>0, <1>16 DEF Call
<1>17. CASE CallbackEnds
  BY <1>0, <1>17 DEF CallbackEnds
<1>18. ASSUME NEW t \in Threads, Put(t) PROVE PlaceInv'
  BY <1>0, <1>18 DEF Put
<1>19. ASSUME NEW t \in Threads, PutHead(t) PROVE PlaceInv'
  BY <1>0, <1>19 DEF PutHead, AfterNode, LoopContinues
<1>20. CASE Destroy
  BY <1>0, <1>20 DEF Destroy
<1>21. CASE DestroyLinked
  BY <1>0, <1>21 DEF DestroyLinked
<1>22. CASE DestroyFree
  BY <1>0, <1>22 DEF DestroyFree
<1>23. CASE UNCHANGED vars
  BY <1>0, <1>23 DEF vars
<1>99. QED
  BY <1>1, <1>2, <1>3, <1>4, <1>5, <1>6, <1>7, <1>8, <1>9, <1>10, <1>11,
     <1>12, <1>13, <1>14, <1>15, <1>16, <1>17, <1>18, <1>19, <1>20, <1>21,
     <1>22, <1>23 DEF Next, Produce, ConsumeStep

-----------------------------------------------------------------------------
LEMMA OwnKept ==
  ASSUME OwnInv, UNCHANGED <<queue, spare, allocated>>,
         \A t \in Threads : Owned(t)' = Owned(t)
  PROVE  OwnInv'
BY DEF OwnInv

LEMMA OwnStep == IInv /\ [Next]_vars => OwnInv'
<1> SUFFICES ASSUME IInv, [Next]_vars PROVE OwnInv'
  OBVIOUS
<1> USE DEF Goes, lists, locks, accounts, auxiliary
<1>0. /\ OwnInv /\ PlaceInv /\ CountInv /\ SpareInv /\ QueueInv
      /\ pc \in [Threads -> Labels] /\ node \in [Threads -> Nodes \cup {Null}]
      /\ Producers \subseteq Threads /\ Consumer \in Threads
      /\ Consumer \notin Producers /\ Null \notin Nodes /\ Null \notin Threads
      /\ head \in Nodes \cup {Null} /\ free \in Nodes \cup {Null}
      /\ queue \in Seq(Nodes) /\ spare \in Seq(Nodes) /\ allocated \in SUBSET Nodes
      /\ \A t \in Threads : node[t] # Null <=> pc[t] \in WithNode
  BY TypeFacts DEF IInv, TypeOK, PlaceInv
<1>1. ASSUME NEW p \in Producers, Emplace(p) PROVE OwnInv'
  BY <1>0, <1>1, OwnKept DEF Emplace, Owned, WithNode
<1>2. ASSUME NEW p \in Producers, GetFree(p) PROVE OwnInv'
  BY <1>0, <1>2, OwnKept DEF GetFree, Owned, WithNode
<1>3. ASSUME NEW p \in Producers, GetNext(p) PROVE OwnInv'
  <2>1. /\ pc[p] = "getNext" /\ node[p] = free /\ node[p] \in Nodes
        /\ spare' = Tail(spare) /\ UNCHANGED <<queue, allocated>>
    BY <1>0, <1>3 DEF GetNext, SpareInv, WithNode
  <2>2. spare # <<>> /\ spare[1] = node[p]
    BY <1>0, <2>1, ChainHead DEF SpareInv
  <2>3. /\ Inj(spare') /\ In(node[p], spare)
        /\ \A m : In(m, spare') <=> In(m, spare) /\ m # node[p]
    BY <1>0, <2>1, <2>2, TailFacts DEF OwnInv
  <2>4. /\ Owned(p) = {} /\ Owned(p)' = {node[p]}
        /\ \A u \in Threads : u # p => Owned(u)' = Owned(u)
    BY <1>0, <1>3, <2>1 DEF GetNext, Owned
  <2>5. QED BY <1>0, <2>1, <2>3, <2>4 DEF OwnInv
<1>4. ASSUME NEW p \in Producers, Allocate(p) PROVE OwnInv'
  <2>1. PICK n \in Nodes \ allocated :
          allocated' = allocated \cup {n} /\ node' = [node EXCEPT ![p] = n]
    BY <1>4 DEF Allocate
  <2>2. UNCHANGED <<queue, spare>>
    BY <1>4 DEF Allocate
  <2>3. /\ Owned(p) = {} /\ Owned(p)' = {n}
        /\ \A u \in Threads : u # p => Owned(u)' = Owned(u)
    BY <1>0, <1>4, <2>1 DEF Allocate, Owned, WithNode
  <2>4. QED BY <1>0, <2>1, <2>2, <2>3 DEF OwnInv
<1>5. ASSUME NEW p \in Producers, AllocateThrows(p) PROVE OwnInv'
  BY <1>0, <1>5, OwnKept DEF AllocateThrows, Owned, WithNode
<1>6. ASSUME NEW p \in Producers, Construct(p) PROVE OwnInv'
  BY <1>0, <1>6, OwnKept DEF Construct, Owned, WithNode
<1>7. ASSUME NEW p \in Producers, ConstructThrows(p) PROVE OwnInv'
  BY <1>0, <1>7, OwnKept DEF ConstructThrows, Owned, WithNode
<1>8. ASSUME NEW p \in Producers, Link(p) PROVE OwnInv'
  BY <1>0, <1>8, OwnKept DEF Link, Attach, Owned, WithNode
<1>9. ASSUME NEW p \in Producers, SetTail(p) PROVE OwnInv'
  <2>1. /\ pc[p] = "setTail" /\ node[p] \in Nodes
        /\ queue' = Append(queue, node[p]) /\ UNCHANGED <<spare, allocated>>
    BY <1>0, <1>9 DEF SetTail, WithNode
  <2>2. /\ Owned(p) = {node[p]} /\ Owned(p)' = {}
        /\ \A u \in Threads : u # p => Owned(u)' = Owned(u)
    BY <1>0, <1>9, <2>1 DEF SetTail, Owned
  <2>3. ~In(node[p], queue) /\ ~In(node[p], spare)
    BY <1>0, <2>2 DEF OwnInv
  <2>4. Inj(queue') /\ \A m : In(m, queue') <=> In(m, queue) \/ m = node[p]
    BY <1>0, <2>1, <2>3, AppendFacts DEF OwnInv
  <2>5. QED BY <1>0, <2>1, <2>2, <2>3, <2>4 DEF OwnInv
<1>10. ASSUME NEW p \in Producers, Signal(p) PROVE OwnInv'
  BY <1>0, <1>10, OwnKept DEF Signal, Owned, WithNode
<1>11. CASE Pending
  BY <1>0, <1>11, OwnKept DEF Pending, Owned, WithNode
<1>12. ASSUME NEW n \in 1..pending, Consume(n) PROVE OwnInv'
  BY <1>0, <1>12, OwnKept DEF Consume, Owned, WithNode
<1>13. CASE ConsumeAll
  BY <1>0, <1>13, OwnKept DEF ConsumeAll, Owned, WithNode
<1>14. CASE Pop
  <2>1. /\ pc[Consumer] = "pop" /\ head \in Nodes
        /\ queue' = Tail(queue) /\ UNCHANGED <<spare, allocated>>
        /\ \A t \in Threads : pc[t] # "setTail"
    BY <1>0, <1>14 DEF Pop, PlaceInv
  <2>2. queue # <<>> /\ queue[1] = head
    BY <1>0, <2>1, ChainHead DEF QueueInv
  <2>3. /\ Inj(queue') /\ In(head, queue)
        /\ \A m : In(m, queue') <=> In(m, queue) /\ m # head
    BY <1>0, <2>1, <2>2, TailFacts DEF OwnInv
  <2>4. /\ Owned(Consumer) = {} /\ Owned(Consumer)' = {head}
        /\ \A u \in Threads : u # Consumer => Owned(u)' = Owned(u)
    BY <1>0, <1>14, <2>1 DEF Pop, Owned, WithNode
  <2>5. QED BY <1>0, <2>1, <2>3, <2>4 DEF OwnInv
<1>15. CASE PopTail
  BY <1>0, <1>15, OwnKept DEF PopTail, Owned, WithNode
<1>16. CASE Call
  BY <1>0, <1>16, OwnKept DEF Call, Owned, WithNode
<1>17. CASE CallbackEnds
  BY <1>0, <1>17, OwnKept DEF CallbackEnds, Owned, WithNode
<1>18. ASSUME NEW t \in Threads, Put(t) PROVE OwnInv'
  BY <1>0, <1>18, OwnKept DEF Put, Owned, WithNode
<1>19. ASSUME NEW t \in Threads, PutHead(t) PROVE OwnInv'
  <2>1. /\ pc[t] = "putHead" /\ node[t] \in Nodes
        /\ spare' = <<node[t]>> \o spare /\ UNCHANGED <<queue, allocated>>
    BY <1>0, <1>19 DEF PutHead, WithNode
  <2>2. /\ Owned(t) = {node[t]} /\ Owned(t)' = {}
        /\ \A u \in Threads : u # t => Owned(u)' = Owned(u)
    BY <1>0, <1>19, <2>1 DEF PutHead, AfterNode, Owned
  <2>3. ~In(node[t], queue) /\ ~In(node[t], spare)
    BY <1>0, <2>2 DEF OwnInv
  <2>4. Inj(spare') /\ \A m : In(m, spare') <=> In(m, spare) \/ m = node[t]
    BY <1>0, <2>1, <2>3, PushFacts DEF OwnInv
  <2>5. QED BY <1>0, <2>1, <2>2, <2>3, <2>4 DEF OwnInv
<1>20. CASE Destroy
  BY <1>0, <1>20, OwnKept DEF Destroy, Owned, WithNode
<1>21. CASE DestroyLinked
  <2>1. /\ head \in Nodes /\ queue' = Tail(queue) /\ UNCHANGED spare
        /\ allocated' = allocated \ {head}
        /\ \A t \in Threads : pc[t] # "setTail"
    BY <1>0, <1>21 DEF DestroyLinked, PlaceInv, Threads
  <2>2. queue # <<>> /\ queue[1] = head
    BY <1>0, <2>1, ChainHead DEF QueueInv
  <2>3. /\ Inj(queue') /\ In(head, queue)
        /\ \A m : In(m, queue') <=> In(m, queue) /\ m # head
    BY <1>0, <2>1, <2>2, TailFacts DEF OwnInv
  <2>4. \A u \in Threads : Owned(u)' = Owned(u)
    BY <1>21 DEF DestroyLinked, Owned
  <2>5. QED BY <1>0, <2>1, <2>3, <2>4 DEF OwnInv
<1>22. CASE DestroyFree
  <2>1. /\ free \in Nodes /\ spare' = Tail(spare) /\ UNCHANGED queue
        /\ allocated' = allocated \ {free}
    BY <1>0, <1>22 DEF DestroyFree
  <2>2. spare # <<>> /\ spare[1] = free
    BY <1>0, <2>1, ChainHead DEF SpareInv
  <2>3. /\ Inj(spare') /\ In(free, spare)
        /\ \A m : In(m, spare') <=> In(m, spare) /\ m # free
    BY <1>0, <2>1, <2>2, TailFacts DEF OwnInv
  <2>4. \A u \in Threads : Owned(u)' = Owned(u)
    BY <1>22 DEF DestroyFree, Owned
  <2>5. QED BY <1>0, <2>1, <2>3, <2>4 DEF OwnInv
<1>23. CASE UNCHANGED vars
  BY <1>0, <1>23, OwnKept DEF vars, Owned, WithNode
<1>99. QED
  BY <1>1, <1>2, <1>3, <1>4, <1>5, <1>6, <1>7, <1>8, <1>9, <1>10, <1>11,
     <1>12, <1>13, <1>14, <1>15, <1>16, <1>17, <1>18, <1>19, <1>20, <1>21,
     <1>22, <1>23 DEF Next, Produce, ConsumeStep

-----------------------------------------------------------------------------
LEMMA ValueKept ==
  ASSUME ValueInv, UNCHANGED <<queue, storage>>,
         \A t \in Threads : Carries(t)' = Carries(t)
  PROVE  ValueInv'
BY DEF ValueInv, Full

LEMMA ValueStep == IInv /\ [Next]_vars => ValueInv'
<1> SUFFICES ASSUME IInv, [Next]_vars PROVE ValueInv'
  OBVIOUS
<1> USE DEF Goes, lists, locks, accounts, auxiliary
<1>0. /\ OwnInv /\ PlaceInv /\ ValueInv /\ QueueInv
      /\ pc \in [Threads -> Labels] /\ node \in [Threads -> Nodes \cup {Null}]
      /\ Producers \subseteq Threads /\ Consumer \in Threads
      /\ Consumer \notin Producers /\ Null \notin Nodes /\ Null \notin Threads
      /\ head \in Nodes \cup {Null}
      /\ queue \in Seq(Nodes)
      /\ storage \in [Nodes -> Values \cup {Null}]
      /\ \A t \in Threads : node[t] # Null <=> pc[t] \in WithNode
      /\ \A t \in Threads : Carries(t) \subseteq Owned(t)
  BY TypeFacts DEF IInv, TypeOK, PlaceInv, Carries, Owned, WithNode, WithValue
<1>1. ASSUME NEW p \in Producers, Emplace(p) PROVE ValueInv'
  BY <1>0, <1>1, ValueKept DEF Emplace, Carries, WithNode, WithValue
<1>2. ASSUME NEW p \in Producers, GetFree(p) PROVE ValueInv'
  BY <1>0, <1>2, ValueKept DEF GetFree, Carries, WithNode, WithValue
<1>3. ASSUME NEW p \in Producers, GetNext(p) PROVE ValueInv'
  BY <1>0, <1>3, ValueKept DEF GetNext, Carries, WithNode, WithValue
<1>4. ASSUME NEW p \in Producers, Allocate(p) PROVE ValueInv'
  BY <1>0, <1>4, ValueKept DEF Allocate, Carries, WithNode, WithValue
<1>5. ASSUME NEW p \in Producers, AllocateThrows(p) PROVE ValueInv'
  BY <1>0, <1>5, ValueKept DEF AllocateThrows, Carries, WithNode, WithValue
<1>6. ASSUME NEW p \in Producers, Construct(p) PROVE ValueInv'
  <2>1. /\ node[p] \in Nodes /\ pc[p] = "construct" /\ UNCHANGED <<queue, node>>
        /\ storage' = [storage EXCEPT ![node[p]] = <<p, posted[p] + 1>>]
    BY <1>0, <1>6 DEF Construct, WithNode
  <2>2. <<p, posted[p] + 1>> \in Values
    BY <1>0, <2>1, TypeFacts DEF IInv, PlaceInv, ToLink, Values
  <2>3. /\ Carries(p) = {} /\ Carries(p)' = {node[p]}
        /\ \A u \in Threads : u # p => Carries(u)' = Carries(u)
    BY <1>0, <1>6, <2>1 DEF Construct, Carries, WithValue
  <2>4. /\ storage'[node[p]] # Null
        /\ \A n \in Nodes : n # node[p] => storage'[n] = storage[n]
    BY <1>0, <2>1, <2>2, ValuesAssumption
  <2>5. ASSUME NEW n \in Nodes PROVE (storage[n] # Null <=> Full(n))'
    <3>1. CASE n = node[p]
      BY <1>0, <2>3, <2>4, <3>1 DEF Full
    <3>2. CASE n # node[p]
      <4>1. Full(n)' <=> Full(n)
        BY <1>0, <2>1, <2>3, <3>2 DEF Full
      <4>2. QED BY <1>0, <2>4, <3>2, <4>1 DEF ValueInv
    <3>3. QED BY <3>1, <3>2
  <2>6. QED BY <2>5 DEF ValueInv
<1>7. ASSUME NEW p \in Producers, ConstructThrows(p) PROVE ValueInv'
  BY <1>0, <1>7, ValueKept DEF ConstructThrows, Carries, WithNode,
     WithValue
<1>8. ASSUME NEW p \in Producers, Link(p) PROVE ValueInv'
  BY <1>0, <1>8, ValueKept DEF Link, Attach, Carries, WithNode, WithValue
<1>9. ASSUME NEW p \in Producers, SetTail(p) PROVE ValueInv'
  <2>1. /\ pc[p] = "setTail" /\ node[p] \in Nodes
        /\ queue' = Append(queue, node[p]) /\ UNCHANGED storage
    BY <1>0, <1>9 DEF SetTail, WithNode
  <2>2. /\ Carries(p) = {node[p]} /\ Carries(p)' = {}
        /\ \A u \in Threads : u # p => Carries(u)' = Carries(u)
    BY <1>0, <1>9, <2>1 DEF SetTail, Carries, WithValue
  <2>3. \A m : In(m, queue') <=> In(m, queue) \/ m = node[p]
    BY <1>0, <2>1, AppendFacts
  <2>4. \A n \in Nodes : Full(n)' <=> Full(n)
    BY <1>0, <2>2, <2>3 DEF Full
  <2>5. QED BY <1>0, <2>1, <2>4 DEF ValueInv
<1>10. ASSUME NEW p \in Producers, Signal(p) PROVE ValueInv'
  BY <1>0, <1>10, ValueKept DEF Signal, Carries, WithNode, WithValue
<1>11. CASE Pending
  BY <1>0, <1>11, ValueKept DEF Pending, Carries, WithNode, WithValue
<1>12. ASSUME NEW n \in 1..pending, Consume(n) PROVE ValueInv'
  BY <1>0, <1>12, ValueKept DEF Consume, Carries, WithNode, WithValue
<1>13. CASE ConsumeAll
  BY <1>0, <1>13, ValueKept DEF ConsumeAll, Carries, WithNode, WithValue
<1>14. CASE Pop
  <2>1. /\ pc[Consumer] = "pop" /\ head \in Nodes
        /\ queue' = Tail(queue) /\ UNCHANGED storage
        /\ \A t \in Threads : pc[t] # "setTail"
    BY <1>0, <1>14 DEF Pop, PlaceInv
  <2>2. queue # <<>> /\ queue[1] = head
    BY <1>0, <2>1, ChainHead DEF QueueInv
  <2>3. In(head, queue) /\ \A m : In(m, queue') <=> In(m, queue) /\ m # head
    BY <1>0, <2>1, <2>2, TailFacts DEF OwnInv
  <2>4. /\ Carries(Consumer) = {} /\ Carries(Consumer)' = {head}
        /\ \A u \in Threads : u # Consumer => Carries(u)' = Carries(u)
    BY <1>0, <1>14, <2>1 DEF Pop, Carries, WithValue
  <2>5. \A n \in Nodes : Full(n)' <=> Full(n)
    BY <1>0, <2>3, <2>4 DEF Full
  <2>6. QED BY <1>0, <2>1, <2>5 DEF ValueInv
<1>15. CASE PopTail
  BY <1>0, <1>15, ValueKept DEF PopTail, Carries, WithNode, WithValue
<1>16. CASE Call
  BY <1>0, <1>16, ValueKept DEF Call, Carries, WithNode, WithValue
<1>17. CASE CallbackEnds
  <2> DEFINE m == node[Consumer]
  <2>1. /\ pc[Consumer] = "callback" /\ m \in Nodes /\ UNCHANGED queue
        /\ storage' = [storage EXCEPT ![m] = Null]
    BY <1>0, <1>17 DEF CallbackEnds, WithNode
  <2>2. /\ Carries(Consumer) = {m} /\ Carries(Consumer)' = {}
        /\ \A u \in Threads : u # Consumer => Carries(u)' = Carries(u)
    BY <1>0, <1>17, <2>1 DEF CallbackEnds, Carries, WithValue
  <2>3. /\ m \in Owned(Consumer) /\ ~In(m, queue)
        /\ \A u \in Threads : u # Consumer => m \notin Carries(u)
    BY <1>0, <2>2 DEF OwnInv
  <2>4. /\ storage'[m] = Null
        /\ \A n \in Nodes : n # m => storage'[n] = storage[n]
    BY <1>0, <2>1
  <2> HIDE DEF m
  <2>5. ASSUME NEW n \in Nodes PROVE (storage[n] # Null <=> Full(n))'
    <3>1. CASE n = m
      BY <1>0, <2>1, <2>2, <2>3, <2>4, <3>1 DEF Full
    <3>2. CASE n # m
      <4>1. Full(n)' <=> Full(n)
        BY <1>0, <2>1, <2>2, <3>2 DEF Full
      <4>2. QED BY <1>0, <2>4, <3>2, <4>1 DEF ValueInv
    <3>3. QED BY <3>1, <3>2
  <2>6. QED BY <2>5 DEF ValueInv
<1>18. ASSUME NEW t \in Threads, Put(t) PROVE ValueInv'
  BY <1>0, <1>18, ValueKept DEF Put, Carries, WithNode, WithValue
<1>19. ASSUME NEW t \in Threads, PutHead(t) PROVE ValueInv'
  BY <1>0, <1>19, ValueKept DEF PutHead, AfterNode, LoopContinues, Carries,
     WithNode, WithValue
<1>20. CASE Destroy
  BY <1>0, <1>20, ValueKept DEF Destroy, Carries, WithNode, WithValue
<1>21. CASE DestroyLinked
  <2>1. /\ head \in Nodes /\ queue' = Tail(queue)
        /\ storage' = [storage EXCEPT ![head] = Null]
        /\ \A t \in Threads : pc[t] # "setTail"
        /\ \A t \in Threads : Carries(t)' = Carries(t)
    BY <1>0, <1>21 DEF DestroyLinked, PlaceInv, Threads, Carries
  <2>2. queue # <<>> /\ queue[1] = head
    BY <1>0, <2>1, ChainHead DEF QueueInv
  <2>3. In(head, queue) /\ \A m : In(m, queue') <=> In(m, queue) /\ m # head
    BY <1>0, <2>1, <2>2, TailFacts DEF OwnInv
  <2>4. \A t \in Threads : head \notin Carries(t)
    BY <1>0, <2>3 DEF OwnInv
  <2>5. /\ storage'[head] = Null
        /\ \A n \in Nodes : n # head => storage'[n] = storage[n]
    BY <1>0, <2>1
  <2>6. ASSUME NEW n \in Nodes PROVE (storage[n] # Null <=> Full(n))'
    <3>1. CASE n = head
      BY <2>1, <2>3, <2>4, <2>5, <3>1 DEF Full
    <3>2. CASE n # head
      <4>1. Full(n)' <=> Full(n)
        BY <2>1, <2>3, <3>2 DEF Full
      <4>2. QED BY <1>0, <2>5, <3>2, <4>1 DEF ValueInv
    <3>3. QED BY <3>1, <3>2
  <2>7. QED BY <2>6 DEF ValueInv
<1>22. CASE DestroyFree
  BY <1>0, <1>22, ValueKept DEF DestroyFree, Carries, WithNode, WithValue
<1>23. CASE UNCHANGED vars
  BY <1>0, <1>23, ValueKept DEF vars, Carries, WithNode, WithValue
<1>99. QED
  BY <1>1, <1>2, <1>3, <1>4, <1>5, <1>6, <1>7, <1>8, <1>9, <1>10, <1>11,
     <1>12, <1>13, <1>14, <1>15, <1>16, <1>17, <1>18, <1>19, <1>20, <1>21,
     <1>22, <1>23 DEF Next, Produce, ConsumeStep

LEMMA TypeStep == IInv /\ [Next]_vars => TypeOK'
<1> SUFFICES ASSUME IInv, [Next]_vars PROVE TypeOK'
  OBVIOUS
<1> USE DEF Goes, lists, locks, accounts, auxiliary, TypeOK
<1>0. /\ TypeOK
      /\ \A t \in Threads : node[t] # Null <=> pc[t] \in WithNode
      /\ Producers \subseteq Threads /\ Consumer \in Threads
      /\ Null \notin Nodes /\ MaxEmplace \in Nat
      /\ \A l \in {"idle", "get", "getNext", "allocate", "construct", "link",
                    "setTail", "signal", "pop", "popTail", "call", "callback",
                    "put", "putHead", "destroy"} : l \in Labels
  BY TypeFacts DEF IInv, PlaceInv, Labels
<1>1. ASSUME NEW p \in Producers, Emplace(p) PROVE TypeOK'
  BY <1>0, <1>1 DEF Emplace
<1>2. ASSUME NEW p \in Producers, GetFree(p) PROVE TypeOK'
  <2>1. CASE free = Null
    BY <1>0, <1>2, <2>1 DEF GetFree
  <2>2. CASE free # Null
    BY <1>0, <1>2, <2>2 DEF GetFree
  <2>3. QED BY <2>1, <2>2
<1>3. ASSUME NEW p \in Producers, GetNext(p) PROVE TypeOK'
  <2>1. node[p] \in Nodes /\ node[p] = free /\ spare # <<>>
    BY <1>0, <1>3, ChainHead DEF GetNext, WithNode, IInv, SpareInv
  <2>2. spare' \in Seq(Nodes)
    BY <1>0, <1>3, <2>1, TailFacts DEF GetNext
  <2>3. QED BY <1>0, <1>3, <2>1, <2>2 DEF GetNext
<1>4. ASSUME NEW p \in Producers, Allocate(p) PROVE TypeOK'
  BY <1>0, <1>4 DEF Allocate
<1>5. ASSUME NEW p \in Producers, AllocateThrows(p) PROVE TypeOK'
  BY <1>0, <1>5 DEF AllocateThrows
<1>6. ASSUME NEW p \in Producers, Construct(p) PROVE TypeOK'
  <2>1. <<p, posted[p] + 1>> \in Values
    BY <1>0, <1>6, TypeFacts DEF Construct, IInv, PlaceInv, ToLink, Values
  <2>2. QED BY <1>0, <1>6, <2>1 DEF Construct
<1>7. ASSUME NEW p \in Producers, ConstructThrows(p) PROVE TypeOK'
  BY <1>0, <1>7 DEF ConstructThrows
<1>8. ASSUME NEW p \in Producers, Link(p) PROVE TypeOK'
  BY <1>0, <1>8 DEF Link, Attach
<1>9. ASSUME NEW p \in Producers, SetTail(p) PROVE TypeOK'
  <2>1. posted[p] + 1 \in 0..MaxEmplace /\ node[p] \in Nodes
    BY <1>0, <1>9, TypeFacts DEF SetTail, IInv, PlaceInv, ToLink, WithNode
  <2>2. queue' \in Seq(Nodes)
    BY <1>0, <1>9, <2>1, AppendFacts DEF SetTail
  <2>3. QED BY <1>0, <1>9, <2>1, <2>2 DEF SetTail
<1>10. ASSUME NEW p \in Producers, Signal(p) PROVE TypeOK'
  BY <1>0, <1>10 DEF Signal
<1>11. CASE Pending
  BY <1>0, <1>11 DEF Pending
<1>12. ASSUME NEW n \in 1..pending, Consume(n) PROVE TypeOK'
  <2>1. n \in Nat /\ pending - n \in Nat
    BY <1>0
  <2>2. QED BY <1>0, <1>12, <2>1 DEF Consume
<1>13. CASE ConsumeAll
  BY <1>0, <1>13 DEF ConsumeAll
<1>14. CASE Pop
  <2>1. \A t \in Threads : pc[t] # "setTail"
    BY <1>14, TypeFacts DEF Pop, IInv, PlaceInv
  <2>2. head \in Nodes /\ queue # <<>> /\ left > 0
    BY <1>0, <1>14, <2>1, ChainHead DEF Pop, IInv, QueueInv, CountInv
  <2>3. queue' \in Seq(Nodes) /\ left' \in Nat
    BY <1>0, <1>14, <2>2, TailFacts DEF Pop
  <2>4. QED BY <1>0, <1>14, <2>2, <2>3 DEF Pop
<1>15. CASE PopTail
  BY <1>0, <1>15 DEF PopTail
<1>16. CASE Call
  <2>1. node[Consumer] \in Nodes /\ node[Consumer] \in Carries(Consumer)
    BY <1>0, <1>16 DEF Call, WithNode, Carries, WithValue
  <2>2. storage[node[Consumer]] \in Values
    BY <1>0, <2>1 DEF IInv, ValueInv, Full
  <2>3. QED BY <1>0, <1>16, <2>2 DEF Call
<1>17. CASE CallbackEnds
  BY <1>0, <1>17 DEF CallbackEnds
<1>18. ASSUME NEW t \in Threads, Put(t) PROVE TypeOK'
  BY <1>0, <1>18 DEF Put
<1>19. ASSUME NEW t \in Threads, PutHead(t) PROVE TypeOK'
  <2>1. node[t] \in Nodes
    BY <1>0, <1>19 DEF PutHead, WithNode
  <2>2. spare' \in Seq(Nodes)
    BY <1>0, <1>19, <2>1, PushFacts DEF PutHead
  <2>3. AfterNode(t) \in Labels
    BY <1>0 DEF AfterNode
  <2>4. pc' \in [Threads -> Labels] /\ node' \in [Threads -> Nodes \cup {Null}]
    BY <1>0, <1>19, <2>3 DEF PutHead
  <2>5. CASE t = Consumer /\ ~LoopContinues
    <3>1. /\ pending' = IF all THEN pending ELSE pending + left
          /\ lost' = IF all THEN lost + left ELSE lost
          /\ left' = 0 /\ all' = FALSE /\ unwinding' = FALSE
      BY <1>19, <2>5 DEF PutHead
    <3>2. pending' \in Nat /\ lost' \in Nat /\ left' \in Nat
      BY <1>0, <3>1
    <3>3. /\ free' = node[t] /\ freeLock' = Null
          /\ UNCHANGED <<head, tail, next, storage, lock, efd, allocated, posted,
                        taken, queue>>
      BY <1>19 DEF PutHead
    <3>4. QED BY <1>0, <2>1, <2>2, <2>4, <3>1, <3>2, <3>3
  <2>6. CASE ~(t = Consumer /\ ~LoopContinues)
    BY <1>0, <1>19, <2>1, <2>2, <2>4, <2>6 DEF PutHead
  <2>7. QED BY <2>5, <2>6
<1>20. CASE Destroy
  BY <1>0, <1>20 DEF Destroy
<1>21. CASE DestroyLinked
  <2>1. \A t \in Threads : pc[t] # "setTail"
    BY <1>21 DEF DestroyLinked, IInv, PlaceInv, Threads
  <2>2. head \in Nodes /\ queue # <<>>
    BY <1>0, <1>21, <2>1, ChainHead DEF DestroyLinked, IInv, QueueInv
  <2>3. queue' \in Seq(Nodes)
    BY <1>0, <1>21, <2>2, TailFacts DEF DestroyLinked
  <2>4. QED BY <1>0, <1>21, <2>2, <2>3 DEF DestroyLinked
<1>22. CASE DestroyFree
  <2>1. free \in Nodes /\ spare # <<>>
    BY <1>22, ChainHead DEF DestroyFree, IInv, SpareInv
  <2>2. spare' \in Seq(Nodes)
    BY <1>0, <1>22, <2>1, TailFacts DEF DestroyFree
  <2>3. QED BY <1>0, <1>22, <2>1, <2>2 DEF DestroyFree
<1>23. CASE UNCHANGED vars
  BY <1>0, <1>23 DEF vars
<1>99. QED
  BY <1>1, <1>2, <1>3, <1>4, <1>5, <1>6, <1>7, <1>8, <1>9, <1>10, <1>11,
     <1>12, <1>13, <1>14, <1>15, <1>16, <1>17, <1>18, <1>19, <1>20, <1>21,
     <1>22, <1>23 DEF Next, Produce, ConsumeStep

-----------------------------------------------------------------------------
(* A link that is no list's may change.                                    *)
LEMMA ChainOther ==
  ASSUME NEW s \in Seq(Nodes), NEW f, NEW x \in [Nodes -> Nodes \cup {Null}],
         NEW m, NEW v, Spells(s, f, x), ~In(m, s)
  PROVE  Spells(s, f, [x EXCEPT ![m] = v])
<1>1. \A i \in 1..Len(s) : s[i] \in Nodes /\ s[i] # m
  BY DEF In
<1>2. QED BY <1>1, ChainKept

LEMMA SpareKept ==
  ASSUME SpareInv, UNCHANGED <<free, next, spare, node>>,
         \A t \in Threads : pc'[t] \in {"getNext", "putHead"} => pc'[t] = pc[t]
  PROVE  SpareInv'
BY DEF SpareInv

LEMMA LinkFindsTail ==
  ASSUME IInv, lock = Null, NEW p \in Producers, pc[p] = "link"
  PROVE  /\ tail = IF queue # <<>> THEN queue[Len(queue)] ELSE Null
         /\ tail # Null => In(tail, queue) /\ tail \in Nodes
<1>1. pc[Consumer] \notin {"popTail", "destroy"}
  BY TypeFacts DEF IInv, PlaceInv
<1>2. tail = IF queue # <<>> THEN queue[Len(queue)] ELSE Null
  BY <1>1 DEF IInv, QueueInv
<1>3. queue # <<>> => Len(queue) \in 1..Len(queue)
  BY DEF IInv, TypeOK
<1>4. QED BY <1>2, <1>3 DEF IInv, TypeOK, In

LEMMA SpareStep == IInv /\ [Next]_vars => SpareInv'
<1> SUFFICES ASSUME IInv, [Next]_vars PROVE SpareInv'
  OBVIOUS
<1> USE DEF Goes, lists, locks, accounts, auxiliary
<1>0. /\ OwnInv /\ PlaceInv /\ SpareInv /\ QueueInv
      /\ pc \in [Threads -> Labels] /\ node \in [Threads -> Nodes \cup {Null}]
      /\ Producers \subseteq Threads /\ Consumer \in Threads
      /\ Consumer \notin Producers /\ Null \notin Nodes /\ Null \notin Threads
      /\ free \in Nodes \cup {Null}
      /\ queue \in Seq(Nodes) /\ spare \in Seq(Nodes)
      /\ next \in [Nodes -> Nodes \cup {Null}]
      /\ \A t \in Threads : node[t] # Null <=> pc[t] \in WithNode
      /\ \A t \in Threads : freeLock = t <=> pc[t] \in {"getNext", "putHead"}
  BY TypeFacts DEF IInv, TypeOK, PlaceInv
<1>1. ASSUME NEW p \in Producers, Emplace(p) PROVE SpareInv'
  BY <1>0, <1>1, SpareKept DEF Emplace
<1>2. ASSUME NEW p \in Producers, GetFree(p) PROVE SpareInv'
  BY <1>0, <1>2 DEF GetFree, SpareInv
<1>3. ASSUME NEW p \in Producers, GetNext(p) PROVE SpareInv'
  <2>1. /\ node[p] = free /\ node[p] \in Nodes /\ spare' = Tail(spare)
        /\ next' = [next EXCEPT ![free] = Null] /\ free' = next[free]
        /\ UNCHANGED node /\ pc' = [pc EXCEPT ![p] = "construct"]
    BY <1>0, <1>3 DEF GetNext, SpareInv, WithNode
  <2>2. Spells(spare', free', next) /\ spare # <<>> /\ spare[1] = free
    BY <1>0, <2>1, ChainHead DEF SpareInv
  <2>3. spare' \in Seq(Nodes) /\ ~In(free, spare')
    BY <1>0, <2>1, <2>2, TailFacts DEF OwnInv
  <2>4. Spells(spare', free', next')
    BY <1>0, <2>1, <2>2, <2>3, ChainOther
  <2>5. \A t \in Threads : t # p => pc[t] \notin {"getNext", "putHead"}
    BY <1>0, <1>3 DEF GetNext
  <2>6. \A t \in Threads : pc'[t] \notin {"getNext", "putHead"}
    BY <1>0, <2>1, <2>5
  <2>7. QED BY <2>4, <2>6 DEF SpareInv
<1>4. ASSUME NEW p \in Producers, Allocate(p) PROVE SpareInv'
  <2>1. PICK n \in Nodes \ allocated :
          /\ next' = [next EXCEPT ![n] = Null] /\ node' = [node EXCEPT ![p] = n]
          /\ pc' = [pc EXCEPT ![p] = "construct"] /\ UNCHANGED <<free, spare>>
    BY <1>4 DEF Allocate
  <2>2. ~In(n, spare) /\ \A t \in Threads : n \notin Owned(t)
    BY <1>0 DEF OwnInv
  <2>3. Spells(spare', free', next')
    BY <1>0, <2>1, <2>2, ChainOther DEF SpareInv
  <2>4. ASSUME NEW t \in Threads, pc'[t] = "getNext" PROVE node'[t] = free'
    BY <1>0, <2>1, <2>4 DEF SpareInv
  <2>5. ASSUME NEW t \in Threads, pc'[t] = "putHead" PROVE next'[node'[t]] = free'
    <3>1. pc[t] = "putHead" /\ node'[t] = node[t] /\ node[t] \in Nodes
      BY <1>0, <2>1, <2>5 DEF WithNode
    <3>2. node[t] # n
      BY <1>0, <2>2, <3>1 DEF Owned
    <3>3. QED BY <1>0, <2>1, <3>1, <3>2 DEF SpareInv
  <2>6. QED BY <2>3, <2>4, <2>5 DEF SpareInv
<1>5. ASSUME NEW p \in Producers, AllocateThrows(p) PROVE SpareInv'
  BY <1>0, <1>5, SpareKept DEF AllocateThrows
<1>6. ASSUME NEW p \in Producers, Construct(p) PROVE SpareInv'
  BY <1>0, <1>6, SpareKept DEF Construct
<1>7. ASSUME NEW p \in Producers, ConstructThrows(p) PROVE SpareInv'
  BY <1>0, <1>7, SpareKept DEF ConstructThrows
<1>8. ASSUME NEW p \in Producers, Link(p) PROVE SpareInv'
  <2>1. CASE tail = Null
    BY <1>0, <1>8, <2>1, SpareKept DEF Link, Attach
  <2>2. CASE tail # Null
    <3>1. /\ next' = [next EXCEPT ![tail] = node[p]]
          /\ pc' = [pc EXCEPT ![p] = "setTail"] /\ UNCHANGED <<free, spare, node>>
      BY <1>8, <2>2 DEF Link, Attach
    <3>2. In(tail, queue) /\ tail \in Nodes
      BY <1>0, <1>8, <2>2, LinkFindsTail DEF Link
    <3>3. Spells(spare', free', next')
      BY <1>0, <3>1, <3>2, ChainOther DEF SpareInv, OwnInv
    <3>4. ASSUME NEW t \in Threads, pc'[t] = "getNext" PROVE node'[t] = free'
      BY <1>0, <3>1, <3>4 DEF SpareInv
    <3>5. ASSUME NEW t \in Threads, pc'[t] = "putHead" PROVE next'[node'[t]] = free'
      <4>1. pc[t] = "putHead" /\ node'[t] = node[t] /\ node[t] \in Nodes
        BY <1>0, <3>1, <3>5 DEF WithNode
      <4>2. node[t] # tail
        BY <1>0, <3>2, <4>1 DEF Owned, OwnInv
      <4>3. QED BY <1>0, <3>1, <4>1, <4>2 DEF SpareInv
    <3>6. QED BY <3>3, <3>4, <3>5 DEF SpareInv
  <2>3. QED BY <2>1, <2>2
<1>9. ASSUME NEW p \in Producers, SetTail(p) PROVE SpareInv'
  BY <1>0, <1>9 DEF SetTail, SpareInv
<1>10. ASSUME NEW p \in Producers, Signal(p) PROVE SpareInv'
  BY <1>0, <1>10, SpareKept DEF Signal
<1>11. CASE Pending
  BY <1>0, <1>11, SpareKept DEF Pending
<1>12. ASSUME NEW n \in 1..pending, Consume(n) PROVE SpareInv'
  BY <1>0, <1>12, SpareKept DEF Consume
<1>13. CASE ConsumeAll
  BY <1>0, <1>13, SpareKept DEF ConsumeAll
<1>14. CASE Pop
  BY <1>0, <1>14 DEF Pop, SpareInv
<1>15. CASE PopTail
  BY <1>0, <1>15, SpareKept DEF PopTail
<1>16. CASE Call
  BY <1>0, <1>16, SpareKept DEF Call
<1>17. CASE CallbackEnds
  BY <1>0, <1>17, SpareKept DEF CallbackEnds
<1>18. ASSUME NEW t \in Threads, Put(t) PROVE SpareInv'
  <2>1. /\ next' = [next EXCEPT ![node[t]] = free] /\ node[t] \in Nodes
        /\ pc[t] = "put" /\ pc' = [pc EXCEPT ![t] = "putHead"]
        /\ UNCHANGED <<free, spare, node>> /\ freeLock = Null
    BY <1>0, <1>18 DEF Put, WithNode
  <2>2. node[t] \in Owned(t)
    BY <1>0, <2>1 DEF Owned
  <2>3. Spells(spare', free', next')
    BY <1>0, <2>1, <2>2, ChainOther DEF SpareInv, OwnInv
  <2>4. \A u \in Threads : pc'[u] \in {"getNext", "putHead"} => u = t
    BY <1>0, <2>1
  <2>5. next'[node[t]] = free /\ pc'[t] = "putHead"
    BY <1>0, <2>1
  <2>6. QED BY <2>1, <2>3, <2>4, <2>5 DEF SpareInv
<1>19. ASSUME NEW t \in Threads, PutHead(t) PROVE SpareInv'
  <2>1. /\ free' = node[t] /\ node[t] \in Nodes /\ next[node[t]] = free
        /\ spare' = <<node[t]>> \o spare /\ UNCHANGED next
        /\ freeLock = t
    BY <1>0, <1>19 DEF PutHead, WithNode, SpareInv
  <2>2. Spells(spare', free', next')
    BY <1>0, <2>1, ChainPush DEF SpareInv
  <2>3. \A u \in Threads : pc'[u] \notin {"getNext", "putHead"}
    BY <1>0, <1>19, <2>1 DEF PutHead, AfterNode
  <2>4. QED BY <2>2, <2>3 DEF SpareInv
<1>20. CASE Destroy
  BY <1>0, <1>20, SpareKept DEF Destroy
<1>21. CASE DestroyLinked
  BY <1>0, <1>21, SpareKept DEF DestroyLinked
<1>22. CASE DestroyFree
  <2>1. /\ free \in Nodes /\ spare' = Tail(spare) /\ free' = next[free]
        /\ UNCHANGED <<pc, node, next>>
    BY <1>0, <1>22 DEF DestroyFree
  <2>2. Spells(spare', free', next')
    BY <1>0, <2>1, ChainHead DEF SpareInv
  <2>3. \A t \in Threads : pc[t] \notin {"getNext", "putHead"}
    BY <1>0, <1>22 DEF DestroyFree, PlaceInv, Threads
  <2>4. QED BY <2>1, <2>2, <2>3 DEF SpareInv
<1>23. CASE UNCHANGED vars
  BY <1>0, <1>23, SpareKept DEF vars
<1>99. QED
  BY <1>1, <1>2, <1>3, <1>4, <1>5, <1>6, <1>7, <1>8, <1>9, <1>10, <1>11,
     <1>12, <1>13, <1>14, <1>15, <1>16, <1>17, <1>18, <1>19, <1>20, <1>21,
     <1>22, <1>23 DEF Next, Produce, ConsumeStep

-----------------------------------------------------------------------------
(* The steps of a thread u that change one link, of a node m of its own,   *)
(* outside of the critical sections of the queue.                          *)
LEMMA QueueOther ==
  ASSUME IInv, NEW m \in Nodes, NEW v, NEW u \in Threads,
         next' = [next EXCEPT ![m] = v], UNCHANGED <<head, tail, queue>>,
         ~In(m, queue),
         \A t \in Threads \ {u} : pc'[t] = pc[t] /\ node'[t] = node[t],
         pc[u] \notin {"setTail", "popTail", "destroy"},
         pc'[u] \notin {"setTail", "popTail", "destroy", "link"},
         pc'[u] = "construct" => node'[u] = m /\ v = Null,
         \A t \in Threads \ {u} :
            pc[t] \in {"construct", "link", "setTail"} => node[t] # m
  PROVE  QueueInv'
<1>0. /\ QueueInv /\ queue \in Seq(Nodes)
      /\ next \in [Nodes -> Nodes \cup {Null}]
      /\ \A t \in Threads : pc[t] = "setTail" => node[t] \in Nodes
      /\ Consumer \in Threads
      /\ node \in [Threads -> Nodes \cup {Null}]
  BY TypeFacts DEF IInv, TypeOK, PlaceInv, WithNode
<1>1. ASSUME NEW t \in Threads, pc'[t] \in {"construct", "link"}
      PROVE  next'[node'[t]] = Null
  <2>0. \A t1 \in Threads : pc[t1] \in {"construct", "link"} => node[t1] \in Nodes
    BY <1>0 DEF IInv, PlaceInv, WithNode
  <2>1. CASE t = u
    BY <1>0, <1>1, <2>1 DEF TypeOK, IInv
  <2>2. CASE t # u
    BY <1>0, <1>1, <2>0, <2>2 DEF QueueInv
  <2>3. QED BY <2>1, <2>2
<1>2. ASSUME NEW t \in Threads, pc'[t] = "setTail"
      PROVE  Spells(Append(queue', node'[t]), head', next')
  <2>1. t # u /\ pc[t] = "setTail" /\ node'[t] = node[t] /\ node[t] # m /\ node[t] \in Nodes
    BY <1>0, <1>2
  <2>2. Append(queue, node[t]) \in Seq(Nodes) /\ ~In(m, Append(queue, node[t]))
    BY <1>0, <2>1, AppendFacts
  <2>3. Spells(Append(queue, node[t]), head, next)
    BY <1>0, <2>1 DEF QueueInv
  <2>4. QED BY <1>0, <2>1, <2>2, <2>3, ChainOther
<1>3. ASSUME \A t \in Threads : pc'[t] # "setTail" PROVE Spells(queue', head', next')
  <2>1. \A t \in Threads : pc[t] # "setTail"
    BY <1>3
  <2>2. QED BY <1>0, <2>1, ChainOther DEF QueueInv
<1>4. ASSUME pc'[Consumer] # "destroy"
      PROVE  tail' = IF queue' # <<>> THEN queue'[Len(queue')]
                     ELSE IF pc'[Consumer] = "popTail" THEN node'[Consumer] ELSE Null
  <2>1. CASE Consumer = u
    BY <1>0, <1>4, <2>1 DEF QueueInv
  <2>2. CASE Consumer # u
    <3>1. pc'[Consumer] = pc[Consumer] /\ node'[Consumer] = node[Consumer]
      BY <1>0, <2>2
    <3>2. QED BY <1>0, <1>4, <3>1 DEF QueueInv
  <2>3. QED BY <2>1, <2>2
<1>5. QED BY <1>1, <1>2, <1>3, <1>4 DEF QueueInv

(* The steps that change no link.                                          *)
LEMMA QueueKept ==
  ASSUME QueueInv, UNCHANGED <<head, tail, queue, next>>, Consumer \in Threads,
         \A t \in Threads : pc'[t] \in {"construct", "link"} =>
            pc[t] \in {"construct", "link"} /\ node'[t] = node[t],
         \A t \in Threads : pc'[t] = "setTail" <=> pc[t] = "setTail",
         \A t \in Threads : pc'[t] \in {"setTail", "popTail"} => node'[t] = node[t],
         pc'[Consumer] # "destroy" =>
            /\ pc[Consumer] # "destroy"
            /\ pc'[Consumer] = "popTail" <=> pc[Consumer] = "popTail"
  PROVE  QueueInv'
<1>1. ASSUME NEW t \in Threads, pc'[t] = "setTail"
      PROVE  Spells(Append(queue', node'[t]), head', next')
  BY <1>1 DEF QueueInv
<1>2. ASSUME \A t \in Threads : pc'[t] # "setTail" PROVE Spells(queue', head', next')
  BY <1>2 DEF QueueInv
<1>3. QED BY <1>1, <1>2 DEF QueueInv

LEMMA LastInNodes ==
  ASSUME NEW s \in Seq(Nodes), s # <<>> PROVE s[Len(s)] \in Nodes /\ s[Len(s)] # Null
<1>1. Len(s) \in 1..Len(s)
  OBVIOUS
<1>2. QED BY <1>1, NullAssumption

LEMMA QueueStep == IInv /\ [Next]_vars => QueueInv'
<1> SUFFICES ASSUME IInv, [Next]_vars PROVE QueueInv'
  OBVIOUS
<1> USE DEF Goes, lists, locks, accounts, auxiliary
<1>0. /\ IInv /\ OwnInv /\ PlaceInv /\ QueueInv
      /\ pc \in [Threads -> Labels] /\ node \in [Threads -> Nodes \cup {Null}]
      /\ Producers \subseteq Threads /\ Consumer \in Threads
      /\ Consumer \notin Producers /\ Null \notin Nodes /\ Null \notin Threads
      /\ queue \in Seq(Nodes) /\ spare \in Seq(Nodes)
      /\ head \in Nodes \cup {Null}
      /\ next \in [Nodes -> Nodes \cup {Null}]
      /\ \A t \in Threads : node[t] # Null <=> pc[t] \in WithNode
      /\ \A t \in Threads : lock = t <=> pc[t] \in {"setTail", "popTail"}
      /\ \A p \in Producers : pc[p] \notin {"popTail", "destroy"}
  BY TypeFacts DEF IInv, TypeOK, PlaceInv, ProducerLabels
<1>1. ASSUME NEW p \in Producers, Emplace(p) PROVE QueueInv'
  BY <1>0, <1>1, QueueKept DEF Emplace
<1>2. ASSUME NEW p \in Producers, GetFree(p) PROVE QueueInv'
  BY <1>0, <1>2, QueueKept DEF GetFree
<1>3. ASSUME NEW p \in Producers, GetNext(p) PROVE QueueInv'
  <2>1. /\ node[p] = free /\ node[p] \in Nodes
        /\ next' = [next EXCEPT ![node[p]] = Null]
        /\ UNCHANGED <<head, tail, queue, node>>
        /\ pc[p] = "getNext" /\ pc' = [pc EXCEPT ![p] = "construct"]
    BY <1>0, <1>3 DEF GetNext, IInv, SpareInv, WithNode
  <2>2. In(node[p], spare)
    <3>1. spare # <<>> /\ spare[1] = node[p]
      BY <1>0, <2>1, ChainHead DEF IInv, SpareInv
    <3>2. QED BY <1>0, <3>1, TailFacts
  <2>3. ~In(node[p], queue)
    BY <2>1, <2>2 DEF IInv, OwnInv
  <2>4. \A t \in Threads \ {p} :
           pc[t] \in {"construct", "link", "setTail"} => node[t] # node[p]
    BY <1>0, <2>1, <2>2 DEF OwnInv, Owned, WithNode
  <2>5. \A t \in Threads \ {p} : pc'[t] = pc[t] /\ node'[t] = node[t]
    BY <1>0, <2>1
  <2>6. pc'[p] = "construct" /\ node'[p] = node[p]
    BY <1>0, <2>1
  <2>7. QED BY <1>0, <2>1, <2>3, <2>4, <2>5, <2>6, QueueOther
<1>4. ASSUME NEW p \in Producers, Allocate(p) PROVE QueueInv'
  <2>1. PICK n \in Nodes \ allocated :
          /\ next' = [next EXCEPT ![n] = Null] /\ node' = [node EXCEPT ![p] = n]
          /\ pc[p] = "allocate" /\ pc' = [pc EXCEPT ![p] = "construct"]
          /\ UNCHANGED <<head, tail, queue>>
    BY <1>4 DEF Allocate
  <2>2. ~In(n, queue) /\ \A t \in Threads : n \notin Owned(t)
    BY <1>0 DEF OwnInv
  <2>3. \A t \in Threads \ {p} :
           pc[t] \in {"construct", "link", "setTail"} => node[t] # n
    BY <1>0, <2>1, <2>2 DEF Owned, WithNode
  <2>4. \A t \in Threads \ {p} : pc'[t] = pc[t] /\ node'[t] = node[t]
    BY <1>0, <2>1
  <2>5. pc'[p] = "construct" /\ node'[p] = n
    BY <1>0, <2>1
  <2>6. QED BY <1>0, <2>1, <2>2, <2>3, <2>4, <2>5, QueueOther
<1>5. ASSUME NEW p \in Producers, AllocateThrows(p) PROVE QueueInv'
  BY <1>0, <1>5, QueueKept DEF AllocateThrows
<1>6. ASSUME NEW p \in Producers, Construct(p) PROVE QueueInv'
  <2>1. /\ pc[p] = "construct" /\ pc' = [pc EXCEPT ![p] = "link"]
        /\ UNCHANGED <<head, tail, queue, next, node>>
    BY <1>6 DEF Construct
  <2>2. QED BY <1>0, <2>1, QueueKept
<1>7. ASSUME NEW p \in Producers, ConstructThrows(p) PROVE QueueInv'
  BY <1>0, <1>7, QueueKept DEF ConstructThrows
<1>8. ASSUME NEW p \in Producers, Link(p) PROVE QueueInv'
  <2>1. /\ lock = Null /\ pc[p] = "link" /\ pc' = [pc EXCEPT ![p] = "setTail"]
        /\ UNCHANGED <<tail, queue, node>> /\ Attach(p)
    BY <1>8 DEF Link
  <2>2. /\ tail = IF queue # <<>> THEN queue[Len(queue)] ELSE Null
        /\ tail # Null => In(tail, queue) /\ tail \in Nodes
    BY <1>0, <2>1, LinkFindsTail
  <2>3. /\ node[p] \in Nodes /\ ~In(node[p], queue) /\ next[node[p]] = Null
        /\ \A t \in Threads : pc[t] \in {"construct", "link"} =>
              node[t] \in Nodes /\ ~In(node[t], queue)
    BY <1>0, <2>1 DEF OwnInv, Owned, QueueInv, WithNode
  <2>4. /\ Spells(queue, head, next) /\ Inj(queue)
        /\ \A t \in Threads : pc[t] \notin {"setTail", "popTail"}
    BY <1>0, <2>1 DEF QueueInv, OwnInv
  <2>5. Spells(Append(queue, node[p]), head', next')
    <3>1. /\ queue = <<>> => Spells(Append(queue, node[p]), node[p], next)
          /\ queue # <<>> => Spells(Append(queue, node[p]), head,
                                    [next EXCEPT ![queue[Len(queue)]] = node[p]])
      BY <1>0, <2>3, <2>4, ChainAppend
    <3>2. CASE tail = Null
      <4>1. queue = <<>>
        BY <1>0, <2>2, <3>2, AppendFacts, LastInNodes
      <4>2. head' = node[p] /\ next' = next
        BY <2>1, <3>2 DEF Attach
      <4>3. QED BY <3>1, <4>1, <4>2
    <3>3. CASE tail # Null
      <4>1. queue # <<>> /\ tail = queue[Len(queue)]
        BY <2>2, <3>3
      <4>2. head' = head /\ next' = [next EXCEPT ![queue[Len(queue)]] = node[p]]
        BY <2>1, <3>3, <4>1 DEF Attach
      <4>3. QED BY <3>1, <4>1, <4>2
    <3>4. QED BY <3>2, <3>3
  <2>6. ASSUME NEW t \in Threads, pc'[t] \in {"construct", "link"}
        PROVE  next'[node'[t]] = Null
    <3>1. t # p /\ pc'[t] = pc[t] /\ node'[t] = node[t]
      BY <1>0, <2>1, <2>6
    <3>2. node[t] # tail /\ next[node[t]] = Null
      BY <1>0, <2>2, <2>3, <2>6, <3>1 DEF QueueInv
    <3>3. QED BY <1>0, <2>1, <2>3, <2>6, <3>1, <3>2 DEF Attach
  <2>7. \A t \in Threads : pc'[t] = "setTail" => t = p
    BY <1>0, <2>1, <2>4
  <2>8. pc'[Consumer] = pc[Consumer] /\ pc'[p] = "setTail"
    BY <1>0, <2>1
  <2>9. /\ \A t \in Threads : pc'[t] = "setTail" =>
              Spells(Append(queue', node'[t]), head', next')
        /\ ~ \A t \in Threads : pc'[t] # "setTail"
    BY <1>0, <2>1, <2>5, <2>7, <2>8
  <2>10. pc[Consumer] # "destroy" =>
           tail = IF queue # <<>> THEN queue[Len(queue)] ELSE Null
    BY <2>2
  <2>11. pc'[Consumer] # "popTail"
    BY <1>0, <2>4, <2>8
  <2>12. QED BY <2>1, <2>2, <2>6, <2>9, <2>11 DEF QueueInv
<1>9. ASSUME NEW p \in Producers, SetTail(p) PROVE QueueInv'
  <2>1. /\ pc[p] = "setTail" /\ node[p] \in Nodes
        /\ pc' = [pc EXCEPT ![p] = "signal"] /\ node' = [node EXCEPT ![p] = Null]
        /\ queue' = Append(queue, node[p]) /\ tail' = node[p]
        /\ UNCHANGED <<head, next>>
    BY <1>0, <1>9 DEF SetTail, WithNode
  <2>2. queue' # <<>> /\ queue'[Len(queue')] = node[p]
    BY <1>0, <2>1, AppendFacts
  <2>3. Spells(queue', head', next')
    BY <1>0, <2>1 DEF QueueInv
  <2>4. \A t \in Threads : pc'[t] # "setTail"
    BY <1>0, <2>1
  <2>5. \A t \in Threads : pc'[t] \in {"construct", "link"} =>
           pc[t] = pc'[t] /\ node'[t] = node[t]
    BY <1>0, <2>1
  <2>6. QED BY <1>0, <2>1, <2>2, <2>3, <2>4, <2>5 DEF QueueInv
<1>10. ASSUME NEW p \in Producers, Signal(p) PROVE QueueInv'
  BY <1>0, <1>10, QueueKept DEF Signal
<1>11. CASE Pending
  BY <1>0, <1>11, QueueKept DEF Pending
<1>12. ASSUME NEW n \in 1..pending, Consume(n) PROVE QueueInv'
  BY <1>0, <1>12, QueueKept DEF Consume
<1>13. CASE ConsumeAll
  BY <1>0, <1>13, QueueKept DEF ConsumeAll
<1>14. CASE Pop
  <2>1. /\ lock = Null /\ pc[Consumer] = "pop" /\ head \in Nodes
        /\ pc' = [pc EXCEPT ![Consumer] = "popTail"]
        /\ node' = [node EXCEPT ![Consumer] = head]
        /\ head' = next[head] /\ queue' = Tail(queue) /\ UNCHANGED <<tail, next>>
    BY <1>0, <1>14 DEF Pop
  <2>2. \A t \in Threads : pc[t] # "setTail"
    BY <1>0, <2>1
  <2>3. queue # <<>> /\ queue[1] = head /\ Spells(queue', head', next')
    BY <1>0, <2>1, <2>2, ChainHead DEF QueueInv
  <2>4. /\ Len(queue) \in Nat \ {0} /\ Len(queue') = Len(queue) - 1
        /\ queue' \in Seq(Nodes)
        /\ \A i \in 1..(Len(queue) - 1) : queue'[i] = queue[i + 1]
    BY <1>0, <2>1, <2>3, TailFacts
  <2>5. tail = queue[Len(queue)]
    BY <1>0, <2>1, <2>3 DEF QueueInv
  <2>6. queue' # <<>> => tail = queue'[Len(queue')]
    <3>1. queue' # <<>> => Len(queue') # 0
      BY <2>4
    <3>2. queue' # <<>> =>
             /\ Len(queue) - 1 \in 1..(Len(queue) - 1)
             /\ (Len(queue) - 1) + 1 = Len(queue)
      BY <2>4, <3>1
    <3>3. QED BY <2>4, <2>5, <3>2
  <2>7. queue' = <<>> => tail = head
    <3>1. queue' = <<>> => Len(queue) = 1
      BY <2>4
    <3>2. QED BY <2>3, <2>5, <3>1
  <2>8. pc'[Consumer] = "popTail" /\ node'[Consumer] = head
    BY <1>0, <2>1
  <2>9. /\ \A t \in Threads : pc'[t] # "setTail"
        /\ \A t \in Threads : pc'[t] \in {"construct", "link"} =>
              pc[t] = pc'[t] /\ node'[t] = node[t]
    BY <1>0, <2>1, <2>2
  <2>10. QED BY <1>0, <2>1, <2>3, <2>6, <2>7, <2>8, <2>9 DEF QueueInv
<1>15. CASE PopTail
  <2>1. /\ pc[Consumer] = "popTail" /\ pc' = [pc EXCEPT ![Consumer] = "call"]
        /\ tail' = IF head = Null THEN Null ELSE tail
        /\ UNCHANGED <<head, next, queue, node>>
    BY <1>15 DEF PopTail
  <2>2. \A t \in Threads : pc[t] # "setTail"
    <3>1. \A t \in Threads : pc[t] = "setTail" => t = Consumer
      BY <1>0, <2>1
    <3>2. QED BY <2>1, <3>1
  <2>3. Spells(queue, head, next) /\ (head = Null <=> queue = <<>>)
    BY <1>0, <2>2, ChainHead DEF QueueInv
  <2>4. tail' = IF queue # <<>> THEN queue[Len(queue)] ELSE Null
    BY <1>0, <2>1, <2>3 DEF QueueInv
  <2>5. /\ pc'[Consumer] = "call"
        /\ \A t \in Threads : pc'[t] # "setTail"
        /\ \A t \in Threads : pc'[t] \in {"construct", "link"} => pc[t] = pc'[t]
    BY <1>0, <2>1, <2>2
  <2>6. QED BY <1>0, <2>1, <2>3, <2>4, <2>5 DEF QueueInv
<1>16. CASE Call
  BY <1>0, <1>16, QueueKept DEF Call
<1>17. CASE CallbackEnds
  BY <1>0, <1>17, QueueKept DEF CallbackEnds
<1>18. ASSUME NEW t \in Threads, Put(t) PROVE QueueInv'
  <2>1. /\ next' = [next EXCEPT ![node[t]] = free] /\ node[t] \in Nodes
        /\ pc[t] = "put" /\ pc' = [pc EXCEPT ![t] = "putHead"]
        /\ UNCHANGED <<head, tail, queue, node>>
    BY <1>0, <1>18 DEF Put, WithNode
  <2>2. node[t] \in Owned(t)
    BY <1>0, <2>1 DEF Owned
  <2>3. ~In(node[t], queue)
    BY <1>0, <2>2 DEF OwnInv
  <2>4. \A u \in Threads \ {t} :
           pc[u] \in {"construct", "link", "setTail"} => node[u] # node[t]
    BY <1>0, <2>1, <2>2 DEF OwnInv, Owned, WithNode
  <2>5. \A u \in Threads \ {t} : pc'[u] = pc[u] /\ node'[u] = node[u]
    BY <1>0, <2>1
  <2>6. pc'[t] = "putHead"
    BY <1>0, <2>1
  <2>7. QED BY <1>0, <2>1, <2>3, <2>4, <2>5, <2>6, QueueOther
<1>19. ASSUME NEW t \in Threads, PutHead(t) PROVE QueueInv'
  BY <1>0, <1>19, QueueKept DEF PutHead, AfterNode, LoopContinues,
     AfterNode
<1>20. CASE Destroy
  BY <1>0, <1>20, QueueKept DEF Destroy
<1>21. CASE DestroyLinked
  <2>1. /\ pc[Consumer] = "destroy" /\ head \in Nodes /\ queue' = Tail(queue)
        /\ head' = next[head] /\ UNCHANGED <<pc, node, next>>
        /\ \A t \in Threads : pc[t] \notin {"setTail", "construct", "link"}
    BY <1>0, <1>21 DEF DestroyLinked, PlaceInv, Threads
  <2>2. Spells(queue', head', next')
    BY <1>0, <2>1, ChainHead DEF QueueInv
  <2>3. QED BY <2>1, <2>2 DEF QueueInv
<1>22. CASE DestroyFree
  BY <1>0, <1>22, QueueKept DEF DestroyFree
<1>23. CASE UNCHANGED vars
  BY <1>0, <1>23, QueueKept DEF vars
<1>99. QED
  BY <1>1, <1>2, <1>3, <1>4, <1>5, <1>6, <1>7, <1>8, <1>9, <1>10, <1>11,
     <1>12, <1>13, <1>14, <1>15, <1>16, <1>17, <1>18, <1>19, <1>20, <1>21,
     <1>22, <1>23 DEF Next, Produce, ConsumeStep

-----------------------------------------------------------------------------
(* The threads that have linked a value and not announced it: one more     *)
(* with SetTail, one less with Signal.                                     *)
LEMMA ThreadsFinite == IsFiniteSet(Threads)
BY ProducersAssumption, FS_AddElement DEF Threads

LEMMA AtFinite ==
  ASSUME NEW label
  PROVE  IsFiniteSet(At(label)) /\ Cardinality(At(label)) \in Nat
<1>1. At(label) \in SUBSET Threads
  BY DEF At
<1>2. QED BY <1>1, ThreadsFinite, FS_Subset, FS_CardinalityType

LEMMA SignalsKept ==
  ASSUME \A t \in Threads : pc'[t] = "signal" <=> pc[t] = "signal"
  PROVE  Cardinality(At("signal"))' = Cardinality(At("signal"))
<1>1. At("signal")' = At("signal")
  BY DEF At
<1>2. QED BY <1>1

LEMMA SignalsMove ==
  ASSUME NEW p \in Threads, \A t \in Threads \ {p} : pc'[t] = pc[t]
  PROVE  /\ pc[p] # "signal" /\ pc'[p] = "signal" =>
              Cardinality(At("signal"))' = Cardinality(At("signal")) + 1
         /\ pc[p] = "signal" /\ pc'[p] # "signal" =>
              Cardinality(At("signal"))' = Cardinality(At("signal")) - 1
<1>1. ASSUME pc[p] # "signal", pc'[p] = "signal"
      PROVE  Cardinality(At("signal"))' = Cardinality(At("signal")) + 1
  <2>1. At("signal")' = At("signal") \cup {p} /\ p \notin At("signal")
    BY <1>1 DEF At
  <2>2. QED BY <2>1, AtFinite, FS_AddElement
<1>2. ASSUME pc[p] = "signal", pc'[p] # "signal"
      PROVE  Cardinality(At("signal"))' = Cardinality(At("signal")) - 1
  <2>1. At("signal")' = At("signal") \ {p} /\ p \in At("signal")
    BY <1>2 DEF At
  <2>2. QED BY <2>1, AtFinite, FS_RemoveElement
<1>3. QED BY <1>1, <1>2

LEMMA CountKept ==
  ASSUME CountInv, UNCHANGED <<queue, efd, pending, left, lost>>,
         \A t \in Threads : pc'[t] = "signal" <=> pc[t] = "signal",
         pc'[Consumer] = "pop" => pc[Consumer] = "pop",
         pc'[Consumer] = "idle" => pc[Consumer] = "idle",
         pc'[Consumer] # "destroy" => pc[Consumer] # "destroy"
  PROVE  CountInv'
BY SignalsKept DEF CountInv, EveryValueAnnounced

LEMMA CountStep == IInv /\ [Next]_vars => CountInv'
<1> SUFFICES ASSUME IInv, [Next]_vars PROVE CountInv'
  OBVIOUS
<1> USE DEF Goes, lists, locks, accounts, auxiliary
<1>0. /\ CountInv /\ PlaceInv
      /\ pc \in [Threads -> Labels]
      /\ Producers \subseteq Threads /\ Consumer \in Threads
      /\ Consumer \notin Producers
      /\ efd \in Nat /\ pending \in Nat /\ left \in Nat /\ lost \in Nat
      /\ queue \in Seq(Nodes) /\ Len(queue) \in Nat
      /\ Cardinality(At("signal")) \in Nat
      /\ \A p \in Producers : pc[p] # "destroy"
  <2>1. Cardinality(At("signal")) \in Nat
    BY AtFinite
  <2>2. \A s \in Seq(Nodes) : Len(s) \in Nat
    OBVIOUS
  <2>3. QED BY <2>1, <2>2, TypeFacts DEF IInv, TypeOK, PlaceInv, ProducerLabels
<1> DEFINE signals == Cardinality(At("signal"))
<1>s. /\ signals = Cardinality(At("signal")) /\ signals \in Nat
      /\ signals' = Cardinality(At("signal"))'
      /\ pc[Consumer] # "destroy" => Len(queue) = signals + efd + pending + left + lost
  BY <1>0 DEF CountInv, EveryValueAnnounced
<1>r. /\ pc'[Consumer] = "pop" => left' > 0
      /\ pc'[Consumer] = "idle" => left' = 0
      /\ pc'[Consumer] # "destroy" =>
            Len(queue') = signals' + efd' + pending' + left' + lost'
      => CountInv'
  BY DEF CountInv, EveryValueAnnounced
<1> HIDE DEF signals
<1>1. ASSUME NEW p \in Producers, Emplace(p) PROVE CountInv'
  BY <1>0, <1>1, CountKept DEF Emplace
<1>2. ASSUME NEW p \in Producers, GetFree(p) PROVE CountInv'
  BY <1>0, <1>2, CountKept DEF GetFree
<1>3. ASSUME NEW p \in Producers, GetNext(p) PROVE CountInv'
  BY <1>0, <1>3, CountKept DEF GetNext
<1>4. ASSUME NEW p \in Producers, Allocate(p) PROVE CountInv'
  BY <1>0, <1>4, CountKept DEF Allocate
<1>5. ASSUME NEW p \in Producers, AllocateThrows(p) PROVE CountInv'
  BY <1>0, <1>5, CountKept DEF AllocateThrows
<1>6. ASSUME NEW p \in Producers, Construct(p) PROVE CountInv'
  BY <1>0, <1>6, CountKept DEF Construct
<1>7. ASSUME NEW p \in Producers, ConstructThrows(p) PROVE CountInv'
  BY <1>0, <1>7, CountKept DEF ConstructThrows
<1>8. ASSUME NEW p \in Producers, Link(p) PROVE CountInv'
  BY <1>0, <1>8, CountKept DEF Link, Attach
<1>9. ASSUME NEW p \in Producers, SetTail(p) PROVE CountInv'
  <2>1. /\ pc[p] = "setTail" /\ pc' = [pc EXCEPT ![p] = "signal"]
        /\ queue' = Append(queue, node[p]) /\ node[p] \in Nodes
        /\ UNCHANGED <<efd, pending, left, lost>>
    BY <1>0, <1>9, TypeFacts DEF SetTail, PlaceInv, WithNode, IInv
  <2>2. Len(queue') = Len(queue) + 1
    BY <1>0, <2>1, AppendFacts
  <2>3. /\ pc'[p] = "signal" /\ pc'[Consumer] = pc[Consumer]
        /\ \A t \in Threads \ {p} : pc'[t] = pc[t]
    BY <1>0, <2>1
  <2>4. Cardinality(At("signal"))' = Cardinality(At("signal")) + 1
    BY <1>0, <2>1, <2>3, SignalsMove
  <2>5. Len(queue') = signals' + efd' + pending' + left' + lost'
    <3>1. /\ signals' = signals + 1 /\ Len(queue') = Len(queue) + 1
          /\ Len(queue) = signals + efd + pending + left + lost
      BY <1>0, <1>s, <2>1, <2>2, <2>4 DEF PlaceInv
    <3>2. /\ signals \in Nat /\ efd \in Nat /\ pending \in Nat /\ left \in Nat
          /\ lost \in Nat
      BY <1>0, <1>s
    <3>3. signals' + efd' + pending' + left' + lost'
          = (signals + efd + pending + left + lost) + 1
      BY <2>1, <3>1, <3>2
    <3>4. QED BY <3>1, <3>3
  <2>6. QED BY <1>0, <1>r, <2>1, <2>3, <2>5 DEF CountInv
<1>10. ASSUME NEW p \in Producers, Signal(p) PROVE CountInv'
  <2>1. /\ pc[p] = "signal" /\ pc' = [pc EXCEPT ![p] = "idle"] /\ efd' = efd + 1
        /\ UNCHANGED <<queue, pending, left, lost>>
    BY <1>10 DEF Signal
  <2>2. /\ pc'[p] = "idle" /\ pc'[Consumer] = pc[Consumer]
        /\ \A t \in Threads \ {p} : pc'[t] = pc[t]
    BY <1>0, <2>1
  <2>3. Cardinality(At("signal"))' = Cardinality(At("signal")) - 1
    BY <1>0, <2>1, <2>2, SignalsMove
  <2>4. QED BY <1>0, <2>1, <2>2, <2>3 DEF CountInv, EveryValueAnnounced
<1>11. CASE Pending
  <2>1. Cardinality(At("signal"))' = Cardinality(At("signal"))
    BY <1>11, SignalsKept DEF Pending
  <2>2. QED BY <1>0, <1>11, <2>1 DEF Pending, CountInv, EveryValueAnnounced
<1>12. ASSUME NEW n \in 1..pending, Consume(n) PROVE CountInv'
  <2>1. /\ pc' = [pc EXCEPT ![Consumer] = "pop"] /\ pc[Consumer] = "idle"
        /\ left = 0 /\ left' \in Nat \ {0}
        /\ efd' + pending' + left' = efd + pending /\ UNCHANGED <<queue, lost>>
        /\ efd' \in Nat /\ pending' \in Nat
    BY <1>0, <1>12 DEF Consume, CountInv
  <2>2. /\ pc'[Consumer] = "pop"
        /\ \A t \in Threads : pc'[t] = "signal" <=> pc[t] = "signal"
    BY <1>0, <2>1
  <2>3. Cardinality(At("signal"))' = Cardinality(At("signal"))
    BY <2>2, SignalsKept
  <2>4. Len(queue') = signals' + efd' + pending' + left' + lost'
    <3>1. signals' = signals /\ Len(queue') = Len(queue)
      BY <1>s, <2>1, <2>3
    <3>2. Len(queue) = signals + efd + pending + 0 + lost
      BY <1>s, <2>1
    <3>3. lost' = lost /\ efd' + pending' + left' = efd + pending
      BY <2>1
    <3>4. /\ signals \in Nat /\ efd \in Nat /\ pending \in Nat /\ lost \in Nat
          /\ efd' \in Nat /\ pending' \in Nat /\ left' \in Nat
      BY <1>0, <1>s, <2>1
    <3>5. signals' + efd' + pending' + left' + lost'
          = signals + (efd' + pending' + left') + lost
      BY <3>1, <3>3, <3>4
    <3>6. signals + efd + pending + 0 + lost = signals + (efd + pending) + lost
      BY <3>4
    <3>7. QED BY <3>1, <3>2, <3>3, <3>5, <3>6
  <2>5. QED BY <1>r, <2>1, <2>2, <2>4
<1>13. CASE ConsumeAll
  <2>1. /\ pc' = [pc EXCEPT ![Consumer] = "pop"] /\ pc[Consumer] = "idle"
        /\ left = 0 /\ left' \in Nat \ {0}
        /\ efd' + pending' + left' = efd + pending /\ UNCHANGED <<queue, lost>>
        /\ efd' \in Nat /\ pending' \in Nat
    BY <1>0, <1>13 DEF ConsumeAll, CountInv
  <2>2. /\ pc'[Consumer] = "pop"
        /\ \A t \in Threads : pc'[t] = "signal" <=> pc[t] = "signal"
    BY <1>0, <2>1
  <2>3. Cardinality(At("signal"))' = Cardinality(At("signal"))
    BY <2>2, SignalsKept
  <2>4. Len(queue') = signals' + efd' + pending' + left' + lost'
    <3>1. signals' = signals /\ Len(queue') = Len(queue)
      BY <1>s, <2>1, <2>3
    <3>2. Len(queue) = signals + efd + pending + 0 + lost
      BY <1>s, <2>1
    <3>3. lost' = lost /\ efd' + pending' + left' = efd + pending
      BY <2>1
    <3>4. /\ signals \in Nat /\ efd \in Nat /\ pending \in Nat /\ lost \in Nat
          /\ efd' \in Nat /\ pending' \in Nat /\ left' \in Nat
      BY <1>0, <1>s, <2>1
    <3>5. signals' + efd' + pending' + left' + lost'
          = signals + (efd' + pending' + left') + lost
      BY <3>1, <3>3, <3>4
    <3>6. signals + efd + pending + 0 + lost = signals + (efd + pending) + lost
      BY <3>4
    <3>7. QED BY <3>1, <3>2, <3>3, <3>5, <3>6
  <2>5. QED BY <1>r, <2>1, <2>2, <2>4
<1>14. CASE Pop
  <2>1. /\ pc[Consumer] = "pop" /\ pc' = [pc EXCEPT ![Consumer] = "popTail"]
        /\ left' = left - 1 /\ queue' = Tail(queue) /\ left > 0
        /\ UNCHANGED <<efd, pending, lost>>
    BY <1>0, <1>14 DEF Pop, CountInv
  <2>2. Len(queue) = Cardinality(At("signal")) + efd + pending + left + lost
    BY <1>0, <2>1 DEF CountInv, EveryValueAnnounced
  <2>3. Len(queue') = Len(queue) - 1
    <3>1. queue # <<>>
      BY <1>0, <2>1, <2>2
    <3>2. QED BY <1>0, <2>1, <3>1, TailFacts
  <2>4. /\ pc'[Consumer] = "popTail"
        /\ \A t \in Threads : pc'[t] = "signal" <=> pc[t] = "signal"
    BY <1>0, <2>1
  <2>5. Cardinality(At("signal"))' = Cardinality(At("signal"))
    BY <2>4, SignalsKept
  <2>6. QED BY <1>0, <2>1, <2>2, <2>3, <2>4, <2>5 DEF CountInv, EveryValueAnnounced
<1>15. CASE PopTail
  BY <1>0, <1>15, CountKept DEF PopTail
<1>16. CASE Call
  BY <1>0, <1>16, CountKept DEF Call
<1>17. CASE CallbackEnds
  BY <1>0, <1>17, CountKept DEF CallbackEnds
<1>18. ASSUME NEW t \in Threads, Put(t) PROVE CountInv'
  BY <1>0, <1>18, CountKept DEF Put
<1>19. ASSUME NEW t \in Threads, PutHead(t) PROVE CountInv'
  <2>1. pc[t] = "putHead" /\ pc' = [pc EXCEPT ![t] = AfterNode(t)] /\ UNCHANGED <<queue, efd>>
    BY <1>19 DEF PutHead
  <2>2. /\ pc'[t] = AfterNode(t)
        /\ \A u \in Threads : pc'[u] = "signal" <=> pc[u] = "signal"
    BY <1>0, <2>1 DEF AfterNode
  <2>3. Cardinality(At("signal"))' = Cardinality(At("signal"))
    BY <2>2, SignalsKept
  <2>4. CASE t = Consumer /\ ~LoopContinues
    <3>1. /\ left' = 0 /\ pc'[Consumer] = "idle"
          /\ pending' + lost' = pending + lost + left
          /\ pending' \in Nat /\ lost' \in Nat
      BY <1>0, <1>19, <2>2, <2>4 DEF PutHead, AfterNode
    <3>2. Len(queue') = signals' + efd' + pending' + left' + lost'
      <4>1. /\ signals' = signals /\ Len(queue') = Len(queue) /\ efd' = efd
            /\ Len(queue) = signals + efd + pending + left + lost
        BY <1>0, <1>s, <2>1, <2>3, <2>4
      <4>2. /\ signals \in Nat /\ efd \in Nat /\ pending \in Nat /\ left \in Nat
            /\ lost \in Nat /\ pending' \in Nat /\ lost' \in Nat
        BY <1>0, <1>s, <3>1
      <4>3. signals' + efd' + pending' + left' + lost'
            = signals + efd + (pending' + lost')
        BY <3>1, <4>1, <4>2
      <4>4. signals + efd + pending + left + lost
            = signals + efd + (pending + lost + left)
        BY <4>2
      <4>5. QED BY <3>1, <4>1, <4>3, <4>4
    <3>3. QED BY <1>r, <3>1, <3>2
  <2>5. CASE t = Consumer /\ LoopContinues
    <3>1. left > 0 /\ pc'[Consumer] = "pop" /\ UNCHANGED <<pending, left, lost>>
      BY <1>0, <1>19, <2>2, <2>5 DEF PutHead, AfterNode, LoopContinues
    <3>2. QED BY <1>0, <2>1, <2>3, <2>5, <3>1 DEF CountInv, EveryValueAnnounced
  <2>6. CASE t # Consumer
    <3>1. pc'[Consumer] = pc[Consumer] /\ UNCHANGED <<pending, left, lost>>
      BY <1>0, <1>19, <2>1, <2>6 DEF PutHead
    <3>2. QED BY <1>0, <2>1, <2>2, <3>1, CountKept
  <2>7. QED BY <2>4, <2>5, <2>6
<1>20. CASE Destroy
  <2>1. pc' = [pc EXCEPT ![Consumer] = "destroy"]
    BY <1>20 DEF Destroy
  <2>2. pc'[Consumer] = "destroy"
    BY <1>0, <2>1
  <2>3. QED BY <2>2 DEF CountInv, EveryValueAnnounced
<1>21. CASE DestroyLinked
  <2>1. pc'[Consumer] = "destroy"
    BY <1>21 DEF DestroyLinked
  <2>2. QED BY <2>1 DEF CountInv, EveryValueAnnounced
<1>22. CASE DestroyFree
  BY <1>0, <1>22, CountKept DEF DestroyFree
<1>23. CASE UNCHANGED vars
  BY <1>0, <1>23, CountKept DEF vars
<1>99. QED
  BY <1>1, <1>2, <1>3, <1>4, <1>5, <1>6, <1>7, <1>8, <1>9, <1>10, <1>11,
     <1>12, <1>13, <1>14, <1>15, <1>16, <1>17, <1>18, <1>19, <1>20, <1>21,
     <1>22, <1>23 DEF Next, Produce, ConsumeStep

-----------------------------------------------------------------------------
LEMMA ValuesExist == (CHOOSE v \in Values : TRUE) \in Values
<1>1. PICK p \in Producers : TRUE
  BY ProducersAssumption
<1>2. 1 \in 1..MaxEmplace
  BY MaxEmplaceAssumption
<1>3. <<p, 1>> \in Values
  BY <1>2 DEF Values
<1>4. QED BY <1>3

LEMMA IInvInit == Init => IInv
<1> SUFFICES ASSUME Init PROVE IInv
  OBVIOUS
<1>0. /\ pc = [t \in Threads |-> "idle"] /\ node = [t \in Threads |-> Null]
      /\ Producers \subseteq Threads /\ Consumer \in Threads /\ Null \notin Threads
      /\ queue = <<>> /\ spare = <<>> /\ allocated = {}
      /\ \A n \in Nodes : ~In(n, <<>>)
  BY NullAssumption DEF Init, Threads, In
<1>1. TypeOK
  <2>1. posted \in [Producers -> 0..MaxEmplace]
    BY MaxEmplaceAssumption DEF Init
  <2>2. pc \in [Threads -> Labels] /\ node \in [Threads -> Nodes \cup {Null}]
    BY <1>0 DEF Labels
  <2>3. queue \in Seq(Nodes) /\ spare \in Seq(Nodes)
    BY <1>0
  <2>4. QED BY <2>1, <2>2, <2>3, ValuesExist DEF Init, TypeOK
<1>2. PlaceInv
  BY <1>0 DEF Init, PlaceInv, ProducerLabels, ConsumerLabels, WithNode, ToLink
<1>3. CountInv
  <2>1. At("signal") = {}
    BY <1>0 DEF At
  <2>2. Cardinality(At("signal")) = 0 /\ Len(queue) = 0
    BY <1>0, <2>1, FS_EmptySet
  <2>3. QED BY <1>0, <2>2 DEF Init, CountInv, EveryValueAnnounced
<1>4. OwnInv
  BY <1>0 DEF OwnInv, Owned, Inj
<1>5. SpareInv /\ QueueInv
  BY <1>0 DEF Init, SpareInv, QueueInv, Spells
<1>6. ValueInv
  BY <1>0 DEF Init, ValueInv, Full, Carries, WithValue
<1>7. QED BY <1>1, <1>2, <1>3, <1>4, <1>5, <1>6 DEF IInv

LEMMA IInvStep == IInv /\ [Next]_vars => IInv'
BY TypeStep, PlaceStep, CountStep, OwnStep, SpareStep, QueueStep, ValueStep DEF IInv

LEMMA IInvAlways == Spec => []IInv
BY IInvInit, IInvStep, PTL DEF Spec

-----------------------------------------------------------------------------
(* Every variable of the queue keeps its type, in particular left and      *)
(* pending, from which consume subtracts, are never negative.              *)
THEOREM TypeCorrect == Spec => []TypeOK
BY IInvAlways, PTL DEF IInv

(* The lists are well formed whenever nobody is in a critical section of   *)
(* theirs, a node about to be linked has no successor, and consume finds a *)
(* node each time that it takes the lock to pop one.                       *)
THEOREM ListsAlwaysWellFormed == Spec => []ListsWellFormed
<1>1. ASSUME IInv PROVE ListsWellFormed
  <2>0. /\ Producers \subseteq Threads /\ Consumer \in Threads
        /\ queue \in Seq(Nodes) /\ left \in Nat /\ Null \notin Threads
    BY <1>1, TypeFacts DEF IInv, TypeOK
  <2>1. ASSUME Linking = {}
        PROVE  /\ Spells(queue, head, next)
               /\ pc[Consumer] # "destroy" =>
                    tail = IF queue = <<>> THEN Null ELSE queue[Len(queue)]
    <3>1. \A t \in Threads : pc[t] \notin {"setTail", "popTail"}
      BY <2>1 DEF Linking, At
    <3>2. QED BY <1>1, <2>0, <3>1 DEF IInv, QueueInv
  <2>2. ASSUME pc[Consumer] = "pop", lock = Null PROVE head # Null
    <3>1. \A t \in Threads : pc[t] # "setTail"
      BY <1>1, <2>0, <2>2 DEF IInv, PlaceInv
    <3>2. Spells(queue, head, next)
      BY <1>1, <3>1 DEF IInv, QueueInv
    <3>3. Len(queue) = Cardinality(At("signal")) + efd + pending + left + lost
      BY <1>1, <2>2 DEF IInv, CountInv, EveryValueAnnounced
    <3>4. /\ Cardinality(At("signal")) \in Nat /\ efd \in Nat /\ pending \in Nat
          /\ left \in Nat /\ lost \in Nat /\ left > 0
      BY <1>1, <2>2, AtFinite DEF IInv, TypeOK, CountInv
    <3>5. queue # <<>>
      <4>1. Len(queue) > 0
        BY <3>3, <3>4
      <4>2. Len(<<>>) = 0
        OBVIOUS
      <4>3. QED BY <4>1, <4>2
    <3>6. QED BY <2>0, <3>2, <3>5, ChainHead
  <2>3. \A p \in Producers : pc[p] \in {"construct", "link"} => next[node[p]] = Null
    BY <1>1, <2>0 DEF IInv, QueueInv
  <2>4. Spells(spare, free, next)
    BY <1>1 DEF IInv, SpareInv
  <2>5. QED BY <2>1, <2>2, <2>3, <2>4 DEF ListsWellFormed
<1>2. QED BY <1>1, IInvAlways, PTL

(* How often a list without repetitions has a node.                        *)
LEMMA Occurrences ==
  ASSUME NEW s, NEW n, Inj(s)
  PROVE  Cardinality({i \in 1..Len(s) : s[i] = n}) = IF In(n, s) THEN 1 ELSE 0
<1>1. CASE In(n, s)
  <2>1. PICK i \in 1..Len(s) : s[i] = n
    BY <1>1 DEF In
  <2>2. {j \in 1..Len(s) : s[j] = n} = {i}
    BY <2>1 DEF Inj
  <2>3. QED BY <1>1, <2>2, FS_Singleton
<1>2. CASE ~In(n, s)
  <2>1. {j \in 1..Len(s) : s[j] = n} = {}
    BY <1>2 DEF In
  <2>2. QED BY <1>2, <2>1, FS_EmptySet
<1>3. QED BY <1>1, <1>2

(* An allocated node is in the queue, in the free list or in the hands of  *)
(* one thread, once: none is linked twice, leaked, or freed while in use.  *)
THEOREM NodesHaveOneOwner == Spec => []OneOwner
<1>1. ASSUME IInv PROVE OneOwner
  <2> SUFFICES ASSUME NEW n \in Nodes
               PROVE  Cardinality({i \in 1..Len(queue) : queue[i] = n})
                      + Cardinality({i \in 1..Len(spare) : spare[i] = n})
                      + Cardinality({t \in Threads : n \in Owned(t)})
                      = IF n \in allocated THEN 1 ELSE 0
    BY DEF OneOwner
  <2> DEFINE owners == {t \in Threads : n \in Owned(t)}
  <2>1. /\ ~(In(n, queue) /\ In(n, spare))
        /\ \A t \in Threads : n \in Owned(t) => /\ ~In(n, queue) /\ ~In(n, spare)
                                              /\ owners = {t}
        /\ n \in allocated <=> In(n, queue) \/ In(n, spare) \/ owners # {}
    BY <1>1 DEF IInv, OwnInv
  <2>2. Cardinality(owners) = IF owners = {} THEN 0 ELSE 1
    <3>1. CASE owners = {}
      BY <3>1, FS_EmptySet
    <3>2. CASE owners # {}
      <4>1. PICK t \in Threads : n \in Owned(t)
        BY <3>2
      <4>2. owners = {t}
        BY <2>1, <4>1
      <4>3. QED BY <3>2, <4>2, FS_Singleton
    <3>3. QED BY <3>1, <3>2
  <2>3. owners # {} => ~In(n, queue) /\ ~In(n, spare)
    BY <2>1
  <2>4. Inj(queue) /\ Inj(spare)
    BY <1>1 DEF IInv, OwnInv
  <2>5. Cardinality({i \in 1..Len(queue) : queue[i] = n}) = IF In(n, queue) THEN 1 ELSE 0
    BY <2>4, Occurrences
  <2>6. Cardinality({i \in 1..Len(spare) : spare[i] = n}) = IF In(n, spare) THEN 1 ELSE 0
    BY <2>4, Occurrences
  <2> HIDE DEF owners
  <2>7. QED BY <2>1, <2>2, <2>3, <2>5, <2>6 DEF owners
<1>2. QED BY <1>1, IInvAlways, PTL

(* A node holds a value from its construction to its destruction: a node   *)
(* in the queue always, a node in the free list never.                     *)
THEOREM ValuesAlwaysLive == Spec => []ValuesLive
<1>1. ASSUME IInv PROVE ValuesLive
  <2> SUFFICES ASSUME NEW n \in Nodes PROVE HoldsValue(n) <=> Full(n)
    BY <1>1 DEF IInv, ValueInv, ValuesLive
  <2>1. \A t \in Threads : n \in Carries(t) <=> node[t] = n /\ pc[t] \in WithValue
    BY DEF Carries
  <2>2. QED BY <2>1 DEF HoldsValue, Full, In, WithValue
<1>2. QED BY <1>1, IInvAlways, PTL

(* Every value in the queue has been announced, is about to be by the      *)
(* producer that linked it, or was given up by a consume_all that threw.   *)
THEOREM ValuesAlwaysAnnounced == Spec => []EveryValueAnnounced
BY IInvAlways, PTL DEF IInv, CountInv

-----------------------------------------------------------------------------
(* The refinement: what CountedQueue's variables are, and what each step   *)
(* of the queue does to them.                                              *)
AItems   == IF pc[Consumer] = "destroy" THEN <<>>
            ELSE [i \in 1..Len(queue) |-> storage[queue[i]]]
AGranted == pending + left
Holds    == pc[Consumer] \in {"popTail", "call"}
ATaken   == IF Holds THEN storage[node[Consumer]] ELSE taken
Signals  == Cardinality(At("signal"))

Rests == UNCHANGED <<AItems, Signals, efd, AGranted, ATaken>>

Puts == \E v \in Values : /\ AItems' = Append(AItems, v)
                         /\ Signals' = Signals + 1
                         /\ UNCHANGED <<efd, AGranted, ATaken>>

Announces == /\ Signals > 0
             /\ Signals' = Signals - 1
             /\ efd' = efd + 1
             /\ UNCHANGED <<AItems, AGranted, ATaken>>

Collects == /\ efd > 0
            /\ AGranted' = AGranted + efd
            /\ efd' = 0
            /\ UNCHANGED <<AItems, Signals, ATaken>>

Takes == /\ AGranted > 0
         /\ AGranted' = AGranted - 1
         /\ ATaken' = Head(AItems)
         /\ AItems' = Tail(AItems)
         /\ UNCHANGED <<Signals, efd>>

Forfeits == AGranted' \in 0..AGranted /\ UNCHANGED <<AItems, Signals, efd, ATaken>>

Closes == /\ Signals = 0
          /\ AItems' = <<>>
          /\ efd' = 0
          /\ AGranted' = 0
          /\ UNCHANGED <<Signals, ATaken>>

Moves == Rests \/ Puts \/ Announces \/ Collects \/ Takes \/ Forfeits \/ Closes

LEMMA MovesAreSteps == Moves => [Abstract!Next]_(Abstract!queueVars)
<1> USE DEF Abstract!queueVars, Abstract!Next, AItems, AGranted, ATaken, Holds,
            Signals
<1>1. Rests => UNCHANGED Abstract!queueVars
  BY DEF Rests
<1>2. Puts => \E v \in Values : Abstract!Put(v)
  BY DEF Puts, Abstract!Put
<1>3. Announces => Abstract!Announce
  BY DEF Announces, Abstract!Announce
<1>4. Collects => Abstract!Collect
  BY DEF Collects, Abstract!Collect
<1>5. Takes => Abstract!Take
  BY DEF Takes, Abstract!Take
<1>6. Forfeits => Abstract!Forfeit
  BY DEF Forfeits, Abstract!Forfeit
<1>7. Closes => Abstract!Close
  BY DEF Closes, Abstract!Close
<1> HIDE DEF AItems, AGranted, ATaken, Holds, Signals
<1>8. QED BY <1>1, <1>2, <1>3, <1>4, <1>5, <1>6, <1>7 DEF Moves

(* The values in the queue, kept, with one more or with one less.          *)
LEMMA ItemsKept ==
  ASSUME queue \in Seq(Nodes), UNCHANGED queue,
         pc'[Consumer] = "destroy" <=> pc[Consumer] = "destroy",
         \A n \in Nodes : In(n, queue) => storage'[n] = storage[n]
  PROVE  AItems' = AItems
<1>1. \A i \in 1..Len(queue) : storage'[queue[i]] = storage[queue[i]]
  BY DEF In
<1>2. QED BY <1>1 DEF AItems

LEMMA ItemsAppended ==
  ASSUME queue \in Seq(Nodes), storage \in [Nodes -> Values \cup {Null}],
         UNCHANGED storage, pc[Consumer] # "destroy", pc'[Consumer] # "destroy",
         NEW n \in Nodes, queue' = Append(queue, n)
  PROVE  AItems' = Append(AItems, storage[n])
<1> DEFINE it == [i \in 1..Len(queue) |-> storage[queue[i]]]
           it1 == [i \in 1..Len(queue') |-> storage[queue'[i]]]
<1>1. AItems = it /\ AItems' = it1
  BY DEF AItems
<1>2. /\ Len(queue) \in Nat /\ Len(queue') = Len(queue) + 1
      /\ \A i \in 1..Len(queue) : queue'[i] = queue[i] /\ queue[i] \in Nodes
      /\ queue'[Len(queue) + 1] = n
  BY AppendFacts
<1>3. it \in Seq(Values \cup {Null}) /\ Len(it) = Len(queue)
  BY <1>2
<1>4. Append(it, storage[n]) = [i \in 1..(Len(queue) + 1) |->
          IF i = Len(queue) + 1 THEN storage[n] ELSE it[i]]
  BY <1>2, <1>3
<1>5. \A i \in 1..(Len(queue) + 1) : i # Len(queue) + 1 => i \in 1..Len(queue)
  BY <1>2
<1>6. it1 = Append(it, storage[n])
  BY <1>2, <1>4, <1>5
<1>7. QED BY <1>1, <1>6

LEMMA ItemsTaken ==
  ASSUME queue \in Seq(Nodes), storage \in [Nodes -> Values \cup {Null}],
         UNCHANGED storage, pc[Consumer] # "destroy", pc'[Consumer] # "destroy",
         queue # <<>>, queue' = Tail(queue)
  PROVE  Head(AItems) = storage[queue[1]] /\ AItems' = Tail(AItems)
<1> DEFINE it == [i \in 1..Len(queue) |-> storage[queue[i]]]
           it1 == [i \in 1..Len(queue') |-> storage[queue'[i]]]
<1>1. AItems = it /\ AItems' = it1
  BY DEF AItems
<1>2. /\ Len(queue) \in Nat \ {0} /\ Len(queue') = Len(queue) - 1
      /\ \A i \in 1..(Len(queue) - 1) : queue'[i] = queue[i + 1]
      /\ \A i \in 1..Len(queue) : queue[i] \in Nodes
  BY TailFacts
<1>3. it \in Seq(Values \cup {Null}) /\ Len(it) = Len(queue)
  BY <1>2
<1>4. it # <<>>
  BY <1>2, <1>3
<1>5. Head(it) = storage[queue[1]]
  <2>1. Head(it) = it[1] /\ 1 \in 1..Len(queue)
    BY <1>2, <1>3, <1>4
  <2>2. QED BY <2>1
<1>6. Tail(it) = [i \in 1..(Len(queue) - 1) |-> it[i + 1]]
  BY <1>2, <1>3, <1>4
<1>7. \A i \in 1..(Len(queue) - 1) : i + 1 \in 1..Len(queue)
  BY <1>2
<1>8. it1 = Tail(it)
  BY <1>2, <1>6, <1>7
<1>9. QED BY <1>1, <1>5, <1>8

LEMMA TakenKept ==
  ASSUME UNCHANGED taken, Holds' <=> Holds,
         Holds => /\ node'[Consumer] = node[Consumer]
                  /\ storage'[node[Consumer]] = storage[node[Consumer]]
  PROVE  ATaken' = ATaken
BY DEF ATaken

LEMMA SignalsRest ==
  ASSUME \A t \in Threads : pc'[t] = "signal" <=> pc[t] = "signal"
  PROVE  Signals' = Signals
BY SignalsKept DEF Signals

(* The steps that leave the abstract queue alone.                          *)
LEMMA RestsWhen ==
  ASSUME queue \in Seq(Nodes), UNCHANGED <<queue, efd, pending, left, taken>>,
         pc'[Consumer] = "destroy" <=> pc[Consumer] = "destroy",
         \A t \in Threads : pc'[t] = "signal" <=> pc[t] = "signal",
         Holds' <=> Holds,
         Holds => node'[Consumer] = node[Consumer] /\ node[Consumer] \in Nodes,
         \A n \in Nodes :
            In(n, queue) \/ (Holds /\ n = node[Consumer]) => storage'[n] = storage[n]
  PROVE  Moves
<1>1. AItems' = AItems
  BY ItemsKept
<1>2. ATaken' = ATaken
  BY TakenKept
<1>3. Signals' = Signals
  BY SignalsRest
<1>4. AGranted' = AGranted
  BY DEF AGranted
<1>5. QED BY <1>1, <1>2, <1>3, <1>4 DEF Moves, Rests

LEMMA RefinementStep == IInv /\ [Next]_vars => [Abstract!Next]_(Abstract!queueVars)
<1> SUFFICES ASSUME IInv, [Next]_vars PROVE Moves
  BY MovesAreSteps
<1> USE DEF Goes, lists, locks, accounts, auxiliary
<1>0. /\ OwnInv /\ PlaceInv /\ CountInv /\ ValueInv /\ QueueInv
      /\ pc \in [Threads -> Labels] /\ node \in [Threads -> Nodes \cup {Null}]
      /\ Producers \subseteq Threads /\ Consumer \in Threads
      /\ Consumer \notin Producers /\ Null \notin Nodes /\ Null \notin Threads
      /\ head \in Nodes \cup {Null}
      /\ queue \in Seq(Nodes) /\ storage \in [Nodes -> Values \cup {Null}]
      /\ efd \in Nat /\ pending \in Nat /\ left \in Nat
      /\ Holds => node[Consumer] \in Nodes
  BY TypeFacts DEF IInv, TypeOK, PlaceInv, Holds, WithNode
<1>1. ASSUME NEW p \in Producers, Emplace(p) PROVE Moves
  BY <1>0, <1>1, RestsWhen DEF Emplace, Holds
<1>2. ASSUME NEW p \in Producers, GetFree(p) PROVE Moves
  BY <1>0, <1>2, RestsWhen DEF GetFree, Holds
<1>3. ASSUME NEW p \in Producers, GetNext(p) PROVE Moves
  BY <1>0, <1>3, RestsWhen DEF GetNext, Holds
<1>4. ASSUME NEW p \in Producers, Allocate(p) PROVE Moves
  BY <1>0, <1>4, RestsWhen DEF Allocate, Holds
<1>5. ASSUME NEW p \in Producers, AllocateThrows(p) PROVE Moves
  BY <1>0, <1>5, RestsWhen DEF AllocateThrows, Holds
<1>6. ASSUME NEW p \in Producers, Construct(p) PROVE Moves
  <2>1. /\ pc[p] = "construct" /\ pc' = [pc EXCEPT ![p] = "link"]
        /\ storage' = [storage EXCEPT ![node[p]] = <<p, posted[p] + 1>>]
        /\ UNCHANGED <<queue, efd, pending, left, taken, node>>
    BY <1>6 DEF Construct
  <2>2. node[p] \in Owned(p)
    BY <1>0, <2>1 DEF Owned, PlaceInv, WithNode
  <2>3. ~In(node[p], queue)
    BY <1>0, <2>2 DEF OwnInv
  <2>4. Holds => node[p] # node[Consumer]
    BY <1>0, <2>2 DEF OwnInv, Owned, Holds
  <2>5. \A n \in Nodes :
           In(n, queue) \/ (Holds /\ n = node[Consumer]) => storage'[n] = storage[n]
    BY <1>0, <2>1, <2>3, <2>4
  <2>6. QED BY <1>0, <2>1, <2>5, RestsWhen DEF Holds
<1>7. ASSUME NEW p \in Producers, ConstructThrows(p) PROVE Moves
  BY <1>0, <1>7, RestsWhen DEF ConstructThrows, Holds
<1>8. ASSUME NEW p \in Producers, Link(p) PROVE Moves
  BY <1>0, <1>8, RestsWhen DEF Link, Attach, Holds
<1>9. ASSUME NEW p \in Producers, SetTail(p) PROVE Moves
  <2>1. /\ pc[p] = "setTail" /\ node[p] \in Nodes
        /\ pc' = [pc EXCEPT ![p] = "signal"] /\ node' = [node EXCEPT ![p] = Null]
        /\ queue' = Append(queue, node[p])
        /\ UNCHANGED <<storage, efd, pending, left, taken>>
    BY <1>0, <1>9 DEF SetTail, PlaceInv, WithNode
  <2>2. /\ pc'[p] = "signal" /\ pc'[Consumer] = pc[Consumer]
        /\ node'[Consumer] = node[Consumer]
        /\ \A t \in Threads \ {p} : pc'[t] = pc[t]
    BY <1>0, <2>1
  <2>3. storage[node[p]] \in Values
    <3>1. node[p] \in Carries(p)
      BY <2>1 DEF Carries, WithValue
    <3>2. storage[node[p]] # Null
      BY <1>0, <2>1, <3>1 DEF ValueInv, Full
    <3>3. QED BY <1>0, <2>1, <3>2
  <2>4. pc[Consumer] # "destroy"
    BY <1>0, <2>1 DEF PlaceInv
  <2>5. AItems' = Append(AItems, storage[node[p]])
    BY <1>0, <2>1, <2>2, <2>4, ItemsAppended
  <2>6. Signals' = Signals + 1
    BY <1>0, <2>1, <2>2, SignalsMove DEF Signals
  <2>7. ATaken' = ATaken
    BY <2>1, <2>2, TakenKept DEF Holds
  <2>8. AGranted' = AGranted
    BY <2>1 DEF AGranted
  <2>9. Puts
    BY <2>1, <2>3, <2>5, <2>6, <2>7, <2>8 DEF Puts
  <2>10. QED BY <2>9 DEF Moves
<1>10. ASSUME NEW p \in Producers, Signal(p) PROVE Moves
  <2>1. /\ pc[p] = "signal" /\ pc' = [pc EXCEPT ![p] = "idle"] /\ efd' = efd + 1
        /\ UNCHANGED <<queue, storage, node, pending, left, taken>>
    BY <1>10 DEF Signal
  <2>2. /\ pc'[p] = "idle" /\ pc'[Consumer] = pc[Consumer]
        /\ \A t \in Threads \ {p} : pc'[t] = pc[t]
    BY <1>0, <2>1
  <2>3. Signals' = Signals - 1
    BY <1>0, <2>1, <2>2, SignalsMove DEF Signals
  <2>4. Signals > 0
    <3>1. p \in At("signal")
      BY <1>0, <2>1 DEF At
    <3>2. Signals \in Nat /\ Signals # 0
      BY <3>1, AtFinite, FS_EmptySet DEF Signals
    <3>3. QED BY <3>2
  <2>5. AItems' = AItems
    BY <1>0, <2>1, <2>2, ItemsKept
  <2>6. ATaken' = ATaken
    BY <2>1, <2>2, TakenKept DEF Holds
  <2>7. AGranted' = AGranted
    BY <2>1 DEF AGranted
  <2>8. Announces
    BY <2>1, <2>3, <2>4, <2>5, <2>6, <2>7 DEF Announces
  <2>9. QED BY <2>8 DEF Moves
<1>11. CASE Pending
  <2>1. /\ efd > 0 /\ pending' = pending + efd /\ efd' = 0
        /\ UNCHANGED <<queue, storage, pc, node, left, taken>>
    BY <1>11 DEF Pending
  <2>2. AItems' = AItems /\ ATaken' = ATaken /\ Signals' = Signals
    BY <1>0, <2>1, ItemsKept, TakenKept, SignalsRest DEF Holds
  <2>3. AGranted' = AGranted + efd
    BY <1>0, <2>1 DEF AGranted
  <2>4. Collects
    BY <2>1, <2>2, <2>3 DEF Collects
  <2>5. QED BY <2>4 DEF Moves
<1>12. ASSUME NEW n \in 1..pending, Consume(n) PROVE Moves
  <2>1. /\ pc[Consumer] = "idle" /\ pc' = [pc EXCEPT ![Consumer] = "pop"]
        /\ pending' = pending - n /\ left' = n /\ left = 0
        /\ UNCHANGED <<queue, storage, node, efd, taken>>
    BY <1>0, <1>12 DEF Consume, CountInv
  <2>2. pc'[Consumer] = "pop"
    BY <1>0, <2>1
  <2>3. /\ AItems' = AItems /\ ATaken' = ATaken
    BY <1>0, <2>1, <2>2, ItemsKept, TakenKept DEF Holds
  <2>4. Signals' = Signals
    BY <1>0, <2>1, SignalsRest
  <2>5. AGranted' = AGranted
    BY <1>0, <2>1 DEF AGranted
  <2>6. QED BY <2>1, <2>3, <2>4, <2>5 DEF Moves, Rests
<1>13. CASE ConsumeAll
  <2>1. /\ pc[Consumer] = "idle" /\ pc' = [pc EXCEPT ![Consumer] = "pop"]
        /\ efd > 0 /\ left' = efd /\ left = 0 /\ efd' = 0
        /\ UNCHANGED <<queue, storage, node, pending, taken>>
    BY <1>0, <1>13 DEF ConsumeAll, CountInv
  <2>2. pc'[Consumer] = "pop"
    BY <1>0, <2>1
  <2>3. AItems' = AItems /\ ATaken' = ATaken
    BY <1>0, <2>1, <2>2, ItemsKept, TakenKept DEF Holds
  <2>4. Signals' = Signals
    BY <1>0, <2>1, SignalsRest
  <2>5. AGranted' = AGranted + efd
    BY <1>0, <2>1 DEF AGranted
  <2>6. Collects
    BY <2>1, <2>3, <2>4, <2>5 DEF Collects
  <2>7. QED BY <2>6 DEF Moves
<1>14. CASE Pop
  <2>1. /\ lock = Null /\ pc[Consumer] = "pop" /\ head \in Nodes
        /\ pc' = [pc EXCEPT ![Consumer] = "popTail"]
        /\ node' = [node EXCEPT ![Consumer] = head]
        /\ left' = left - 1 /\ queue' = Tail(queue) /\ left > 0
        /\ UNCHANGED <<storage, efd, pending, taken>>
    BY <1>0, <1>14 DEF Pop, CountInv
  <2>2. pc'[Consumer] = "popTail" /\ node'[Consumer] = head
    BY <1>0, <2>1
  <2>3. queue # <<>> /\ queue[1] = head
    <3>1. \A t \in Threads : pc[t] # "setTail"
      BY <1>0, <2>1 DEF PlaceInv
    <3>2. Spells(queue, head, next)
      BY <1>0, <3>1 DEF QueueInv
    <3>3. QED BY <1>0, <2>1, <3>2, ChainHead
  <2>4. Head(AItems) = storage[head] /\ AItems' = Tail(AItems)
    BY <1>0, <2>1, <2>2, <2>3, ItemsTaken
  <2>5. ATaken' = storage[head]
    BY <2>1, <2>2 DEF ATaken, Holds
  <2>6. Signals' = Signals
    BY <1>0, <2>1, SignalsRest
  <2>7. AGranted > 0 /\ AGranted' = AGranted - 1
    BY <1>0, <2>1 DEF AGranted
  <2>8. Takes
    BY <2>1, <2>4, <2>5, <2>6, <2>7 DEF Takes
  <2>9. QED BY <2>8 DEF Moves
<1>15. CASE PopTail
  BY <1>0, <1>15, RestsWhen DEF PopTail, Holds
<1>16. CASE Call
  <2>1. /\ pc[Consumer] = "call" /\ pc' = [pc EXCEPT ![Consumer] = "callback"]
        /\ taken' = storage[node[Consumer]]
        /\ UNCHANGED <<queue, storage, node, efd, pending, left>>
    BY <1>16 DEF Call
  <2>2. pc'[Consumer] = "callback"
    BY <1>0, <2>1
  <2>3. AItems' = AItems
    BY <1>0, <2>1, <2>2, ItemsKept
  <2>4. ATaken' = ATaken
    BY <2>1, <2>2 DEF ATaken, Holds
  <2>5. Signals' = Signals
    BY <1>0, <2>1, SignalsRest
  <2>6. AGranted' = AGranted
    BY <2>1 DEF AGranted
  <2>7. QED BY <2>1, <2>3, <2>4, <2>5, <2>6 DEF Moves, Rests
<1>17. CASE CallbackEnds
  <2>1. /\ pc[Consumer] = "callback" /\ pc' = [pc EXCEPT ![Consumer] = "put"]
        /\ storage' = [storage EXCEPT ![node[Consumer]] = Null]
        /\ UNCHANGED <<queue, node, efd, pending, left, taken>>
    BY <1>17 DEF CallbackEnds
  <2>2. pc'[Consumer] = "put"
    BY <1>0, <2>1
  <2>3. ~In(node[Consumer], queue)
    BY <1>0, <2>1 DEF OwnInv, Owned, PlaceInv, WithNode
  <2>4. \A n \in Nodes : In(n, queue) => storage'[n] = storage[n]
    BY <1>0, <2>1, <2>3
  <2>5. QED BY <1>0, <2>1, <2>2, <2>4, RestsWhen DEF Holds
<1>18. ASSUME NEW t \in Threads, Put(t) PROVE Moves
  BY <1>0, <1>18, RestsWhen DEF Put, Holds
<1>19. ASSUME NEW t \in Threads, PutHead(t) PROVE Moves
  <2>1. /\ pc[t] = "putHead" /\ pc' = [pc EXCEPT ![t] = AfterNode(t)]
        /\ node' = [node EXCEPT ![t] = Null]
        /\ UNCHANGED <<queue, storage, efd, taken>>
    BY <1>19 DEF PutHead
  <2>2. AfterNode(t) \in {"pop", "idle"}
    BY DEF AfterNode
  <2>3. /\ pc'[t] \in {"pop", "idle"}
        /\ \A u \in Threads \ {t} : pc'[u] = pc[u] /\ node'[u] = node[u]
    BY <1>0, <2>1, <2>2
  <2>4. AItems' = AItems
    BY <1>0, <2>1, <2>3, ItemsKept
  <2>5. ATaken' = ATaken
    BY <1>0, <2>1, <2>3, TakenKept DEF Holds
  <2>6. Signals' = Signals
    BY <1>0, <2>1, <2>3, SignalsRest
  <2>7. AGranted' \in 0..AGranted
    BY <1>0, <1>19 DEF PutHead, AGranted
  <2>8. Forfeits
    BY <2>1, <2>4, <2>5, <2>6, <2>7 DEF Forfeits
  <2>9. QED BY <2>8 DEF Moves
<1>20. CASE Destroy
  <2>1. /\ \A t \in Threads : pc[t] = "idle"
        /\ pc' = [pc EXCEPT ![Consumer] = "destroy"] /\ left = 0
        /\ efd' = 0 /\ pending' = 0 /\ UNCHANGED <<storage, node, left, taken>>
    BY <1>0, <1>20 DEF Destroy, CountInv
  <2>2. pc'[Consumer] = "destroy"
    BY <1>0, <2>1
  <2>3. Signals = 0
    <3>1. At("signal") = {}
      BY <2>1 DEF At
    <3>2. QED BY <3>1, FS_EmptySet DEF Signals
  <2>4. Signals' = Signals
    BY <1>0, <2>1, SignalsRest
  <2>5. AItems' = <<>> /\ ATaken' = ATaken /\ AGranted' = 0
    BY <1>0, <2>1, <2>2 DEF AItems, ATaken, Holds, AGranted
  <2>6. Closes
    BY <2>1, <2>3, <2>4, <2>5 DEF Closes
  <2>7. QED BY <2>6 DEF Moves
<1>21. CASE DestroyLinked
  <2>1. /\ pc[Consumer] = "destroy"
        /\ UNCHANGED <<pc, node, efd, pending, left, taken>>
    BY <1>21 DEF DestroyLinked
  <2>2. AItems' = AItems /\ ATaken' = ATaken /\ AGranted' = AGranted
    BY <2>1 DEF AItems, ATaken, Holds, AGranted
  <2>3. Signals' = Signals
    BY <2>1, SignalsRest
  <2>4. QED BY <2>1, <2>2, <2>3 DEF Moves, Rests
<1>22. CASE DestroyFree
  BY <1>0, <1>22, RestsWhen DEF DestroyFree, Holds
<1>23. CASE UNCHANGED vars
  BY <1>0, <1>23, RestsWhen DEF vars, Holds
<1>99. QED
  BY <1>1, <1>2, <1>3, <1>4, <1>5, <1>6, <1>7, <1>8, <1>9, <1>10, <1>11,
     <1>12, <1>13, <1>14, <1>15, <1>16, <1>17, <1>18, <1>19, <1>20, <1>21,
     <1>22, <1>23 DEF Next, Produce, ConsumeStep

(* The queue keeps CountedQueue's promise to its consumer: values come out *)
(* in the order in which they were linked, each once, and every one that   *)
(* was announced is there to be taken.                                     *)
THEOREM QueueImplementsCountedQueue == Spec => ImplementsCountedQueue
<1>1. Init => Abstract!Init
  <2> SUFFICES ASSUME Init PROVE Abstract!Init
    OBVIOUS
  <2>1. /\ pc = [t \in Threads |-> "idle"] /\ Consumer \in Threads /\ queue = <<>>
        /\ efd = 0 /\ pending = 0 /\ left = 0 /\ taken \in Values
    BY ValuesExist DEF Init, Threads
  <2>2. At("signal") = {} /\ Cardinality({}) = 0
    BY <2>1, FS_EmptySet DEF At
  <2>3. pc[Consumer] = "idle" /\ [i \in 1..Len(queue) |-> storage[queue[i]]] = <<>>
    BY <2>1
  <2>4. QED BY <2>1, <2>2, <2>3 DEF Abstract!Init
<1>2. QED
  BY <1>1, RefinementStep, IInvAlways, PTL
     DEF Spec, ImplementsCountedQueue, Abstract!Spec
=============================================================================
