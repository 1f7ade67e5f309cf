------------------------ MODULE FileOperations_proofs -----------------------
(***************************************************************************)
(* Theorems about FileOperations, for every set of operations, of shapes   *)
(* of buffer sequences and every supply and room.                          *)
(***************************************************************************)
EXTENDS FileOperations, SequenceTheorems, WellFoundedInduction, TLAPS

(* Induction, with a set in the place of a predicate.                      *)
LEMMA LeastNat ==
  ASSUME NEW T, T \subseteq Nat, T # {}
  PROVE  \E x \in T : \A y \in T : x <= y
<1>1. PICK x \in T : \A y \in T : ~ (<<y, x>> \in OpToRel(<, Nat))
  BY NatLessThanWellFounded, WFMin
<1>2. \A y \in T : ~ (y < x)
  BY <1>1 DEF OpToRel
<1>3. QED BY <1>2

LEMMA InductionTo ==
  ASSUME NEW m \in Nat, NEW T, 0 \in T,
         \A k \in Nat : k < m /\ k \in T => k + 1 \in T
  PROVE  \A k \in 0..m : k \in T
<1> SUFFICES ASSUME NEW c \in 0..m, c \notin T PROVE FALSE
  OBVIOUS
<1> DEFINE U == {k \in 0..m : k \notin T}
<1>1. PICK x \in U : \A y \in U : x <= y
  <2>1. U \subseteq Nat /\ U # {}
    OBVIOUS
  <2>2. QED BY <2>1, LeastNat
<1>2. x # 0 /\ x - 1 \in 0..m /\ x - 1 < x /\ (x - 1) + 1 = x
  BY <1>1
<1>3. x - 1 \in T
  BY <1>1, <1>2
<1>4. QED BY <1>1, <1>2, <1>3

(* A function is defined by recursion on 0..m: by its value at 0 and the   *)
(* step from each value to the next.                                       *)
Steps(m, V) == [(1..m) \X V -> V]
Unfolds(f, m, V, base, step) ==
  /\ f \in [0..m -> V]
  /\ f[0] = base
  /\ \A k \in 1..m : f[k] = step[<<k, f[k - 1]>>]

LEMMA Recursion ==
  ASSUME NEW m \in Nat, NEW V, NEW base \in V, NEW step \in Steps(m, V)
  PROVE  \E f : Unfolds(f, m, V, base, step)
<1>0. step \in [(1..m) \X V -> V]
  BY DEF Steps
<1> DEFINE Good(j, f) == f[0] = base /\ \A k \in 1..j : f[k] = step[<<k, f[k - 1]>>]
           T == {j \in 0..m : \E f \in [0..j -> V] : Good(j, f)}
<1>1. 0 \in T
  <2>1. [i \in 0..0 |-> base] \in [0..0 -> V] /\ Good(0, [i \in 0..0 |-> base])
    OBVIOUS
  <2>2. 0 \in 0..m
    OBVIOUS
  <2> HIDE DEF Good
  <2>3. QED BY <2>1, <2>2
<1>2. ASSUME NEW j \in Nat, j < m, j \in T PROVE j + 1 \in T
  <2>1. PICK f \in [0..j -> V] : Good(j, f)
    BY <1>2
  <2>2. j + 1 \in 1..m /\ j \in 0..j /\ f[j] \in V
    BY <1>2
  <2> DEFINE g == [i \in 0..(j + 1) |-> IF i = j + 1 THEN step[<<j + 1, f[j]>>] ELSE f[i]]
  <2>3. \A i \in 0..(j + 1) : i # j + 1 => i \in 0..j
    BY <2>2
  <2>4. step[<<j + 1, f[j]>>] \in V
    BY <1>0, <2>2
  <2>5. g \in [0..(j + 1) -> V]
    BY <2>3, <2>4
  <2>6. g[0] = base
    BY <1>2, <2>1
  <2>7. ASSUME NEW k \in 1..(j + 1) PROVE g[k] = step[<<k, g[k - 1]>>]
    <3>1. CASE k = j + 1
      <4>1. j \in 0..(j + 1) /\ j + 1 \in 0..(j + 1) /\ k - 1 = j /\ j # j + 1
        BY <1>2, <3>1
      <4>2. g[j + 1] = step[<<j + 1, f[j]>>] /\ g[j] = f[j]
        BY <4>1
      <4>3. QED BY <3>1, <4>1, <4>2
    <3>2. CASE k # j + 1
      <4>1. k \in 1..j /\ k - 1 \in 0..j /\ k - 1 # j + 1
        BY <1>2, <3>2
      <4>2. g[k] = f[k] /\ g[k - 1] = f[k - 1]
        BY <4>1
      <4>3. QED BY <2>1, <4>1, <4>2
    <3>3. QED BY <3>1, <3>2
  <2>8. Good(j + 1, g)
    BY <2>6, <2>7
  <2>9. j + 1 \in 0..m
    BY <2>2
  <2> HIDE DEF g, Good
  <2>10. QED BY <2>5, <2>8, <2>9
<1> HIDE DEF T, Good
<1>3. m \in T
  BY <1>1, <1>2, InductionTo
<1>4. QED BY <1>3 DEF T, Good, Unfolds

-----------------------------------------------------------------------------
(* The bytes before each buffer.                                           *)
Sum(b) ==
  CHOOSE sum : sum = [k \in 0..Len(b) |-> IF k = 0 THEN 0 ELSE sum[k - 1] + b[k]]

LEMMA SumDefined ==
  ASSUME NEW b \in Seq(Nat)
  PROVE  /\ Sum(b) \in [0..Len(b) -> Nat]
         /\ Sum(b)[0] = 0
         /\ \A k \in 1..Len(b) : Sum(b)[k] = Sum(b)[k - 1] + b[k]
<1> DEFINE m == Len(b)
           step == [a \in (1..m) \X Nat |-> a[2] + b[a[1]]]
           Equation(f) == f = [k \in 0..m |-> IF k = 0 THEN 0 ELSE f[k - 1] + b[k]]
<1>1. m \in Nat /\ 0 \in Nat /\ \A k \in 1..m : b[k] \in Nat
  OBVIOUS
<1>2. step \in Steps(m, Nat)
  BY <1>1 DEF Steps
<1>3. PICK f : Unfolds(f, m, Nat, 0, step)
  <2> HIDE DEF step, m, Equation
  <2>1. QED BY <1>1, <1>2, Recursion
<1>r. f \in [0..m -> Nat] /\ f[0] = 0 /\ \A k \in 1..m : f[k] = f[k - 1] + b[k]
  <2>1. \A k \in 1..m : f[k - 1] \in Nat
    BY <1>1, <1>3 DEF Unfolds
  <2>2. QED BY <1>3, <2>1 DEF Unfolds
<1>4. \A k \in 0..m : k # 0 => k \in 1..m /\ k - 1 \in 0..m
  BY <1>1
<1>5. \A k \in 0..m : f[k] = IF k = 0 THEN 0 ELSE f[k - 1] + b[k]
  BY <1>r, <1>4
<1>6. Equation(f)
  BY <1>r, <1>5
<1>7. Equation(Sum(b))
  BY <1>6 DEF Sum
<1> DEFINE g == Sum(b)
<1>8. g = [k \in 0..m |-> IF k = 0 THEN 0 ELSE g[k - 1] + b[k]]
  BY <1>7
<1> HIDE DEF g
<1>9. /\ g[0] = 0 /\ \A k \in 1..m : g[k] = g[k - 1] + b[k]
  <2>1. 0 \in 0..m /\ \A k \in 1..m : k \in 0..m /\ k # 0
    BY <1>1
  <2>2. QED BY <1>8, <2>1
<1> DEFINE T == {k \in 0..m : g[k] \in Nat}
<1>10. 0 \in T
  BY <1>1, <1>9
<1>11. ASSUME NEW k \in Nat, k < m, k \in T PROVE k + 1 \in T
  <2>1. k + 1 \in 1..m /\ (k + 1) - 1 = k /\ k + 1 \in 0..m
    BY <1>1, <1>11
  <2>2. g[k + 1] = g[k] + b[k + 1]
    BY <1>9, <2>1
  <2>3. QED BY <1>1, <1>11, <2>1, <2>2
<1>12. \A k \in 0..m : g[k] \in Nat
  <2> HIDE DEF m
  <2>1. \A k \in 0..m : k \in T
    <3> HIDE DEF T
    <3>1. QED BY <1>1, <1>10, <1>11, InductionTo
  <2>2. QED BY <2>1
<1>13. g \in [0..m -> Nat]
  BY <1>8, <1>12
<1>14. QED BY <1>9, <1>13 DEF g

LEMMA BeforeFacts ==
  ASSUME NEW b \in Seq(Nat)
  PROVE  /\ \A i \in 1..(Len(b) + 1) : Before(b, i) \in Nat
         /\ Before(b, 1) = 0
         /\ \A i \in 1..Len(b) : Before(b, i + 1) = Before(b, i) + b[i]
<1>1. \A i : Before(b, i) = Sum(b)[i - 1]
  BY DEF Before, Sum
<1>2. Len(b) \in Nat
  OBVIOUS
<1>3. \A i \in 1..(Len(b) + 1) : i - 1 \in 0..Len(b)
  BY <1>2
<1>4. \A i \in 1..Len(b) : (i + 1) - 1 = i
  BY <1>2
<1>5. ASSUME NEW i \in 1..(Len(b) + 1) PROVE Before(b, i) \in Nat
  <2>1. i - 1 \in 0..Len(b)
    BY <1>3
  <2>2. Sum(b)[i - 1] \in Nat
    BY <2>1, SumDefined
  <2>3. QED BY <1>1, <2>2
<1>6. Before(b, 1) = 0
  <2>1. 1 - 1 = 0
    OBVIOUS
  <2>2. QED BY <1>1, <2>1, SumDefined
<1>7. \A i \in 1..Len(b) : Before(b, i + 1) = Before(b, i) + b[i]
  BY <1>1, <1>4, SumDefined
<1>8. QED BY <1>5, <1>6, <1>7

LEMMA BeforeGrows ==
  ASSUME NEW b \in Seq(Nat), NEW i \in 1..(Len(b) + 1), NEW j \in 1..(Len(b) + 1),
         i <= j
  PROVE  Before(b, i) <= Before(b, j)
<1> DEFINE T == {d \in Nat : i + d <= Len(b) + 1 => Before(b, i) <= Before(b, i + d)}
<1>0. Len(b) \in Nat /\ i \in Nat /\ j \in Nat /\ i + 0 = i /\ 0 \in Nat
  OBVIOUS
<1>1. 0 \in T
  <2>1. Before(b, i) <= Before(b, i)
    BY BeforeFacts
  <2>2. QED BY <1>0, <2>1
<1>2. ASSUME NEW d \in Nat, d < Len(b), d \in T PROVE d + 1 \in T
  <2> SUFFICES ASSUME i + (d + 1) <= Len(b) + 1
               PROVE  Before(b, i) <= Before(b, i + (d + 1))
    OBVIOUS
  <2>1. i + d \in 1..Len(b) /\ i + d \in 1..(Len(b) + 1) /\ (i + d) + 1 = i + (d + 1)
    BY <1>0
  <2>2. Before(b, i) <= Before(b, i + d)
    BY <1>0, <1>2, <2>1
  <2>3. Before(b, i + (d + 1)) = Before(b, i + d) + b[i + d] /\ b[i + d] \in Nat
    BY <2>1, BeforeFacts
  <2>4. Before(b, i) \in Nat /\ Before(b, i + d) \in Nat
    BY <2>1, BeforeFacts
  <2>5. QED BY <2>2, <2>3, <2>4
<1>3. j - i \in 0..Len(b) /\ i + (j - i) = j
  BY <1>0
<1> HIDE DEF T
<1>4. j - i \in T
  BY <1>0, <1>1, <1>2, <1>3, InductionTo
<1>5. i + (j - i) <= Len(b) + 1
  BY <1>0, <1>3
<1>6. Before(b, i) <= Before(b, i + (j - i))
  BY <1>4, <1>5 DEF T
<1>7. QED BY <1>3, <1>6

(* Where in a buffer sequence a byte is.                                   *)
Position(b, a) == Before(b, a[1]) + a[2]

LEMMA PlaceFacts ==
  ASSUME NEW b \in Seq(Nat)
  PROVE  /\ \A a \in Places(b) : a[1] \in 1..Len(b) /\ a[2] \in 1..b[a[1]]
                                 /\ a = <<a[1], a[2]>>
         /\ \A i \in 1..Len(b) : \A x \in 1..b[i] : <<i, x>> \in Places(b)
<1>1. DOMAIN b = 1..Len(b)
  OBVIOUS
<1>2. ASSUME NEW a \in Places(b)
      PROVE  a[1] \in 1..Len(b) /\ a[2] \in 1..b[a[1]] /\ a = <<a[1], a[2]>>
  <2>1. PICK i \in 1..Len(b) : a \in {i} \X (1..b[i])
    BY <1>1 DEF Places
  <2>2. QED BY <2>1
<1>3. ASSUME NEW i \in 1..Len(b), NEW x \in 1..b[i] PROVE <<i, x>> \in Places(b)
  <2>1. <<i, x>> \in {i} \X (1..b[i])
    OBVIOUS
  <2>2. QED BY <1>1, <2>1 DEF Places
<1>4. QED BY <1>2, <1>3

LEMMA PositionFacts ==
  ASSUME NEW b \in Seq(Nat), NEW a \in Places(b)
  PROVE  /\ Position(b, a) \in Nat
         /\ Before(b, a[1]) < Position(b, a)
         /\ Position(b, a) <= Before(b, a[1] + 1)
         /\ Position(b, a) <= BufferSize(b)
<1>1. a[1] \in 1..Len(b) /\ a[2] \in 1..b[a[1]]
  BY PlaceFacts
<1>2. Len(b) \in Nat /\ b[a[1]] \in Nat
  BY <1>1
<1>3. /\ a[1] \in 1..(Len(b) + 1) /\ a[1] + 1 \in 1..(Len(b) + 1)
      /\ Len(b) + 1 \in 1..(Len(b) + 1) /\ a[1] + 1 <= Len(b) + 1
  BY <1>1, <1>2
<1>4. /\ Before(b, a[1]) \in Nat /\ Before(b, a[1] + 1) = Before(b, a[1]) + b[a[1]]
      /\ BufferSize(b) \in Nat
  BY <1>1, <1>3, BeforeFacts DEF BufferSize
<1>5. Before(b, a[1] + 1) <= BufferSize(b)
  BY <1>3, BeforeGrows DEF BufferSize
<1>6. QED BY <1>1, <1>2, <1>4, <1>5 DEF Position

LEMMA PositionsDiffer ==
  ASSUME NEW b \in Seq(Nat), NEW a \in Places(b), NEW c \in Places(b),
         Position(b, a) = Position(b, c)
  PROVE  a = c
<1>1. /\ a[1] \in 1..Len(b) /\ a[2] \in 1..b[a[1]] /\ a = <<a[1], a[2]>>
      /\ c[1] \in 1..Len(b) /\ c[2] \in 1..b[c[1]] /\ c = <<c[1], c[2]>>
      /\ b[a[1]] \in Nat /\ b[c[1]] \in Nat /\ Len(b) \in Nat
  BY PlaceFacts
<1>2. ASSUME NEW u \in Places(b), NEW w \in Places(b), u[1] < w[1]
      PROVE  Position(b, u) < Position(b, w)
  <2>1. /\ u[1] \in 1..Len(b) /\ w[1] \in 1..Len(b) /\ Len(b) \in Nat
    BY PlaceFacts
  <2>2. /\ u[1] + 1 \in 1..(Len(b) + 1) /\ w[1] \in 1..(Len(b) + 1)
        /\ u[1] + 1 <= w[1]
    BY <1>2, <2>1
  <2>3. Before(b, u[1] + 1) <= Before(b, w[1])
    BY <2>2, BeforeGrows
  <2>4. Before(b, u[1] + 1) \in Nat /\ Before(b, w[1]) \in Nat
    BY <2>2, BeforeFacts
  <2>5. QED BY <2>3, <2>4, PositionFacts
<1>3. a[1] = c[1]
  <2>1. ~ (a[1] < c[1]) /\ ~ (c[1] < a[1])
    <3>1. Position(b, a) \in Nat /\ Position(b, c) \in Nat
      BY PositionFacts
    <3>2. QED BY <1>2, <3>1
  <2>2. QED BY <1>1, <2>1
<1>4. Before(b, a[1]) \in Nat
  <2>1. a[1] \in 1..(Len(b) + 1)
    BY <1>1
  <2>2. QED BY <2>1, BeforeFacts
<1>5. a[2] = c[2]
  BY <1>1, <1>3, <1>4 DEF Position
<1>6. QED BY <1>1, <1>3, <1>5

(* A list of places in which each place is at its position is a prefix of  *)
(* InOrder.                                                                *)
InPlace(s, b) == s \in Seq(Places(b)) /\ \A p \in 1..Len(s) : Position(b, s[p]) = p

LEMMA SizeNat == ASSUME NEW b \in Seq(Nat) PROVE BufferSize(b) \in Nat
<1>1. Len(b) + 1 \in 1..(Len(b) + 1)
  OBVIOUS
<1>2. QED BY <1>1, BeforeFacts DEF BufferSize

LEMMA InPlacePrefix ==
  ASSUME NEW b \in Seq(Nat), NEW s, InPlace(s, b)
  PROVE  IsPrefix(s, InOrder(b)) /\ Len(s) <= BufferSize(b)
<1> DEFINE t == InOrder(b)
<1>1. s \in Seq(Places(b)) /\ Len(s) \in Nat /\ \A p \in 1..Len(s) : s[p] \in Places(b)
  BY DEF InPlace
<1>2. BufferSize(b) \in Nat
  BY SizeNat
<1>3. Len(s) <= BufferSize(b)
  <2>1. CASE Len(s) = 0
    BY <1>2, <2>1
  <2>2. CASE Len(s) # 0
    <3>1. Len(s) \in 1..Len(s)
      BY <1>1, <2>2
    <3>2. Position(b, s[Len(s)]) = Len(s) /\ s[Len(s)] \in Places(b)
      BY <1>1, <3>1 DEF InPlace
    <3>3. QED BY <3>2, PositionFacts
  <2>3. QED BY <2>1, <2>2
<1>4. t = [p \in 1..BufferSize(b) |-> CHOOSE a \in Places(b) : Position(b, a) = p]
  BY DEF InOrder, Position
<1>5. Len(t) = BufferSize(b)
  BY <1>2, <1>4
<1>6. ASSUME NEW p \in 1..Len(s) PROVE t[p] = s[p]
  <2>1. p \in 1..BufferSize(b)
    BY <1>1, <1>2, <1>3
  <2>2. t[p] = CHOOSE a \in Places(b) : Position(b, a) = p
    BY <1>4, <2>1
  <2>3. s[p] \in Places(b) /\ Position(b, s[p]) = p
    BY <1>1 DEF InPlace
  <2>4. t[p] \in Places(b) /\ Position(b, t[p]) = p
    BY <2>2, <2>3
  <2>5. QED BY <2>3, <2>4, PositionsDiffer
<1>7. SubSeq(s, 1, Len(s)) = [p \in 1..Len(s) |-> s[p]]
  BY <1>1
<1>8. SubSeq(t, 1, Len(s)) = [p \in 1..Len(s) |-> t[p]]
  <2> DEFINE R == {t[p] : p \in 1..BufferSize(b)}
  <2>1. t \in Seq(R)
    <3>1. \A p \in 1..BufferSize(b) : t[p] \in R
      OBVIOUS
    <3>2. t \in [1..BufferSize(b) -> R]
      BY <1>4, <3>1
    <3> HIDE DEF t, R
    <3>3. QED BY <1>2, <3>2, SeqDef
  <2> HIDE DEF t, R
  <2>2. \A z \in Seq(R) : \A k \in 0..Len(z) : SubSeq(z, 1, k) = [p \in 1..k |-> z[p]]
    OBVIOUS
  <2>3. Len(s) \in 0..Len(t)
    BY <1>1, <1>2, <1>3, <1>5
  <2>4. QED BY <2>1, <2>2, <2>3
<1>9. SubSeq(s, 1, Len(s)) = SubSeq(t, 1, Len(s))
  BY <1>6, <1>7, <1>8
<1>10. QED BY <1>3, <1>5, <1>9 DEF IsPrefix

LEMMA InPlaceEmpty == ASSUME NEW b PROVE InPlace(<<>>, b)
BY DEF InPlace

(* k bytes of the i-th buffer, after those of the buffers before it and    *)
(* the first g of its own.                                                 *)
More(s, i, g, k) == s \o [j \in 1..k |-> <<i, g + j>>]
Follow(i, g, k, s, b) ==
  /\ i \in 1..Len(b) /\ g \in Nat /\ k \in Nat /\ g + k <= b[i]
  /\ InPlace(s, b) /\ Len(s) = Before(b, i) + g

LEMMA InPlaceMore ==
  ASSUME NEW b \in Seq(Nat), NEW s, NEW i, NEW g, NEW k, Follow(i, g, k, s, b)
  PROVE  /\ InPlace(More(s, i, g, k), b)
         /\ Len(More(s, i, g, k)) = Before(b, i) + (g + k)
<1> DEFINE z == [j \in 1..k |-> <<i, g + j>>]
           t == s \o z
<1>0. /\ i \in 1..Len(b) /\ g \in Nat /\ k \in Nat /\ g + k <= b[i]
      /\ InPlace(s, b) /\ Len(s) = Before(b, i) + g
  BY DEF Follow
<1>1. b[i] \in Nat /\ i \in 1..(Len(b) + 1) /\ i \in Nat
  BY <1>0
<1>2. Before(b, i) \in Nat
  BY <1>1, BeforeFacts
<1>3. \A j \in 1..k : z[j] \in Places(b) /\ Position(b, z[j]) = Len(s) + j
  <2> SUFFICES ASSUME NEW j \in 1..k
               PROVE  z[j] \in Places(b) /\ Position(b, z[j]) = Len(s) + j
    OBVIOUS
  <2>1. z[j] = <<i, g + j>> /\ g + j \in 1..b[i] /\ g + j \in Nat
    BY <1>0, <1>1
  <2>2. z[j] \in Places(b)
    BY <1>0, <2>1, PlaceFacts
  <2>3. Position(b, z[j]) = Before(b, i) + (g + j)
    BY <2>1 DEF Position
  <2>4. QED BY <1>0, <1>2, <2>2, <2>3
<1>4. z \in Seq(Places(b)) /\ Len(z) = k
  <2>1. z \in [1..k -> Places(b)]
    BY <1>3
  <2>2. Len(z) = k
    BY <1>0
  <2> HIDE DEF z
  <2>3. z \in Seq(Places(b))
    BY <1>0, <2>1, SeqDef
  <2>4. QED BY <2>2, <2>3
<1>5. s \in Seq(Places(b)) /\ \A p \in 1..Len(s) : Position(b, s[p]) = p
  BY <1>0 DEF InPlace
<1> HIDE DEF z
<1>6. /\ t \in Seq(Places(b)) /\ Len(t) = Len(s) + k
      /\ \A p \in 1..Len(t) : t[p] = IF p <= Len(s) THEN s[p] ELSE z[p - Len(s)]
  BY <1>4, <1>5, ConcatProperties
<1> HIDE DEF t
<1>7. ASSUME NEW p \in 1..Len(t) PROVE Position(b, t[p]) = p
  <2>1. Len(s) \in Nat
    BY <1>5
  <2>2. CASE p <= Len(s)
    <3>1. p \in 1..Len(s) /\ t[p] = s[p]
      BY <1>6, <2>1, <2>2
    <3>2. QED BY <1>5, <3>1
  <2>3. CASE ~(p <= Len(s))
    <3>1. p - Len(s) \in 1..k /\ t[p] = z[p - Len(s)] /\ Len(s) + (p - Len(s)) = p
      BY <1>0, <1>6, <2>1, <2>3
    <3>2. QED BY <1>3, <3>1
  <2>4. QED BY <2>2, <2>3
<1>8. InPlace(t, b)
  BY <1>6, <1>7 DEF InPlace
<1>9. Len(t) = Before(b, i) + (g + k)
  BY <1>0, <1>2, <1>6
<1>10. QED BY <1>8, <1>9 DEF t, z, More

LEMMA InPlaceSubSeq ==
  ASSUME NEW b, NEW s, InPlace(s, b), NEW r \in 0..Len(s)
  PROVE  InPlace(SubSeq(s, 1, r), b) /\ Len(SubSeq(s, 1, r)) = r
<1>1. s \in Seq(Places(b)) /\ Len(s) \in Nat
  BY DEF InPlace
<1> DEFINE z == SubSeq(s, 1, r)
<1>2. /\ z \in Seq(Places(b)) /\ Len(z) = r /\ \A p \in 1..r : z[p] = s[p]
  BY <1>1
<1> HIDE DEF z
<1>3. \A p \in 1..r : p \in 1..Len(s)
  BY <1>1
<1>4. QED BY <1>2, <1>3 DEF InPlace, z

(* What to_iovecs describes is the whole sequence, in order: the sequences *)
(* that are laid end to end are those of the buffers.                      *)
Spans(b) == [i \in 1..Len(b) |-> [j \in 1..b[i] |-> <<i, j>>]]
Flat(sp) ==
  CHOOSE f : f = [i \in 1..Len(sp) |-> IF i = 1 THEN sp[i] ELSE f[i - 1] \o sp[i]]

LEMMA SpanFacts ==
  ASSUME NEW b \in Seq(Nat)
  PROVE  /\ Len(Spans(b)) = Len(b)
         /\ \A i \in 1..Len(b) : /\ Spans(b)[i] = [j \in 1..b[i] |-> <<i, j>>]
                                 /\ Spans(b)[i] \in Seq(Places(b))
<1>1. Len(b) \in Nat /\ \A i \in 1..Len(b) : b[i] \in Nat
  OBVIOUS
<1>2. ASSUME NEW i \in 1..Len(b)
      PROVE  /\ Spans(b)[i] = [j \in 1..b[i] |-> <<i, j>>]
             /\ Spans(b)[i] \in Seq(Places(b))
  <2> DEFINE z == [j \in 1..b[i] |-> <<i, j>>]
  <2>1. Spans(b)[i] = z
    BY DEF Spans
  <2>2. z \in [1..b[i] -> Places(b)]
    BY PlaceFacts
  <2>3. z \in Seq(Places(b))
    <3> HIDE DEF z
    <3>1. b[i] \in Nat
      BY <1>1
    <3>2. \E k \in Nat : z \in [1..k -> Places(b)]
      BY <2>2, <3>1
    <3>3. QED BY <3>2, SeqDef
  <2>4. QED BY <2>1, <2>3
<1>3. Len(Spans(b)) = Len(b)
  <2> DEFINE g(i) == [j \in 1..b[i] |-> <<i, j>>]
             m == Len(b)
  <2>1. Spans(b) = [i \in 1..m |-> g(i)] /\ m \in Nat
    BY <1>1 DEF Spans
  <2> HIDE DEF g, m
  <2>2. Len(Spans(b)) = m
    BY <2>1
  <2>3. QED BY <2>2 DEF m
<1>4. QED BY <1>2, <1>3

LEMMA FlatDefined ==
  ASSUME NEW S, NEW m \in Nat, m # 0, NEW sp \in [1..m -> Seq(S)], Len(sp) = m
  PROVE  /\ Flat(sp)[1] = sp[1]
         /\ \A i \in 1..m : i # 1 => Flat(sp)[i] = Flat(sp)[i - 1] \o sp[i]
<1> DEFINE step == [a \in (1..m) \X Seq(S) |-> a[2] \o sp[a[1]]]
           Equation(f) == f = [i \in 1..m |-> IF i = 1 THEN sp[i] ELSE f[i - 1] \o sp[i]]
<1>1. <<>> \in Seq(S) /\ \A i \in 1..m : sp[i] \in Seq(S)
  OBVIOUS
<1>2. step \in Steps(m, Seq(S))
  BY <1>1 DEF Steps
<1>3. PICK f : Unfolds(f, m, Seq(S), <<>>, step)
  <2> HIDE DEF step, Equation
  <2>1. QED BY <1>1, <1>2, Recursion
<1>4. f[0] = <<>> /\ \A k \in 1..m : f[k] = f[k - 1] \o sp[k] /\ f[k] \in Seq(S)
  <2>1. \A k \in 1..m : k - 1 \in 0..m /\ k \in 0..m
    OBVIOUS
  <2>2. \A k \in 1..m : f[k - 1] \in Seq(S) /\ f[k] \in Seq(S)
    BY <1>3, <2>1 DEF Unfolds
  <2>3. QED BY <1>3, <2>2 DEF Unfolds
<1>5. f[1] = sp[1]
  <2>1. 1 \in 1..m /\ 1 - 1 = 0
    OBVIOUS
  <2>2. f[1] = <<>> \o sp[1] /\ sp[1] \in Seq(S)
    BY <1>1, <1>4, <2>1
  <2>3. QED BY <2>2
<1> DEFINE g == [i \in 1..m |-> f[i]]
<1>6. \A i \in 1..m : i # 1 => i - 1 \in 1..m
  OBVIOUS
<1>7. Equation(g)
  <2>1. \A i \in 1..m : g[i] = IF i = 1 THEN sp[i] ELSE g[i - 1] \o sp[i]
    BY <1>4, <1>5, <1>6
  <2>2. QED BY <2>1
<1>8. Equation(Flat(sp))
  <2> HIDE DEF g
  <2>1. QED BY <1>7 DEF Flat
<1> DEFINE h == Flat(sp)
<1>9. h = [i \in 1..m |-> IF i = 1 THEN sp[i] ELSE h[i - 1] \o sp[i]]
  BY <1>8
<1> HIDE DEF h
<1>10. h[1] = sp[1] /\ \A i \in 1..m : i # 1 => h[i] = h[i - 1] \o sp[i]
  <2>1. 1 \in 1..m
    OBVIOUS
  <2>2. QED BY <1>9, <2>1
<1>11. QED BY <1>10 DEF h

LEMMA DescribedFacts ==
  ASSUME NEW b \in Seq(Nat)
  PROVE  /\ InPlace(Described(ToIovecs(b)), b)
         /\ Len(Described(ToIovecs(b))) = BufferSize(b)
<1> DEFINE m == Len(b)
           sp == Spans(b)
           d == Described(ToIovecs(b))
<1>1. m \in Nat /\ DOMAIN b = 1..m /\ \A i \in 1..m : b[i] \in Nat
  OBVIOUS
<1>2. d = IF m = 0 THEN sp ELSE Flat(sp)[m]
  <2>1. [i \in DOMAIN ToIovecs(b) |->
           [j \in 1..ToIovecs(b)[i].iov_len |-> <<ToIovecs(b)[i].iov_base, j>>]] = sp
    BY <1>1 DEF Spans, ToIovecs, ToIovec
  <2>2. Len(sp) = m
    BY SpanFacts
  <2>3. d = FlattenSeq(sp)
    <3> HIDE DEF sp
    <3>1. QED BY <2>1 DEF Described
  <2> HIDE DEF d, sp, m
  <2>4. FlattenSeq(sp) = IF Len(sp) = 0 THEN sp ELSE Flat(sp)[Len(sp)]
    BY DEF FlattenSeq, Flat
  <2>5. QED BY <2>2, <2>3, <2>4
<1>3. CASE m = 0
  <2>1. sp = <<>>
    BY <1>1, <1>3 DEF Spans
  <2>2. BufferSize(b) = 0
    <3>1. m + 1 = 1
      BY <1>3
    <3>2. QED BY <3>1, BeforeFacts DEF BufferSize
  <2>3. d = <<>>
    BY <1>2, <1>3, <2>1
  <2> HIDE DEF d
  <2>4. QED BY <2>2, <2>3, InPlaceEmpty DEF d
<1>4. CASE m # 0
  <2> DEFINE f == Flat(sp)
             T == {k \in 0..m : k # 0 =>
                     InPlace(f[k], b) /\ Len(f[k]) = Before(b, k + 1)}
  <2>1. /\ f[1] = sp[1]
        /\ \A i \in 1..m : i # 1 => f[i] = f[i - 1] \o sp[i]
    <3>1. Len(sp) = m /\ \A i \in 1..m : sp[i] \in Seq(Places(b))
      BY SpanFacts
    <3>2. sp \in [1..m -> Seq(Places(b))]
      BY <1>1, <3>1 DEF Spans
    <3> HIDE DEF sp, m
    <3>3. QED BY <1>1, <1>4, <3>1, <3>2, FlatDefined
  <2>2. 0 \in T
    BY <1>1
  <2>3. ASSUME NEW k \in Nat, k < m, k \in T PROVE k + 1 \in T
    <3> DEFINE i == k + 1
               z == [j \in 1..b[i] |-> <<i, 0 + j>>]
    <3>1. i \in 1..m /\ i \in 0..m /\ i # 0 /\ b[i] \in Nat /\ i - 1 = k
      BY <1>1, <2>3
    <3>2. sp[i] = z /\ sp[i] \in Seq(Places(b))
      <4>1. sp[i] = [j \in 1..b[i] |-> <<i, j>>] /\ sp[i] \in Seq(Places(b))
        BY <3>1, SpanFacts
      <4>2. \A j \in 1..b[i] : 0 + j = j
        BY <3>1
      <4>3. QED BY <4>1, <4>2
    <3>3. \E s : InPlace(s, b) /\ Len(s) = Before(b, i) /\ f[i] = s \o z
      <4>1. CASE k = 0
        <5>1. i = 1 /\ f[i] = z
          BY <2>1, <3>2, <4>1
        <5>2. f[i] = <<>> \o z
          <6>1. z \in Seq(Places(b))
            BY <3>2
          <6> HIDE DEF z
          <6>2. QED BY <5>1, <6>1
        <5>3. Len(<<>>) = Before(b, i)
          BY <5>1, BeforeFacts
        <5>4. QED BY <5>2, <5>3, InPlaceEmpty
      <4>2. CASE k # 0
        <5>1. InPlace(f[k], b) /\ Len(f[k]) = Before(b, i)
          BY <2>3, <4>2
        <5>2. f[i] = f[k] \o z
          <6>1. i # 1
            BY <3>1, <4>2
          <6> HIDE DEF i, z, f, sp
          <6>2. QED BY <2>1, <3>1, <3>2, <6>1
        <5>3. QED BY <5>1, <5>2
      <4>3. QED BY <4>1, <4>2
    <3>4. PICK s : InPlace(s, b) /\ Len(s) = Before(b, i) /\ f[i] = s \o z
      BY <3>3
    <3>5. /\ Before(b, i) \in Nat /\ Before(b, i + 1) = Before(b, i) + b[i]
          /\ i \in 1..(m + 1)
      BY <1>1, <3>1, BeforeFacts
    <3>6. 0 \in Nat /\ 0 + b[i] = b[i] /\ b[i] <= b[i] /\ Len(s) = Before(b, i) + 0
      BY <3>1, <3>4, <3>5
    <3>7. InPlace(s \o z, b) /\ Len(s \o z) = Before(b, i) + b[i]
      <4>1. s \o z = More(s, i, 0, b[i])
        BY DEF More
      <4> HIDE DEF i, z
      <4>2. /\ InPlace(More(s, i, 0, b[i]), b)
            /\ Len(More(s, i, 0, b[i])) = Before(b, i) + (0 + b[i])
        <5>1. Follow(i, 0, b[i], s, b)
          BY <3>1, <3>4, <3>6 DEF Follow
        <5>2. QED BY <5>1, InPlaceMore
      <4>3. QED BY <3>6, <4>1, <4>2
    <3>8. InPlace(f[i], b) /\ Len(f[i]) = Before(b, i + 1)
      BY <3>4, <3>5, <3>7
    <3> HIDE DEF i, f
    <3>9. i \in T
      BY <3>1, <3>8
    <3>10. QED BY <3>9 DEF i
  <2>4. m \in T
    <3> HIDE DEF T, m
    <3>1. \A k \in 0..m : k \in T
      BY <1>1, <2>2, <2>3, InductionTo
    <3>2. QED BY <1>1, <3>1
  <2>5. InPlace(f[m], b) /\ Len(f[m]) = Before(b, m + 1)
    BY <1>4, <2>4
  <2>6. d = f[m]
    BY <1>2, <1>4
  <2> HIDE DEF d, f
  <2>7. InPlace(d, b) /\ Len(d) = Before(b, m + 1)
    BY <2>5, <2>6
  <2>8. QED BY <2>7 DEF d, BufferSize
<1>5. QED BY <1>3, <1>4

-----------------------------------------------------------------------------
(***************************************************************************)
(* The inductive invariant: what is known of an operation at each point of *)
(* its way from the initiating function to its handler.                    *)
(***************************************************************************)

(* Nothing has been attempted.                                             *)
Fresh(op) ==
  /\ cur[op] = 1 /\ got[op] = 0 /\ n[op] = 0
  /\ ec[op] = "ok" /\ last[op] = "none"

(* Initiated, and what for.                                                *)
RequestInv(op) ==
  /\ phase[op] \in {"idle", "posted", "polling", "submitted"} =>
       Fresh(op) /\ log[op] = <<>>
  /\ phase[op] = "posted" => kind[op] \in Stream /\ BufferSize(bufs[op]) = 0
  /\ phase[op] = "polling" => kind[op] \in Polls \cup Stream
  /\ phase[op] = "submitted" => kind[op] \in Vector \cup {"flush", "remove"}
  /\ phase[op] = "submitted" /\ kind[op] = "remove" => target[op] \in Ops
  /\ phase[op] \in {"polling", "completed"} /\ kind[op] \in Stream =>
       BufferSize(bufs[op]) # 0

(* The kernel's answer.  Only a vectored call has moved bytes by then.     *)
CompletedInv(op) ==
  phase[op] = "completed" =>
    /\ Fresh(op)
    /\ Len(log[op]) = IF kind[op] \in Vector /\ res[op] > 0 THEN res[op] ELSE 0

(* In the attempt: the bytes of the buffers before this one are counted,   *)
(* those of this one are not, and ec goes by the last call.                *)
MovingInv(op) ==
  phase[op] = "moving" =>
    /\ kind[op] \in Stream /\ res[op] > 0
    /\ cur[op] \in 1..Len(bufs[op]) /\ got[op] <= bufs[op][cur[op]]
    /\ n[op] = Before(bufs[op], cur[op]) /\ Len(log[op]) = n[op] + got[op]
    /\ IF last[op] = "error" THEN ec[op] = "error" ELSE ec[op] = "ok"

(* ReportsTruthfully, of one operation.                                    *)
Reports(op) ==
  phase[op] = "called" =>
    /\ kind[op] \in Stream \cup Vector => n[op] = Len(log[op])
    /\ kind[op] \in Stream /\ BufferSize(bufs[op]) # 0 =>
         /\ ec[op] # "ok" <=> res[op] <= 0 \/ last[op] = "error"
         /\ ec[op] = "ok" /\ n[op] < BufferSize(bufs[op]) => last[op] \in {"again", "end"}
    /\ kind[op] \in Vector => (ec[op] # "ok" <=> res[op] < 0)

OpInv(op) ==
  /\ InPlace(log[op], bufs[op])
  /\ RequestInv(op) /\ CompletedInv(op) /\ MovingInv(op) /\ Reports(op)

(* TypeOK without what follows from InPlace.                               *)
Types ==
  /\ kind \in [Ops -> Kinds \cup {Null}]
  /\ bufs \in [Ops -> Shapes]
  /\ target \in [Ops -> Ops \cup {Null}]
  /\ phase \in [Ops -> {"idle", "posted", "polling", "submitted", "completed",
                        "moving", "called"}]
  /\ res \in [Ops -> Nat \cup {-1}]
  /\ cur \in [Ops -> Nat \ {0}]
  /\ got \in [Ops -> Nat]
  /\ ec \in [Ops -> {"ok", "aborted", "error"}]
  /\ n \in [Ops -> Nat]
  /\ DOMAIN log = Ops
  /\ last \in [Ops -> {"none", "bytes", "again", "end", "error"}]

FileTypes ==
  /\ avail \in 0..sent /\ sent \in 0..Supply /\ used \in 0..Room
  /\ inEnd \in {"open", "closed", "reset"} /\ broken \in BOOLEAN

IInv == Types /\ FileTypes /\ \A op \in Ops : OpInv(op)

(* An operation whose variables a step leaves alone keeps what is known of *)
(* it.                                                                     *)
Same(op) ==
  /\ kind'[op] = kind[op] /\ bufs'[op] = bufs[op] /\ target'[op] = target[op]
  /\ phase'[op] = phase[op] /\ res'[op] = res[op] /\ cur'[op] = cur[op]
  /\ got'[op] = got[op] /\ ec'[op] = ec[op] /\ n'[op] = n[op]
  /\ log'[op] = log[op] /\ last'[op] = last[op]

LEMMA Others == ASSUME NEW op, OpInv(op), Same(op) PROVE OpInv(op)'
<1>1. InPlace(log[op], bufs[op])'
  BY DEF OpInv, Same
<1>2. RequestInv(op)'
  BY DEF OpInv, RequestInv, Fresh, Same
<1>3. CompletedInv(op)'
  BY DEF OpInv, CompletedInv, Fresh, Same
<1>4. MovingInv(op)'
  BY DEF OpInv, MovingInv, Same
<1>5. Reports(op)'
  BY DEF OpInv, Reports, Same
<1>6. QED BY <1>1, <1>2, <1>3, <1>4, <1>5 DEF OpInv

LEMMA ShapesAreSequences == \A op \in Ops : IInv => bufs[op] \in Seq(Nat)
BY BoundsAssumption DEF IInv, Types

LEMMA InvInit == Init => IInv
<1> SUFFICES ASSUME Init PROVE IInv
  OBVIOUS
<1>1. Types
  <2>1. <<>> \in Shapes
    BY BoundsAssumption
  <2>2. /\ kind \in [Ops -> Kinds \cup {Null}] /\ bufs \in [Ops -> Shapes]
        /\ target \in [Ops -> Ops \cup {Null}]
    BY <2>1 DEF Init
  <2>3. /\ res \in [Ops -> Nat \cup {-1}] /\ cur \in [Ops -> Nat \ {0}]
        /\ got \in [Ops -> Nat] /\ n \in [Ops -> Nat] /\ DOMAIN log = Ops
    BY DEF Init
  <2>4. QED BY <2>2, <2>3 DEF Init, Types
<1>2. FileTypes
  <2>1. avail \in 0..sent /\ sent \in 0..Supply /\ used \in 0..Room
    BY BoundsAssumption DEF Init
  <2>2. inEnd \in {"open", "closed", "reset"} /\ broken \in BOOLEAN
    BY Zenon DEF Init
  <2>3. QED BY <2>1, <2>2 DEF FileTypes
<1>3. ASSUME NEW op \in Ops PROVE OpInv(op)
  <2>1. InPlace(log[op], bufs[op])
    BY InPlaceEmpty DEF Init
  <2>2. RequestInv(op)
    BY DEF Init, RequestInv, Fresh
  <2>3. CompletedInv(op) /\ MovingInv(op) /\ Reports(op)
    BY DEF Init, CompletedInv, MovingInv, Reports
  <2>4. QED BY <2>1, <2>2, <2>3 DEF OpInv
<1>4. QED BY <1>1, <1>2, <1>3 DEF IInv

-----------------------------------------------------------------------------
(* Initiating functions.                                                   *)

LEMMA BeginKeeps ==
  ASSUME IInv, NEW op \in Ops, NEW k \in Kinds, NEW b \in Shapes,
         NEW t \in Ops \cup {Null}, NEW p \in {"posted", "polling", "submitted"},
         Begin(op, k, b, t, p),
         p = "posted" => k \in Stream /\ BufferSize(b) = 0,
         p = "polling" => k \in Polls \/ (k \in Stream /\ BufferSize(b) # 0),
         p = "submitted" => k \in Vector \cup {"flush", "remove"},
         k = "remove" => t \in Ops
  PROVE  IInv'
<1>1. Types'
  BY DEF IInv, Types, Begin, attempt
<1>2. FileTypes'
  BY DEF IInv, FileTypes, Begin, file
<1>3. \A o \in Ops : o # op => Same(o)
  BY DEF IInv, Types, Begin, attempt, Same
<1>4. OpInv(op)'
  <2>1. /\ kind'[op] = k /\ bufs'[op] = b /\ target'[op] = t /\ phase'[op] = p
        /\ cur'[op] = cur[op] /\ got'[op] = got[op] /\ ec'[op] = ec[op]
        /\ n'[op] = n[op] /\ log'[op] = log[op] /\ last'[op] = last[op]
    BY DEF IInv, Types, Begin, attempt
  <2>2. Fresh(op) /\ log[op] = <<>>
    BY DEF IInv, OpInv, RequestInv, Begin
  <2>3. InPlace(log[op], bufs[op])'
    BY <2>1, <2>2, InPlaceEmpty
  <2>4. RequestInv(op)'
    BY <2>1, <2>2 DEF RequestInv, Fresh, Polls, Stream
  <2>5. CompletedInv(op)' /\ MovingInv(op)' /\ Reports(op)'
    BY <2>1 DEF CompletedInv, MovingInv, Reports
  <2>6. QED BY <2>3, <2>4, <2>5 DEF OpInv
<1>5. \A o \in Ops : OpInv(o)'
  BY <1>3, <1>4, Others DEF IInv
<1>6. QED BY <1>1, <1>2, <1>5 DEF IInv

LEMMA InitiatingKeeps ==
  ASSUME IInv, NEW op \in Ops,
         \/ AsyncSome(op) \/ AsyncPoll(op) \/ AsyncSomeAt(op) \/ AsyncFlush(op)
         \/ InitiatePollRemove(op)
  PROVE  IInv'
<1>0. <<>> \in Shapes
  BY BoundsAssumption
<1>1. CASE AsyncSome(op)
  <2>1. PICK k \in Stream, b \in Shapes :
          IF BufferSize(b) # 0 THEN AsyncPollThen(op, k, b) ELSE Post(op, k, b)
    BY <1>1 DEF AsyncSome
  <2>2. k \in Kinds /\ k # "remove" /\ Null \in Ops \cup {Null}
    BY DEF Kinds, Stream
  <2>3. CASE BufferSize(b) # 0
    <3>1. Begin(op, k, b, Null, "polling")
      BY <2>1, <2>3 DEF AsyncPollThen, InitiatePollAdd
    <3>2. QED BY <2>2, <2>3, <3>1, BeginKeeps
  <2>4. CASE BufferSize(b) = 0
    <3>1. Begin(op, k, b, Null, "posted")
      BY <2>1, <2>4 DEF Post
    <3>2. QED BY <2>2, <2>4, <3>1, BeginKeeps
  <2>5. QED BY <2>3, <2>4
<1>2. CASE AsyncPoll(op)
  <2>1. PICK k \in Polls : Begin(op, k, <<>>, Null, "polling")
    BY <1>2 DEF AsyncPoll, InitiatePollAdd
  <2>2. k \in Kinds /\ k # "remove" /\ Null \in Ops \cup {Null}
    BY DEF Kinds, Polls
  <2>3. QED BY <1>0, <2>1, <2>2, BeginKeeps
<1>3. CASE AsyncSomeAt(op)
  <2>1. PICK k \in Vector, b \in Shapes : Begin(op, k, b, Null, "submitted")
    BY <1>3 DEF AsyncSomeAt, InitiateRwSomeAt
  <2>2. k \in Kinds /\ k # "remove" /\ Null \in Ops \cup {Null}
    BY DEF Kinds, Vector
  <2>3. QED BY <2>1, <2>2, BeginKeeps
<1>4. CASE AsyncFlush(op)
  <2>1. Begin(op, "flush", <<>>, Null, "submitted")
    BY <1>4 DEF AsyncFlush, InitiateFsync
  <2>2. "flush" \in Kinds /\ Null \in Ops \cup {Null}
    BY DEF Kinds
  <2>3. QED BY <1>0, <2>1, <2>2, BeginKeeps
<1>5. CASE InitiatePollRemove(op)
  <2>1. PICK t \in Ops : Begin(op, "remove", <<>>, t, "submitted")
    BY <1>5 DEF InitiatePollRemove
  <2>2. "remove" \in Kinds /\ t \in Ops \cup {Null}
    BY DEF Kinds
  <2>3. QED BY <1>0, <2>1, <2>2, BeginKeeps
<1>6. QED BY <1>1, <1>2, <1>3, <1>4, <1>5

-----------------------------------------------------------------------------
(* The kernel and the peer.                                                *)

LEMMA PollKeeps ==
  ASSUME IInv, NEW op \in Ops, phase[op] = "polling", NEW r \in Nat \cup {-1},
         kind' = kind, bufs' = bufs, target' = target, UNCHANGED <<attempt, file>>,
         phase'[op] = "completed", res'[op] = r
  PROVE  OpInv(op)'
<1>1. /\ kind'[op] = kind[op] /\ bufs'[op] = bufs[op]
      /\ cur'[op] = cur[op] /\ got'[op] = got[op] /\ ec'[op] = ec[op]
      /\ n'[op] = n[op] /\ log'[op] = log[op] /\ last'[op] = last[op]
  BY DEF attempt
<1>2. /\ Fresh(op) /\ log[op] = <<>> /\ kind[op] \in Polls \cup Stream
      /\ (kind[op] \in Stream => BufferSize(bufs[op]) # 0)
      /\ InPlace(log[op], bufs[op])
  BY DEF IInv, OpInv, RequestInv
<1>3. InPlace(log[op], bufs[op])'
  BY <1>1, <1>2
<1>4. RequestInv(op)'
  BY <1>1, <1>2 DEF RequestInv
<1>5. CompletedInv(op)'
  <2>1. kind[op] \notin Vector
    BY <1>2 DEF Polls, Stream, Vector
  <2>2. Len(log'[op]) = 0
    BY <1>1, <1>2
  <2>3. QED BY <1>1, <1>2, <2>1, <2>2 DEF CompletedInv, Fresh
<1>6. MovingInv(op)' /\ Reports(op)'
  BY DEF MovingInv, Reports
<1>7. QED BY <1>3, <1>4, <1>5, <1>6 DEF OpInv

(* A step of one operation that is not an initiating function.             *)
LEMMA OneSteps ==
  ASSUME IInv, NEW op \in Ops, UNCHANGED request, Types', FileTypes', OpInv(op)',
         \A o \in Ops : o # op =>
           /\ phase'[o] = phase[o] /\ res'[o] = res[o] /\ cur'[o] = cur[o]
           /\ got'[o] = got[o] /\ ec'[o] = ec[o] /\ n'[o] = n[o]
           /\ log'[o] = log[o] /\ last'[o] = last[o]
  PROVE  IInv'
<1>1. \A o \in Ops : o # op => Same(o)
  BY DEF request, Same
<1>2. \A o \in Ops : OpInv(o)'
  BY <1>1, Others DEF IInv
<1>3. QED BY <1>2 DEF IInv

LEMMA PollCompletesKeeps ==
  ASSUME IInv, NEW op \in Ops, PollCompletes(op)
  PROVE  IInv'
<1>1. PICK r \in Nat \cup {-1} : KernelCompletes(op, r)
  BY DEF PollCompletes
<1>2. /\ phase' = [phase EXCEPT ![op] = "completed"] /\ res' = [res EXCEPT ![op] = r]
      /\ phase[op] = "polling" /\ UNCHANGED <<request, attempt, file>>
  BY <1>1 DEF PollCompletes, KernelCompletes
<1>3. /\ phase'[op] = "completed" /\ res'[op] = r
      /\ \A o \in Ops : o # op => phase'[o] = phase[o] /\ res'[o] = res[o]
  BY <1>2 DEF IInv, Types
<1>4. OpInv(op)'
  BY <1>2, <1>3, PollKeeps DEF request
<1>5. Types'
  BY <1>2 DEF IInv, Types, request, attempt
<1>6. FileTypes'
  BY <1>2 DEF IInv, FileTypes, file
<1>7. QED BY <1>2, <1>3, <1>4, <1>5, <1>6, OneSteps DEF attempt

LEMMA RemoveCompletesKeeps ==
  ASSUME IInv, NEW op \in Ops, RemoveCompletes(op)
  PROVE  IInv'
<1>1. /\ phase[op] = "submitted" /\ kind[op] = "remove" /\ target[op] \in Ops
      /\ Fresh(op) /\ log[op] = <<>> /\ InPlace(log[op], bufs[op])
      /\ UNCHANGED <<request, attempt, file>>
  BY DEF RemoveCompletes, IInv, OpInv, RequestInv
<1>2. /\ kind'[op] = kind[op] /\ bufs'[op] = bufs[op]
      /\ cur'[op] = cur[op] /\ got'[op] = got[op] /\ ec'[op] = ec[op]
      /\ n'[op] = n[op] /\ log'[op] = log[op] /\ last'[op] = last[op]
  BY <1>1 DEF request, attempt
<1>3. FileTypes'
  BY <1>1 DEF IInv, FileTypes, file
<1>4. ASSUME phase'[op] = "completed" PROVE OpInv(op)'
  <2>1. InPlace(log[op], bufs[op])'
    BY <1>1, <1>2
  <2>2. RequestInv(op)'
    BY <1>1, <1>2, <1>4 DEF RequestInv, Stream
  <2>3. CompletedInv(op)'
    <3>1. kind[op] \notin Vector /\ Len(log'[op]) = 0
      BY <1>1, <1>2 DEF Vector
    <3>2. QED BY <1>1, <1>2, <3>1 DEF CompletedInv, Fresh
  <2>4. MovingInv(op)' /\ Reports(op)'
    BY <1>4 DEF MovingInv, Reports
  <2>5. QED BY <2>1, <2>2, <2>3, <2>4 DEF OpInv
<1>5. CASE phase[target[op]] = "polling"
  <2>0. PICK t \in Ops : t = target[op]
    BY <1>1
  <2>1. /\ phase' = [phase EXCEPT ![op] = "completed", ![t] = "completed"]
        /\ res' = [res EXCEPT ![op] = 0, ![t] = 0]
        /\ t \in Ops /\ t # op /\ phase[t] = "polling"
    BY <1>1, <1>5, <2>0 DEF RemoveCompletes
  <2>2. /\ phase'[op] = "completed" /\ phase'[t] = "completed" /\ res'[t] = 0
        /\ \A o \in Ops : o # op /\ o # t => phase'[o] = phase[o] /\ res'[o] = res[o]
    BY <2>1 DEF IInv, Types
  <2>3. OpInv(t)'
    <3>1. 0 \in Nat \cup {-1}
      OBVIOUS
    <3>2. QED BY <1>1, <2>1, <2>2, <3>1, PollKeeps DEF request
  <2>4. Types'
    BY <1>1, <2>1 DEF IInv, Types, request, attempt
  <2>5. \A o \in Ops : o # op /\ o # t => Same(o)
    BY <1>1, <2>2 DEF Same, request, attempt
  <2>6. \A o \in Ops : OpInv(o)'
    BY <1>4, <2>2, <2>3, <2>5, Others DEF IInv
  <2>7. QED BY <1>3, <2>4, <2>6 DEF IInv
<1>6. CASE phase[target[op]] # "polling"
  <2>1. phase' = [phase EXCEPT ![op] = "completed"] /\ res' = [res EXCEPT ![op] = -1]
    BY <1>6 DEF RemoveCompletes, KernelCompletes
  <2>2. /\ phase'[op] = "completed"
        /\ \A o \in Ops : o # op => phase'[o] = phase[o] /\ res'[o] = res[o]
    BY <2>1 DEF IInv, Types
  <2>3. Types'
    BY <1>1, <2>1 DEF IInv, Types, request, attempt
  <2>4. QED BY <1>1, <1>3, <1>4, <2>2, <2>3, OneSteps DEF attempt
<1>7. QED BY <1>5, <1>6

LEMMA FlushCompletesKeeps ==
  ASSUME IInv, NEW op \in Ops, FlushCompletes(op)
  PROVE  IInv'
<1>1. PICK r \in {0, -1} : KernelCompletes(op, r)
  BY DEF FlushCompletes
<1>2. /\ phase[op] = "submitted" /\ kind[op] = "flush"
      /\ Fresh(op) /\ log[op] = <<>> /\ InPlace(log[op], bufs[op])
      /\ phase' = [phase EXCEPT ![op] = "completed"] /\ res' = [res EXCEPT ![op] = r]
      /\ UNCHANGED <<request, attempt, file>>
  BY <1>1 DEF FlushCompletes, KernelCompletes, IInv, OpInv, RequestInv
<1>3. /\ phase'[op] = "completed"
      /\ \A o \in Ops : o # op => phase'[o] = phase[o] /\ res'[o] = res[o]
  BY <1>2 DEF IInv, Types
<1>4. /\ kind'[op] = kind[op] /\ bufs'[op] = bufs[op]
      /\ cur'[op] = cur[op] /\ got'[op] = got[op] /\ ec'[op] = ec[op]
      /\ n'[op] = n[op] /\ log'[op] = log[op] /\ last'[op] = last[op]
  BY <1>2 DEF request, attempt
<1>5. OpInv(op)'
  <2>1. InPlace(log[op], bufs[op])'
    BY <1>2, <1>4
  <2>2. RequestInv(op)'
    BY <1>2, <1>3, <1>4 DEF RequestInv, Stream
  <2>3. CompletedInv(op)'
    <3>1. kind[op] \notin Vector /\ Len(log'[op]) = 0
      BY <1>2, <1>4 DEF Vector
    <3>2. QED BY <1>2, <1>4, <3>1 DEF CompletedInv, Fresh
  <2>4. MovingInv(op)' /\ Reports(op)'
    BY <1>3 DEF MovingInv, Reports
  <2>5. QED BY <2>1, <2>2, <2>3, <2>4 DEF OpInv
<1>6. Types'
  BY <1>2 DEF IInv, Types, request, attempt
<1>7. FileTypes'
  BY <1>2 DEF IInv, FileTypes, file
<1>8. QED BY <1>2, <1>3, <1>5, <1>6, <1>7, OneSteps DEF attempt

LEMMA VectorCompletesKeeps ==
  ASSUME IInv, NEW op \in Ops, VectorCompletes(op)
  PROVE  IInv'
<1> DEFINE d == Described(ToIovecs(bufs[op]))
<1>1. PICK r \in -1..Len(d) :
        /\ KernelCompletes(op, r)
        /\ log' = [log EXCEPT ![op] = IF r > 0 THEN SubSeq(d, 1, r) ELSE <<>>]
  BY DEF VectorCompletes
<1>2. bufs[op] \in Seq(Nat)
  BY ShapesAreSequences
<1>3. InPlace(d, bufs[op]) /\ Len(d) \in Nat
  BY <1>2, DescribedFacts, SizeNat
<1> HIDE DEF d
<1>4. /\ phase[op] = "submitted" /\ kind[op] \in Vector /\ Fresh(op)
      /\ phase' = [phase EXCEPT ![op] = "completed"] /\ res' = [res EXCEPT ![op] = r]
      /\ UNCHANGED <<request, cur, got, ec, n, last, file>>
  BY <1>1 DEF VectorCompletes, KernelCompletes, IInv, OpInv, RequestInv
<1>5. /\ phase'[op] = "completed" /\ res'[op] = r
      /\ log'[op] = IF r > 0 THEN SubSeq(d, 1, r) ELSE <<>>
      /\ \A o \in Ops : o # op =>
           phase'[o] = phase[o] /\ res'[o] = res[o] /\ log'[o] = log[o]
  BY <1>1, <1>4 DEF IInv, Types
<1>6. /\ kind'[op] = kind[op] /\ bufs'[op] = bufs[op]
      /\ cur'[op] = cur[op] /\ got'[op] = got[op] /\ ec'[op] = ec[op]
      /\ n'[op] = n[op] /\ last'[op] = last[op]
  BY <1>4 DEF request
<1>7. InPlace(log'[op], bufs[op]) /\ Len(log'[op]) = IF r > 0 THEN r ELSE 0
  <2>1. CASE r > 0
    <3>1. r \in 0..Len(d)
      BY <1>3, <2>1
    <3>2. QED BY <1>3, <1>5, <2>1, <3>1, InPlaceSubSeq
  <2>2. CASE ~(r > 0)
    BY <1>5, <2>2, InPlaceEmpty
  <2>3. QED BY <2>1, <2>2
<1>8. OpInv(op)'
  <2>1. InPlace(log[op], bufs[op])'
    BY <1>6, <1>7
  <2>2. RequestInv(op)'
    BY <1>4, <1>5, <1>6 DEF RequestInv, Vector, Stream
  <2>3. CompletedInv(op)'
    BY <1>4, <1>5, <1>6, <1>7 DEF CompletedInv, Fresh
  <2>4. MovingInv(op)' /\ Reports(op)'
    BY <1>5 DEF MovingInv, Reports
  <2>5. QED BY <2>1, <2>2, <2>3, <2>4 DEF OpInv
<1>9. Types'
  <2>1. r \in Nat \cup {-1}
    BY <1>3
  <2>2. QED BY <1>1, <1>4, <2>1 DEF IInv, Types, request
<1>10. FileTypes'
  BY <1>4 DEF IInv, FileTypes, file
<1>11. QED BY <1>4, <1>5, <1>8, <1>9, <1>10, OneSteps

LEMMA PeerKeeps == ASSUME IInv, Peer PROVE IInv'
<1>1. \A o \in Ops : Same(o)
  BY DEF Peer, Same, request, attempt
<1>2. Types'
  BY DEF IInv, Types, Peer, request, attempt
<1>3. FileTypes'
  <2>1. avail' \in 0..sent' /\ sent' \in 0..Supply /\ used' \in 0..Room
    BY BoundsAssumption DEF IInv, FileTypes, Peer
  <2>2. inEnd' \in {"open", "closed", "reset"}
    BY DEF IInv, FileTypes, Peer
  <2>3. broken' \in BOOLEAN
    BY Zenon DEF IInv, FileTypes, Peer
  <2>4. QED BY <2>1, <2>2, <2>3 DEF FileTypes
<1>4. QED BY <1>1, <1>2, <1>3, Others DEF IInv

-----------------------------------------------------------------------------
(* Completion.                                                             *)

(* A step that calls the handler.                                          *)
LEMMA CallKeeps ==
  ASSUME IInv, NEW op \in Ops,
         NEW e \in {"ok", "aborted", "error"}, NEW bytes \in Nat,
         Call(op, e, bytes), UNCHANGED <<request, res, cur, got, log, last, file>>,
         kind[op] \in Stream \cup Vector => bytes = Len(log[op]),
         kind[op] \in Stream /\ BufferSize(bufs[op]) # 0 =>
           e # "ok" /\ res[op] <= 0,
         kind[op] \in Vector => (e # "ok" <=> res[op] < 0)
  PROVE  IInv'
<1>1. /\ phase'[op] = "called" /\ ec'[op] = e /\ n'[op] = bytes
      /\ \A o \in Ops : o # op =>
           phase'[o] = phase[o] /\ ec'[o] = ec[o] /\ n'[o] = n[o]
  BY DEF IInv, Types, Call
<1>2. /\ kind'[op] = kind[op] /\ bufs'[op] = bufs[op] /\ res'[op] = res[op]
      /\ log'[op] = log[op]
  BY DEF request
<1>3. OpInv(op)'
  <2>1. InPlace(log[op], bufs[op])'
    BY <1>2 DEF IInv, OpInv
  <2>2. RequestInv(op)' /\ CompletedInv(op)' /\ MovingInv(op)'
    BY <1>1 DEF RequestInv, CompletedInv, MovingInv
  <2>3. Reports(op)'
    BY <1>1, <1>2 DEF Reports
  <2>4. QED BY <2>1, <2>2, <2>3 DEF OpInv
<1>4. Types'
  BY DEF IInv, Types, Call, request
<1>5. FileTypes'
  BY DEF IInv, FileTypes, file
<1>6. QED BY <1>1, <1>3, <1>4, <1>5, OneSteps

LEMMA PostedKeeps ==
  ASSUME IInv, NEW op \in Ops, Posted(op)
  PROVE  IInv'
<1>1. /\ Call(op, "ok", 0) /\ UNCHANGED <<request, res, cur, got, log, last, file>>
      /\ kind[op] \in Stream /\ BufferSize(bufs[op]) = 0 /\ log[op] = <<>>
  BY DEF Posted, IInv, OpInv, RequestInv
<1>2. kind[op] \notin Vector /\ Len(log[op]) = 0
  BY <1>1 DEF Stream, Vector
<1>3. QED BY <1>1, <1>2, CallKeeps

LEMMA CompleteKeeps ==
  ASSUME IInv, NEW op \in Ops, Complete(op)
  PROVE  IInv'
<1>1. /\ phase[op] = "completed" /\ res[op] \in Nat \cup {-1}
      /\ Len(log[op]) = IF kind[op] \in Vector /\ res[op] > 0 THEN res[op] ELSE 0
      /\ UNCHANGED <<request, res, cur, got, log, last, file>>
  BY DEF Complete, IInv, Types, OpInv, CompletedInv
<1>2. CASE kind[op] \in Polls
  <2>1. Call(op, ToPollAddResult(res[op]), 0) /\ kind[op] \notin Stream \cup Vector
    BY <1>2 DEF Complete, Polls, Stream, Vector
  <2>2. ToPollAddResult(res[op]) \in {"ok", "aborted", "error"}
    BY DEF ToPollAddResult
  <2>3. QED BY <1>1, <2>1, <2>2, CallKeeps
<1>3. CASE kind[op] \in {"remove", "flush"}
  <2>1. /\ Call(op, ToPollRemoveResult(res[op]), 0)
        /\ kind[op] \notin Stream \cup Vector
    BY <1>3 DEF Complete, ToFsyncResult, Polls, Stream, Vector
  <2>2. ToPollRemoveResult(res[op]) \in {"ok", "aborted", "error"}
    BY DEF ToPollRemoveResult
  <2>3. QED BY <1>1, <2>1, <2>2, CallKeeps
<1>4. CASE kind[op] \in Vector
  <2>1. LET r == ToRwResult(res[op]) IN Call(op, r[1], r[2])
    BY <1>4 DEF Complete, Polls, Vector
  <2>2. kind[op] \notin Stream
    BY <1>4 DEF Stream, Vector
  <2>3. CASE res[op] < 0
    <3>1. Call(op, "error", 0)
      BY <2>1, <2>3 DEF ToRwResult
    <3>2. Len(log[op]) = 0
      BY <1>1, <2>3
    <3>3. QED BY <1>1, <2>2, <2>3, <3>1, <3>2, CallKeeps
  <2>4. CASE ~(res[op] < 0)
    <3>1. Call(op, "ok", res[op])
      BY <2>1, <2>4 DEF ToRwResult
    <3>2. Len(log[op]) = res[op] /\ res[op] \in Nat
      BY <1>1, <1>4, <2>4
    <3>3. QED BY <1>1, <2>2, <2>4, <3>1, <3>2, CallKeeps
  <2>5. QED BY <2>3, <2>4
<1>5. QED BY <1>2, <1>3, <1>4 DEF Complete

LEMMA AttemptKeeps ==
  ASSUME IInv, NEW op \in Ops, Attempt(op)
  PROVE  IInv'
<1>1. /\ phase[op] = "completed" /\ kind[op] \in Stream /\ kind[op] \notin Vector
      /\ res[op] \in Nat \cup {-1} /\ InPlace(log[op], bufs[op])
      /\ Fresh(op) /\ Len(log[op]) = 0 /\ BufferSize(bufs[op]) # 0
      /\ UNCHANGED <<request, res, cur, got, log, last, file>>
  BY DEF Attempt, IInv, Types, OpInv, CompletedInv, RequestInv, Stream, Vector
<1>2. CASE res[op] > 0
  <2>1. phase' = [phase EXCEPT ![op] = "moving"] /\ UNCHANGED <<ec, n>>
    BY <1>2 DEF Attempt, ToPollAddResult
  <2>2. phase'[op] = "moving" /\ \A o \in Ops : o # op => phase'[o] = phase[o]
    BY <2>1 DEF IInv, Types
  <2>3. /\ kind'[op] = kind[op] /\ bufs'[op] = bufs[op] /\ res'[op] = res[op]
        /\ cur'[op] = 1 /\ got'[op] = 0 /\ n'[op] = 0 /\ ec'[op] = "ok"
        /\ last'[op] = "none" /\ log'[op] = log[op]
    BY <1>1, <2>1 DEF request, Fresh
  <2>4. bufs[op] \in Seq(Nat)
    BY ShapesAreSequences
  <2>5. 1 \in 1..Len(bufs[op]) /\ bufs[op][1] \in Nat
    <3>1. Len(bufs[op]) \in Nat
      BY <2>4
    <3>2. Len(bufs[op]) # 0
      <4>1. SUFFICES ASSUME Len(bufs[op]) = 0 PROVE FALSE
        OBVIOUS
      <4>2. Len(bufs[op]) + 1 = 1
        BY <4>1
      <4>3. QED BY <1>1, <2>4, <4>2, BeforeFacts DEF BufferSize
    <3>3. 1 \in 1..Len(bufs[op])
      BY <3>1, <3>2
    <3>4. QED BY <2>4, <3>3
  <2>6. OpInv(op)'
    <3>1. InPlace(log[op], bufs[op])'
      BY <1>1, <2>3
    <3>2. RequestInv(op)' /\ CompletedInv(op)' /\ Reports(op)'
      BY <2>2 DEF RequestInv, CompletedInv, Reports
    <3>3. Before(bufs[op], 1) = 0
      BY <2>4, BeforeFacts
    <3>4. MovingInv(op)'
      BY <1>1, <1>2, <2>3, <2>5, <3>3 DEF MovingInv
    <3>5. QED BY <3>1, <3>2, <3>4 DEF OpInv
  <2>7. Types'
    BY <1>1, <2>1 DEF IInv, Types, request
  <2>8. FileTypes'
    BY <1>1 DEF IInv, FileTypes, file
  <2>9. QED BY <1>1, <2>1, <2>2, <2>6, <2>7, <2>8, OneSteps
<1>3. CASE ~(res[op] > 0)
  <2>1. PICK e : e = ToPollAddResult(res[op])
    OBVIOUS
  <2>2. e \in {"aborted", "error"}
    BY <1>3, <2>1 DEF ToPollAddResult
  <2>3. Call(op, e, 0)
    BY <2>1, <2>2 DEF Attempt
  <2>4. res[op] <= 0
    BY <1>1, <1>3
  <2>5. QED BY <1>1, <2>2, <2>3, <2>4, CallKeeps
<1>4. QED BY <1>2, <1>3

-----------------------------------------------------------------------------
(* The attempt.                                                            *)

LEMMA MovingFacts ==
  ASSUME IInv, NEW op \in Ops, phase[op] = "moving"
  PROVE  /\ bufs[op] \in Seq(Nat) /\ cur[op] \in 1..Len(bufs[op])
         /\ bufs[op][cur[op]] \in Nat /\ got[op] \in Nat /\ n[op] \in Nat
         /\ got[op] <= bufs[op][cur[op]] /\ n[op] = Before(bufs[op], cur[op])
         /\ Len(log[op]) = n[op] + got[op] /\ InPlace(log[op], bufs[op])
         /\ kind[op] \in Stream /\ res[op] > 0
         /\ IF last[op] = "error" THEN ec[op] = "error" ELSE ec[op] = "ok"
<1>1. bufs[op] \in Seq(Nat)
  BY ShapesAreSequences
<1>2. cur[op] \in 1..Len(bufs[op])
  BY DEF IInv, OpInv, MovingInv
<1>3. bufs[op][cur[op]] \in Nat
  BY <1>1, <1>2
<1>4. QED BY <1>1, <1>2, <1>3 DEF IInv, Types, OpInv, MovingInv

(* A system call that moves bytes puts them after those that are there.    *)
LEMMA MovesKeeps ==
  ASSUME IInv, NEW op \in Ops, InBuffer(op), NEW k \in 1..Left(op),
         Moves(op, k), UNCHANGED <<request, phase, res, cur, n>>, FileTypes'
  PROVE  IInv'
<1>0. phase[op] = "moving"
  BY DEF InBuffer
<1>1. /\ cur[op] \in 1..Len(bufs[op]) /\ bufs[op][cur[op]] \in Nat
      /\ got[op] \in Nat /\ n[op] \in Nat /\ k \in Nat
      /\ got[op] + k <= bufs[op][cur[op]]
  BY <1>0, MovingFacts DEF Left
<1>2. /\ got'[op] = got[op] + k /\ last'[op] = "bytes" /\ UNCHANGED ec
      /\ log'[op] = log[op] \o [j \in 1..k |-> <<cur[op], got[op] + j>>]
      /\ \A o \in Ops : o # op =>
           got'[o] = got[o] /\ log'[o] = log[o] /\ last'[o] = last[o]
  <2> DEFINE z == [j \in 1..k |-> <<cur[op], got[op] + j>>]
  <2>1. /\ got' = [got EXCEPT ![op] = got[op] + k]
        /\ log' = [log EXCEPT ![op] = log[op] \o z]
        /\ last' = [last EXCEPT ![op] = "bytes"] /\ UNCHANGED ec
    <3>1. got' = [got EXCEPT ![op] = got[op] + k]
      BY DEF Moves
    <3>2. log' = [log EXCEPT ![op] = log[op] \o z]
      BY Zenon DEF Moves
    <3>3. last' = [last EXCEPT ![op] = "bytes"] /\ UNCHANGED ec
      BY DEF Moves
    <3>4. QED BY <3>1, <3>2, <3>3
  <2> HIDE DEF z
  <2>2. /\ got'[op] = got[op] + k /\ last'[op] = "bytes" /\ log'[op] = log[op] \o z
        /\ \A o \in Ops : o # op =>
             got'[o] = got[o] /\ log'[o] = log[o] /\ last'[o] = last[o]
    BY <2>1 DEF IInv, Types
  <2>3. QED BY <2>1, <2>2 DEF z
<1>3. InPlace(log'[op], bufs[op]) /\ Len(log'[op]) = n[op] + (got[op] + k)
  <2>1. /\ bufs[op] \in Seq(Nat) /\ InPlace(log[op], bufs[op])
        /\ n[op] = Before(bufs[op], cur[op])
        /\ Len(log[op]) = Before(bufs[op], cur[op]) + got[op]
    BY <1>0, MovingFacts
  <2>2. Follow(cur[op], got[op], k, log[op], bufs[op])
    BY <1>1, <2>1 DEF Follow
  <2>3. log'[op] = More(log[op], cur[op], got[op], k)
    BY <1>2 DEF More
  <2>4. QED BY <2>1, <2>2, <2>3, InPlaceMore
<1>4. /\ kind'[op] = kind[op] /\ bufs'[op] = bufs[op] /\ phase'[op] = "moving"
      /\ res'[op] = res[op] /\ cur'[op] = cur[op] /\ n'[op] = n[op]
      /\ ec'[op] = ec[op]
  BY <1>0, <1>2 DEF request
<1>5. ec[op] = "ok"
  BY <1>0, MovingFacts DEF InBuffer, Stopped
<1>6. OpInv(op)'
  <2>1. InPlace(log[op], bufs[op])'
    BY <1>3, <1>4
  <2>2. RequestInv(op)' /\ CompletedInv(op)' /\ Reports(op)'
    BY <1>4 DEF RequestInv, CompletedInv, Reports
  <2>3. MovingInv(op)'
    BY <1>1, <1>2, <1>3, <1>4, <1>5, <1>0, MovingFacts DEF MovingInv
  <2>4. QED BY <2>1, <2>2, <2>3 DEF OpInv
<1>7. Types'
  BY <1>1 DEF IInv, Types, Moves, request
<1>8. QED BY <1>2, <1>6, <1>7, OneSteps

LEMMA StopsKeeps ==
  ASSUME IInv, NEW op \in Ops, InBuffer(op),
         NEW outcome \in {"again", "end", "error"},
         Stops(op, outcome), UNCHANGED <<request, phase, res, cur, n>>, FileTypes'
  PROVE  IInv'
<1>0. phase[op] = "moving"
  BY DEF InBuffer
<1>1. /\ last'[op] = outcome /\ UNCHANGED <<got, log>>
      /\ ec'[op] = IF outcome = "error" THEN "error" ELSE "ok"
      /\ \A o \in Ops : o # op => last'[o] = last[o] /\ ec'[o] = ec[o]
  BY DEF IInv, Types, Stops
<1>2. /\ kind'[op] = kind[op] /\ bufs'[op] = bufs[op] /\ phase'[op] = "moving"
      /\ res'[op] = res[op] /\ cur'[op] = cur[op] /\ n'[op] = n[op]
      /\ got'[op] = got[op] /\ log'[op] = log[op]
  BY <1>0, <1>1 DEF request
<1>3. OpInv(op)'
  <2>1. InPlace(log[op], bufs[op])'
    BY <1>0, <1>2, MovingFacts
  <2>2. RequestInv(op)' /\ CompletedInv(op)' /\ Reports(op)'
    BY <1>2 DEF RequestInv, CompletedInv, Reports
  <2>3. MovingInv(op)'
    BY <1>0, <1>1, <1>2, MovingFacts DEF MovingInv
  <2>4. QED BY <2>1, <2>2, <2>3 DEF OpInv
<1>4. Types'
  BY DEF IInv, Types, Stops, request
<1>5. QED BY <1>1, <1>3, <1>4, OneSteps

LEMMA ReadCallKeeps ==
  ASSUME IInv, NEW op \in Ops, ReadCall(op)
  PROVE  IInv'
<1>1. /\ InBuffer(op)
      /\ UNCHANGED <<request, phase, res, cur, n, sent, inEnd, used, broken>>
  BY DEF ReadCall
<1>2. FileTypes
  BY DEF IInv
<1>3. CASE \E k \in 1..Left(op) : k <= avail /\ avail' = avail - k /\ Moves(op, k)
  <2>1. PICK k \in 1..Left(op) : k <= avail /\ avail' = avail - k /\ Moves(op, k)
    BY <1>3
  <2>2. k \in Nat /\ k >= 1
    <3>1. Left(op) \in Int
      BY <1>1, MovingFacts DEF InBuffer, Left
    <3>2. QED BY <3>1
  <2>3. FileTypes'
    BY <1>1, <1>2, <2>1, <2>2 DEF FileTypes
  <2>4. QED BY <1>1, <2>1, <2>3, MovesKeeps
<1>4. CASE \E outcome \in {"again", "end", "error"} :
             Stops(op, outcome) /\ UNCHANGED avail
  <2>1. FileTypes'
    BY <1>1, <1>2, <1>4 DEF FileTypes
  <2>2. QED BY <1>1, <1>4, <2>1, StopsKeeps
<1>5. QED BY <1>3, <1>4 DEF ReadCall

LEMMA WriteCallKeeps ==
  ASSUME IInv, NEW op \in Ops, WriteCall(op)
  PROVE  IInv'
<1>1. /\ InBuffer(op)
      /\ UNCHANGED <<request, phase, res, cur, n, avail, sent, inEnd, broken>>
  BY DEF WriteCall
<1>2. FileTypes
  BY DEF IInv
<1>3. CASE \E k \in 1..Left(op) : used + k <= Room /\ used' = used + k /\ Moves(op, k)
  <2>1. PICK k \in 1..Left(op) : used + k <= Room /\ used' = used + k /\ Moves(op, k)
    BY <1>3
  <2>2. k \in Nat
    <3>1. Left(op) \in Int
      BY <1>1, MovingFacts DEF InBuffer, Left
    <3>2. QED BY <3>1
  <2>3. FileTypes'
    BY <1>1, <1>2, <2>1, <2>2, BoundsAssumption DEF FileTypes
  <2>4. QED BY <1>1, <2>1, <2>3, MovesKeeps
<1>4. CASE \E outcome \in {"again", "end", "error"} :
             Stops(op, outcome) /\ UNCHANGED used
  <2>1. FileTypes'
    BY <1>1, <1>2, <1>4 DEF FileTypes
  <2>2. QED BY <1>1, <1>4, <2>1, StopsKeeps
<1>5. QED BY <1>3, <1>4 DEF WriteCall

LEMMA BufferEndsKeeps ==
  ASSUME IInv, NEW op \in Ops, BufferEnds(op)
  PROVE  IInv'
<1> DEFINE b == bufs[op]
           i == cur[op]
<1>1. /\ phase[op] = "moving" /\ (got[op] = b[i] \/ Stopped(op))
      /\ n' = [n EXCEPT ![op] = @ + got[op]]
      /\ UNCHANGED <<request, res, ec, log, file>>
  BY DEF BufferEnds, BufferDone
<1>2. /\ b \in Seq(Nat) /\ i \in 1..Len(b) /\ b[i] \in Nat /\ got[op] \in Nat
      /\ n[op] \in Nat /\ got[op] <= b[i] /\ n[op] = Before(b, i)
      /\ Len(log[op]) = n[op] + got[op] /\ InPlace(log[op], b)
      /\ kind[op] \in Stream /\ res[op] > 0
      /\ IF last[op] = "error" THEN ec[op] = "error" ELSE ec[op] = "ok"
  BY <1>1, MovingFacts
<1>3. /\ n'[op] = n[op] + got[op] /\ kind'[op] = kind[op] /\ bufs'[op] = bufs[op]
      /\ res'[op] = res[op] /\ ec'[op] = ec[op] /\ log'[op] = log[op]
      /\ \A o \in Ops : o # op => n'[o] = n[o]
  BY <1>1 DEF IInv, Types, request
<1>4. FileTypes'
  BY <1>1 DEF IInv, FileTypes, file
<1>5. Before(b, i + 1) = n'[op] - got[op] + b[i]
  BY <1>2, <1>3, BeforeFacts
<1>6. InPlace(log[op], bufs[op])'
  BY <1>2, <1>3
<1>7. n' \in [Ops -> Nat]
  BY <1>1, <1>2 DEF IInv, Types
<1>8. ASSUME Finish(op),
             ec[op] # "ok" \/ Stopped(op) \/ (got[op] = b[i] /\ i = Len(b))
      PROVE  IInv'
  <2>1. /\ phase'[op] = "called" /\ last'[op] = last[op]
        /\ \A o \in Ops : o # op => phase'[o] = phase[o] /\ cur'[o] = cur[o]
                                  /\ got'[o] = got[o] /\ last'[o] = last[o]
    BY <1>8 DEF IInv, Types, Finish
  <2>2. Reports(op)'
    <3>1. kind[op] \notin Vector
      BY <1>2 DEF Stream, Vector
    <3>2. BufferSize(b) \in Nat
      BY <1>2, SizeNat
    <3>3. ec[op] # "ok" \/ n'[op] >= BufferSize(b) \/ last[op] \in {"again", "end"}
      <4>1. CASE got[op] = b[i] /\ i = Len(b)
        <5>1. BufferSize(b) = n'[op]
          <6>1. BufferSize(b) = Before(b, i + 1)
            BY <4>1 DEF BufferSize
          <6>2. n'[op] \in Nat
            BY <1>2, <1>3
          <6>3. n'[op] - got[op] + b[i] = n'[op]
            BY <1>2, <4>1, <6>2
          <6>4. QED BY <1>5, <6>1, <6>3
        <5>2. QED BY <3>2, <5>1
      <4>2. CASE Stopped(op)
        BY <1>2, <4>2 DEF Stopped
      <4>3. QED BY <1>8, <4>1, <4>2
    <3>4. n'[op] = Len(log'[op])
      BY <1>2, <1>3
    <3>5. ec'[op] # "ok" <=> res'[op] <= 0 \/ last'[op] = "error"
      <4>1. ~ (res[op] <= 0)
        <5>1. res[op] \in Nat \cup {-1}
          BY DEF IInv, Types
        <5>2. QED BY <1>2, <5>1
      <4>2. QED BY <1>2, <1>3, <2>1, <4>1
    <3>6. ec'[op] = "ok" /\ n'[op] < BufferSize(bufs'[op]) =>
            last'[op] \in {"again", "end"}
      <4>1. n'[op] \in Nat
        BY <1>2, <1>3
      <4>2. QED BY <1>3, <2>1, <3>2, <3>3, <4>1
    <3>7. kind'[op] \notin Vector
      BY <1>3, <3>1
    <3>8. QED BY <3>4, <3>5, <3>6, <3>7 DEF Reports
  <2>3. RequestInv(op)' /\ CompletedInv(op)' /\ MovingInv(op)'
    BY <2>1 DEF RequestInv, CompletedInv, MovingInv
  <2>4. OpInv(op)'
    BY <1>6, <2>2, <2>3 DEF OpInv
  <2>5. Types'
    BY <1>1, <1>7, <1>8 DEF IInv, Types, Finish, request
  <2>6. QED BY <1>1, <1>3, <1>4, <2>1, <2>4, <2>5, OneSteps
<1>9. CASE ec[op] # "ok" \/ got[op] # b[i]
  <2>1. Finish(op)
    BY <1>9 DEF BufferEnds
  <2>2. QED BY <1>1, <1>8, <1>9, <2>1
<1>10. CASE ec[op] = "ok" /\ got[op] = b[i]
  <2>1. NextBuffer(op)
    BY <1>10 DEF BufferEnds
  <2>2. CASE i = Len(b)
    BY <1>8, <1>10, <2>1, <2>2 DEF NextBuffer
  <2>3. CASE i # Len(b)
    <3>1. /\ cur' = [cur EXCEPT ![op] = @ + 1] /\ got' = [got EXCEPT ![op] = 0]
          /\ last' = [last EXCEPT ![op] = "none"] /\ UNCHANGED phase
      BY <2>1, <2>3 DEF NextBuffer
    <3>2. /\ phase'[op] = "moving" /\ cur'[op] = i + 1 /\ got'[op] = 0
          /\ last'[op] = "none"
          /\ \A o \in Ops : o # op => phase'[o] = phase[o] /\ cur'[o] = cur[o]
                                    /\ got'[o] = got[o] /\ last'[o] = last[o]
      BY <1>1, <3>1 DEF IInv, Types
    <3>3. i + 1 \in 1..Len(b) /\ b[i + 1] \in Nat
      <4>1. i + 1 \in 1..Len(b)
        BY <1>2, <2>3
      <4>2. QED BY <1>2, <4>1
    <3>4. MovingInv(op)'
      <4>1. n'[op] = Before(b, i + 1) /\ Len(log[op]) = n'[op] + 0
        BY <1>2, <1>3, <1>5, <1>10
      <4>2. QED BY <1>2, <1>3, <1>10, <3>2, <3>3, <4>1 DEF MovingInv
    <3>5. RequestInv(op)' /\ CompletedInv(op)' /\ Reports(op)'
      BY <3>2 DEF RequestInv, CompletedInv, Reports
    <3>6. OpInv(op)'
      BY <1>6, <3>4, <3>5 DEF OpInv
    <3>7. Types'
      BY <1>1, <1>7, <3>1 DEF IInv, Types, request
    <3>8. QED BY <1>1, <1>3, <1>4, <3>2, <3>6, <3>7, OneSteps
  <2>4. QED BY <2>2, <2>3
<1>11. QED BY <1>9, <1>10

-----------------------------------------------------------------------------
(***************************************************************************)
(* The theorems.                                                           *)
(***************************************************************************)

LEMMA InvNext == IInv /\ [Next]_vars => IInv'
<1> SUFFICES ASSUME IInv, [Next]_vars PROVE IInv'
  OBVIOUS
<1>1. ASSUME NEW op \in Ops,
             \/ AsyncSome(op) \/ AsyncPoll(op) \/ AsyncSomeAt(op) \/ AsyncFlush(op)
             \/ InitiatePollRemove(op)
      PROVE  IInv'
  BY <1>1, InitiatingKeeps
<1>2. ASSUME NEW op \in Ops,
             \/ PollCompletes(op) \/ RemoveCompletes(op) \/ FlushCompletes(op)
             \/ VectorCompletes(op)
      PROVE  IInv'
  BY <1>2, PollCompletesKeeps, RemoveCompletesKeeps, FlushCompletesKeeps,
     VectorCompletesKeeps
<1>3. ASSUME NEW op \in Ops, Posted(op) \/ Complete(op) \/ Attempt(op)
      PROVE  IInv'
  BY <1>3, PostedKeeps, CompleteKeeps, AttemptKeeps
<1>4. ASSUME NEW op \in Ops, Run(op) PROVE IInv'
  BY <1>4, ReadCallKeeps, WriteCallKeeps, BufferEndsKeeps DEF Run
<1>5. CASE Peer
  BY <1>5, PeerKeeps
<1>6. CASE UNCHANGED vars
  <2>1. Types' /\ FileTypes'
    BY <1>6 DEF IInv, Types, FileTypes, vars, request, attempt, file
  <2>2. \A op \in Ops : Same(op)
    BY <1>6 DEF Same, vars, request, attempt
  <2>3. QED BY <2>1, <2>2, Others DEF IInv
<1>7. QED BY <1>1, <1>2, <1>3, <1>4, <1>5, <1>6 DEF Next

LEMMA InvAlways == Spec => []IInv
BY InvInit, InvNext, PTL DEF Spec

(* Every variable stays in its domain; that of the log is the places of    *)
(* the operation's own buffers, whatever the file and the peer do.         *)
THEOREM TypeCorrect == Spec => []TypeOK
<1>1. IInv => TypeOK
  <2> SUFFICES ASSUME IInv PROVE TypeOK
    OBVIOUS
  <2>1. \A op \in Ops : \A p \in DOMAIN log[op] : log[op][p] \in Places(bufs[op])
    <3>1. \A op \in Ops : log[op] \in Seq(Places(bufs[op]))
      BY DEF IInv, OpInv, InPlace
    <3>2. \A S : \A s \in Seq(S) : \A p \in DOMAIN s : s[p] \in S
      OBVIOUS
    <3>3. QED BY <3>1, <3>2
  <2>2. QED BY <2>1 DEF IInv, Types, FileTypes, TypeOK
<1>2. QED BY <1>1, InvAlways, PTL

(* A buffer sequence of any shape is filled, or emptied, from its start,   *)
(* without a gap and without a byte twice: by the calls of asio::read and  *)
(* asio::write, one after another and between those of other operations,   *)
(* and by the one vectored call of async_file.                             *)
THEOREM BuffersAlwaysInOrder == Spec => []BuffersInOrder
<1>1. IInv => BuffersInOrder
  <2> SUFFICES ASSUME IInv, NEW op \in Ops PROVE IsPrefix(log[op], InOrder(bufs[op]))
    BY DEF BuffersInOrder
  <2>1. InPlace(log[op], bufs[op])
    BY DEF IInv, OpInv
  <2>2. QED BY <2>1, ShapesAreSequences, InPlacePrefix
<1>2. QED BY <1>1, InvAlways, PTL

(* The handler is told of the bytes that were moved, of an error exactly   *)
(* if there was one, and, where the sequence is not done, that the file    *)
(* had nothing to give or no room: at the boundaries of buffers, of empty  *)
(* buffers and of sequences of any length.                                 *)
THEOREM ReportsAlwaysTruthful == Spec => []ReportsTruthfully
<1>1. IInv => ReportsTruthfully
  <2>1. IInv => \A op \in Ops : Reports(op)
    BY DEF IInv, OpInv
  <2>2. QED BY <2>1 DEF Reports, ReportsTruthfully
<1>2. QED BY <1>1, InvAlways, PTL
====
