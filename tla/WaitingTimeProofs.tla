------------------------- MODULE WaitingTimeProofs -------------------------
(***************************************************************************)
(* Proofs about module WaitingTime, for any finite sets of bookings and    *)
(* counters, any number of customers, requests and lanes, and any duration *)
(* of the service.                                                         *)
(*                                                                         *)
(* Laying customers on counters is a recursion over their number, and the  *)
(* sum of what is left to serve one over a set.  Both are unfolded here by *)
(* the least number principle: a function that satisfies the recursive     *)
(* equation is given, and two that satisfy it do not differ at a least     *)
(* argument.  What the laying means is then counted: as services begun,    *)
(* and as units of time worked.                                            *)
(***************************************************************************)
EXTENDS WaitingTime, QueueLifecycleProofs, WellFoundedInduction

-----------------------------------------------------------------------------
(* Numbers.                                                                *)

(* Induction over the numbers is by their well-foundedness: a set of       *)
(* numbers that is not empty has a least one.                              *)
LEMMA LeastNumber ==
  ASSUME NEW T \in SUBSET Nat, T # {}
  PROVE  \E x \in T : \A y \in T : x <= y
<1> DEFINE R == OpToRel(<, Nat)
<1>1. IsWellFoundedOn(R, Nat)
  BY NatLessThanWellFounded, Zenon
<1>2. \A x, y \in Nat : y < x => <<y, x>> \in R
  BY DEF OpToRel
<1> HIDE DEF R
<1>3. PICK x \in T : \A y \in T : ~ (<<y, x>> \in R)
  BY <1>1, WFMin
<1>4. \A y \in T : ~(y < x)
  BY <1>2, <1>3
<1> QED
  BY <1>4

(* A set of numbers that holds 0, and the successor of each, is all.       *)
LEMMA NatSetInduction ==
  ASSUME NEW S \in SUBSET Nat, 0 \in S, \A n \in S : n + 1 \in S
  PROVE  \A n \in Nat : n \in S
<1> DEFINE T == Nat \ S
<1> SUFFICES ASSUME T # {} PROVE FALSE
  OBVIOUS
<1>1. PICK n \in T : \A m \in T : n <= m
  BY LeastNumber
<1>2. n \in Nat /\ n # 0
  OBVIOUS
<1>3. n - 1 \in Nat /\ n - 1 \notin T /\ n = (n - 1) + 1
  BY <1>1, <1>2
<1> QED
  BY <1>1, <1>3

(* The time that k services take, one after the other.                     *)
Span(k) == k * AverageServiceTime

(* It grows by one service for each.                                       *)
LEMMA Multiples ==
  /\ AverageServiceTime \in Nat /\ AverageServiceTime > 0
  /\ \A k \in Nat : Span(k) \in Nat /\ Span(k + 1) = Span(k) + AverageServiceTime
  /\ Span(0) = 0
  /\ \A j, k \in Nat : j < k => Span(j) + AverageServiceTime <= Span(k)
<1> DEFINE d == AverageServiceTime
<1>0. d \in Nat /\ d > 0
  BY WaitingTimeAssumption
<1> HIDE DEF d
<1>1. \A k \in Nat : k * d \in Nat /\ (k + 1) * d = k * d + d
  BY <1>0
<1>2. ASSUME NEW j \in Nat, NEW k \in Nat, j < k
      PROVE  j * d + d <= k * d
  <2>1. k - (j + 1) \in Nat
    BY <1>2
  <2>2. (k - (j + 1)) * d \in Nat
    BY <2>1, <1>1
  <2>3. k * d = (j * d + d) + (k - (j + 1)) * d
    BY <1>0, <1>2
  <2>4. j * d \in Nat /\ k * d \in Nat
    BY <1>1
  <2> QED
    BY <1>0, <2>2, <2>3, <2>4
<1>3. 0 * d = 0
  BY <1>0
<1> QED
  BY <1>0, <1>1, <1>2, <1>3 DEF Span, d

-----------------------------------------------------------------------------
(* Laying customers on the counters of a lane.                             *)

(* Some counter is free first.                                             *)
LEMMA SoonestIsLeast ==
  ASSUME NEW C, C # {}, NEW f \in [C -> Nat]
  PROVE  Soonest(f) \in C /\ \A d \in C : f[Soonest(f)] <= f[d]
<1> DEFINE T == {f[c] : c \in C}
<1>1. T \in SUBSET Nat /\ T # {}
  OBVIOUS
<1>2. PICK x \in T : \A y \in T : x <= y
  <2> HIDE DEF T
  <2> QED
    BY <1>1, LeastNumber
<1>3. \E c \in DOMAIN f : \A d \in DOMAIN f : f[c] <= f[d]
  BY <1>2
<1> QED
  BY <1>3 DEF Soonest

(* One more customer, on the counter that is free first; and the equation  *)
(* that the function inside Laid satisfies.                                *)
LayOne(f) == [f EXCEPT ![Soonest(f)] = @ + AverageServiceTime]

LaysTo(lay, free, n) ==
  lay = [k \in 0..n |-> IF k = 0 THEN free ELSE LayOne(lay[k - 1])]

(* The equation has a solution, up to any number of customers.             *)
LEMMA LayingExists ==
  ASSUME NEW free
  PROVE  \A n \in Nat : \E lay : LaysTo(lay, free, n)
<1> DEFINE S == {n \in Nat : \E lay : LaysTo(lay, free, n)}
<1>1. 0 \in S
  <2>1. LaysTo([k \in 0..0 |-> free], free, 0)
    BY DEF LaysTo
  <2> QED
    BY <2>1
<1>2. ASSUME NEW n \in S
      PROVE  n + 1 \in S
  <2>1. PICK lay : LaysTo(lay, free, n)
    OBVIOUS
  <2> DEFINE more == [k \in 0..(n + 1) |-> IF k <= n THEN lay[k] ELSE LayOne(lay[n])]
  <2>2. \A k \in 0..n : lay[k] = IF k = 0 THEN free ELSE LayOne(lay[k - 1])
    BY <2>1 DEF LaysTo
  <2>3. ASSUME NEW k \in 0..(n + 1)
        PROVE  more[k] = IF k = 0 THEN free ELSE LayOne(more[k - 1])
    <3>1. CASE k = 0
      BY <3>1, <2>2
    <3>2. CASE k # 0 /\ k <= n
      <4>1. k \in 0..n /\ k - 1 \in 0..(n + 1) /\ k - 1 <= n
        BY <3>2
      <4> QED
        BY <3>2, <4>1, <2>2
    <3>3. CASE k = n + 1
      <4>1. k - 1 = n /\ n \in 0..(n + 1) /\ ~(k <= n) /\ k # 0
        BY <3>3
      <4> QED
        BY <4>1
    <3> QED
      BY <3>1, <3>2, <3>3
  <2>4. LaysTo(more, free, n + 1)
    BY <2>3 DEF LaysTo
  <2> QED
    BY <2>4
<1> HIDE DEF S
<1>3. S \in SUBSET Nat
  BY DEF S
<1>4. \A n \in Nat : n \in S
  BY <1>1, <1>2, <1>3, NatSetInduction
<1> QED
  BY <1>4 DEF S

(* So Laid is the last value of a solution.                                *)
LEMMA LaidIsLast ==
  ASSUME NEW free, NEW n \in Nat
  PROVE  \E lay : LaysTo(lay, free, n) /\ Laid(free, n) = lay[n]
<1> DEFINE lay == CHOOSE g : LaysTo(g, free, n)
<1>1. Laid(free, n) = lay[n]
  BY DEF Laid, LaysTo, LayOne
<1> HIDE DEF lay
<1>2. LaysTo(lay, free, n)
  BY LayingExists DEF lay
<1> QED
  BY <1>1, <1>2

(* When each counter of a lane is free, from now.                          *)
IsLane(free) ==
  /\ IsFiniteSet(DOMAIN free) /\ DOMAIN free # {}
  /\ free \in [DOMAIN free -> 0..AverageServiceTime]

(* The services that the first ones laid on the counters begin: the i-th   *)
(* service of a counter, counted from 0, begins before the counter is free.*)
Begun(free, f) ==
  {p \in (DOMAIN free) \X (0..Cardinality(Bookings)) : free[p[1]] + Span(p[2]) < f[p[1]]}

(* Time worked, in ticks, until each counter is free.                      *)
Units(f) == {p \in (DOMAIN f) \X (Nat \ {0}) : p[2] <= f[p[1]]}

(* What is true once k customers have been laid: each counter is free when *)
(* it was, plus whole services; k services were begun, none of them later  *)
(* than any counter is free now; and k services were added to the work.    *)
FairlyLaid(free, k, f) ==
  /\ f \in [DOMAIN free -> Nat]
  /\ \A c \in DOMAIN free : \E j \in 0..k : f[c] = free[c] + Span(j)
  /\ Cardinality(Begun(free, f)) = k
  /\ \A p \in Begun(free, f), d \in DOMAIN free : free[p[1]] + Span(p[2]) <= f[d]
  /\ IsFiniteSet(Units(f)) /\ Cardinality(Units(f)) = Cardinality(Units(free)) + Span(k)

(* Finitely many services are begun.                                       *)
LEMMA BegunFinite ==
  ASSUME IsFiniteSet(Bookings), NEW free, IsLane(free), NEW f
  PROVE  IsFiniteSet(Begun(free, f)) /\ Cardinality(Begun(free, f)) \in Nat
<1>1. Cardinality(Bookings) \in Nat
  BY FS_CardinalityType
<1>2. IsFiniteSet(0..Cardinality(Bookings))
  BY <1>1, FS_Interval
<1>3. IsFiniteSet((DOMAIN free) \X (0..Cardinality(Bookings)))
  BY <1>2, FS_Product DEF IsLane
<1> QED
  BY <1>3, FS_Subset, FS_CardinalityType DEF Begun

(* A block of time at one counter, counted in ticks.                       *)
LEMMA BlockCounted ==
  ASSUME NEW c, NEW i \in Nat, NEW j \in Nat, i <= j
  PROVE  IsFiniteSet({c} \X ((i + 1)..j)) /\ Cardinality({c} \X ((i + 1)..j)) = j - i
<1>1. IsFiniteSet((i + 1)..j) /\ Cardinality((i + 1)..j) = j - i
  <2>1. i + 1 \in Int /\ j \in Int
    OBVIOUS
  <2>2. /\ IsFiniteSet((i + 1)..j)
        /\ Cardinality((i + 1)..j) = IF i + 1 > j THEN 0 ELSE j - (i + 1) + 1
    BY <2>1, FS_Interval
  <2> QED
    BY <2>2
<1>2. IsFiniteSet({c}) /\ Cardinality({c}) = 1
  BY FS_Singleton
<1>3. /\ IsFiniteSet({c} \X ((i + 1)..j))
      /\ Cardinality({c} \X ((i + 1)..j)) = 1 * (j - i)
  BY <1>1, <1>2, FS_Product
<1>4. 1 * (j - i) = j - i
  OBVIOUS
<1> QED
  BY <1>3, <1>4

(* It is true when nobody has been laid,                                   *)
LEMMA NothingLaid ==
  ASSUME IsFiniteSet(Bookings), NEW free, IsLane(free)
  PROVE  FairlyLaid(free, 0, free)
<1>1. free \in [DOMAIN free -> Nat] /\ \A c \in DOMAIN free : free[c] <= AverageServiceTime
  BY Multiples DEF IsLane
<1>2. \A c \in DOMAIN free : \E j \in 0..0 : free[c] = free[c] + Span(j)
  BY <1>1, Multiples
<1>3. Begun(free, free) = {}
  BY <1>1, Multiples DEF Begun
<1>4. Cardinality(Begun(free, free)) = 0
  BY <1>3, FS_EmptySet
<1>5. IsFiniteSet(Units(free))
  <2>1. Units(free) \subseteq (DOMAIN free) \X (1..AverageServiceTime)
    BY <1>1, Multiples DEF Units
  <2>2. IsFiniteSet(1..AverageServiceTime)
    BY Multiples, FS_Interval
  <2> QED
    BY <2>1, <2>2, FS_Product, FS_Subset DEF IsLane
<1>6. Cardinality(Units(free)) = Cardinality(Units(free)) + Span(0)
  BY <1>5, FS_CardinalityType, Multiples
<1> QED
  BY <1>1, <1>2, <1>3, <1>4, <1>5, <1>6 DEF FairlyLaid

(* it stays true when one more is: the service that begins is the next one *)
(* of the counter that was free first,                                     *)
LEMMA OneMoreLaid ==
  ASSUME IsFiniteSet(Bookings), NEW free, IsLane(free), NEW k \in Nat, k < Cardinality(Bookings),
         NEW f, FairlyLaid(free, k, f)
  PROVE  FairlyLaid(free, k + 1, LayOne(f))
<1> DEFINE C == DOMAIN free
           D == AverageServiceTime
           first == Soonest(f)
           g == LayOne(f)
<1>1. C # {} /\ f \in [C -> Nat] /\ free \in [C -> Nat] /\ D \in Nat /\ D > 0
  BY Multiples DEF FairlyLaid, IsLane
<1>2. first \in C /\ \A d \in C : f[first] <= f[d]
  BY <1>1, SoonestIsLeast
<1> HIDE DEF first
<1>3. /\ g \in [C -> Nat] /\ g[first] = f[first] + D
      /\ \A d \in C \ {first} : g[d] = f[d]
      /\ \A d \in C : f[d] <= g[d]
  BY <1>1, <1>2 DEF LayOne, first
<1>4. PICK j \in 0..k : f[first] = free[first] + Span(j)
  BY <1>2 DEF FairlyLaid
<1>5. j \in Nat /\ j \in 0..Cardinality(Bookings) /\ j + 1 \in 0..(k + 1)
      /\ Span(j) \in Nat /\ Span(j + 1) = Span(j) + D
  <2>1. Cardinality(Bookings) \in Nat
    BY FS_CardinalityType
  <2>2. j \in Nat /\ j \in 0..Cardinality(Bookings) /\ j + 1 \in 0..(k + 1)
    BY <2>1
  <2> QED
    BY <2>2, Multiples
<1> HIDE DEF g, D
<1>6. \A c \in C : \E i \in 0..(k + 1) : g[c] = free[c] + Span(i)
  <2>1. g[first] = free[first] + Span(j + 1)
    BY <1>1, <1>2, <1>3, <1>4, <1>5
  <2>2. ASSUME NEW c \in C \ {first}
        PROVE  \E i \in 0..(k + 1) : g[c] = free[c] + Span(i)
    BY <1>3 DEF FairlyLaid
  <2> QED
    BY <2>1, <2>2, <1>5
<1>7. Begun(free, g) = Begun(free, f) \cup {<<first, j>>} /\ <<first, j>> \notin Begun(free, f)
  <2>1. ASSUME NEW p \in C \X (0..Cardinality(Bookings)), p[1] # first
        PROVE  p \in Begun(free, g) <=> p \in Begun(free, f)
    BY <2>1, <1>3 DEF Begun
  <2>2. ASSUME NEW i \in 0..Cardinality(Bookings)
        PROVE  /\ <<first, i>> \in Begun(free, g) <=> i <= j
               /\ <<first, i>> \in Begun(free, f) <=> i < j
    <3>1. i \in Nat /\ Span(i) \in Nat
      BY Multiples
    <3>2. <<first, i>> \in C \X (0..Cardinality(Bookings))
      BY <1>2
    <3>3. /\ <<first, i>> \in Begun(free, g) <=> free[first] + Span(i) < g[first]
          /\ <<first, i>> \in Begun(free, f) <=> free[first] + Span(i) < f[first]
      BY <3>2 DEF Begun
    <3>4. free[first] \in Nat
      BY <1>1, <1>2
    <3>5. /\ <<first, i>> \in Begun(free, g) <=> Span(i) < Span(j + 1)
          /\ <<first, i>> \in Begun(free, f) <=> Span(i) < Span(j)
      BY <3>1, <3>3, <3>4, <1>3, <1>4, <1>5, <1>1
    <3>6. /\ i < j => Span(i) + D <= Span(j)
          /\ j < i => Span(j) + D <= Span(i)
      BY <3>1, <1>5, Multiples DEF D
    <3> QED
      BY <3>1, <3>5, <3>6, <1>1, <1>5
  <2>3. <<first, j>> \in C \X (0..Cardinality(Bookings))
    BY <1>2, <1>5
  <2>4. ASSUME NEW p \in C \X (0..Cardinality(Bookings)), p[1] = first
        PROVE  p \in Begun(free, g) <=> p \in Begun(free, f) \cup {<<first, j>>}
    <3>1. p = <<first, p[2]>> /\ p[2] \in 0..Cardinality(Bookings)
      BY <2>4
    <3>2. p = <<first, j>> <=> p[2] = j
      BY <3>1
    <3>3. p[2] \in Nat
      BY <3>1
    <3>4. p[2] <= j <=> p[2] < j \/ p[2] = j
      BY <3>3, <1>5
    <3> QED
      BY <3>1, <3>2, <3>4, <2>2
  <2>5. <<first, j>> \notin Begun(free, f)
    BY <2>2, <1>5
  <2>6. Begun(free, f) \subseteq C \X (0..Cardinality(Bookings))
        /\ Begun(free, g) \subseteq C \X (0..Cardinality(Bookings))
    BY DEF Begun
  <2>7. ASSUME NEW p
        PROVE  p \in Begun(free, g) <=> p \in Begun(free, f) \cup {<<first, j>>}
    <3>1. CASE p \in C \X (0..Cardinality(Bookings))
      BY <3>1, <2>1, <2>4, Zenon
    <3>2. CASE p \notin C \X (0..Cardinality(Bookings))
      BY <3>2, <2>3, <2>6
    <3> QED
      BY <3>1, <3>2
  <2> QED
    BY <2>5, <2>7
<1>8. Cardinality(Begun(free, g)) = k + 1
  <2>1. IsFiniteSet(Begun(free, f)) /\ Cardinality(Begun(free, f)) = k
    BY BegunFinite DEF FairlyLaid
  <2> QED
    BY <1>7, <2>1, FS_AddElement
<1>9. ASSUME NEW p \in Begun(free, g), NEW d \in C
      PROVE  free[p[1]] + Span(p[2]) <= g[d]
  <2>1. f[d] <= g[d] /\ f[d] \in Nat /\ g[d] \in Nat
    BY <1>1, <1>3
  <2>2. CASE p \in Begun(free, f)
    <3>1. free[p[1]] + Span(p[2]) <= f[d]
      BY <2>2 DEF FairlyLaid
    <3>2. free[p[1]] \in Nat /\ Span(p[2]) \in Nat
      BY <2>2, <1>1, Multiples DEF Begun
    <3> QED
      BY <2>1, <3>1, <3>2
  <2>3. CASE p = <<first, j>>
    <3>1. free[p[1]] + Span(p[2]) = f[first] /\ f[first] <= f[d] /\ f[first] \in Nat
      BY <2>3, <1>1, <1>2, <1>4
    <3> QED
      BY <2>1, <3>1
  <2> QED
    BY <1>7, <2>2, <2>3
<1>10. /\ IsFiniteSet(Units(g))
       /\ Cardinality(Units(g)) = Cardinality(Units(free)) + Span(k + 1)
  <2> DEFINE block == {first} \X ((f[first] + 1)..(f[first] + D))
  <2>1. f[first] \in Nat
    BY <1>1, <1>2
  <2>2. IsFiniteSet(block) /\ Cardinality(block) = D
    <3> DEFINE top == f[first] + D
    <3>1. top \in Nat /\ f[first] <= top /\ top - f[first] = D
      BY <2>1, <1>1
    <3> HIDE DEF top
    <3>2. /\ IsFiniteSet({first} \X ((f[first] + 1)..top))
          /\ Cardinality({first} \X ((f[first] + 1)..top)) = D
      BY <2>1, <3>1, BlockCounted
    <3> QED
      BY <3>2 DEF top
  <2>3. Units(g) = Units(f) \cup block
    BY <1>1, <1>2, <1>3, <2>1 DEF Units
  <2>4. Units(f) \cap block = {}
    BY <1>1, <1>2, <2>1 DEF Units
  <2>5. /\ IsFiniteSet(Units(f)) /\ Cardinality(Units(f)) \in Nat
        /\ Cardinality(Units(f)) = Cardinality(Units(free)) + Span(k)
    BY FS_CardinalityType DEF FairlyLaid
  <2> HIDE DEF block
  <2>6. Cardinality(Units(f) \cap block) = 0
    BY <2>4, FS_EmptySet
  <2>7. IsFiniteSet(Units(g)) /\ Cardinality(Units(g)) = Cardinality(Units(f)) + D
    <3>1. /\ IsFiniteSet(Units(f) \cup block)
          /\ Cardinality(Units(f) \cup block)
               = Cardinality(Units(f)) + Cardinality(block) - Cardinality(Units(f) \cap block)
      BY <2>2, <2>5, FS_Union
    <3> QED
      BY <2>2, <2>3, <2>5, <2>6, <3>1, <1>1
  <2>8. IsFiniteSet(Units(free)) /\ Cardinality(Units(free)) \in Nat
    BY NothingLaid, FS_CardinalityType DEF FairlyLaid
  <2>9. Span(k) \in Nat /\ Span(k + 1) = Span(k) + D
    BY Multiples DEF D
  <2> QED
    BY <2>5, <2>7, <2>8, <2>9, <1>1
<1> QED
  BY <1>3, <1>6, <1>8, <1>9, <1>10 DEF FairlyLaid, g

(* and so it is true of Laid.                                              *)
LEMMA LaidFairly ==
  ASSUME IsFiniteSet(Bookings), NEW free, IsLane(free), NEW n \in 0..Cardinality(Bookings)
  PROVE  FairlyLaid(free, n, Laid(free, n))
<1>1. Cardinality(Bookings) \in Nat /\ n \in Nat
  BY FS_CardinalityType
<1>2. PICK lay : LaysTo(lay, free, n) /\ Laid(free, n) = lay[n]
  BY <1>1, LaidIsLast
<1>3. \A k \in 0..n : lay[k] = IF k = 0 THEN free ELSE LayOne(lay[k - 1])
  BY <1>2 DEF LaysTo
<1> DEFINE S == {k \in Nat : k <= n => FairlyLaid(free, k, lay[k])}
<1>4. 0 \in S
  <2>1. lay[0] = free
    BY <1>1, <1>3
  <2> QED
    BY <2>1, NothingLaid
<1>5. ASSUME NEW k \in S
      PROVE  k + 1 \in S
  <2> SUFFICES ASSUME k + 1 <= n
               PROVE  FairlyLaid(free, k + 1, lay[k + 1])
    OBVIOUS
  <2>1. k \in Nat /\ k <= n /\ k < Cardinality(Bookings) /\ k + 1 \in 0..n /\ (k + 1) - 1 = k
        /\ k + 1 # 0
    BY <1>1
  <2>2. lay[k + 1] = LayOne(lay[k])
    BY <1>3, <2>1
  <2>3. FairlyLaid(free, k, lay[k])
    BY <2>1
  <2> QED
    BY <2>1, <2>2, <2>3, OneMoreLaid
<1> HIDE DEF S
<1>6. S \in SUBSET Nat
  BY DEF S
<1>7. n \in S
  BY <1>1, <1>4, <1>5, <1>6, NatSetInduction
<1> QED
  BY <1>1, <1>2, <1>7 DEF S

-----------------------------------------------------------------------------
(* What the delay says of a lane.                                          *)

(* The delay that CounterDelay reads off the counters.                     *)
Delay(free, n) == Laid(free, n)[Soonest(Laid(free, n))]

(* CanBegin is finite, and speaks of whole services.                       *)
LEMMA CanBeginCounted ==
  ASSUME IsFiniteSet(Bookings), NEW free, IsLane(free), NEW t
  PROVE  /\ IsFiniteSet(CanBegin(free, t)) /\ Cardinality(CanBegin(free, t)) \in Nat
         /\ CanBegin(free, t) =
              {p \in (DOMAIN free) \X (0..Cardinality(Bookings)) : free[p[1]] + Span(p[2]) <= t}
<1>1. Cardinality(Bookings) \in Nat
  BY FS_CardinalityType
<1>2. IsFiniteSet(0..Cardinality(Bookings))
  BY <1>1, FS_Interval
<1>3. IsFiniteSet((DOMAIN free) \X (0..Cardinality(Bookings)))
  BY <1>2, FS_Product DEF IsLane
<1>4. CanBegin(free, t) \subseteq (DOMAIN free) \X (0..Cardinality(Bookings))
  BY DEF CanBegin
<1>5. CanBegin(free, t) =
        {p \in (DOMAIN free) \X (0..Cardinality(Bookings)) : free[p[1]] + Span(p[2]) <= t}
  BY DEF CanBegin, Span
<1> QED
  BY <1>3, <1>4, <1>5, FS_Subset, FS_CardinalityType

(* The counters of a lane, one by one.                                     *)
LEMMA LaneFacts ==
  ASSUME NEW free, IsLane(free)
  PROVE  /\ DOMAIN free # {}
         /\ \A c \in DOMAIN free : free[c] \in Nat /\ free[c] <= AverageServiceTime
BY Multiples DEF IsLane

(* By the delay, and no earlier, the counters can have begun one more      *)
(* service than there are people ahead: those that were laid, and the next *)
(* one of the counter that is free first.                                  *)
LEMMA EarliestStart ==
  ASSUME IsFiniteSet(Bookings), NEW free, IsLane(free), NEW n \in 0..Cardinality(Bookings)
  PROVE  /\ Delay(free, n) \in Nat
         /\ Cardinality(CanBegin(free, Delay(free, n))) > n
         /\ \A u \in Int : u < Delay(free, n) => Cardinality(CanBegin(free, u)) <= n
<1> DEFINE f == Laid(free, n)
           C == DOMAIN free
           first == Soonest(f)
           t == f[first]
<1>1. FairlyLaid(free, n, f)
  BY LaidFairly
<1> HIDE DEF f
<1>2. f \in [C -> Nat] /\ C # {}
  BY <1>1, LaneFacts DEF FairlyLaid
<1>3. first \in C /\ \A d \in C : t <= f[d]
  BY <1>2, SoonestIsLeast
<1>4. PICK j \in 0..n : t = free[first] + Span(j)
  BY <1>1, <1>3 DEF FairlyLaid
<1> HIDE DEF first
<1>5. t \in Nat
  BY <1>2, <1>3
<1>6. Cardinality(Bookings) \in Nat
  BY FS_CardinalityType
<1>7. <<first, j>> \in C \X (0..Cardinality(Bookings))
  BY <1>3, <1>6
<1>8. IsFiniteSet(Begun(free, f)) /\ Cardinality(Begun(free, f)) = n
  BY <1>1, BegunFinite DEF FairlyLaid
<1>9. Cardinality(CanBegin(free, t)) > n
  <2>1. <<first, j>> \notin Begun(free, f)
    BY <1>4, <1>5 DEF Begun
  <2>2. Begun(free, f) \cup {<<first, j>>} \subseteq CanBegin(free, t)
    <3>1. <<first, j>> \in CanBegin(free, t)
      BY <1>4, <1>5, <1>7, CanBeginCounted
    <3>2. ASSUME NEW p \in Begun(free, f)
          PROVE  p \in CanBegin(free, t)
      <4>1. free[p[1]] + Span(p[2]) <= t
        BY <1>1, <1>3 DEF FairlyLaid
      <4>2. p \in C \X (0..Cardinality(Bookings))
        BY DEF Begun
      <4> QED
        BY <4>1, <4>2, CanBeginCounted
    <3> QED
      BY <3>1, <3>2
  <2>3. Cardinality(Begun(free, f) \cup {<<first, j>>}) = n + 1
    BY <1>8, <2>1, FS_AddElement
  <2>4. /\ Cardinality(Begun(free, f) \cup {<<first, j>>}) <= Cardinality(CanBegin(free, t))
        /\ Cardinality(CanBegin(free, t)) \in Nat
    BY <2>2, CanBeginCounted, FS_Subset
  <2> QED
    BY <2>3, <2>4, <1>6
<1>10. ASSUME NEW u \in Int, u < t
       PROVE  Cardinality(CanBegin(free, u)) <= n
  <2>1. ASSUME NEW p \in CanBegin(free, u)
        PROVE  p \in Begun(free, f)
    <3>1. p \in C \X (0..Cardinality(Bookings)) /\ free[p[1]] + Span(p[2]) <= u
      BY CanBeginCounted
    <3>2. p[1] \in C /\ p[2] \in Nat
      BY <3>1
    <3>3. /\ free[p[1]] \in Nat /\ Span(p[2]) \in Nat /\ f[p[1]] \in Nat
          /\ t <= f[p[1]]
      BY <1>2, <1>3, <3>2, LaneFacts, Multiples
    <3>4. free[p[1]] + Span(p[2]) < f[p[1]]
      BY <3>1, <3>3, <1>5, <1>10
    <3> QED
      BY <3>1, <3>4 DEF Begun
  <2> QED
    BY <2>1, <1>8, FS_Subset
<1> QED
  BY <1>5, <1>9, <1>10 DEF Delay, f, first

(* So a moment by which they can is not before the delay,                  *)
LEMMA DelayBound ==
  ASSUME IsFiniteSet(Bookings), NEW free, IsLane(free), NEW n \in 0..Cardinality(Bookings),
         NEW t \in Int, Cardinality(CanBegin(free, t)) > n
  PROVE  Delay(free, n) <= t
<1>1. /\ Delay(free, n) \in Nat /\ Cardinality(CanBegin(free, t)) \in Nat
      /\ t < Delay(free, n) => Cardinality(CanBegin(free, t)) <= n
  BY EarliestStart, CanBeginCounted
<1> QED
  BY <1>1

(* and more people ahead do not shorten it.                                *)
LEMMA DelayGrows ==
  ASSUME IsFiniteSet(Bookings), NEW free, IsLane(free), NEW n \in 0..Cardinality(Bookings),
         NEW m \in 0..n
  PROVE  Delay(free, m) <= Delay(free, n)
<1>1. m \in 0..Cardinality(Bookings) /\ Cardinality(Bookings) \in Nat
  BY FS_CardinalityType
<1>2. /\ Delay(free, n) \in Nat /\ Cardinality(CanBegin(free, Delay(free, n))) \in Nat
      /\ Cardinality(CanBegin(free, Delay(free, n))) > n
  BY EarliestStart, CanBeginCounted
<1>3. Cardinality(CanBegin(free, Delay(free, n))) > m
  BY <1>1, <1>2
<1> QED
  BY <1>1, <1>2, <1>3, DelayBound

(* All counters work until the delay; none works longer than one more      *)
(* service, and the one that is free first does not work at all.           *)
LEMMA WorkCounted ==
  ASSUME IsFiniteSet(Bookings), NEW free, IsLane(free), NEW n \in 0..Cardinality(Bookings)
  PROVE  LET counters == Cardinality(DOMAIN free)
             work == Cardinality(Units(free)) + Span(n)
             occupied == counters * Delay(free, n)
         IN  /\ occupied <= work
             /\ work <= occupied + (counters - 1) * AverageServiceTime
<1> DEFINE f == Laid(free, n)
           C == DOMAIN free
           D == AverageServiceTime
           first == Soonest(f)
           t == f[first]
           m == Cardinality(C)
           work == Cardinality(Units(free)) + Span(n)
<1>1. FairlyLaid(free, n, f)
  BY LaidFairly
<1> HIDE DEF f
<1>2. f \in [C -> Nat] /\ C # {} /\ D \in Nat
  BY <1>1, LaneFacts, Multiples DEF FairlyLaid
<1>3. first \in C /\ \A d \in C : t <= f[d]
  BY <1>2, SoonestIsLeast
<1> HIDE DEF first
<1>4. t \in Nat
  BY <1>2, <1>3
<1>5. IsFiniteSet(C) /\ m \in Nat
  BY FS_CardinalityType DEF IsLane
<1>6. IsFiniteSet(Units(f)) /\ Cardinality(Units(f)) = work /\ work \in Nat
  BY <1>1, FS_CardinalityType DEF FairlyLaid
<1>7. ASSUME NEW d \in C
      PROVE  f[d] <= t + D
  <2>1. PICK j \in 0..n : f[d] = free[d] + Span(j)
    BY <1>1 DEF FairlyLaid
  <2>2. free[d] \in Nat /\ free[d] <= D
    BY LaneFacts
  <2>3. CASE j = 0
    <3>1. Span(j) = 0
      BY <2>3, Multiples
    <3>2. f[d] = free[d]
      BY <2>1, <2>2, <3>1
    <3> QED
      BY <2>2, <3>2, <1>2, <1>4
  <2>4. CASE j # 0
    <3>1. /\ j - 1 \in Nat /\ Span(j - 1) \in Nat
          /\ j - 1 \in 0..Cardinality(Bookings)
          /\ Span(j) = Span(j - 1) + D
      <4>1. j - 1 \in Nat /\ j - 1 \in 0..Cardinality(Bookings) /\ (j - 1) + 1 = j
        BY <2>4, FS_CardinalityType
      <4> QED
        BY <4>1, Multiples
    <3>2. free[d] + Span(j - 1) < f[d]
      BY <2>1, <2>2, <3>1, <1>2, Multiples
    <3>3. <<d, j - 1>> \in Begun(free, f)
      BY <3>1, <3>2 DEF Begun
    <3>4. free[d] + Span(j - 1) <= t
      BY <3>3, <1>1, <1>3 DEF FairlyLaid
    <3> QED
      BY <2>1, <2>2, <3>1, <3>4, <1>2, <1>4
  <2> QED
    BY <2>3, <2>4
<1>8. m * t <= work
  <2>1. IsFiniteSet(1..t) /\ Cardinality(1..t) = t
    <3> HIDE DEF t
    <3> QED
      BY <1>4, FS_Interval
  <2>2. IsFiniteSet(C \X (1..t)) /\ Cardinality(C \X (1..t)) = m * t
    BY <1>5, <2>1, FS_Product
  <2>3. C \X (1..t) \subseteq Units(f)
    BY <1>2, <1>3, <1>4 DEF Units
  <2> QED
    BY <2>2, <2>3, <1>6, FS_Subset
<1>9. work + D <= m * (t + D)
  <2> DEFINE top == t + D
             block == {first} \X ((t + 1)..top)
  <2>1. top \in Nat /\ t <= top /\ top - t = D
    BY <1>2, <1>4
  <2> HIDE DEF top
  <2>2. IsFiniteSet(block) /\ Cardinality(block) = D
    BY <2>1, <1>4, BlockCounted
  <2>3. Units(f) \cap block = {}
    BY <1>2, <1>3, <1>4 DEF Units
  <2>4. Cardinality(Units(f) \cap block) = 0
    BY <2>3, FS_EmptySet
  <2>5. Cardinality(Units(f) \cup block) = work + D
    <3> HIDE DEF block
    <3>1. Cardinality(Units(f) \cup block)
            = Cardinality(Units(f)) + Cardinality(block) - Cardinality(Units(f) \cap block)
      BY <2>2, <1>6, FS_Union
    <3> HIDE DEF work
    <3> QED
      BY <2>2, <2>4, <1>2, <1>6, <3>1
  <2>6. Units(f) \cup block \subseteq C \X (1..top)
    BY <1>2, <1>3, <1>4, <1>7, <2>1 DEF Units, top
  <2>7. IsFiniteSet(1..top) /\ Cardinality(1..top) = top
    BY <2>1, FS_Interval
  <2>8. IsFiniteSet(C \X (1..top)) /\ Cardinality(C \X (1..top)) = m * top
    BY <1>5, <2>7, FS_Product
  <2> HIDE DEF block
  <2>9. Cardinality(Units(f) \cup block) <= Cardinality(C \X (1..top))
    BY <2>6, <2>8, FS_Subset
  <2> QED
    BY <2>5, <2>8, <2>9 DEF top
<1>10. m * (t + D) = m * t + ((m - 1) * D + D)
  BY <1>2, <1>4, <1>5
<1>11. m * t \in Nat /\ (m - 1) * D \in Int
  BY <1>2, <1>4, <1>5
<1>12. Delay(free, n) = t
  BY DEF Delay, f, first
<1> HIDE DEF m, work, t
<1> QED
  BY <1>2, <1>6, <1>8, <1>9, <1>10, <1>11, <1>12 DEF m, work

-----------------------------------------------------------------------------
(* The lanes of the branch.                                                *)

(* Whoever is served was called at a moment that has come.                 *)
TimedInv ==
  /\ LifeInv
  /\ \A b \in Bookings : ticketStatus[b] = "serving" => serviceStartedAt[b] \in 0..now

(* It is inductive: Call Next stamps the present moment, and the clock does*)
(* not go back.                                                            *)
LEMMA TimedStep == TimedInv /\ [Next /\ ServiceClock]_timedVars => TimedInv'
<1> SUFFICES ASSUME TimedInv, [Next /\ ServiceClock]_timedVars
             PROVE  TimedInv'
  OBVIOUS
<1>1. LifeInv /\ [Next]_vars
  BY DEF TimedInv, timedVars
<1>2. LifeInv'
  BY <1>1, TypeStep, AgreementStep DEF LifeInv
<1>3. now \in Nat /\ now' \in Nat /\ now <= now'
  BY <1>1, ClockGoesOn, TimesAreNaturals DEF LifeInv, TypeOK
<1>4. ASSUME NEW b \in Bookings, ticketStatus'[b] = "serving"
      PROVE  serviceStartedAt'[b] \in 0..now'
  <2>1. CASE UNCHANGED timedVars
    BY <1>4, <2>1 DEF TimedInv, timedVars, vars, ticketVars
  <2>2. CASE ServiceClock
    <3>1. serviceStartedAt'[b] = IF ticketStatus[b] # "serving" THEN now ELSE serviceStartedAt[b]
      BY <1>4, <2>2 DEF ServiceClock
    <3>2. ticketStatus[b] = "serving" => serviceStartedAt[b] \in 0..now
      BY DEF TimedInv
    <3> QED
      BY <1>3, <3>1, <3>2
  <2> QED
    BY <2>1, <2>2
<1> QED
  BY <1>2, <1>4 DEF TimedInv

(* It holds in every state.                                                *)
LEMMA TimedInvariant == TimedSpec => []TimedInv
<1>1. TimedInit => TimedInv
  BY LifeInit DEF TimedInit, Init, BookingsInit, TimedInv
<1> QED
  BY <1>1, TimedStep, PTL DEF TimedSpec

(* Between nothing and a whole service is left of one that is under way.   *)
LEMMA RemainingBounds ==
  ASSUME TimedInv, NEW x \in Bookings, ticketStatus[x] = "serving"
  PROVE  Remaining(x) \in 0..AverageServiceTime
<1>1. serviceStartedAt[x] \in 0..now /\ now \in Nat
  BY TimesAreNaturals DEF TimedInv, LifeInv, TypeOK
<1>2. now - serviceStartedAt[x] \in Nat
  BY <1>1
<1> QED
  BY <1>2, WaitingTimeAssumption DEF Remaining, Larger

(* Nobody else is served at the counter of a customer who is.              *)
LEMMA ServedAlone ==
  ASSUME TimedInv, NEW b \in Bookings, NEW x \in ServingAhead(b)
  PROVE  /\ x \in Bookings /\ ticketStatus[x] = "serving"
         /\ assignedCounter[x] \in Counters /\ assignedCounter[x] \in UsableCounters(b)
         /\ (CHOOSE y \in ServingAhead(b) : assignedCounter[y] = assignedCounter[x]) = x
<1>1. x \in Bookings /\ ticketStatus[x] = "serving"
  BY DEF ServingAhead
<1>2. assignedCounter[x] \in Counters
  BY <1>1 DEF TimedInv, LifeInv, TypeOK, StatusAgreement
<1>3. \A y \in ServingAhead(b) : assignedCounter[y] = assignedCounter[x] => y = x
  BY <1>1 DEF ServingAhead, TimedInv, LifeInv, OneServingPerCounter
<1> QED
  BY <1>1, <1>2, <1>3 DEF UsableCounters

(* FreeIn, without the choice of a customer: a counter is free when the    *)
(* one it serves in the lane is done, or at once.                          *)
LEMMA FreeInOf ==
  ASSUME TimedInv, NEW b \in Bookings
  PROVE  /\ UsableCounters(b) \subseteq Counters
         /\ UsableCounters(b) = {} => FreeIn(b) = [v \in {None} |-> 0]
         /\ UsableCounters(b) # {} => DOMAIN FreeIn(b) = UsableCounters(b)
         /\ \A x \in ServingAhead(b) : FreeIn(b)[assignedCounter[x]] = Remaining(x)
         /\ \A c \in UsableCounters(b) :
              (\A x \in ServingAhead(b) : assignedCounter[x] # c) => FreeIn(b)[c] = 0
<1>1. UsableCounters(b) \subseteq Counters
  BY ServedAlone DEF UsableCounters
<1>2. \A x \in ServingAhead(b) : FreeIn(b)[assignedCounter[x]] = Remaining(x)
  BY ServedAlone DEF FreeIn
<1> QED
  BY <1>1, <1>2 DEF FreeIn

(* It is a lane, as laying customers requires.                             *)
LEMMA FreeInLane ==
  ASSUME IsFiniteSet(Counters), TimedInv, NEW b \in Bookings
  PROVE  IsLane(FreeIn(b))
<1>1. CASE UsableCounters(b) = {}
  <2>1. FreeIn(b) = [v \in {None} |-> 0]
    BY <1>1, FreeInOf
  <2>2. DOMAIN FreeIn(b) = {None} /\ IsFiniteSet({None})
    BY <2>1, FS_Singleton
  <2>3. FreeIn(b) \in [{None} -> 0..AverageServiceTime]
    BY <2>1, WaitingTimeAssumption
  <2> QED
    BY <2>2, <2>3 DEF IsLane
<1>2. CASE UsableCounters(b) # {}
  <2>1. DOMAIN FreeIn(b) = UsableCounters(b) /\ IsFiniteSet(UsableCounters(b))
    BY <1>2, FreeInOf, FS_Subset
  <2>2. ASSUME NEW c \in UsableCounters(b)
        PROVE  FreeIn(b)[c] \in 0..AverageServiceTime
    <3>1. CASE \E x \in ServingAhead(b) : assignedCounter[x] = c
      BY <3>1, FreeInOf, ServedAlone, RemainingBounds
    <3>2. CASE \A x \in ServingAhead(b) : assignedCounter[x] # c
      <4>1. FreeIn(b)[c] = 0
        BY <3>2, FreeInOf
      <4> QED
        BY <4>1, Multiples
    <3> QED
      BY <3>1, <3>2
  <2>3. FreeIn(b) = [c \in DOMAIN FreeIn(b) |-> FreeIn(b)[c]]
    BY <1>2 DEF FreeIn
  <2> QED
    BY <1>2, <2>1, <2>2, <2>3 DEF IsLane
<1> QED
  BY <1>1, <1>2

(* The people ahead are counted.                                           *)
LEMMA AheadCounted ==
  ASSUME IsFiniteSet(Bookings), NEW b
  PROVE  /\ IsFiniteSet(WaitingAhead(b))
         /\ Cardinality(WaitingAhead(b)) \in 0..Cardinality(Bookings)
<1>1. WaitingAhead(b) \subseteq Bookings
  BY DEF WaitingAhead
<1>2. /\ IsFiniteSet(WaitingAhead(b)) /\ Cardinality(WaitingAhead(b)) <= Cardinality(Bookings)
      /\ Cardinality(WaitingAhead(b)) \in Nat /\ Cardinality(Bookings) \in Nat
  BY <1>1, FS_Subset, FS_CardinalityType
<1> QED
  BY <1>2

(* CounterDelay is the delay of that lane.                                 *)
LEMMA DelayShown ==
  ASSUME NEW b
  PROVE  CounterDelay(b) = Delay(FreeIn(b), Cardinality(WaitingAhead(b)))
BY DEF CounterDelay, Delay

(* The estimate is the earliest start.                                     *)
LEMMA EstimateExactInv ==
  ASSUME IsFiniteSet(Bookings), IsFiniteSet(Counters), TimedInv
  PROVE  EstimateIsEarliestStart
<1> SUFFICES ASSUME NEW b \in Bookings
             PROVE  /\ Cardinality(CanBegin(FreeIn(b), CounterDelay(b)))
                         > Cardinality(WaitingAhead(b))
                    /\ Cardinality(CanBegin(FreeIn(b), CounterDelay(b) - 1))
                         <= Cardinality(WaitingAhead(b))
  BY DEF EstimateIsEarliestStart
<1> DEFINE n == Cardinality(WaitingAhead(b))
           t == Delay(FreeIn(b), n)
<1>1. IsLane(FreeIn(b)) /\ n \in 0..Cardinality(Bookings)
  BY FreeInLane, AheadCounted
<1> HIDE DEF n
<1>2. /\ t \in Nat /\ Cardinality(CanBegin(FreeIn(b), t)) > n
      /\ \A u \in Int : u < t => Cardinality(CanBegin(FreeIn(b), u)) <= n
  BY <1>1, EarliestStart
<1> HIDE DEF t
<1>3. t - 1 \in Int /\ t - 1 < t
  BY <1>2
<1> QED
  BY <1>2, <1>3, DelayShown DEF n, t

(* The order of service, among people who wait, is total and transitive.   *)
LEMMA BeforeOrders ==
  ASSUME LifeInv, NEW x \in Bookings, NEW y \in Bookings,
         ticketStatus[x] = "waiting", ticketStatus[y] = "waiting"
  PROVE  /\ EligibleAt(x) \in Nat /\ EligibleAt(y) \in Nat
         /\ Before(x, y) => EligibleAt(x) <= EligibleAt(y)
         /\ ~(Before(x, y) /\ Before(y, x))
         /\ x # y => Before(x, y) \/ Before(y, x)
         /\ \A z \in Bookings : ticketStatus[z] = "waiting" /\ Before(z, x) /\ Before(x, y)
                                  => Before(z, y)
<1>1. \A z \in Bookings : ticketStatus[z] = "waiting" =>
         EligibleAt(z) \in Nat /\ checkedInAt[z] \in Nat /\ z \in Nat
  BY LiveTimes, LifecycleAssumption
<1> QED
  BY <1>1 DEF Before

(* Whoever is before another in one lane has no more people ahead of them, *)
(* on the same counters, and is eligible no later.                         *)
LEMMA EstimatesOrderedInv ==
  ASSUME IsFiniteSet(Bookings), IsFiniteSet(Counters), TimedInv
  PROVE  EstimatesOrdered
<1> SUFFICES ASSUME NEW x \in Bookings, NEW y \in Bookings, Waiting(x), Waiting(y),
                    ScopeOf(x) = ScopeOf(y), Before(x, y)
             PROVE  Estimate(x) <= Estimate(y)
  BY DEF EstimatesOrdered
<1>1. LifeInv /\ ticketStatus[x] = "waiting" /\ ticketStatus[y] = "waiting" /\ now \in Nat
  BY TimesAreNaturals DEF TimedInv, Waiting, LifeInv, TypeOK
<1>2. DateOf(appointment[x]) = DateOf(appointment[y]) /\ queueType[x] = queueType[y]
  BY DEF ScopeOf
<1>3. FreeIn(x) = FreeIn(y)
  <2>1. ServingAhead(x) = ServingAhead(y)
    BY <1>2 DEF ServingAhead
  <2>2. UsableCounters(x) = UsableCounters(y)
    BY <1>2, <2>1 DEF UsableCounters
  <2> QED
    BY <2>1, <2>2 DEF FreeIn
<1>4. WaitingAhead(x) \subseteq WaitingAhead(y)
  BY <1>1, <1>2, BeforeOrders DEF WaitingAhead
<1> DEFINE m == Cardinality(WaitingAhead(x))
           n == Cardinality(WaitingAhead(y))
<1>5. m \in 0..n /\ n \in 0..Cardinality(Bookings) /\ m \in 0..Cardinality(Bookings)
  <2>1. m <= n
    BY <1>4, AheadCounted, FS_Subset
  <2> QED
    BY <2>1, AheadCounted
<1> HIDE DEF m, n
<1>6. IsLane(FreeIn(y))
  BY FreeInLane
<1>7. Delay(FreeIn(y), m) <= Delay(FreeIn(y), n)
  BY <1>5, <1>6, DelayGrows
<1>8. Delay(FreeIn(y), m) \in Nat /\ Delay(FreeIn(y), n) \in Nat
  BY <1>5, <1>6, EarliestStart
<1>9. CounterDelay(x) \in Nat /\ CounterDelay(y) \in Nat /\ CounterDelay(x) <= CounterDelay(y)
  BY <1>3, <1>7, <1>8, DelayShown DEF m, n
<1>10. EligibleAt(x) \in Nat /\ EligibleAt(y) \in Nat /\ EligibleAt(x) <= EligibleAt(y)
  BY <1>1, BeforeOrders
<1>11. /\ EligibilityDelay(x) \in Nat /\ EligibilityDelay(y) \in Nat
       /\ EligibilityDelay(x) <= EligibilityDelay(y)
  BY <1>1, <1>10 DEF EligibilityDelay, Larger
<1> QED
  BY <1>9, <1>11 DEF Estimate, Larger

-----------------------------------------------------------------------------
(* What is left of the services under way, summed and counted.             *)

(* Units of time left to serve customers S; and the equation that the      *)
(* function inside MapThenSumSet satisfies.                                *)
Work(S) == {p \in S \X (Nat \ {0}) : p[2] <= Remaining(p[1])}

SumsTo(sum, S) ==
  sum = [s \in SUBSET S |->
           IF s = {} THEN 0
           ELSE Remaining(CHOOSE x \in s : TRUE) + sum[s \ {CHOOSE x \in s : TRUE}]]

(* They are finitely many.                                                 *)
LEMMA WorkFinite ==
  ASSUME NEW S, IsFiniteSet(S), \A x \in S : Remaining(x) \in 0..AverageServiceTime
  PROVE  IsFiniteSet(Work(S)) /\ Cardinality(Work(S)) \in Nat
<1>1. IsFiniteSet(1..AverageServiceTime)
  BY WaitingTimeAssumption, FS_Interval
<1>2. Work(S) \subseteq S \X (1..AverageServiceTime)
  BY WaitingTimeAssumption DEF Work
<1>3. IsFiniteSet(Work(S))
  BY <1>1, <1>2, FS_Product, FS_Subset
<1> QED
  BY <1>3, FS_CardinalityType

(* Counting them satisfies the equation,                                   *)
LEMMA WorkSums ==
  ASSUME NEW S, IsFiniteSet(S), \A x \in S : Remaining(x) \in 0..AverageServiceTime
  PROVE  SumsTo([s \in SUBSET S |-> Cardinality(Work(s))], S)
<1> DEFINE sum == [s \in SUBSET S |-> Cardinality(Work(s))]
<1>1. ASSUME NEW s \in SUBSET S, s = {}
      PROVE  Cardinality(Work(s)) = 0
  <2>1. Work(s) = {}
    BY <1>1 DEF Work
  <2> QED
    BY <2>1, FS_EmptySet
<1>2. ASSUME NEW s \in SUBSET S, s # {}
      PROVE  LET x == CHOOSE x \in s : TRUE
             IN  Cardinality(Work(s)) = Remaining(x) + Cardinality(Work(s \ {x}))
  <2> DEFINE x == CHOOSE x \in s : TRUE
             block == {x} \X ((0 + 1)..Remaining(x))
             rest == s \ {x}
  <2>1. x \in s
    BY <1>2
  <2> HIDE DEF x
  <2>2. Remaining(x) \in Nat /\ 0 <= Remaining(x)
    BY <2>1, WaitingTimeAssumption
  <2>3. IsFiniteSet(block) /\ Cardinality(block) = Remaining(x)
    <3>1. /\ IsFiniteSet({x} \X ((0 + 1)..Remaining(x)))
          /\ Cardinality({x} \X ((0 + 1)..Remaining(x))) = Remaining(x) - 0
      BY <2>2, BlockCounted
    <3> QED
      BY <2>2, <3>1
  <2>4. Work(s) = Work(rest) \cup block
    BY <2>1, <2>2 DEF Work
  <2>5. Work(rest) \cap block = {}
    BY DEF Work
  <2>6. IsFiniteSet(Work(rest)) /\ Cardinality(Work(rest)) \in Nat
    <3>1. IsFiniteSet(rest) /\ rest \subseteq S
      BY FS_Subset
    <3> HIDE DEF rest
    <3> QED
      BY <3>1, WorkFinite
  <2>7. Cardinality(Work(rest) \cap block) = 0
    BY <2>5, FS_EmptySet
  <2> HIDE DEF block, rest
  <2>8. Cardinality(Work(rest) \cup block)
          = Cardinality(Work(rest)) + Cardinality(block) - Cardinality(Work(rest) \cap block)
    BY <2>3, <2>6, FS_Union
  <2>9. Cardinality(Work(s)) = Remaining(x) + Cardinality(Work(rest))
    BY <2>2, <2>3, <2>4, <2>6, <2>7, <2>8
  <2> QED
    BY <2>9 DEF x, rest
<1>3. \A s \in SUBSET S : sum[s] = Cardinality(Work(s))
  OBVIOUS
<1>4. ASSUME NEW s \in SUBSET S
      PROVE  sum[s] = IF s = {} THEN 0
                      ELSE Remaining(CHOOSE x \in s : TRUE) + sum[s \ {CHOOSE x \in s : TRUE}]
  <2>1. s \ {CHOOSE x \in s : TRUE} \in SUBSET S
    OBVIOUS
  <2> QED
    BY <1>1, <1>2, <1>3, <2>1
<1>5. sum = [s \in SUBSET S |-> sum[s]]
  OBVIOUS
<1> HIDE DEF sum
<1>6. SumsTo(sum, S)
  BY <1>4, <1>5 DEF SumsTo
<1> QED
  BY <1>6 DEF sum

(* which has one solution: take a smallest set on which two differ.        *)
LEMMA SumUnique ==
  ASSUME NEW S, IsFiniteSet(S), NEW f, NEW g, SumsTo(f, S), SumsTo(g, S)
  PROVE  f[S] = g[S]
<1> DEFINE Differ == {s \in SUBSET S : f[s] # g[s]}
           T == {Cardinality(s) : s \in Differ}
<1>1. \A s \in SUBSET S : IsFiniteSet(s) /\ Cardinality(s) \in Nat
  BY FS_Subset, FS_CardinalityType
<1>2. /\ \A s \in SUBSET S : f[s] = IF s = {} THEN 0
             ELSE Remaining(CHOOSE x \in s : TRUE) + f[s \ {CHOOSE x \in s : TRUE}]
      /\ \A s \in SUBSET S : g[s] = IF s = {} THEN 0
             ELSE Remaining(CHOOSE x \in s : TRUE) + g[s \ {CHOOSE x \in s : TRUE}]
  BY DEF SumsTo
<1> SUFFICES ASSUME Differ # {}
             PROVE  FALSE
  OBVIOUS
<1>3. T \in SUBSET Nat /\ T # {}
  BY <1>1
<1>4. PICK n \in T : \A m \in T : n <= m
  <2> HIDE DEF T
  <2> QED
    BY <1>3, LeastNumber
<1>5. PICK s \in Differ : n = Cardinality(s)
  OBVIOUS
<1> DEFINE x == CHOOSE x \in s : TRUE
           rest == s \ {x}
<1>6. s \in SUBSET S /\ s # {}
  BY <1>2
<1>7. x \in s
  BY <1>6
<1>8. f[s] = Remaining(x) + f[rest] /\ g[s] = Remaining(x) + g[rest]
  BY <1>2, <1>6
<1> HIDE DEF x
<1>9. rest \in SUBSET S /\ Cardinality(rest) = Cardinality(s) - 1
  BY <1>1, <1>6, <1>7, FS_RemoveElement
<1>10. rest \notin Differ
  <2>1. Cardinality(rest) < n
    BY <1>1, <1>5, <1>6, <1>9
  <2>2. n \in Nat /\ Cardinality(rest) \in Nat
    BY <1>1, <1>5, <1>6, <1>9
  <2> QED
    BY <1>4, <2>1, <2>2
<1> QED
  BY <1>5, <1>8, <1>9, <1>10

(* So the sum of what is left is that count.                               *)
LEMMA SumIsWork ==
  ASSUME NEW S, IsFiniteSet(S), \A x \in S : Remaining(x) \in 0..AverageServiceTime
  PROVE  MapThenSumSet(Remaining, S) = Cardinality(Work(S))
<1> DEFINE sum == CHOOSE f : SumsTo(f, S)
           count == [s \in SUBSET S |-> Cardinality(Work(s))]
<1>1. MapThenSumSet(Remaining, S) = sum[S]
  BY DEF MapThenSumSet, MapThenFoldSet, SumsTo
<1>2. SumsTo(count, S)
  BY WorkSums
<1>3. count[S] = Cardinality(Work(S))
  OBVIOUS
<1> HIDE DEF count
<1>4. SumsTo(sum, S)
  BY <1>2
<1> HIDE DEF sum
<1>5. sum[S] = count[S]
  BY <1>2, <1>4, SumUnique
<1> QED
  BY <1>1, <1>3, <1>5

(* Customers and counters stand for each other: what is left to serve is   *)
(* what occupies the counters of the lane.                                 *)
LEMMA ServingWork ==
  ASSUME IsFiniteSet(Bookings), IsFiniteSet(Counters), TimedInv, NEW b \in Bookings
  PROVE  MapThenSumSet(Remaining, ServingAhead(b)) = Cardinality(Units(FreeIn(b)))
<1> DEFINE S == ServingAhead(b)
           free == FreeIn(b)
           at == [p \in Work(S) |-> <<assignedCounter[p[1]], p[2]>>]
<1>1. IsFiniteSet(S)
  BY FS_Subset DEF ServingAhead
<1>2. \A x \in S : Remaining(x) \in 0..AverageServiceTime
  BY ServedAlone, RemainingBounds
<1>3. \A x \in S : assignedCounter[x] \in DOMAIN free /\ free[assignedCounter[x]] = Remaining(x)
  BY ServedAlone, FreeInOf
<1>4. \A x, y \in S : assignedCounter[x] = assignedCounter[y] => x = y
  BY DEF ServingAhead, TimedInv, LifeInv, OneServingPerCounter
<1>5. ASSUME NEW c \in DOMAIN free, free[c] # 0
      PROVE  \E x \in S : assignedCounter[x] = c
  <2>1. UsableCounters(b) # {}
    <3> SUFFICES ASSUME UsableCounters(b) = {} PROVE FALSE
      OBVIOUS
    <3>1. free = [v \in {None} |-> 0]
      BY FreeInOf
    <3> QED
      BY <1>5, <3>1
  <2> QED
    BY <1>5, <2>1, FreeInOf
<1>6. IsLane(free)
  BY FreeInLane
<1>7. \A c \in DOMAIN free : free[c] \in Nat
  BY <1>6, LaneFacts
<1> HIDE DEF S, free
<1>8. at \in Bijection(Work(S), Units(free))
  <2>1. at \in [Work(S) -> Units(free)]
    BY <1>3 DEF Work, Units
  <2>2. at \in Injection(Work(S), Units(free))
    <3>1. ASSUME NEW p \in Work(S), NEW q \in Work(S), at[p] = at[q]
          PROVE  p = q
      <4>1. p \in S \X (Nat \ {0}) /\ q \in S \X (Nat \ {0})
        BY DEF Work
      <4>2. assignedCounter[p[1]] = assignedCounter[q[1]] /\ p[2] = q[2]
        BY <3>1
      <4>3. p[1] = q[1]
        BY <1>4, <4>1, <4>2
      <4> QED
        BY <4>1, <4>2, <4>3
    <3> QED
      BY <2>1, <3>1 DEF Injection, IsInjective
  <2>3. ASSUME NEW u \in Units(free)
        PROVE  \E p \in Work(S) : at[p] = u
    <3>1. u \in (DOMAIN free) \X (Nat \ {0}) /\ u[2] <= free[u[1]]
      BY DEF Units
    <3>2. u[1] \in DOMAIN free /\ u[2] \in Nat \ {0} /\ u = <<u[1], u[2]>>
      BY <3>1
    <3>3. free[u[1]] # 0
      BY <1>7, <3>1, <3>2
    <3>4. PICK x \in S : assignedCounter[x] = u[1]
      BY <1>5, <3>2, <3>3
    <3>5. u[2] <= Remaining(x)
      BY <1>3, <3>1, <3>4
    <3>6. <<x, u[2]>> \in Work(S)
      BY <3>2, <3>4, <3>5 DEF Work
    <3> QED
      BY <3>2, <3>4, <3>6
  <2>4. at \in Surjection(Work(S), Units(free))
    BY <2>1, <2>3 DEF Surjection
  <2> QED
    BY <2>2, <2>4 DEF Bijection
<1>9. IsFiniteSet(Work(S))
  BY <1>1, <1>2, WorkFinite
<1> HIDE DEF at
<1>10. Cardinality(Units(free)) = Cardinality(Work(S))
  BY <1>8, <1>9, FS_Bijection DEF ExistsBijection
<1>11. MapThenSumSet(Remaining, S) = Cardinality(Work(S))
  BY <1>1, <1>2, SumIsWork
<1> QED
  BY <1>10, <1>11 DEF S, free

(* The learned estimate is told of the work that the other one lays out.   *)
LEMMA WorkloadInv ==
  ASSUME IsFiniteSet(Bookings), IsFiniteSet(Counters), TimedInv
  PROVE  WorkloadLaidOut
<1> SUFFICES ASSUME NEW b \in Bookings, Waiting(b)
             PROVE  LET counters == Cardinality(DOMAIN FreeIn(b))
                        occupied == counters * CounterDelay(b)
                    IN /\ occupied <= WorkloadAhead(b)
                       /\ WorkloadAhead(b) <= occupied + (counters - 1) * AverageServiceTime
  BY DEF WorkloadLaidOut
<1> DEFINE n == Cardinality(WaitingAhead(b))
<1>1. SameLaneWaitingAhead(b) = WaitingAhead(b)
  BY DEF SameLaneWaitingAhead, WaitingTickets, WaitingAhead
<1>2. n \in 0..Cardinality(Bookings) /\ n \in Nat
  BY AheadCounted, FS_CardinalityType
<1>3. AverageServiceTime * Cardinality(SameLaneWaitingAhead(b)) = Span(n)
  <2> HIDE DEF n
  <2>1. AverageServiceTime * n = n * AverageServiceTime
    BY <1>2, WaitingTimeAssumption
  <2> QED
    BY <1>1, <2>1 DEF Span, n
<1>4. WorkloadAhead(b) = Cardinality(Units(FreeIn(b))) + Span(n)
  BY <1>3, ServingWork DEF WorkloadAhead
<1>5. CounterDelay(b) = Delay(FreeIn(b), n)
  BY DelayShown
<1>6. IsLane(FreeIn(b))
  BY FreeInLane
<1> HIDE DEF n
<1> QED
  BY <1>2, <1>4, <1>5, <1>6, WorkCounted

-----------------------------------------------------------------------------
(* A step, as the counters of one lane see it.                             *)

(* When each counter of one lane has one of another that is free no later, *)
(* the other lane can begin as many services.                              *)
LEMMA Carry ==
  ASSUME IsFiniteSet(Bookings), NEW old, IsLane(old), NEW new, IsLane(new), NEW t \in Int,
         NEW h \in [DOMAIN old -> DOMAIN new],
         \A c, d \in DOMAIN old : h[c] = h[d] => c = d,
         \A c \in DOMAIN old : new[h[c]] <= old[c]
  PROVE  Cardinality(CanBegin(old, t)) <= Cardinality(CanBegin(new, t))
<1> DEFINE move == [p \in CanBegin(old, t) |-> <<h[p[1]], p[2]>>]
<1>1. ASSUME NEW p \in CanBegin(old, t)
      PROVE  /\ p \in (DOMAIN old) \X (0..Cardinality(Bookings))
             /\ <<h[p[1]], p[2]>> \in CanBegin(new, t)
  <2>1. p \in (DOMAIN old) \X (0..Cardinality(Bookings)) /\ old[p[1]] + Span(p[2]) <= t
    BY CanBeginCounted
  <2>2. p[1] \in DOMAIN old /\ p[2] \in 0..Cardinality(Bookings) /\ h[p[1]] \in DOMAIN new
    BY <2>1
  <2>3. /\ old[p[1]] \in Nat /\ new[h[p[1]]] \in Nat /\ Span(p[2]) \in Nat
        /\ new[h[p[1]]] <= old[p[1]]
    <3>1. Span(p[2]) \in Nat
      <4>1. p[2] \in Nat
        BY <2>2, FS_CardinalityType
      <4> QED
        BY <4>1, Multiples
    <3>2. old[p[1]] \in Nat /\ new[h[p[1]]] \in Nat
      BY <2>2, LaneFacts
    <3> QED
      BY <2>2, <3>1, <3>2
  <2>4. new[h[p[1]]] + Span(p[2]) <= t
    BY <2>1, <2>3
  <2> QED
    BY <2>1, <2>2, <2>4, CanBeginCounted
<1>2. move \in [CanBegin(old, t) -> CanBegin(new, t)]
  BY <1>1
<1>3. ASSUME NEW p \in CanBegin(old, t), NEW q \in CanBegin(old, t), move[p] = move[q]
      PROVE  p = q
  <2>1. /\ p \in (DOMAIN old) \X (0..Cardinality(Bookings))
        /\ q \in (DOMAIN old) \X (0..Cardinality(Bookings))
    BY <1>1
  <2>2. h[p[1]] = h[q[1]] /\ p[2] = q[2]
    BY <1>3
  <2>3. p[1] = q[1]
    BY <2>1, <2>2
  <2> QED
    BY <2>1, <2>2, <2>3
<1>4. move \in Injection(CanBegin(old, t), CanBegin(new, t))
  BY <1>2, <1>3 DEF Injection, IsInjective
<1> HIDE DEF move
<1> QED
  BY <1>4, CanBeginCounted, FS_Injection

(* When one of them is occupied by a whole service instead, it can begin   *)
(* one less: the services of that counter come one later.                  *)
LEMMA CarryCalled ==
  ASSUME IsFiniteSet(Bookings), NEW old, IsLane(old), NEW new, IsLane(new), NEW t \in Int,
         NEW h \in [DOMAIN old -> DOMAIN new],
         \A c, d \in DOMAIN old : h[c] = h[d] => c = d,
         NEW taken \in DOMAIN old, old[taken] = 0, new[h[taken]] <= AverageServiceTime,
         \A c \in DOMAIN old \ {taken} : new[h[c]] <= old[c]
  PROVE  Cardinality(CanBegin(old, t)) <= Cardinality(CanBegin(new, t)) + 1
<1> DEFINE rest == CanBegin(old, t) \ {<<taken, 0>>}
           after(p) == IF p[1] = taken THEN p[2] - 1 ELSE p[2]
           move == [p \in rest |-> <<h[p[1]], after(p)>>]
<1>1. ASSUME NEW p \in rest
      PROVE  /\ p \in (DOMAIN old) \X (0..Cardinality(Bookings))
             /\ p[1] = taken => p[2] # 0
             /\ <<h[p[1]], after(p)>> \in CanBegin(new, t)
  <2>1. /\ p \in (DOMAIN old) \X (0..Cardinality(Bookings))
        /\ old[p[1]] + Span(p[2]) <= t
        /\ p # <<taken, 0>>
    BY CanBeginCounted
  <2>2. p[1] \in DOMAIN old /\ p[2] \in 0..Cardinality(Bookings) /\ h[p[1]] \in DOMAIN new
    BY <2>1
  <2>3. old[p[1]] \in Nat /\ new[h[p[1]]] \in Nat /\ Span(p[2]) \in Nat
    <3>1. Span(p[2]) \in Nat
      <4>1. p[2] \in Nat
        BY <2>2, FS_CardinalityType
      <4> QED
        BY <4>1, Multiples
    <3>2. old[p[1]] \in Nat /\ new[h[p[1]]] \in Nat
      BY <2>2, LaneFacts
    <3> QED
      BY <3>1, <3>2
  <2>4. CASE p[1] = taken
    <3>1. p[2] # 0
      BY <2>1, <2>4
    <3>2. p[2] - 1 \in 0..Cardinality(Bookings) /\ p[2] - 1 \in Nat /\ (p[2] - 1) + 1 = p[2]
      BY <2>2, <3>1, FS_CardinalityType
    <3>3. Span(p[2] - 1) \in Nat /\ Span(p[2]) = Span(p[2] - 1) + AverageServiceTime
      BY <3>2, Multiples
    <3>4. new[h[p[1]]] + Span(p[2] - 1) <= t
      BY <2>1, <2>3, <2>4, <3>3, WaitingTimeAssumption
    <3>5. <<h[p[1]], p[2] - 1>> \in CanBegin(new, t)
      BY <2>2, <3>2, <3>4, CanBeginCounted
    <3> QED
      BY <2>1, <2>4, <3>1, <3>5
  <2>5. CASE p[1] # taken
    <3>1. new[h[p[1]]] + Span(p[2]) <= t
      BY <2>1, <2>2, <2>3, <2>5
    <3>2. <<h[p[1]], p[2]>> \in CanBegin(new, t)
      BY <2>2, <3>1, CanBeginCounted
    <3> QED
      BY <2>1, <2>5, <3>2
  <2> QED
    BY <2>4, <2>5
<1>2. move \in [rest -> CanBegin(new, t)]
  BY <1>1
<1>3. ASSUME NEW p \in rest, NEW q \in rest, move[p] = move[q]
      PROVE  p = q
  <2>1. /\ p \in (DOMAIN old) \X (0..Cardinality(Bookings))
        /\ q \in (DOMAIN old) \X (0..Cardinality(Bookings))
        /\ p[2] \in Int /\ q[2] \in Int
    <3>1. /\ p \in (DOMAIN old) \X (0..Cardinality(Bookings))
          /\ q \in (DOMAIN old) \X (0..Cardinality(Bookings))
      BY <1>1
    <3>2. p[2] \in 0..Cardinality(Bookings) /\ q[2] \in 0..Cardinality(Bookings)
      BY <3>1
    <3> QED
      BY <3>1, <3>2
  <2>2. h[p[1]] = h[q[1]] /\ after(p) = after(q)
    BY <1>3
  <2>3. p[1] = q[1]
    BY <2>1, <2>2
  <2>4. p[2] = q[2]
    BY <2>1, <2>2, <2>3
  <2> QED
    BY <2>1, <2>3, <2>4
<1>4. move \in Injection(rest, CanBegin(new, t))
  BY <1>2, <1>3 DEF Injection, IsInjective
<1> HIDE DEF move
<1>5. /\ IsFiniteSet(rest) /\ Cardinality(rest) <= Cardinality(CanBegin(new, t))
      /\ Cardinality(rest) \in Nat /\ Cardinality(CanBegin(new, t)) \in Nat
  <2>1. IsFiniteSet(CanBegin(new, t)) /\ Cardinality(CanBegin(new, t)) \in Nat
    BY CanBeginCounted
  <2> HIDE DEF rest
  <2>2. IsFiniteSet(rest) /\ Cardinality(rest) <= Cardinality(CanBegin(new, t))
    BY <1>4, <2>1, FS_Injection
  <2> QED
    BY <2>1, <2>2, FS_CardinalityType
<1>6. /\ Cardinality(CanBegin(old, t)) \in Nat
      /\ Cardinality(CanBegin(old, t)) <= Cardinality(rest) + 1
  <2>1. IsFiniteSet(CanBegin(old, t)) /\ Cardinality(CanBegin(old, t)) \in Nat
    BY CanBeginCounted
  <2>2. Cardinality(rest) = IF <<taken, 0>> \in CanBegin(old, t)
                              THEN Cardinality(CanBegin(old, t)) - 1
                              ELSE Cardinality(CanBegin(old, t))
    BY <2>1, FS_RemoveElement
  <2> QED
    BY <2>1, <2>2
<1> QED
  BY <1>5, <1>6

(* What FreeInOf says of every customer, as a predicate of the state.      *)
LanesFree ==
  \A b \in Bookings :
    /\ IsLane(FreeIn(b))
    /\ UsableCounters(b) = {} => FreeIn(b) = [v \in {None} |-> 0]
    /\ UsableCounters(b) # {} => DOMAIN FreeIn(b) = UsableCounters(b)
    /\ \A x \in ServingAhead(b) :
         /\ assignedCounter[x] \in UsableCounters(b)
         /\ FreeIn(b)[assignedCounter[x]] = Remaining(x)
    /\ \A c \in UsableCounters(b) :
         (\A x \in ServingAhead(b) : assignedCounter[x] # c) => FreeIn(b)[c] = 0

(* It holds with the invariant.                                            *)
LEMMA LanesAreFree == IsFiniteSet(Counters) /\ TimedInv => LanesFree
BY FreeInOf, FreeInLane, ServedAlone DEF LanesFree

(* A customer b who is and stays in the live queue, whose turn has come.   *)
TurnStep(b) ==
  /\ TimedInv /\ TimedInv' /\ LanesFree /\ LanesFree'
  /\ [Next /\ ServiceClock]_timedVars
  /\ Waiting(b) /\ Waiting(b)'
  /\ EligibleAt(b) < now
  /\ UsableCounters(b) \subseteq UsableCounters(b)'

(* The step leaves b where they are, and adds nobody ahead of them.        *)
LEMMA TurnFacts ==
  ASSUME NEW b \in Bookings, TurnStep(b)
  PROVE  /\ LifeInv /\ [Next]_vars /\ OneChange
         /\ Same(b)
         /\ now \in Nat /\ now' \in Nat /\ now <= now'
         /\ EligibleAt(b)' = EligibleAt(b) /\ EligibleAt(b) \in Nat
         /\ WaitingAhead(b)' \subseteq WaitingAhead(b)
<1>1. LifeInv /\ [Next]_vars
  BY DEF TurnStep, TimedInv, timedVars
<1>2. ticketStatus[b] = "waiting" /\ ticketStatus'[b] = "waiting" /\ EligibleAt(b) < now
  BY DEF TurnStep, Waiting
<1>3. OneChange
  BY <1>1, StepIsOneChange
<1>4. bookingStatus[b] = "pending" /\ checkedInAt[b] # None
  BY <1>1, <1>2 DEF LifeInv, StatusAgreement, TicketAgrees
<1>5. ~Change(b)
  BY <1>2, <1>4
     DEF Change, Entry, Exists, Activation, Unchecked, Move, Cancellation, Turn, Departure
<1>6. Same(b)
  BY <1>3, <1>5 DEF OneChange
<1>7. now \in Nat /\ now' \in Nat /\ now <= now'
  BY <1>1, ClockGoesOn, TimesAreNaturals DEF LifeInv, TypeOK
<1>8. EligibleAt(b)' = EligibleAt(b) /\ EligibleAt(b) \in Nat
  BY <1>1, <1>2, <1>6, LiveTimes DEF Same, EligibleAt
<1>9. WaitingAhead(b)' \subseteq WaitingAhead(b)
  BY <1>1, <1>2, NobodyJumps
<1> QED
  BY <1>1, <1>3, <1>6, <1>7, <1>8, <1>9

(* Whoever goes on being served stays where they are; less of the service  *)
(* is left.                                                                *)
LEMMA StillServed ==
  ASSUME NEW b \in Bookings, TurnStep(b), NEW x \in ServingAhead(b), x \in ServingAhead(b)'
  PROVE  /\ assignedCounter'[x] = assignedCounter[x]
         /\ Remaining(x)' <= Remaining(x)
         /\ Remaining(x) \in Nat /\ Remaining(x)' \in Nat
<1>1. x \in Bookings /\ ticketStatus[x] = "serving" /\ ticketStatus'[x] = "serving"
  BY DEF ServingAhead
<1>2. bookingStatus[x] = "confirmed" /\ checkedInAt[x] # None
  BY <1>1 DEF TurnStep, TimedInv, LifeInv, StatusAgreement, TicketAgrees
<1>3. ~Change(x)
  BY <1>1, <1>2
     DEF Change, Entry, Exists, Activation, Unchecked, Move, Cancellation, Turn, Departure
<1>4. Same(x)
  BY <1>1, <1>3, TurnFacts DEF OneChange
<1>5. serviceStartedAt'[x] = serviceStartedAt[x]
  <2>1. CASE UNCHANGED timedVars
    BY <2>1 DEF timedVars
  <2>2. CASE ServiceClock
    BY <1>1, <2>2 DEF ServiceClock
  <2> QED
    BY <2>1, <2>2 DEF TurnStep
<1>6. serviceStartedAt[x] \in 0..now /\ now \in Nat /\ now' \in Nat /\ now <= now'
  BY <1>1, TurnFacts DEF TurnStep, TimedInv
<1>7. serviceStartedAt[x] \in Nat /\ serviceStartedAt[x] <= now
  BY <1>6
<1>8. /\ Remaining(x) = Larger(AverageServiceTime - (now - serviceStartedAt[x]), 0)
      /\ Remaining(x)' = Larger(AverageServiceTime - (now' - serviceStartedAt[x]), 0)
  BY <1>5 DEF Remaining, Larger
<1>9. /\ Remaining(x)' <= Remaining(x)
      /\ Remaining(x) \in Nat /\ Remaining(x)' \in Nat
  BY <1>6, <1>7, <1>8, WaitingTimeAssumption DEF Larger
<1> QED
  BY <1>4, <1>9 DEF Same

(* Whoever is newly served was called from the front of b's own lane.      *)
LEMMA NewlyServed ==
  ASSUME NEW b \in Bookings, TurnStep(b), NEW y \in ServingAhead(b)', y \notin ServingAhead(b)
  PROVE  /\ y \in WaitingAhead(b) \ WaitingAhead(b)'
         /\ assignedCounter'[y] \notin BusyCounters
         /\ Remaining(y)' <= AverageServiceTime
         /\ UNCHANGED now
         /\ \A x \in Bookings \ {y} : Same(x)
<1>1. /\ LifeInv /\ [Next]_vars /\ OneChange /\ Same(b)
      /\ now \in Nat /\ now' \in Nat
      /\ ticketStatus[b] = "waiting"
  BY TurnFacts DEF TurnStep, Waiting
<1>2. y \in Bookings /\ ticketStatus'[y] = "serving"
  BY DEF ServingAhead
<1>3. ~Same(y)
  BY <1>1, <1>2 DEF Same, ServingAhead
<1>4. Change(y) /\ (\A x \in Bookings \ {y} : Same(x)) /\ now' = now
  BY <1>1, <1>2, <1>3 DEF OneChange
<1>5. Turn(y)
  BY <1>2, <1>4 DEF Change, Entry, Activation, Move, Cancellation, Turn, Departure
<1>6. ticketStatus[y] = "waiting" /\ checkedInAt[y] # None
  BY <1>1, <1>2, <1>5 DEF Turn, LifeInv, StatusAgreement, TicketAgrees
<1>7. PICK r \in Requests : CallNext(r)
  BY <1>1, <1>2, <1>6, OnlyCallsServe
<1>8. WaitingAhead(y) = {}
  BY <1>1, <1>2, <1>6, <1>7, CallFromFront
<1>9. /\ request[r].counter \notin BusyCounters
      /\ \E z \in Candidates(request[r].type) : Serve(z, request[r].counter)
  BY <1>2, <1>6, <1>7 DEF CallNext, ticketVars
<1>10. PICK z \in Candidates(request[r].type) : Serve(z, request[r].counter)
  BY <1>9
<1>11. z = y
  BY <1>2, <1>6, <1>10 DEF Serve, Candidates, LifeInv, TypeOK
<1>12. /\ assignedCounter'[y] = request[r].counter
       /\ queueType' = queueType /\ appointment' = appointment
  BY <1>1, <1>2, <1>10, <1>11 DEF Serve, LifeInv, TypeOK
<1>13. DateOf(appointment[y]) = DateOf(appointment[b]) /\ queueType[y] = queueType[b]
  BY <1>12 DEF ServingAhead
<1>14. assignedCounter[y] = None /\ assignedCounter[b] = None /\ checkedInAt[b] # None /\ y # b
  BY <1>1, <1>2, <1>6, <1>3 DEF LifeInv, StatusAgreement, TicketAgrees
<1>15. Before(y, b)
  <2>1. b \notin WaitingAhead(y)
    BY <1>8
  <2>2. ~Before(b, y)
    BY <1>1, <1>13, <1>14, <2>1 DEF WaitingAhead
  <2> QED
    BY <1>1, <1>2, <1>6, <1>14, <2>2, BeforeOrders
<1>16. y \in WaitingAhead(b)
  BY <1>2, <1>6, <1>13, <1>14, <1>15 DEF WaitingAhead
<1>17. y \notin WaitingAhead(b)'
  BY <1>2 DEF WaitingAhead
<1>18. Remaining(y)' <= AverageServiceTime
  <2>1. serviceStartedAt'[y] \in 0..now'
    BY <1>2 DEF TurnStep, TimedInv
  <2>2. Remaining(y)' = Larger(AverageServiceTime - (now' - serviceStartedAt'[y]), 0)
    BY DEF Remaining, Larger
  <2>3. now' - serviceStartedAt'[y] \in Nat
    BY <1>1, <2>1
  <2> QED
    BY <2>2, <2>3, WaitingTimeAssumption DEF Larger
<1> QED
  BY <1>4, <1>9, <1>12, <1>16, <1>17, <1>18

(* The counters of b's lane before and after the step are lanes.           *)
LEMMA LanesOfStep ==
  ASSUME NEW b \in Bookings, TurnStep(b)
  PROVE  /\ IsLane(FreeIn(b)) /\ IsLane(FreeIn(b)')
         /\ UsableCounters(b) # {} =>
              /\ DOMAIN FreeIn(b) = UsableCounters(b)
              /\ UsableCounters(b) \subseteq DOMAIN FreeIn(b)'
         /\ UsableCounters(b) = {} =>
              FreeIn(b) = [v \in {None} |-> 0] /\ ServingAhead(b) = {}
<1>1. IsLane(FreeIn(b)) /\ IsLane(FreeIn(b)')
  BY DEF TurnStep, LanesFree, IsLane
<1>2. UsableCounters(b) # {} =>
        /\ DOMAIN FreeIn(b) = UsableCounters(b)
        /\ UsableCounters(b) \subseteq DOMAIN FreeIn(b)'
  <2>1. UsableCounters(b) # {} => DOMAIN FreeIn(b) = UsableCounters(b)
    BY DEF TurnStep, LanesFree
  <2>2. UsableCounters(b)' # {} => DOMAIN FreeIn(b)' = UsableCounters(b)'
    BY DEF TurnStep, LanesFree
  <2> QED
    BY <2>1, <2>2 DEF TurnStep
<1>3. UsableCounters(b) = {} =>
        FreeIn(b) = [v \in {None} |-> 0] /\ ServingAhead(b) = {}
  BY DEF TurnStep, LanesFree
<1> QED
  BY <1>1, <1>2, <1>3

(* A counter at which nobody is newly served is free no later than before. *)
LEMMA KeptFree ==
  ASSUME NEW b \in Bookings, TurnStep(b), NEW c \in UsableCounters(b),
         \A x \in ServingAhead(b)' : assignedCounter'[x] = c => x \in ServingAhead(b)
  PROVE  FreeIn(b)'[c] <= FreeIn(b)[c]
<1>1. c \in UsableCounters(b)'
  BY DEF TurnStep
<1>2. FreeIn(b)[c] \in Nat
  BY LanesOfStep, LaneFacts
<1>3. CASE \E x \in ServingAhead(b)' : assignedCounter'[x] = c
  <2>1. PICK x \in ServingAhead(b)' : assignedCounter'[x] = c
    BY <1>3
  <2>2. x \in ServingAhead(b)
    BY <2>1
  <2>3. assignedCounter[x] = c /\ Remaining(x)' <= Remaining(x)
    BY <2>1, <2>2, StillServed
  <2>4. FreeIn(b)[c] = Remaining(x)
    BY <2>2, <2>3 DEF TurnStep, LanesFree
  <2>5. FreeIn(b)'[c] = Remaining(x)'
    BY <2>1 DEF TurnStep, LanesFree
  <2> QED
    BY <2>3, <2>4, <2>5
<1>4. CASE \A x \in ServingAhead(b)' : assignedCounter'[x] # c
  <2>1. FreeIn(b)'[c] = 0
    BY <1>1, <1>4 DEF TurnStep, LanesFree
  <2> QED
    BY <1>2, <2>1
<1> QED
  BY <1>3, <1>4

(* While nobody is called in the lane, its counters can begin as many      *)
(* services by any moment as before.                                       *)
LEMMA NobodyCalled ==
  ASSUME IsFiniteSet(Bookings), NEW b \in Bookings, TurnStep(b),
         ServingAhead(b)' \subseteq ServingAhead(b), NEW t \in Int
  PROVE  Cardinality(CanBegin(FreeIn(b), t)) <= Cardinality(CanBegin(FreeIn(b)', t))
<1> DEFINE old == FreeIn(b)
           new == FreeIn(b)'
<1>1. IsLane(old) /\ IsLane(new)
  BY LanesOfStep
<1>2. CASE UsableCounters(b) # {}
  <2> DEFINE h == [c \in DOMAIN old |-> c]
  <2>1. DOMAIN old = UsableCounters(b) /\ UsableCounters(b) \subseteq DOMAIN new
    BY <1>2, LanesOfStep
  <2>2. \A c \in DOMAIN old : new[c] <= old[c]
    BY <2>1, KeptFree
  <2> HIDE DEF old, new
  <2>3. h \in [DOMAIN old -> DOMAIN new]
    BY <2>1
  <2>4. /\ \A c, d \in DOMAIN old : h[c] = h[d] => c = d
        /\ \A c \in DOMAIN old : new[h[c]] <= old[c]
    BY <2>2
  <2> HIDE DEF h
  <2>5. Cardinality(CanBegin(old, t)) <= Cardinality(CanBegin(new, t))
    BY <1>1, <2>3, <2>4, Carry
  <2> QED
    BY <2>5 DEF old, new
<1>3. CASE UsableCounters(b) = {} /\ UsableCounters(b)' # {}
  <2>1. PICK c : c \in UsableCounters(b)'
    BY <1>3
  <2>2. old = [v \in {None} |-> 0] /\ ServingAhead(b)' = {}
    BY <1>3, LanesOfStep
  <2>3. c \in DOMAIN new /\ new[c] = 0
    BY <1>3, <2>1, <2>2 DEF TurnStep, LanesFree
  <2> DEFINE h == [v \in {None} |-> c]
  <2> HIDE DEF new
  <2>4. DOMAIN old = {None} /\ old[None] = 0
    BY <2>2
  <2> HIDE DEF old
  <2>5. h \in [DOMAIN old -> DOMAIN new]
    BY <2>3, <2>4
  <2>6. /\ \A v, d \in DOMAIN old : h[v] = h[d] => v = d
        /\ \A v \in DOMAIN old : new[h[v]] <= old[v]
    BY <2>3, <2>4
  <2> HIDE DEF h
  <2>7. Cardinality(CanBegin(old, t)) <= Cardinality(CanBegin(new, t))
    BY <1>1, <2>5, <2>6, Carry
  <2> QED
    BY <2>7 DEF old, new
<1>4. CASE UsableCounters(b) = {} /\ UsableCounters(b)' = {}
  <2>1. old = [v \in {None} |-> 0]
    BY <1>4, LanesOfStep
  <2>2. new = [v \in {None} |-> 0]
    BY <1>4 DEF TurnStep, LanesFree
  <2>3. Cardinality(CanBegin(old, t)) \in Nat
    BY <1>1, CanBeginCounted
  <2> HIDE DEF old, new
  <2>4. old = new
    BY <2>1, <2>2
  <2>5. Cardinality(CanBegin(old, t)) <= Cardinality(CanBegin(new, t))
    BY <2>3, <2>4
  <2> QED
    BY <2>5 DEF old, new
<1> QED
  BY <1>2, <1>3, <1>4

(* When somebody is, they can begin one less.                              *)
LEMMA OneCalled ==
  ASSUME IsFiniteSet(Bookings), NEW b \in Bookings, TurnStep(b),
         NEW y \in ServingAhead(b)', y \notin ServingAhead(b), NEW t \in Int
  PROVE  Cardinality(CanBegin(FreeIn(b), t)) <= Cardinality(CanBegin(FreeIn(b)', t)) + 1
<1> DEFINE old == FreeIn(b)
           new == FreeIn(b)'
           at == assignedCounter'[y]
<1>1. IsLane(old) /\ IsLane(new)
  BY LanesOfStep
<1>2. /\ at \notin BusyCounters /\ Remaining(y)' <= AverageServiceTime
      /\ \A x \in Bookings \ {y} : Same(x)
  BY NewlyServed
<1>3. at \in UsableCounters(b)' /\ new[at] = Remaining(y)'
  BY DEF TurnStep, LanesFree
<1>4. at \in DOMAIN new
  BY <1>3 DEF TurnStep, LanesFree
<1>5. \A x \in ServingAhead(b)' : x = y \/ x \in ServingAhead(b)
  BY <1>2, TurnFacts DEF Same, ServingAhead
<1>6. ASSUME NEW c \in UsableCounters(b), c # at
      PROVE  new[c] <= old[c]
  BY <1>5, <1>6, KeptFree
<1>7. Cardinality(CanBegin(old, t)) \in Nat /\ Cardinality(CanBegin(new, t)) \in Nat
  <2> HIDE DEF old, new
  <2> QED
    BY <1>1, CanBeginCounted
<1>8. CASE UsableCounters(b) # {} /\ at \in UsableCounters(b)
  <2> DEFINE h == [c \in DOMAIN old |-> c]
  <2>1. DOMAIN old = UsableCounters(b) /\ UsableCounters(b) \subseteq DOMAIN new
    BY <1>8, LanesOfStep
  <2>2. old[at] = 0
    <3>1. \A x \in ServingAhead(b) : assignedCounter[x] # at
      <4>1. at \in Counters
        <5>1. y \in Bookings /\ ticketStatus'[y] = "serving"
          BY DEF ServingAhead
        <5> QED
          BY <5>1 DEF TurnStep, TimedInv, LifeInv, TypeOK, StatusAgreement
      <4> QED
        BY <1>2, <4>1 DEF ServingAhead, BusyCounters, Serving
    <3> QED
      BY <1>8, <3>1 DEF TurnStep, LanesFree
  <2> HIDE DEF old, new, at
  <2>3. h \in [DOMAIN old -> DOMAIN new]
    BY <2>1
  <2>4. /\ \A c, d \in DOMAIN old : h[c] = h[d] => c = d
        /\ at \in DOMAIN old /\ old[at] = 0 /\ new[h[at]] <= AverageServiceTime
        /\ \A c \in DOMAIN old \ {at} : new[h[c]] <= old[c]
    BY <1>2, <1>3, <1>6, <1>8, <2>1, <2>2
  <2> HIDE DEF h
  <2>5. Cardinality(CanBegin(old, t)) <= Cardinality(CanBegin(new, t)) + 1
    BY <1>1, <2>3, <2>4, CarryCalled
  <2> QED
    BY <2>5 DEF old, new
<1>9. CASE UsableCounters(b) # {} /\ at \notin UsableCounters(b)
  <2> DEFINE h == [c \in DOMAIN old |-> c]
  <2>1. DOMAIN old = UsableCounters(b) /\ UsableCounters(b) \subseteq DOMAIN new
    BY <1>9, LanesOfStep
  <2> HIDE DEF old, new, at
  <2>2. h \in [DOMAIN old -> DOMAIN new]
    BY <2>1
  <2>3. /\ \A c, d \in DOMAIN old : h[c] = h[d] => c = d
        /\ \A c \in DOMAIN old : new[h[c]] <= old[c]
    BY <1>6, <1>9, <2>1
  <2> HIDE DEF h
  <2>4. Cardinality(CanBegin(old, t)) <= Cardinality(CanBegin(new, t))
    BY <1>1, <2>2, <2>3, Carry
  <2> QED
    BY <1>7, <2>4 DEF old, new
<1>10. CASE UsableCounters(b) = {}
  <2>1. old = [v \in {None} |-> 0]
    BY <1>10, LanesOfStep
  <2>2. DOMAIN old = {None} /\ old[None] = 0
    BY <2>1
  <2> DEFINE h == [v \in {None} |-> at]
  <2> HIDE DEF old, new, at
  <2>3. h \in [DOMAIN old -> DOMAIN new]
    BY <1>4, <2>2
  <2>4. /\ \A c, d \in DOMAIN old : h[c] = h[d] => c = d
        /\ None \in DOMAIN old /\ old[None] = 0 /\ new[h[None]] <= AverageServiceTime
        /\ \A c \in DOMAIN old \ {None} : new[h[c]] <= old[c]
    BY <1>2, <1>3, <2>2
  <2> HIDE DEF h
  <2>5. Cardinality(CanBegin(old, t)) <= Cardinality(CanBegin(new, t)) + 1
    BY <1>1, <2>3, <2>4, CarryCalled
  <2> QED
    BY <2>5 DEF old, new
<1> QED
  BY <1>8, <1>9, <1>10

(* A called customer takes one service from the counters, and is one less  *)
(* ahead.  So the wait does not grow.                                      *)
LEMMA WaitShrinks ==
  ASSUME IsFiniteSet(Bookings), NEW b \in Bookings, TurnStep(b)
  PROVE  Estimate(b)' <= Estimate(b)
<1> DEFINE old == FreeIn(b)
           new == FreeIn(b)'
           ahead == WaitingAhead(b)
           n == Cardinality(ahead)
           m == Cardinality(WaitingAhead(b)')
           t == Delay(old, n)
<1>1. IsLane(old) /\ IsLane(new)
  BY LanesOfStep
<1>2. /\ IsFiniteSet(ahead) /\ IsFiniteSet(WaitingAhead(b)')
      /\ n \in 0..Cardinality(Bookings) /\ m \in 0..Cardinality(Bookings)
      /\ Cardinality(Bookings) \in Nat
  <2>1. ahead \subseteq Bookings /\ WaitingAhead(b)' \subseteq Bookings
    BY TurnFacts DEF WaitingAhead
  <2>2. WaitingAhead(b)' \subseteq ahead
    BY TurnFacts
  <2> HIDE DEF ahead
  <2>3. /\ IsFiniteSet(ahead) /\ IsFiniteSet(WaitingAhead(b)')
        /\ n <= Cardinality(Bookings) /\ m <= Cardinality(Bookings)
    BY <2>1, FS_Subset
  <2> QED
    BY <2>3, FS_CardinalityType
<1>3. WaitingAhead(b)' \subseteq ahead
  BY TurnFacts
<1>4. /\ \E y \in ServingAhead(b)' : y \notin ServingAhead(b)
      => /\ m <= n - 1
         /\ \A u \in Int : Cardinality(CanBegin(old, u)) <= Cardinality(CanBegin(new, u)) + 1
  <2> SUFFICES ASSUME NEW y \in ServingAhead(b)', y \notin ServingAhead(b)
               PROVE  /\ m <= n - 1
                      /\ \A u \in Int :
                           Cardinality(CanBegin(old, u)) <= Cardinality(CanBegin(new, u)) + 1
    OBVIOUS
  <2>1. y \in ahead /\ WaitingAhead(b)' \subseteq ahead \ {y}
    BY <1>3, NewlyServed
  <2> HIDE DEF ahead
  <2>2. IsFiniteSet(ahead \ {y}) /\ Cardinality(ahead \ {y}) = n - 1
    BY <1>2, <2>1, FS_RemoveElement
  <2>3. m <= n - 1
    BY <2>1, <2>2, FS_Subset
  <2> QED
    BY <2>3, OneCalled
<1>5. ServingAhead(b)' \subseteq ServingAhead(b)
      => /\ m <= n
         /\ \A u \in Int : Cardinality(CanBegin(old, u)) <= Cardinality(CanBegin(new, u))
  <2>1. m <= n
    BY <1>2, <1>3, FS_Subset
  <2> QED
    BY <2>1, NobodyCalled
<1>6. CounterDelay(b) = t /\ CounterDelay(b)' = Delay(new, m)
  BY DEF CounterDelay, Delay, Soonest, Laid
<1> HIDE DEF old, new, n, m
<1>7. t \in Nat /\ Cardinality(CanBegin(old, t)) > n
  BY <1>1, <1>2, EarliestStart
<1>8. Delay(new, m) \in Nat
  BY <1>1, <1>2, EarliestStart
<1> HIDE DEF t
<1>9. /\ Cardinality(CanBegin(old, t)) \in Nat /\ Cardinality(CanBegin(new, t)) \in Nat
  BY <1>1, CanBeginCounted
<1>10. Cardinality(CanBegin(new, t)) > m
  <2>1. n \in Nat /\ m \in Nat
    BY <1>2
  <2>2. CASE \E y \in ServingAhead(b)' : y \notin ServingAhead(b)
    BY <1>4, <1>7, <1>9, <2>1, <2>2
  <2>3. CASE ServingAhead(b)' \subseteq ServingAhead(b)
    BY <1>5, <1>7, <1>9, <2>1, <2>3
  <2> QED
    BY <2>2, <2>3
<1>11. Delay(new, m) <= t
  BY <1>1, <1>2, <1>7, <1>10, DelayBound
<1>12. EligibilityDelay(b) = 0 /\ EligibilityDelay(b)' = 0
  <2>1. /\ EligibleAt(b)' = EligibleAt(b) /\ EligibleAt(b) \in Nat /\ EligibleAt(b) < now
        /\ now \in Nat /\ now' \in Nat /\ now <= now'
    BY TurnFacts DEF TurnStep
  <2>2. /\ EligibilityDelay(b) = Larger(EligibleAt(b) - now, 0)
        /\ EligibilityDelay(b)' = Larger(EligibleAt(b)' - now', 0)
    BY DEF EligibilityDelay, Larger
  <2> QED
    BY <2>1, <2>2 DEF Larger
<1>13. Estimate(b) = t /\ Estimate(b)' = Delay(new, m)
  <2>1. /\ Estimate(b) = Larger(CounterDelay(b), EligibilityDelay(b))
        /\ Estimate(b)' = Larger(CounterDelay(b)', EligibilityDelay(b)')
    BY DEF Estimate, Larger
  <2> QED
    BY <1>6, <1>7, <1>8, <1>12, <2>1 DEF Larger
<1> QED
  BY <1>11, <1>13

-----------------------------------------------------------------------------
(* The theorems.                                                           *)

(* The clock of services only observes: every behaviour is one of module   *)
(* QueueLifecycle, whose theorems all hold here too.                       *)
THEOREM TimedIsLifecycle == TimedSpec => Spec
<1>1. TimedInit => Init
  BY DEF TimedInit
<1>2. [Next /\ ServiceClock]_timedVars => [Next]_vars
  BY DEF timedVars
<1> QED
  BY <1>1, <1>2, PTL DEF TimedSpec, Spec

(* The counter delay shown is the earliest moment by which the counters of *)
(* the lane can have begun one more service than there are people ahead,   *)
(* however many people and counters there are.                             *)
THEOREM EstimatesExact ==
  ASSUME IsFiniteSet(Bookings), IsFiniteSet(Counters)
  PROVE  TimedSpec => []EstimateIsEarliestStart
<1>1. TimedInv => EstimateIsEarliestStart
  BY EstimateExactInv
<1> QED
  BY <1>1, TimedInvariant, PTL

(* Of two people in one lane, the one who is served first is never shown   *)
(* the longer wait.                                                        *)
THEOREM EstimatesInOrder ==
  ASSUME IsFiniteSet(Bookings), IsFiniteSet(Counters)
  PROVE  TimedSpec => []EstimatesOrdered
<1>1. TimedInv => EstimatesOrdered
  BY EstimatesOrderedInv
<1> QED
  BY <1>1, TimedInvariant, PTL

(* The two pieces of code that look at the people ahead agree: the work    *)
(* the learned estimate is told of is the one laid on the counters.        *)
THEOREM WorkloadsAgree ==
  ASSUME IsFiniteSet(Bookings), IsFiniteSet(Counters)
  PROVE  TimedSpec => []WorkloadLaidOut
<1>1. TimedInv => WorkloadLaidOut
  BY WorkloadInv
<1> QED
  BY <1>1, TimedInvariant, PTL

(* Once their turn has come, the wait a customer is shown never grows by   *)
(* what others do, as long as the lane loses no counter.                   *)
THEOREM WaitNotPostponed ==
  ASSUME IsFiniteSet(Bookings), IsFiniteSet(Counters)
  PROVE  TimedSpec => NotPostponed
<1>1. TimedInv => LanesFree
  BY LanesAreFree
<1>2. TimedInv /\ TimedInv' /\ LanesFree /\ LanesFree' /\ [Next /\ ServiceClock]_timedVars
        => [\A b \in Bookings :
              /\ Waiting(b) /\ Waiting(b)'
              /\ EligibleAt(b) < now
              /\ UsableCounters(b) \subseteq UsableCounters(b)'
              => Estimate(b)' <= Estimate(b)]_timedVars
  BY WaitShrinks DEF TurnStep
<1> QED
  BY <1>1, <1>2, TimedInvariant, PTL DEF TimedSpec, NotPostponed
=============================================================================
